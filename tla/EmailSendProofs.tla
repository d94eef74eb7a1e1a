--------------------------- MODULE EmailSendProofs ---------------------------
(* Theorems about EmailSend, for every number of threads, Gmail calls,     *)
(* contents and buttons.                                                   *)
EXTENDS MCEmailSend, FiniteSetTheorems, WellFoundedInduction, NaturalsInduction, TLAPS

(* Call r could still reach the buyer, or has.                             *)
Live(r) == \/ gmail[r].mode = "send" /\ gmail[r].fate \notin {"unused", "lost"}
           \/ gmail[r].fate = "mailed"

(* A thread between planning its Gmail call and recording the outcome owns *)
(* that call, and no other thread does.                                    *)
OwnsCall ==
    \A t \in Threads :
        /\ pc[t] \in {"issue", "wait"} =>
               /\ mine[t] \in Requests
               /\ gmail[mine[t]].fate # "unused"
               /\ \A u \in Threads :
                      pc[u] \in {"issue", "wait"} /\ mine[u] = mine[t] => u = t
        /\ pc[t] = "issue" => gmail[mine[t]].fate = "planned"

(* The seller sends by hand only what lies in Gmail Drafts.                *)
MailedIsDraft == \A r \in Requests : gmail[r].fate = "mailed" => gmail[r].mode = "draft"

(* A row in 'sending' names the call that put it there.                    *)
NamesCall(rec) ==
    rec.status = "sending" =>
        /\ rec.attempt \in Requests
        /\ gmail[rec.attempt].fate # "unused"
        /\ gmail[rec.attempt].mode = rec.mode
        /\ gmail[rec.attempt].approved = rec.approved

RowNamesCall == NamesCall(row) /\ \A t \in Threads : NamesCall(seen[t])

(* What a handler saw before it reached the place it is at.                *)
SawIt ==
    \A t \in Threads :
        /\ pc[t] \in {"look", "adopt", "release", "not_sent"} => seen[t].status = "sending"
        /\ pc[t] = "release" => seen[t].mode = "draft"
        /\ pc[t] \in {"edit", "skip"} => seen[t].status \in {"drafted", "failed"}
        /\ pc[t] = "mark_sent" => seen[t].status = "saved_to_gmail"

(* "It was not sent" was true when the seller pressed it and stays true.   *)
NotSentStays ==
    "hasty" \notin taint => \A t \in Threads :
        pc[t] = "not_sent" /\ gmail[seen[t].attempt].mode = "send" =>
            gmail[seen[t].attempt].fate = "lost"

(* Which calls can be live, by the status of the row.                      *)
LiveCalls ==
    Clean =>
        /\ row.status \in {"drafted", "failed", "rejected"} =>
               \A r \in Requests : ~Live(r)
        /\ row.status = "sending" =>
               \A r \in Requests : Live(r) => r = row.attempt /\ gmail[r].mode = "send"
        /\ row.status = "saved_to_gmail" =>
               \A r \in Requests : Live(r) => gmail[r].fate = "mailed"
        /\ row.status \in {"sent", "saved_to_gmail"} =>
               \A r, q \in Requests : Live(r) /\ Live(q) => r = q

(* What a handler is about to record as sent has been delivered, and what  *)
(* is recorded as sent was.                                                *)
SentIsKnown ==
    /\ SentIsTrue
    /\ \A t \in Threads :
           /\ pc[t] = "adopt" /\ seen[t].mode = "send" => \E r \in Requests : Delivered(r)
           /\ pc[t] = "mark_sent" => \E r \in Requests : Delivered(r)

(* The call of a "Not sent" that is about to be recorded is over.          *)
NotSentIsOver ==
    "hasty" \notin taint => \A t \in Threads :
        pc[t] = "not_sent" => gmail[seen[t].attempt].fate \notin {"planned", "flight"}

(* Between approval and the Gmail call the row is that call's, holds the   *)
(* content it was approved with, and offers no edit.                       *)
ApprovedHolds ==
    Clean => \A t \in Threads : pc[t] = "issue" =>
        /\ row.attempt = mine[t]
        /\ row.body = gmail[mine[t]].approved
        /\ row.status \in {"sending", "sent", "saved_to_gmail"}

IInv == /\ TypeOK
        /\ OwnsCall
        /\ MailedIsDraft
        /\ RowNamesCall
        /\ SawIt
        /\ NotSentStays
        /\ LiveCalls

----------------------------------------------------------------------------
(* What the UPDATEs of the handlers do to a row, and what Gmail does to a  *)
(* call, keeps them well typed.                                            *)
LEMMA RowUpdates ==
    /\ Drafted \in Row
    /\ \A rec \in Row, s \in Statuses : [rec EXCEPT !.status = s] \in Row
    /\ \A rec \in Row, b \in Bodies :
           [rec EXCEPT !.status = "drafted", !.body = b] \in Row
    /\ \A rec \in Row, mode \in Modes, r \in Requests :
           [rec EXCEPT !.status = "sending", !.mode = mode,
                       !.approved = rec.body, !.attempt = r] \in Row
  BY ConstantsOK DEF Row, Drafted, Statuses, Modes

LEMMA CallUpdates ==
    /\ \A c \in Call, f \in Fate : [c EXCEPT !.fate = f] \in Call
    /\ \A c \in Call, b \in Bodies :
           [c EXCEPT !.fate = "flight", !.body = b] \in Call
    /\ \A rec \in Row, mode \in Modes :
           [mode |-> mode, approved |-> rec.body, body |-> rec.body,
            fate |-> "planned"] \in Call
  BY DEF Call, Row, Fate, Modes

LEMMA TypeInit == Init => TypeOK
<1> SUFFICES ASSUME Init PROVE TypeOK
  OBVIOUS
<1>1. row \in Row /\ seen \in [Threads -> Row]
  BY RowUpdates DEF Init
<1>2. gmail \in [Requests -> Call]
  BY ConstantsOK DEF Init, Call, Modes, Fate
<1>3. /\ pc \in [Threads -> Places] /\ click \in [Threads -> Modes]
      /\ mine \in [Threads -> Requests \cup {NoReq}] /\ taint \subseteq Races
  BY DEF Init, Places, Modes, Races
<1> QED
  BY <1>1, <1>2, <1>3 DEF TypeOK

LEMMA TypeStep == TypeOK /\ [Next]_vars => TypeOK'
<1> SUFFICES ASSUME TypeOK, [Next]_vars PROVE TypeOK'
  OBVIOUS
<1> USE RowUpdates, CallUpdates DEF TypeOK, Modes, Places, Goto, Return, Taint, Races
<1>0. /\ {"failed", "rejected", "sent", "saved_to_gmail"} \subseteq Statuses
      /\ {"lost", "accepted", "flight", "mailed"} \subseteq Fate
  BY DEF Statuses, Fate
<1>1. ASSUME NEW t \in Threads, NEW mode \in Modes, NEW r \in Requests,
             Approve(t, mode, r)
      PROVE  TypeOK'
  BY <1>1 DEF Approve, Sendable
<1>2. ASSUME NEW t \in Threads, NEW mode \in Modes, FoundSending(t, mode)
      PROVE  TypeOK'
  BY <1>2 DEF FoundSending
<1>3. ASSUME NEW t \in Threads, AlreadyDone(t) PROVE TypeOK'
  BY <1>0, <1>3 DEF AlreadyDone
<1>4. ASSUME NEW t \in Threads, Issue(t) PROVE TypeOK'
  <2>1. row.body \in Bodies
    BY DEF Row
  <2> QED
    BY <1>4, <2>1 DEF Issue
<1>5. ASSUME NEW t \in Threads, DefinitelyNotSent(t) PROVE TypeOK'
  BY <1>0, <1>5 DEF DefinitelyNotSent
<1>6. ASSUME NEW t \in Threads, DeliveryUnknown(t) PROVE TypeOK'
  BY <1>0, <1>6 DEF DeliveryUnknown
<1>7. ASSUME NEW t \in Threads, MarkSent(t) PROVE TypeOK'
  BY <1>0, <1>7 DEF MarkSent, StatusAfter
<1>8. ASSUME NEW t \in Threads, LookFound(t) PROVE TypeOK'
  BY <1>0, <1>8 DEF LookFound
<1>9. ASSUME NEW t \in Threads, SaveNotFound(t) PROVE TypeOK'
  BY <1>0, <1>9 DEF SaveNotFound
<1>10. ASSUME NEW t \in Threads, SendNotFound(t) PROVE TypeOK'
  BY <1>0, <1>10 DEF SendNotFound
<1>11. ASSUME NEW t \in Threads, Adopt(t) PROVE TypeOK'
  BY <1>0, <1>11 DEF Adopt, StatusAfter, AdoptedMode
<1>12. ASSUME NEW t \in Threads, Release(t) PROVE TypeOK'
  BY <1>0, <1>12 DEF Release
<1>13. ASSUME NEW t \in Threads, EditCheck(t) PROVE TypeOK'
  BY <1>0, <1>13 DEF EditCheck, Editable, Check
<1>14. ASSUME NEW t \in Threads, SkipCheck(t) PROVE TypeOK'
  BY <1>0, <1>14 DEF SkipCheck, Check
<1>15. ASSUME NEW t \in Threads, NotSentCheck(t) PROVE TypeOK'
  BY <1>0, <1>15 DEF NotSentCheck, Check
<1>16. ASSUME NEW t \in Threads, MarkSentCheck(t) PROVE TypeOK'
  BY <1>0, <1>16 DEF MarkSentCheck, Check
<1>17. ASSUME NEW t \in Threads, NEW b \in Bodies, EditWrite(t, b) PROVE TypeOK'
  BY <1>0, <1>17 DEF EditWrite, Write
<1>18. ASSUME NEW t \in Threads, SkipWrite(t) PROVE TypeOK'
  BY <1>0, <1>18 DEF SkipWrite, Write
<1>19. ASSUME NEW t \in Threads, NotSentWrite(t) PROVE TypeOK'
  BY <1>0, <1>19 DEF NotSentWrite, Write
<1>20. ASSUME NEW t \in Threads, MarkSentWrite(t) PROVE TypeOK'
  BY <1>0, <1>20 DEF MarkSentWrite, Write
<1>21. ASSUME NEW r \in Requests, Accept(r) PROVE TypeOK'
  BY <1>0, <1>21 DEF Accept
<1>22. ASSUME NEW r \in Requests, Lose(r) PROVE TypeOK'
  BY <1>0, <1>22 DEF Lose
<1>23. ASSUME NEW r \in Requests, SendByHand(r) PROVE TypeOK'
  BY <1>0, <1>23 DEF SendByHand
<1>24. CASE Crash
  BY <1>0, <1>24 DEF Crash
<1>25. CASE UNCHANGED vars
  BY <1>25 DEF vars
<1> QED
  BY <1>1, <1>2, <1>3, <1>4, <1>5, <1>6, <1>7, <1>8, <1>9, <1>10, <1>11,
     <1>12, <1>13, <1>14, <1>15, <1>16, <1>17, <1>18, <1>19, <1>20, <1>21,
     <1>22, <1>23, <1>24, <1>25
     DEF Next, ThreadStep, Outside

(* Type correctness: every handler leaves the row, the Gmail calls and the *)
(* threads' locals within the values the schema and the code give them.    *)
THEOREM TypeCorrect == Spec => []TypeOK
  BY TypeInit, TypeStep, PTL DEF Spec

(* The inductive invariant: who owns which Gmail call, what a handler saw  *)
(* before it reached the place it is at, and which calls can still reach   *)
(* the buyer in each status of the row.                                    *)
THEOREM Invariance == Spec => []IInv
<1>1. Init => IInv
  <2> SUFFICES ASSUME Init PROVE IInv
    OBVIOUS
  <2>1. TypeOK
    BY TypeInit
  <2>2. OwnsCall /\ MailedIsDraft /\ RowNamesCall /\ SawIt /\ NotSentStays
    BY DEF Init, OwnsCall, MailedIsDraft, RowNamesCall, NamesCall, SawIt,
       NotSentStays, Drafted
  <2>3. LiveCalls
    BY DEF Init, LiveCalls, Live, Drafted
  <2> QED
    BY <2>1, <2>2, <2>3 DEF IInv
<1>2. IInv /\ [Next]_vars => IInv'
  <2> SUFFICES ASSUME IInv, [Next]_vars PROVE IInv'
    OBVIOUS
  <2>0. TypeOK /\ TypeOK'
    BY TypeStep DEF IInv
  <2> USE <2>0 DEF TypeOK, Row, Call
  <2>1. ASSUME NEW t \in Threads, NEW mode \in Modes, NEW r \in Requests,
               Approve(t, mode, r)
        PROVE  IInv'
    <3>1. OwnsCall' /\ MailedIsDraft'
      BY <2>1 DEF IInv, Approve, Sendable, MayApprove, Modes, OwnsCall, MailedIsDraft
    <3>2. RowNamesCall' /\ SawIt'
      BY <2>1 DEF IInv, Approve, Sendable, MayApprove, Modes, OwnsCall, RowNamesCall,
         NamesCall, SawIt, Drafted
    <3>3. NotSentStays'
      BY <2>1 DEF IInv, Approve, Sendable, MayApprove, Modes, OwnsCall, RowNamesCall,
         NamesCall, SawIt, NotSentStays
    <3>4. LiveCalls'
      BY <2>1 DEF IInv, Approve, Sendable, MayApprove, Modes, OwnsCall, RowNamesCall,
         NamesCall, SawIt, MailedIsDraft, LiveCalls, Live, Clean
    <3> QED
      BY <3>1, <3>2, <3>3, <3>4 DEF IInv
  <2>2. ASSUME NEW t \in Threads, NEW mode \in Modes,
               FoundSending(t, mode)
        PROVE  IInv'
    <3>1. OwnsCall' /\ MailedIsDraft'
      BY <2>2 DEF IInv, FoundSending, MayApprove, OwnsCall, MailedIsDraft
    <3>2. RowNamesCall' /\ SawIt'
      BY <2>2 DEF IInv, FoundSending, MayApprove, OwnsCall, RowNamesCall,
         NamesCall, SawIt, Drafted
    <3>3. NotSentStays'
      BY <2>2 DEF IInv, FoundSending, MayApprove, OwnsCall, RowNamesCall,
         NamesCall, SawIt, NotSentStays
    <3>4. LiveCalls'
      BY <2>2 DEF IInv, FoundSending, MayApprove, OwnsCall, RowNamesCall,
         NamesCall, SawIt, MailedIsDraft, LiveCalls, Live, Clean
    <3> QED
      BY <3>1, <3>2, <3>3, <3>4 DEF IInv
  <2>3. ASSUME NEW t \in Threads, AlreadyDone(t) PROVE IInv'
    <3>1. OwnsCall' /\ MailedIsDraft'
      BY <2>3 DEF IInv, AlreadyDone, Return, Drafted, OwnsCall,
         MailedIsDraft
    <3>2. RowNamesCall' /\ SawIt'
      BY <2>3 DEF IInv, AlreadyDone, Return, Drafted, OwnsCall,
         RowNamesCall, NamesCall, SawIt
    <3>3. NotSentStays'
      BY <2>3 DEF IInv, AlreadyDone, Return, Drafted, OwnsCall,
         RowNamesCall, NamesCall, SawIt, NotSentStays
    <3>4. LiveCalls'
      BY <2>3 DEF IInv, AlreadyDone, Return, Drafted, OwnsCall,
         RowNamesCall, NamesCall, SawIt, MailedIsDraft, LiveCalls, Live, Clean
    <3> QED
      BY <3>1, <3>2, <3>3, <3>4 DEF IInv
  <2>4. ASSUME NEW t \in Threads, Issue(t) PROVE IInv'
    <3>1. OwnsCall' /\ MailedIsDraft'
      BY <2>4 DEF IInv, Issue, Goto, OwnsCall, MailedIsDraft
    <3>2. RowNamesCall' /\ SawIt'
      BY <2>4 DEF IInv, Issue, Goto, OwnsCall, RowNamesCall, NamesCall,
         SawIt, Drafted
    <3>3. NotSentStays'
      BY <2>4 DEF IInv, Issue, Goto, OwnsCall, RowNamesCall, NamesCall,
         SawIt, NotSentStays
    <3>4. LiveCalls'
      BY <2>4 DEF IInv, Issue, Goto, OwnsCall, RowNamesCall, NamesCall,
         SawIt, MailedIsDraft, LiveCalls, Live, Clean
    <3> QED
      BY <3>1, <3>2, <3>3, <3>4 DEF IInv
  <2>5. ASSUME NEW t \in Threads, DefinitelyNotSent(t) PROVE IInv'
    <3>1. OwnsCall' /\ MailedIsDraft'
      BY <2>5 DEF IInv, DefinitelyNotSent, Return, Drafted, Taint, Late,
         OwnsCall, MailedIsDraft
    <3>2. RowNamesCall' /\ SawIt'
      BY <2>5 DEF IInv, DefinitelyNotSent, Return, Drafted, Taint, Late,
         OwnsCall, RowNamesCall, NamesCall, SawIt
    <3>3. NotSentStays'
      BY <2>5 DEF IInv, DefinitelyNotSent, Return, Drafted, Taint, Late,
         OwnsCall, RowNamesCall, NamesCall, SawIt, NotSentStays
    <3>4. LiveCalls'
      <4>1. SUFFICES ASSUME Clean' PROVE LiveCalls'
        BY DEF LiveCalls
      <4>2. /\ Clean
            /\ (row.status = "sending" /\ row.attempt = mine[t]) \/ row' = row
        BY <2>5, <4>1 DEF DefinitelyNotSent, Taint, Late, Clean
      <4>3. mine[t] \in Requests /\ gmail[mine[t]].fate # "unused"
        BY <2>5 DEF IInv, OwnsCall, DefinitelyNotSent
      <4>4. CASE row' = row
        BY <2>5, <4>2, <4>3, <4>4 DEF IInv, LiveCalls, Clean, Live, DefinitelyNotSent
      <4>5. CASE row.status = "sending" /\ row.attempt = mine[t]
        BY <2>5, <4>2, <4>3, <4>5 DEF IInv, LiveCalls, Live, RowNamesCall,
           NamesCall, MailedIsDraft, DefinitelyNotSent
      <4> QED
        BY <4>2, <4>4, <4>5
    <3> QED
      BY <3>1, <3>2, <3>3, <3>4 DEF IInv
  <2>6. ASSUME NEW t \in Threads, DeliveryUnknown(t) PROVE IInv'
    <3>1. OwnsCall' /\ MailedIsDraft'
      BY <2>6 DEF IInv, DeliveryUnknown, Return, Drafted, OwnsCall,
         MailedIsDraft
    <3>2. RowNamesCall' /\ SawIt'
      BY <2>6 DEF IInv, DeliveryUnknown, Return, Drafted, OwnsCall,
         RowNamesCall, NamesCall, SawIt
    <3>3. NotSentStays'
      BY <2>6 DEF IInv, DeliveryUnknown, Return, Drafted, OwnsCall,
         RowNamesCall, NamesCall, SawIt, NotSentStays
    <3>4. LiveCalls'
      BY <2>6 DEF IInv, DeliveryUnknown, Return, Drafted, OwnsCall,
         RowNamesCall, NamesCall, SawIt, MailedIsDraft, LiveCalls, Live, Clean
    <3> QED
      BY <3>1, <3>2, <3>3, <3>4 DEF IInv
  <2>7. ASSUME NEW t \in Threads, MarkSent(t) PROVE IInv'
    <3>1. OwnsCall' /\ MailedIsDraft'
      BY <2>7 DEF IInv, MarkSent, Return, Drafted, Taint, Late, StatusAfter, AdoptedMode,
         OwnsCall, MailedIsDraft
    <3>2. RowNamesCall' /\ SawIt'
      BY <2>7 DEF IInv, MarkSent, Return, Drafted, Taint, Late, StatusAfter, AdoptedMode,
         OwnsCall, RowNamesCall, NamesCall, SawIt
    <3>3. NotSentStays'
      BY <2>7 DEF IInv, MarkSent, Return, Drafted, Taint, Late, StatusAfter, AdoptedMode,
         OwnsCall, RowNamesCall, NamesCall, SawIt, NotSentStays
    <3>4. LiveCalls'
      <4>1. SUFFICES ASSUME Clean' PROVE LiveCalls'
        BY DEF LiveCalls
      <4>2. /\ Clean
            /\ (row.status = "sending" /\ row.attempt = mine[t]) \/ row' = row
        BY <2>7, <4>1 DEF MarkSent, Taint, Late, Clean
      <4>3. mine[t] \in Requests /\ gmail[mine[t]].fate # "unused"
        BY <2>7 DEF IInv, OwnsCall, MarkSent
      <4>4. CASE row' = row
        BY <2>7, <4>2, <4>3, <4>4 DEF IInv, LiveCalls, Clean, Live, MarkSent
      <4>5. CASE row.status = "sending" /\ row.attempt = mine[t]
        BY <2>7, <4>2, <4>3, <4>5 DEF IInv, LiveCalls, Live, RowNamesCall,
           NamesCall, MailedIsDraft, MarkSent, StatusAfter
      <4> QED
        BY <4>2, <4>4, <4>5
    <3> QED
      BY <3>1, <3>2, <3>3, <3>4 DEF IInv
  <2>8. ASSUME NEW t \in Threads, LookFound(t) PROVE IInv'
    <3>1. OwnsCall' /\ MailedIsDraft'
      BY <2>8 DEF IInv, LookFound, Goto, OwnsCall, MailedIsDraft
    <3>2. RowNamesCall' /\ SawIt'
      BY <2>8 DEF IInv, LookFound, Goto, OwnsCall, RowNamesCall, NamesCall,
         SawIt, Drafted
    <3>3. NotSentStays'
      BY <2>8 DEF IInv, LookFound, Goto, OwnsCall, RowNamesCall, NamesCall,
         SawIt, NotSentStays
    <3>4. LiveCalls'
      BY <2>8 DEF IInv, LookFound, Goto, OwnsCall, RowNamesCall, NamesCall,
         SawIt, MailedIsDraft, LiveCalls, Live, Clean
    <3> QED
      BY <3>1, <3>2, <3>3, <3>4 DEF IInv
  <2>9. ASSUME NEW t \in Threads, SaveNotFound(t) PROVE IInv'
    <3>1. OwnsCall' /\ MailedIsDraft'
      BY <2>9 DEF IInv, SaveNotFound, Goto, OwnsCall, MailedIsDraft
    <3>2. RowNamesCall' /\ SawIt'
      BY <2>9 DEF IInv, SaveNotFound, Goto, OwnsCall, RowNamesCall,
         NamesCall, SawIt, Drafted
    <3>3. NotSentStays'
      BY <2>9 DEF IInv, SaveNotFound, Goto, OwnsCall, RowNamesCall,
         NamesCall, SawIt, NotSentStays
    <3>4. LiveCalls'
      BY <2>9 DEF IInv, SaveNotFound, Goto, OwnsCall, RowNamesCall,
         NamesCall, SawIt, MailedIsDraft, LiveCalls, Live, Clean
    <3> QED
      BY <3>1, <3>2, <3>3, <3>4 DEF IInv
  <2>10. ASSUME NEW t \in Threads, SendNotFound(t) PROVE IInv'
    <3>1. OwnsCall' /\ MailedIsDraft'
      BY <2>10 DEF IInv, SendNotFound, Return, Drafted, OwnsCall,
         MailedIsDraft
    <3>2. RowNamesCall' /\ SawIt'
      BY <2>10 DEF IInv, SendNotFound, Return, Drafted, OwnsCall,
         RowNamesCall, NamesCall, SawIt
    <3>3. NotSentStays'
      BY <2>10 DEF IInv, SendNotFound, Return, Drafted, OwnsCall,
         RowNamesCall, NamesCall, SawIt, NotSentStays
    <3>4. LiveCalls'
      BY <2>10 DEF IInv, SendNotFound, Return, Drafted, OwnsCall,
         RowNamesCall, NamesCall, SawIt, MailedIsDraft, LiveCalls, Live, Clean
    <3> QED
      BY <3>1, <3>2, <3>3, <3>4 DEF IInv
  <2>11. ASSUME NEW t \in Threads, Adopt(t) PROVE IInv'
    <3>1. OwnsCall' /\ MailedIsDraft'
      BY <2>11 DEF IInv, Adopt, Return, Drafted, Taint, Stale, StatusAfter, AdoptedMode,
         OwnsCall, MailedIsDraft
    <3>2. RowNamesCall' /\ SawIt'
      BY <2>11 DEF IInv, Adopt, Return, Drafted, Taint, Stale, StatusAfter, AdoptedMode,
         OwnsCall, RowNamesCall, NamesCall, SawIt
    <3>3. NotSentStays'
      BY <2>11 DEF IInv, Adopt, Return, Drafted, Taint, Stale, StatusAfter, AdoptedMode,
         OwnsCall, RowNamesCall, NamesCall, SawIt, NotSentStays
    <3>4. LiveCalls'
      <4>1. SUFFICES ASSUME Clean' PROVE LiveCalls'
        BY DEF LiveCalls
      <4>2. /\ Clean /\ gmail' = gmail
            /\ row = seen[t] \/ row' = row
        BY <2>11, <4>1 DEF Adopt, Taint, Stale, Clean
      <4>3. CASE row' = row
        BY <4>2, <4>3 DEF IInv, LiveCalls, Clean, Live
      <4>4. CASE row = seen[t]
        BY <2>11, <4>2, <4>4 DEF IInv, LiveCalls, Live, SawIt, RowNamesCall,
           NamesCall, Adopt, StatusAfter, AdoptedMode
      <4> QED
        BY <4>2, <4>3, <4>4
    <3> QED
      BY <3>1, <3>2, <3>3, <3>4 DEF IInv
  <2>12. ASSUME NEW t \in Threads, Release(t) PROVE IInv'
    <3>1. OwnsCall' /\ MailedIsDraft'
      BY <2>12 DEF IInv, Release, Goto, Taint, Stale, OwnsCall,
         MailedIsDraft
    <3>2. RowNamesCall' /\ SawIt'
      BY <2>12 DEF IInv, Release, Goto, Taint, Stale, OwnsCall,
         RowNamesCall, NamesCall, SawIt, Drafted
    <3>3. NotSentStays'
      BY <2>12 DEF IInv, Release, Goto, Taint, Stale, OwnsCall,
         RowNamesCall, NamesCall, SawIt, NotSentStays
    <3>4. LiveCalls'
      <4>1. SUFFICES ASSUME Clean' PROVE LiveCalls'
        BY DEF LiveCalls
      <4>2. /\ Clean /\ gmail' = gmail
            /\ row = seen[t] \/ row' = row
        BY <2>12, <4>1 DEF Release, Taint, Stale, Clean
      <4>3. CASE row' = row
        BY <4>2, <4>3 DEF IInv, LiveCalls, Clean, Live
      <4>4. CASE row = seen[t]
        BY <2>12, <4>2, <4>4 DEF IInv, LiveCalls, Live, SawIt, RowNamesCall,
           NamesCall, Release
      <4> QED
        BY <4>2, <4>3, <4>4
    <3> QED
      BY <3>1, <3>2, <3>3, <3>4 DEF IInv
  <2>13. ASSUME NEW t \in Threads, EditCheck(t) PROVE IInv'
    <3>1. OwnsCall' /\ MailedIsDraft'
      BY <2>13 DEF IInv, EditCheck, Editable, Check, Goto, OwnsCall, MailedIsDraft
    <3>2. RowNamesCall' /\ SawIt'
      BY <2>13 DEF IInv, EditCheck, Editable, Check, Goto, OwnsCall, RowNamesCall,
         NamesCall, SawIt, Drafted
    <3>3. NotSentStays'
      BY <2>13 DEF IInv, EditCheck, Editable, Check, Goto, OwnsCall, RowNamesCall,
         NamesCall, SawIt, NotSentStays
    <3>4. LiveCalls'
      BY <2>13 DEF IInv, EditCheck, Editable, Check, Goto, OwnsCall, RowNamesCall,
         NamesCall, SawIt, MailedIsDraft, LiveCalls, Live, Clean
    <3> QED
      BY <3>1, <3>2, <3>3, <3>4 DEF IInv
  <2>14. ASSUME NEW t \in Threads, SkipCheck(t) PROVE IInv'
    <3>1. OwnsCall' /\ MailedIsDraft'
      BY <2>14 DEF IInv, SkipCheck, Check, Goto, OwnsCall, MailedIsDraft
    <3>2. RowNamesCall' /\ SawIt'
      BY <2>14 DEF IInv, SkipCheck, Check, Goto, OwnsCall, RowNamesCall,
         NamesCall, SawIt, Drafted
    <3>3. NotSentStays'
      BY <2>14 DEF IInv, SkipCheck, Check, Goto, OwnsCall, RowNamesCall,
         NamesCall, SawIt, NotSentStays
    <3>4. LiveCalls'
      BY <2>14 DEF IInv, SkipCheck, Check, Goto, OwnsCall, RowNamesCall,
         NamesCall, SawIt, MailedIsDraft, LiveCalls, Live, Clean
    <3> QED
      BY <3>1, <3>2, <3>3, <3>4 DEF IInv
  <2>15. ASSUME NEW t \in Threads, NotSentCheck(t) PROVE IInv'
    <3>1. OwnsCall' /\ MailedIsDraft'
      BY <2>15 DEF IInv, NotSentCheck, Check, Goto, Taint, InGmail,
         StillMaking, Underway, Modes, Fate, OwnsCall, MailedIsDraft
    <3>2. RowNamesCall' /\ SawIt'
      BY <2>15 DEF IInv, NotSentCheck, Check, Goto, Taint, InGmail,
         StillMaking, Underway, Modes, Fate, OwnsCall, RowNamesCall, NamesCall,
         SawIt, Drafted
    <3>3. NotSentStays'
      <4>1. CASE \E r \in Requests : StillMaking(r)
        BY <2>15, <4>1 DEF NotSentCheck, Taint, NotSentStays
      <4>2. CASE ~ \E r \in Requests : StillMaking(r)
        <5>1. row.attempt \in Requests /\ gmail[row.attempt].approved = row.approved
          BY <2>15 DEF IInv, RowNamesCall, NamesCall, NotSentCheck, Check
        <5>2. gmail[row.attempt].mode = "send" => gmail[row.attempt].fate = "lost"
          BY <2>15, <4>2, <5>1 DEF IInv, MailedIsDraft, RowNamesCall, NamesCall,
             NotSentCheck, Check, InGmail, StillMaking, Underway, Fate
        <5> QED
          BY <2>15, <5>2 DEF IInv, NotSentStays, NotSentCheck, Check, Goto, Taint
      <4> QED
        BY <4>1, <4>2
    <3>4. LiveCalls'
      BY <2>15 DEF IInv, NotSentCheck, Check, Goto, Taint, InGmail,
         StillMaking, Underway, Modes, Fate, OwnsCall, RowNamesCall, NamesCall,
         SawIt, MailedIsDraft, LiveCalls, Live, Clean
    <3> QED
      BY <3>1, <3>2, <3>3, <3>4 DEF IInv
  <2>16. ASSUME NEW t \in Threads, MarkSentCheck(t) PROVE IInv'
    <3>1. OwnsCall' /\ MailedIsDraft'
      BY <2>16 DEF IInv, MarkSentCheck, Check, Goto, OwnsCall, MailedIsDraft
    <3>2. RowNamesCall' /\ SawIt'
      BY <2>16 DEF IInv, MarkSentCheck, Check, Goto, OwnsCall, RowNamesCall,
         NamesCall, SawIt, Drafted
    <3>3. NotSentStays'
      BY <2>16 DEF IInv, MarkSentCheck, Check, Goto, OwnsCall, RowNamesCall,
         NamesCall, SawIt, NotSentStays
    <3>4. LiveCalls'
      BY <2>16 DEF IInv, MarkSentCheck, Check, Goto, OwnsCall, RowNamesCall,
         NamesCall, SawIt, MailedIsDraft, LiveCalls, Live, Clean
    <3> QED
      BY <3>1, <3>2, <3>3, <3>4 DEF IInv
  <2>17. ASSUME NEW t \in Threads, NEW b \in Bodies,
               EditWrite(t, b)
        PROVE  IInv'
    <3>1. OwnsCall' /\ MailedIsDraft'
      BY <2>17 DEF IInv, EditWrite, Write, Return, Drafted, Taint, Stale,
         OwnsCall, MailedIsDraft
    <3>2. RowNamesCall' /\ SawIt'
      BY <2>17 DEF IInv, EditWrite, Write, Return, Drafted, Taint, Stale,
         OwnsCall, RowNamesCall, NamesCall, SawIt
    <3>3. NotSentStays'
      BY <2>17 DEF IInv, EditWrite, Write, Return, Drafted, Taint, Stale,
         OwnsCall, RowNamesCall, NamesCall, SawIt, NotSentStays
    <3>4. LiveCalls'
      <4>1. SUFFICES ASSUME Clean' PROVE LiveCalls'
        BY DEF LiveCalls
      <4>2. /\ Clean /\ gmail' = gmail
            /\ row = seen[t] \/ row' = row
        BY <2>17, <4>1 DEF EditWrite, Write, Taint, Stale, Clean
      <4>3. CASE row' = row
        BY <4>2, <4>3 DEF IInv, LiveCalls, Clean, Live
      <4>4. CASE row = seen[t]
        BY <2>17, <4>2, <4>4 DEF IInv, LiveCalls, Live, SawIt, RowNamesCall,
           NamesCall, EditWrite, Write
      <4> QED
        BY <4>2, <4>3, <4>4
    <3> QED
      BY <3>1, <3>2, <3>3, <3>4 DEF IInv
  <2>18. ASSUME NEW t \in Threads, SkipWrite(t) PROVE IInv'
    <3>1. OwnsCall' /\ MailedIsDraft'
      BY <2>18 DEF IInv, SkipWrite, Write, Return, Drafted, Taint, Stale,
         OwnsCall, MailedIsDraft
    <3>2. RowNamesCall' /\ SawIt'
      BY <2>18 DEF IInv, SkipWrite, Write, Return, Drafted, Taint, Stale,
         OwnsCall, RowNamesCall, NamesCall, SawIt
    <3>3. NotSentStays'
      BY <2>18 DEF IInv, SkipWrite, Write, Return, Drafted, Taint, Stale,
         OwnsCall, RowNamesCall, NamesCall, SawIt, NotSentStays
    <3>4. LiveCalls'
      <4>1. SUFFICES ASSUME Clean' PROVE LiveCalls'
        BY DEF LiveCalls
      <4>2. /\ Clean /\ gmail' = gmail
            /\ row = seen[t] \/ row' = row
        BY <2>18, <4>1 DEF SkipWrite, Write, Taint, Stale, Clean
      <4>3. CASE row' = row
        BY <4>2, <4>3 DEF IInv, LiveCalls, Clean, Live
      <4>4. CASE row = seen[t]
        BY <2>18, <4>2, <4>4 DEF IInv, LiveCalls, Live, SawIt, RowNamesCall,
           NamesCall, SkipWrite, Write
      <4> QED
        BY <4>2, <4>3, <4>4
    <3> QED
      BY <3>1, <3>2, <3>3, <3>4 DEF IInv
  <2>19. ASSUME NEW t \in Threads, NotSentWrite(t) PROVE IInv'
    <3>1. OwnsCall' /\ MailedIsDraft'
      BY <2>19 DEF IInv, NotSentWrite, Write, Return, Drafted, Taint, Stale,
         OwnsCall, MailedIsDraft
    <3>2. RowNamesCall' /\ SawIt'
      BY <2>19 DEF IInv, NotSentWrite, Write, Return, Drafted, Taint, Stale,
         OwnsCall, RowNamesCall, NamesCall, SawIt
    <3>3. NotSentStays'
      BY <2>19 DEF IInv, NotSentWrite, Write, Return, Drafted, Taint, Stale,
         OwnsCall, RowNamesCall, NamesCall, SawIt, NotSentStays
    <3>4. LiveCalls'
      <4>1. SUFFICES ASSUME Clean' PROVE LiveCalls'
        BY DEF LiveCalls
      <4>2. /\ Clean /\ gmail' = gmail
            /\ row = seen[t] \/ row' = row
        BY <2>19, <4>1 DEF NotSentWrite, Write, Taint, Stale, Clean
      <4>3. CASE row' = row
        BY <4>2, <4>3 DEF IInv, LiveCalls, Clean, Live
      <4>4. CASE row = seen[t]
        BY <2>19, <4>2, <4>4 DEF IInv, LiveCalls, Live, SawIt, RowNamesCall,
           NamesCall, NotSentWrite, Write, NotSentStays, Clean
      <4> QED
        BY <4>2, <4>3, <4>4
    <3> QED
      BY <3>1, <3>2, <3>3, <3>4 DEF IInv
  <2>20. ASSUME NEW t \in Threads, MarkSentWrite(t) PROVE IInv'
    <3>1. OwnsCall' /\ MailedIsDraft'
      BY <2>20 DEF IInv, MarkSentWrite, Write, Return, Drafted, Taint,
         Stale, OwnsCall, MailedIsDraft
    <3>2. RowNamesCall' /\ SawIt'
      BY <2>20 DEF IInv, MarkSentWrite, Write, Return, Drafted, Taint,
         Stale, OwnsCall, RowNamesCall, NamesCall, SawIt
    <3>3. NotSentStays'
      BY <2>20 DEF IInv, MarkSentWrite, Write, Return, Drafted, Taint,
         Stale, OwnsCall, RowNamesCall, NamesCall, SawIt, NotSentStays
    <3>4. LiveCalls'
      <4>1. SUFFICES ASSUME Clean' PROVE LiveCalls'
        BY DEF LiveCalls
      <4>2. /\ Clean /\ gmail' = gmail
            /\ row = seen[t] \/ row' = row
        BY <2>20, <4>1 DEF MarkSentWrite, Write, Taint, Stale, Clean
      <4>3. CASE row' = row
        BY <4>2, <4>3 DEF IInv, LiveCalls, Clean, Live
      <4>4. CASE row = seen[t]
        BY <2>20, <4>2, <4>4 DEF IInv, LiveCalls, Live, SawIt, RowNamesCall,
           NamesCall, MarkSentWrite, Write
      <4> QED
        BY <4>2, <4>3, <4>4
    <3> QED
      BY <3>1, <3>2, <3>3, <3>4 DEF IInv
  <2>21. ASSUME NEW r \in Requests, Accept(r) PROVE IInv'
    <3>1. OwnsCall' /\ MailedIsDraft'
      BY <2>21 DEF IInv, Accept, OwnsCall, MailedIsDraft
    <3>2. RowNamesCall' /\ SawIt'
      BY <2>21 DEF IInv, Accept, OwnsCall, RowNamesCall, NamesCall, SawIt,
         Drafted
    <3>3. NotSentStays'
      BY <2>21 DEF IInv, Accept, OwnsCall, RowNamesCall, NamesCall, SawIt,
         NotSentStays
    <3>4. LiveCalls'
      BY <2>21 DEF IInv, Accept, OwnsCall, RowNamesCall, NamesCall, SawIt,
         MailedIsDraft, LiveCalls, Live, Clean
    <3> QED
      BY <3>1, <3>2, <3>3, <3>4 DEF IInv
  <2>22. ASSUME NEW r \in Requests, Lose(r) PROVE IInv'
    <3>1. OwnsCall' /\ MailedIsDraft'
      BY <2>22 DEF IInv, Lose, OwnsCall, MailedIsDraft
    <3>2. RowNamesCall' /\ SawIt'
      BY <2>22 DEF IInv, Lose, OwnsCall, RowNamesCall, NamesCall, SawIt,
         Drafted
    <3>3. NotSentStays'
      BY <2>22 DEF IInv, Lose, OwnsCall, RowNamesCall, NamesCall, SawIt,
         NotSentStays
    <3>4. LiveCalls'
      BY <2>22 DEF IInv, Lose, OwnsCall, RowNamesCall, NamesCall, SawIt,
         MailedIsDraft, LiveCalls, Live, Clean
    <3> QED
      BY <3>1, <3>2, <3>3, <3>4 DEF IInv
  <2>23. ASSUME NEW r \in Requests, SendByHand(r) PROVE IInv'
    <3>1. OwnsCall' /\ MailedIsDraft'
      BY <2>23 DEF IInv, SendByHand, OwnsCall, MailedIsDraft
    <3>2. RowNamesCall' /\ SawIt'
      BY <2>23 DEF IInv, SendByHand, OwnsCall, RowNamesCall, NamesCall,
         SawIt, Drafted
    <3>3. NotSentStays'
      BY <2>23 DEF IInv, SendByHand, OwnsCall, RowNamesCall, NamesCall,
         SawIt, NotSentStays
    <3>4. LiveCalls'
      BY <2>23 DEF IInv, SendByHand, OwnsCall, RowNamesCall, NamesCall,
         SawIt, MailedIsDraft, LiveCalls, Live, Clean
    <3> QED
      BY <3>1, <3>2, <3>3, <3>4 DEF IInv
  <2>24. CASE Crash
    <3>1. OwnsCall' /\ MailedIsDraft'
      BY <2>24 DEF IInv, Crash, Drafted, OwnsCall, MailedIsDraft
    <3>2. RowNamesCall' /\ SawIt'
      BY <2>24 DEF IInv, Crash, Drafted, OwnsCall, RowNamesCall, NamesCall,
         SawIt
    <3>3. NotSentStays'
      BY <2>24 DEF IInv, Crash, Drafted, OwnsCall, RowNamesCall, NamesCall,
         SawIt, NotSentStays
    <3>4. LiveCalls'
      BY <2>24 DEF IInv, Crash, Drafted, OwnsCall, RowNamesCall, NamesCall,
         SawIt, MailedIsDraft, LiveCalls, Live, Clean
    <3> QED
      BY <3>1, <3>2, <3>3, <3>4 DEF IInv
  <2>25. CASE UNCHANGED vars
    BY <2>25 DEF vars, IInv, OwnsCall, MailedIsDraft, RowNamesCall, NamesCall,
       SawIt, NotSentStays, LiveCalls, Live, Clean
  <2> QED
    BY <2>1, <2>2, <2>3, <2>4, <2>5, <2>6, <2>7, <2>8, <2>9, <2>10,
       <2>11, <2>12, <2>13, <2>14, <2>15, <2>16, <2>17, <2>18, <2>19,
       <2>20, <2>21, <2>22, <2>23, <2>24, <2>25
       DEF Next, ThreadStep, Outside
<1> QED
  BY <1>1, <1>2, PTL DEF Spec

----------------------------------------------------------------------------
(* What has reached the buyer stays with him.                              *)
LEMMA DeliveredStays ==
    ASSUME IInv, [Next]_vars, NEW r \in Requests, Delivered(r)
    PROVE  Delivered(r)'
<1> USE DEF Delivered
<1>0. /\ gmail \in [Requests -> Call] /\ mine \in [Threads -> Requests \cup {NoReq}]
      /\ OwnsCall
  BY DEF IInv, TypeOK
<1>1. ASSUME NEW t \in Threads, ThreadStep(t) PROVE Delivered(r)'
  <2>1. CASE \E mode \in Modes, q \in Requests : Approve(t, mode, q)
    BY <1>0, <2>1 DEF Approve
  <2>2. CASE Issue(t)
    BY <1>0, <2>2 DEF Issue, OwnsCall
  <2>3. CASE DefinitelyNotSent(t)
    BY <1>0, <2>3 DEF DefinitelyNotSent, OwnsCall
  <2>4. CASE UNCHANGED gmail
    BY <2>4
  <2> QED
    BY <1>1, <2>1, <2>2, <2>3, <2>4
       DEF ThreadStep, FoundSending, AlreadyDone, DeliveryUnknown, MarkSent, LookFound,
           SaveNotFound, SendNotFound, Adopt, Release, EditCheck, EditWrite, SkipCheck,
           SkipWrite, NotSentCheck, NotSentWrite, MarkSentCheck, MarkSentWrite, Check, Write
<1>2. ASSUME NEW q \in Requests, Accept(q) \/ Lose(q) \/ SendByHand(q) PROVE Delivered(r)'
  BY <1>0, <1>2 DEF Accept, Lose, SendByHand
<1>3. CASE Crash
  BY <1>0, <1>3 DEF Crash
<1>4. CASE UNCHANGED vars
  BY <1>4 DEF vars
<1> QED
  BY <1>1, <1>2, <1>3, <1>4 DEF Next, Outside

(* "sent" is written by the handler that got Gmail's answer, by a recovery *)
(* that found the copy, and on the seller's word.                          *)
LEMMA SentIsKnownStep == IInv /\ SentIsKnown /\ [Next]_vars => SentIsKnown'
<1> SUFFICES ASSUME IInv, SentIsKnown, [Next]_vars PROVE SentIsKnown'
  OBVIOUS
<1> DEFINE Known == \E r \in Requests : Delivered(r)
           Say(t) == /\ pc[t] = "adopt" /\ seen[t].mode = "send" => Known
                     /\ pc[t] = "mark_sent" => Known
<1>0. /\ row \in Row /\ seen \in [Threads -> Row] /\ pc \in [Threads -> Places]
      /\ click \in [Threads -> Modes] /\ gmail \in [Requests -> Call]
      /\ mine \in [Threads -> Requests \cup {NoReq}]
      /\ OwnsCall /\ MailedIsDraft /\ SawIt
  BY DEF IInv, TypeOK
<1>1. Known => Known'
  BY DeliveredStays
<1>2. (row.status = "sent" => Known) /\ \A t \in Threads : Say(t)
  BY DEF SentIsKnown, SentIsTrue
<1>3. SUFFICES (row'.status = "sent" => Known') /\ \A u \in Threads : Say(u)'
  BY DEF SentIsKnown, SentIsTrue
<1>4. ASSUME NEW t \in Threads, MarkSent(t), row'.status = "sent" PROVE Known
  BY <1>0, <1>4 DEF MarkSent, StatusAfter, OwnsCall, MailedIsDraft, Delivered, Call, Modes, Row
<1> HIDE DEF Known
<1>5. ASSUME NEW t \in Threads, ThreadStep(t)
      PROVE  (row'.status = "sent" => Known') /\ \A u \in Threads : Say(u)'
  <2>0. ASSUME row'.status # "sent" \/ row' = row,
               \A u \in Threads : \/ pc'[u] = pc[u] /\ seen'[u] = seen[u]
                                  \/ pc'[u] \notin {"adopt", "mark_sent"}
        PROVE  (row'.status = "sent" => Known') /\ \A u \in Threads : Say(u)'
    BY <1>1, <1>2, <2>0
  <2> USE <1>0, <1>1, <1>2, <1>5 DEF Goto, Return, Drafted, Row
  <2>1. CASE \E mode \in Modes, r \in Requests : Approve(t, mode, r)
    BY <2>1 DEF Approve
  <2>2. CASE \E mode \in Modes : FoundSending(t, mode)
    BY <2>2 DEF FoundSending
  <2>3. CASE AlreadyDone(t) \/ Issue(t) \/ DeliveryUnknown(t)
    BY <2>3 DEF AlreadyDone, Issue, DeliveryUnknown
  <2>4. CASE DefinitelyNotSent(t) \/ Release(t)
    <3>1. CASE DefinitelyNotSent(t)
      BY <2>0, <3>1 DEF DefinitelyNotSent
    <3>2. CASE Release(t)
      BY <2>0, <3>2 DEF Release
    <3> QED
      BY <2>4, <3>1, <3>2
  <2>5. CASE MarkSent(t)
    BY <1>4, <2>5 DEF MarkSent
  <2>6. CASE LookFound(t)
    <3>1. seen[t].mode = "send" => Known
      BY <2>6 DEF LookFound, InGmail, Delivered, Known
    <3> QED
      BY <2>6, <3>1 DEF LookFound
  <2>7. CASE SaveNotFound(t) \/ SendNotFound(t)
    BY <2>7 DEF SaveNotFound, SendNotFound
  <2>8. CASE Adopt(t)
    BY <2>8 DEF Adopt, AdoptedMode, StatusAfter
  <2>9. CASE EditCheck(t) \/ SkipCheck(t) \/ NotSentCheck(t)
    <3>1. ASSUME NEW button \in {"edit", "skip", "not_sent"}, NEW statuses,
                 Check(t, button, statuses)
          PROVE  (row'.status = "sent" => Known') /\ \A u \in Threads : Say(u)'
      BY <2>0, <3>1 DEF Check
    <3> QED
      BY <2>9, <3>1 DEF EditCheck, SkipCheck, NotSentCheck
  <2>10. CASE MarkSentCheck(t)
    <3>1. Known
      BY <2>10 DEF MarkSentCheck, Known, Delivered, MailedIsDraft
    <3> QED
      BY <2>10, <3>1 DEF MarkSentCheck, Check
  <2>11. CASE (\E b \in Bodies : EditWrite(t, b)) \/ SkipWrite(t) \/ NotSentWrite(t)
    <3>1. PICK button, new : new.status # "sent" /\ Write(t, button, new)
      BY <2>11 DEF EditWrite, SkipWrite, NotSentWrite
    <3> QED
      BY <2>0, <3>1 DEF Write
  <2>12. CASE MarkSentWrite(t)
    BY <2>12 DEF MarkSentWrite, Write
  <2> QED
    BY <2>1, <2>2, <2>3, <2>4, <2>5, <2>6, <2>7, <2>8, <2>9, <2>10, <2>11, <2>12
       DEF ThreadStep
<1>6. ASSUME NEW r \in Requests, Accept(r) \/ Lose(r) \/ SendByHand(r)
      PROVE  (row'.status = "sent" => Known') /\ \A u \in Threads : Say(u)'
  BY <1>1, <1>2, <1>6 DEF Accept, Lose, SendByHand
<1>7. CASE Crash
  BY <1>1, <1>2, <1>7 DEF Crash
<1>8. CASE UNCHANGED vars
  BY <1>1, <1>2, <1>8 DEF vars
<1> QED
  BY <1>5, <1>6, <1>7, <1>8 DEF Next, Outside

(* A call that is over stays over, and nobody plans one under a row that   *)
(* the seller looked at.                                                   *)
LEMMA NotSentIsOverStep == IInv /\ NotSentIsOver /\ [Next]_vars => NotSentIsOver'
<1> SUFFICES ASSUME IInv, NotSentIsOver, [Next]_vars, "hasty" \notin taint',
                    NEW u \in Threads, pc'[u] = "not_sent"
             PROVE  gmail'[seen'[u].attempt].fate \notin {"planned", "flight"}
  BY DEF NotSentIsOver
<1>0. /\ row \in Row /\ seen \in [Threads -> Row] /\ pc \in [Threads -> Places]
      /\ click \in [Threads -> Modes] /\ gmail \in [Requests -> Call]
      /\ mine \in [Threads -> Requests \cup {NoReq}]
      /\ OwnsCall /\ SawIt /\ RowNamesCall
  BY DEF IInv, TypeOK
<1>1. "hasty" \notin taint /\ pc[u] = "not_sent" =>
          /\ gmail[seen[u].attempt].fate \notin {"planned", "flight"}
          /\ seen[u].attempt \in Requests
          /\ gmail[seen[u].attempt].fate # "unused"
  BY <1>0 DEF NotSentIsOver, SawIt, RowNamesCall, NamesCall
<1> USE <1>0, <1>1
<1>2. ASSUME NEW t \in Threads, ThreadStep(t) PROVE gmail'[seen'[u].attempt].fate \notin {"planned", "flight"}
  <2>1. CASE \E mode \in Modes, r \in Requests : Approve(t, mode, r)
    BY <2>1 DEF Approve
  <2>2. CASE Issue(t)
    BY <2>2 DEF Issue, Goto, OwnsCall
  <2>3. CASE DefinitelyNotSent(t)
    BY <2>3 DEF DefinitelyNotSent, Taint, Return
  <2>4. CASE NotSentCheck(t)
    BY <2>4 DEF NotSentCheck, Check, Goto, Taint, StillMaking, Underway, RowNamesCall, NamesCall
  <2>5. CASE \E mode \in Modes : FoundSending(t, mode)
    BY <2>5 DEF FoundSending
  <2>6. CASE AlreadyDone(t) \/ DeliveryUnknown(t) \/ MarkSent(t) \/ Adopt(t) \/ SendNotFound(t)
    BY <2>6 DEF AlreadyDone, DeliveryUnknown, MarkSent, Adopt, SendNotFound, Return, Taint
  <2>7. CASE LookFound(t) \/ SaveNotFound(t) \/ Release(t)
    BY <2>7 DEF LookFound, SaveNotFound, Release, Goto, Taint
  <2>8. CASE EditCheck(t) \/ SkipCheck(t) \/ MarkSentCheck(t)
    BY <2>8 DEF EditCheck, SkipCheck, MarkSentCheck, Check, Goto
  <2>9. CASE \/ \E b \in Bodies : EditWrite(t, b)
             \/ SkipWrite(t) \/ NotSentWrite(t) \/ MarkSentWrite(t)
    BY <2>9 DEF EditWrite, SkipWrite, NotSentWrite, MarkSentWrite, Write, Return, Taint
  <2> QED
    BY <1>2, <2>1, <2>2, <2>3, <2>4, <2>5, <2>6, <2>7, <2>8, <2>9 DEF ThreadStep
<1>3. ASSUME NEW r \in Requests, Accept(r) \/ Lose(r) \/ SendByHand(r)
      PROVE  gmail'[seen'[u].attempt].fate \notin {"planned", "flight"}
  BY <1>3 DEF Accept, Lose, SendByHand, Call
<1>4. CASE Crash
  BY <1>4 DEF Crash
<1>5. CASE UNCHANGED vars
  BY <1>5 DEF vars
<1> QED
  BY <1>2, <1>3, <1>4, <1>5 DEF Next, Outside

(* Between approval and the Gmail call nothing of the row changes that     *)
(* matters to the call: whoever released, settled or edited it meanwhile   *)
(* overtook somebody.                                                      *)
LEMMA ApprovedStep ==
    IInv /\ NotSentIsOver /\ ApprovedHolds /\ ApprovedBytes /\ [Next]_vars =>
        ApprovedHolds' /\ ApprovedBytes'
<1> SUFFICES ASSUME IInv, NotSentIsOver, ApprovedHolds, ApprovedBytes, [Next]_vars, Clean'
             PROVE  /\ ApprovedHolds' /\ ApprovedBytes'
  BY DEF ApprovedHolds, ApprovedBytes
<1>0. /\ row \in Row /\ seen \in [Threads -> Row] /\ pc \in [Threads -> Places]
      /\ click \in [Threads -> Modes] /\ gmail \in [Requests -> Call]
      /\ mine \in [Threads -> Requests \cup {NoReq}]
      /\ OwnsCall /\ SawIt
  BY DEF IInv, TypeOK
<1>1. Clean
  BY DEF Clean, Next, Outside, ThreadStep, vars, Taint, Approve, FoundSending, AlreadyDone, Issue,
         DefinitelyNotSent, DeliveryUnknown, MarkSent, LookFound, SaveNotFound, SendNotFound, Adopt,
         Release, EditCheck, EditWrite, SkipCheck, SkipWrite, NotSentCheck, NotSentWrite,
         MarkSentCheck, MarkSentWrite, Write, Accept, Lose, SendByHand, Crash
<1> DEFINE Held(t) == /\ row.attempt = mine[t]
                      /\ row.body = gmail[mine[t]].approved
                      /\ row.status \in {"sending", "sent", "saved_to_gmail"}
           Same(r) == gmail[r].fate # "unused" => gmail[r].body = gmail[r].approved
<1>2. /\ \A t \in Threads : pc[t] = "issue" => Held(t)
      /\ \A r \in Requests : Same(r)
  BY <1>1 DEF ApprovedHolds, ApprovedBytes
<1>3. SUFFICES /\ \A t \in Threads : pc'[t] = "issue" => Held(t)'
               /\ \A r \in Requests : Same(r)'
  BY DEF ApprovedHolds, ApprovedBytes
<1> DEFINE Goal == /\ \A t \in Threads : pc'[t] = "issue" => Held(t)'
                   /\ \A r \in Requests : Same(r)'
<1>4. ASSUME NEW t \in Threads, ThreadStep(t) PROVE Goal
  <2> USE <1>0, <1>1, <1>2 DEF Goto, Return
  <2>1. ASSUME NEW mode \in Modes, NEW r \in Requests, Approve(t, mode, r) PROVE Goal
    <3>1. \A u \in Threads : pc[u] # "issue"
      BY <2>1 DEF Approve, Sendable
    <3>2. /\ row' = [row EXCEPT !.status = "sending", !.mode = mode, !.approved = row.body,
                                !.attempt = r]
          /\ gmail' = [gmail EXCEPT ![r] = [mode |-> mode, approved |-> row.body,
                                            body |-> row.body, fate |-> "planned"]]
          /\ pc' = [pc EXCEPT ![t] = "issue"] /\ mine' = [mine EXCEPT ![t] = r]
      BY <2>1 DEF Approve
    <3> QED
      BY <3>1, <3>2 DEF Row
  <2>2. CASE Issue(t)
    BY <2>2 DEF Issue, OwnsCall, Call
  <2>3. CASE DefinitelyNotSent(t)
    <3>1. /\ (row.status = "sending" /\ row.attempt = mine[t]) \/ row' = row
          /\ row' = [row EXCEPT !.status = "failed"]
      BY <2>3 DEF DefinitelyNotSent, Taint, Late, Clean
    <3>2. \A u \in Threads : pc[u] = "issue" /\ u # t => row.attempt # mine[t]
      BY <2>3 DEF DefinitelyNotSent, OwnsCall
    <3>3. \A u \in Threads : pc'[u] = "issue" => u # t /\ pc[u] = "issue" /\ mine'[u] = mine[u]
      BY <2>3 DEF DefinitelyNotSent
    <3>4. gmail' = [gmail EXCEPT ![mine[t]] = [@ EXCEPT !.fate = "lost"]] /\ mine[t] \in Requests
          /\ gmail[mine[t]].fate # "unused"
      BY <2>3 DEF DefinitelyNotSent, OwnsCall
    <3>5. \A r \in Requests : gmail'[r].approved = gmail[r].approved /\ gmail'[r].body = gmail[r].body
                              /\ (gmail'[r].fate # "unused" => gmail[r].fate # "unused")
      BY <3>4 DEF Call
    <3>6. \A u \in Threads : pc'[u] = "issue" => row' = row /\ mine[u] \in Requests
      BY <3>1, <3>2, <3>3 DEF OwnsCall
    <3> QED
      BY <3>3, <3>5, <3>6
  <2>4. CASE MarkSent(t)
    <3>1. row' = [row EXCEPT !.status = StatusAfter(gmail[mine[t]].mode)] /\ gmail' = gmail
      BY <2>4 DEF MarkSent
    <3>2. StatusAfter(gmail[mine[t]].mode) \in {"sent", "saved_to_gmail"}
      BY DEF StatusAfter
    <3> QED
      BY <2>4, <3>1, <3>2 DEF MarkSent, Row
  <2>5. CASE Adopt(t)
    <3>1. row' = [row EXCEPT !.status = StatusAfter(AdoptedMode(t))] /\ gmail' = gmail
      BY <2>5 DEF Adopt
    <3>2. StatusAfter(AdoptedMode(t)) \in {"sent", "saved_to_gmail"}
      BY DEF StatusAfter
    <3> QED
      BY <2>5, <3>1, <3>2 DEF Adopt, Row
  <2>6. CASE Release(t)
    <3>1. \A u \in Threads : pc[u] # "issue"
      BY <2>6 DEF Release, Taint, StillMaking, Clean, OwnsCall
    <3> QED
      BY <2>6, <3>1 DEF Release
  <2>7. CASE NotSentWrite(t)
    <3>1. row = seen[t] \/ row' = row
      BY <2>7 DEF NotSentWrite, Write, Taint, Stale, Clean
    <3>2. gmail[seen[t].attempt].fate # "planned"
      BY <2>7 DEF NotSentWrite, Write, NotSentIsOver, Clean
    <3>3. \A u \in Threads : pc[u] = "issue" => row' = row
      BY <3>1, <3>2 DEF OwnsCall
    <3> QED
      BY <2>7, <3>3 DEF NotSentWrite, Write
  <2>8. ASSUME NEW button \in {"edit", "skip"}, NEW new, Write(t, button, new) PROVE Goal
    <3>1. row = seen[t] \/ row' = row
      BY <2>8 DEF Write, Taint, Stale, Clean
    <3>2. seen[t].status \in {"drafted", "failed"}
      BY <2>8 DEF Write, SawIt
    <3>3. \A u \in Threads : pc[u] = "issue" => row' = row
      BY <3>1, <3>2
    <3> QED
      BY <2>8, <3>3 DEF Write
  <2>9. CASE MarkSentWrite(t)
    BY <2>9 DEF MarkSentWrite, Write, Row
  <2>10. CASE \/ \E mode \in Modes : FoundSending(t, mode)
              \/ AlreadyDone(t) \/ DeliveryUnknown(t) \/ LookFound(t) \/ SaveNotFound(t)
              \/ SendNotFound(t) \/ EditCheck(t) \/ SkipCheck(t) \/ NotSentCheck(t)
              \/ MarkSentCheck(t)
    <3>1. UNCHANGED <<row, gmail>>
      BY <2>10 DEF FoundSending, AlreadyDone, DeliveryUnknown, LookFound, SaveNotFound, SendNotFound,
                   EditCheck, SkipCheck, NotSentCheck, MarkSentCheck, Check
    <3>2. \A u \in Threads : pc'[u] = "issue" => mine'[u] = mine[u] /\ pc[u] = "issue"
      BY <2>10 DEF FoundSending, AlreadyDone, DeliveryUnknown, LookFound, SaveNotFound, SendNotFound,
                   EditCheck, SkipCheck, NotSentCheck, MarkSentCheck, Check
    <3> QED
      BY <3>1, <3>2
  <2> QED
    BY <1>4, <2>1, <2>2, <2>3, <2>4, <2>5, <2>6, <2>7, <2>8, <2>9, <2>10
       DEF ThreadStep, EditWrite, SkipWrite
<1>5. ASSUME NEW r \in Requests, Accept(r) \/ Lose(r) \/ SendByHand(r) PROVE Goal
  BY <1>0, <1>1, <1>2, <1>5 DEF Accept, Lose, SendByHand, OwnsCall, Call
<1>6. CASE Crash
  BY <1>0, <1>1, <1>2, <1>6 DEF Crash, Call
<1>7. CASE UNCHANGED vars
  BY <1>1, <1>2, <1>7 DEF vars
<1> QED
  BY <1>4, <1>5, <1>6, <1>7 DEF Next, Outside

(* approve_and_send's promise.  Unless a check-then-write handler was      *)
(* overtaken or a running attempt was released, at most one copy of the    *)
(* email reaches the buyer, over every crash, timeout, error and retry.    *)
THEOREM NoDuplicateSend == Spec => []NoDuplicate
<1>1. IInv => NoDuplicate
  BY DEF IInv, TypeOK, Row, Statuses, LiveCalls, Live, NoDuplicate, ExactlyOnce, Delivered
<1> QED
  BY <1>1, Invariance, PTL

(* The four facts that come with IInv, as one.                             *)
Promise == IInv /\ SentIsKnown /\ NotSentIsOver /\ ApprovedHolds /\ ApprovedBytes

LEMMA PromiseHolds == Spec => []Promise
<1>1. Init => SentIsKnown /\ NotSentIsOver /\ ApprovedHolds /\ ApprovedBytes
  BY DEF Init, SentIsKnown, SentIsTrue, NotSentIsOver, ApprovedHolds, ApprovedBytes, Drafted
<1> DEFINE Rest == SentIsKnown /\ NotSentIsOver /\ ApprovedHolds /\ ApprovedBytes
<1>2. IInv /\ Rest /\ [Next]_vars => Rest'
  BY SentIsKnownStep, NotSentIsOverStep, ApprovedStep
<1>3. IInv /\ Rest => Promise
  BY DEF Promise
<1> QED
  BY <1>1, <1>2, <1>3, Invariance, PTL DEF Spec

(* What the page offers to send, edit or retry has not reached the buyer,  *)
(* and nothing that could reach him is on its way.                         *)
THEOREM SafeToRetry == Spec => []RetryIsSafe
<1>1. IInv => RetryIsSafe
  BY DEF IInv, LiveCalls, Live, RetryIsSafe
<1> QED
  BY <1>1, Invariance, PTL

(* Both at once: no second copy, now or after the retry that the page      *)
(* offers, over every crash, timeout, error and retry.                     *)
THEOREM NeverSentTwice == Spec => []NeverTwice
<1>1. NoDuplicate /\ RetryIsSafe => NeverTwice
  BY DEF NeverTwice
<1> QED
  BY <1>1, NoDuplicateSend, SafeToRetry, PTL

(* What is recorded as sent was delivered, whoever recorded it; and, but   *)
(* for overtaken writes and released attempts, the bytes handed to Gmail   *)
(* are those that policy.evaluate approved.                                *)
THEOREM WhatIsSentIsApproved == Spec => []SentAsApproved
<1>1. Promise => SentAsApproved
  BY DEF Promise, SentIsKnown, SentAsApproved
<1> QED
  BY <1>1, PromiseHolds, PTL
----------------------------------------------------------------------------
(* The refinement of OneDelivery, step by step.                            *)

(* What the buyer has, before a race: a copy while the page says "unknown" *)
(* is the current attempt's send; while it offers the email there is none. *)
LEMMA WhatReached ==
  ASSUME Promise, Clean
  PROVE  /\ Says = "open" => Reached = {}
         /\ Says = "unknown" => /\ row.status = "sending" /\ row.attempt \in Requests
                                /\ gmail[row.attempt].mode = row.mode
                                /\ gmail[row.attempt].approved = row.approved
                                /\ \A r \in Requests : Live(r) => r = row.attempt /\ row.mode = "send"
         /\ Says = "saved" => \A r \in Requests : Live(r) => gmail[r].fate = "mailed"
         /\ \A r \in Requests : Delivered(r) => Live(r)
<1>1. row \in Row /\ LiveCalls /\ RowNamesCall
  BY DEF Promise, IInv, TypeOK
<1>2. row.status \in Statuses
  BY <1>1 DEF Row
<1>3. \A r \in Requests : Delivered(r) => Live(r)
  BY DEF Delivered, Live
<1>4. Says = "open" => row.status \in {"drafted", "failed"}
  BY <1>2 DEF Says, Statuses
<1>5. Says = "unknown" => row.status = "sending"
  BY <1>2 DEF Says, Statuses
<1>6. Says = "saved" => row.status = "saved_to_gmail"
  BY <1>2 DEF Says, Statuses
<1>7. Says = "open" => Reached = {}
  BY <1>1, <1>3, <1>4 DEF LiveCalls, Reached
<1>8. Says = "unknown" =>
          /\ row.attempt \in Requests
          /\ gmail[row.attempt].mode = row.mode /\ gmail[row.attempt].approved = row.approved
          /\ \A r \in Requests : Live(r) => r = row.attempt /\ row.mode = "send"
  BY <1>1, <1>5 DEF LiveCalls, RowNamesCall, NamesCall
<1> QED
  BY <1>1, <1>3, <1>5, <1>6, <1>7, <1>8 DEF LiveCalls

(* A step that plans no call, delivers nothing and touches no content of a *)
(* call leaves what was asked for and what arrived as it is.               *)
LEMMA SameCalls ==
  ASSUME \A r \in Requests :
             /\ gmail'[r].fate # "unused" <=> gmail[r].fate # "unused"
             /\ gmail'[r].mode = gmail[r].mode /\ gmail'[r].approved = gmail[r].approved
             /\ Delivered(r)' <=> Delivered(r)
             /\ Delivered(r) => gmail'[r].body = gmail[r].body
  PROVE  Granted' = Granted /\ Reached' = Reached
<1>1. {q \in Requests : gmail'[q].fate # "unused"} = {q \in Requests : gmail[q].fate # "unused"}
  OBVIOUS
<1>2. {q \in Requests : Delivered(q)'} = {q \in Requests : Delivered(q)}
  OBVIOUS
<1>3. Granted' = Granted
  BY <1>1 DEF Granted
<1>4. Reached' = Reached
  BY <1>2 DEF Reached
<1> QED
  BY <1>3, <1>4

(* What an UPDATE of the status alone is to the seller.                    *)
LEMMA StatusOnly ==
  ASSUME NEW s, row \in Row, row' = [row EXCEPT !.status = s],
         Granted' = Granted, Reached' = Reached, s = row.status
         \/ /\ Says \in {"unknown", "saved"} /\ s = "sent" /\ Reached # {}
         \/ /\ Says = "unknown" /\ s = "saved_to_gmail" /\ row.mode = "draft"
         \/ /\ Says = "unknown" /\ s = "failed" /\ Reached = {}
         \/ /\ Says = "open" /\ s = "rejected"
  PROVE  [Delivery!Next]_(Delivery!vars)
<1>1. /\ row'.status = s /\ row'.mode = row.mode /\ row'.approved = row.approved
      /\ row'.body = row.body
  BY DEF Row
<1>2. CASE s = row.status
  <2>1. Says' = Says
    BY <1>1, <1>2 DEF Says
  <2> QED
    BY <1>1, <2>1 DEF Delivery!vars
<1>3. ASSUME s # row.status PROVE \E word \in {"open", "saved", "sent", "rejected"} : Delivery!Confirmed(word)
  <2>1. CASE s = "sent"
    <3>1. Says' = "sent"
      BY <1>1, <2>1 DEF Says
    <3> QED
      BY <1>1, <1>3, <2>1, <3>1 DEF Delivery!Confirmed
  <2>2. CASE s = "saved_to_gmail"
    <3>1. Says' = "saved"
      BY <1>1, <2>2 DEF Says
    <3> QED
      BY <1>1, <1>3, <2>2, <3>1 DEF Delivery!Confirmed
  <2>3. CASE s = "failed"
    <3>1. Says' = "open"
      BY <1>1, <2>3 DEF Says
    <3> QED
      BY <1>1, <1>3, <2>3, <3>1 DEF Delivery!Confirmed
  <2>4. CASE s = "rejected"
    <3>1. Says' = "rejected"
      BY <1>1, <2>4 DEF Says
    <3> QED
      BY <1>1, <1>3, <2>4, <3>1 DEF Delivery!Confirmed
  <2> QED
    BY <1>3, <2>1, <2>2, <2>3, <2>4
<1> QED
  BY <1>2, <1>3 DEF Delivery!Next

LEMMA ApproveDelivers ==
  ASSUME Promise, Clean, NEW t \in Threads, NEW mode \in Modes, NEW r \in Requests, Approve(t, mode, r)
  PROVE  Delivery!Approve(mode)
<1>1. /\ row.status \in {"drafted", "failed"} /\ gmail[r].fate = "unused"
      /\ row' = [row EXCEPT !.status = "sending", !.mode = mode, !.approved = row.body, !.attempt = r]
      /\ gmail' = [gmail EXCEPT ![r] = [mode |-> mode, approved |-> row.body,
                                        body |-> row.body, fate |-> "planned"]]
  BY DEF Approve, Sendable
<1>2. row \in Row /\ gmail \in [Requests -> Call]
  BY DEF Promise, IInv, TypeOK
<1>3. /\ row'.status = "sending" /\ row'.mode = mode /\ row'.approved = row.body
      /\ row'.body = row.body
  BY <1>1, <1>2 DEF Row
<1>4. Says = "open" /\ Says' = "unknown"
  BY <1>1, <1>3 DEF Says
<1>5. \A q \in Requests : q # r => gmail'[q] = gmail[q]
  BY <1>1, <1>2
<1>6. /\ gmail'[r].mode = mode /\ gmail'[r].approved = row.body /\ gmail'[r].fate = "planned"
  BY <1>1, <1>2
<1>7. {q \in Requests : gmail'[q].fate # "unused"} = {q \in Requests : gmail[q].fate # "unused"} \cup {r}
  BY <1>5, <1>6
<1>8. Granted' = Granted \cup {[mode |-> mode, body |-> row.body]}
  BY <1>1, <1>5, <1>6, <1>7 DEF Granted
<1>9. {q \in Requests : Delivered(q)'} = {q \in Requests : Delivered(q)}
  BY <1>1, <1>5, <1>6 DEF Delivered
<1>10. Reached' = Reached
  <2>1. \A q \in {q \in Requests : Delivered(q)} : q # r
    BY <1>1 DEF Delivered
  <2> QED
    BY <1>5, <1>9, <2>1 DEF Reached
<1> QED
  BY <1>3, <1>4, <1>8, <1>10 DEF Delivery!Approve

(* Gmail takes a message, loses one, or the seller sends a saved one.      *)
LEMMA GmailDelivers ==
  ASSUME Promise, Clean, NEW r \in Requests, Accept(r) \/ Lose(r) \/ SendByHand(r)
  PROVE  [Delivery!Next]_(Delivery!vars)
<1>0. gmail \in [Requests -> Call] /\ row' = row
  BY DEF Promise, IInv, TypeOK, Accept, Lose, SendByHand
<1>1. PICK f \in {"accepted", "lost", "mailed"} : gmail' = [gmail EXCEPT ![r].fate = f]
  BY DEF Accept, Lose, SendByHand
<1>2. /\ \A q \in Requests : q # r => gmail'[q] = gmail[q]
      /\ gmail'[r].mode = gmail[r].mode /\ gmail'[r].approved = gmail[r].approved
      /\ gmail'[r].body = gmail[r].body /\ gmail'[r].fate = f
  BY <1>0, <1>1 DEF Call
<1>3. gmail[r].fate \in {"flight", "accepted"}
  BY DEF Accept, Lose, SendByHand
<1>4. Says' = Says
  BY <1>0 DEF Says
<1>5. ASSUME Delivered(r)' <=> Delivered(r) PROVE UNCHANGED Delivery!vars
  <2>1. Granted' = Granted /\ Reached' = Reached
    BY <1>2, <1>3, <1>5, SameCalls DEF Delivered
  <2> QED
    BY <1>0, <1>4, <2>1 DEF Delivery!vars
<1>6. ASSUME ~Delivered(r), Delivered(r)', \A q \in Requests : ~Delivered(q)
      PROVE  /\ Granted' = Granted /\ Reached = {}
             /\ Reached' = {[call |-> r, body |-> gmail[r].body]}
  <2>1. {q \in Requests : gmail'[q].fate # "unused"} = {q \in Requests : gmail[q].fate # "unused"}
    BY <1>1, <1>2, <1>3
  <2>2. Granted' = Granted
    BY <1>2, <2>1 DEF Granted
  <2>3. {q \in Requests : Delivered(q)'} = {r} /\ {q \in Requests : Delivered(q)} = {}
    BY <1>2, <1>6 DEF Delivered
  <2> QED
    BY <1>2, <2>2, <2>3 DEF Reached
<1>7. gmail[r].body = gmail[r].approved
  BY <1>3 DEF Promise, ApprovedBytes
<1>8. CASE Accept(r) /\ gmail[r].mode = "send"
  <2>0. gmail[r].fate = "flight" /\ f = "accepted"
    BY <1>2, <1>8, <1>0 DEF Accept, Call
  <2>1. ~Delivered(r) /\ Delivered(r)' /\ Live(r)
    BY <1>2, <1>8, <2>0 DEF Delivered, Live
  <2>2. Says = "unknown"
    <3>1. row.status \in Statuses /\ LiveCalls /\ SentIsTrue
      BY DEF Promise, IInv, TypeOK, Row, SentIsKnown
    <3>2. row.status \notin {"drafted", "failed", "rejected"}
      BY <2>1, <3>1 DEF LiveCalls
    <3>3. row.status # "saved_to_gmail"
      BY <2>0, <2>1, <3>1 DEF LiveCalls
    <3>4. row.status # "sent"
      <4>1. SUFFICES ASSUME row.status = "sent" PROVE FALSE
        OBVIOUS
      <4>2. PICK q \in Requests : Delivered(q)
        BY <3>1, <4>1 DEF SentIsTrue
      <4>3. Live(q)
        BY <4>2 DEF Live, Delivered
      <4> QED
        BY <2>1, <3>1, <4>1, <4>2, <4>3 DEF LiveCalls
    <3> QED
      BY <3>1, <3>2, <3>3, <3>4 DEF Says, Statuses
  <2>3. /\ r = row.attempt /\ row.mode = "send" /\ row.approved = gmail[r].body
        /\ \A q \in Requests : ~Delivered(q)
    BY <1>7, <2>1, <2>2, WhatReached
  <2>4. Delivery!Reach(r)
    BY <1>0, <1>4, <1>6, <2>1, <2>2, <2>3 DEF Delivery!Reach
  <2> QED
    BY <2>4 DEF Delivery!Next
<1>9. CASE SendByHand(r)
  <2>0. /\ row.status = "saved_to_gmail" /\ gmail[r].mode = "draft" /\ gmail[r].fate = "accepted"
        /\ \A q \in Requests : gmail[q].fate # "mailed"
        /\ f = "mailed"
    BY <1>2, <1>9, <1>0 DEF SendByHand, Call
  <2>1. ~Delivered(r) /\ Delivered(r)' /\ Says = "saved"
    BY <1>2, <2>0 DEF Delivered, Says
  <2>2. \A q \in Requests : ~Delivered(q)
    BY <2>0, <2>1, WhatReached
  <2>3. [mode |-> "draft", body |-> gmail[r].body] \in Granted
    BY <1>7, <2>0 DEF Granted
  <2>4. gmail[r].body \in Bodies
    BY <1>0 DEF Call
  <2>5. Delivery!ReachByHand(r, gmail[r].body)
    BY <1>0, <1>4, <1>6, <2>1, <2>2, <2>3 DEF Delivery!ReachByHand
  <2> QED
    BY <2>4, <2>5 DEF Delivery!Next
<1>10. CASE (Accept(r) /\ gmail[r].mode # "send") \/ Lose(r)
  <2>1. Delivered(r)' <=> Delivered(r)
    <3>1. CASE Lose(r)
      <4>1. gmail[r].fate = "flight" /\ gmail'[r].fate = "lost"
        BY <1>0, <3>1 DEF Lose, Call
      <4> QED
        BY <4>1 DEF Delivered
    <3>2. CASE Accept(r) /\ gmail[r].mode # "send"
      <4>1. gmail[r].fate = "flight" /\ gmail'[r].fate = "accepted"
        BY <1>0, <3>2 DEF Accept, Call
      <4> QED
        BY <1>2, <3>2, <4>1 DEF Delivered
    <3> QED
      BY <1>10, <3>1, <3>2
  <2> QED
    BY <1>5, <2>1
<1> QED
  BY <1>8, <1>9, <1>10

(* A handler's step that only reads, or hands a call to Gmail or gives one *)
(* up, is nothing to the seller unless the row changes.                    *)
LEMMA CallOnly ==
  ASSUME Promise, NEW r \in Requests, NEW c, gmail' = [gmail EXCEPT ![r] = c],
         gmail[r].fate \in {"planned", "flight"}, c.fate \in {"flight", "lost"},
         c.mode = gmail[r].mode, c.approved = gmail[r].approved
  PROVE  Granted' = Granted /\ Reached' = Reached
<1>0. gmail \in [Requests -> Call]
  BY DEF Promise, IInv, TypeOK
<1>1. gmail'[r] = c /\ \A q \in Requests : q # r => gmail'[q] = gmail[q]
  BY <1>0
<1>2. ~Delivered(r) /\ ~Delivered(r)'
  BY <1>1 DEF Delivered
<1>3. \A q \in Requests : q # r => (Delivered(q)' <=> Delivered(q))
  BY <1>1 DEF Delivered
<1> QED
  BY <1>1, <1>2, <1>3, SameCalls

LEMMA RowOnly == gmail' = gmail => Granted' = Granted /\ Reached' = Reached
  BY DEF Granted, Reached, Delivered

LEMMA SomeReached ==
  ASSUME NEW r \in Requests, Delivered(r) PROVE Reached # {}
<1>1. [call |-> r, body |-> gmail[r].body] \in Reached
  BY DEF Reached
<1> QED
  BY <1>1

(* The handlers of the page, before a race.                                *)
LEMMA OutcomeDelivers ==
  ASSUME Promise, Clean, Clean', NEW t \in Threads,
         DefinitelyNotSent(t) \/ MarkSent(t) \/ Adopt(t) \/ Release(t)
  PROVE  [Delivery!Next]_(Delivery!vars)
<1>0. /\ row \in Row /\ gmail \in [Requests -> Call] /\ OwnsCall /\ SawIt /\ RowNamesCall
      /\ SentIsKnown /\ seen \in [Threads -> Row] /\ MailedIsDraft
  BY DEF Promise, IInv, TypeOK
<1>1. CASE DefinitelyNotSent(t)
  <2> DEFINE r == mine[t]
  <2>1. /\ gmail' = [gmail EXCEPT ![r].fate = "lost"] /\ row' = [row EXCEPT !.status = "failed"]
        /\ r \in Requests /\ gmail[r].fate \in {"planned", "flight"}
        /\ (row.status = "sending" /\ row.attempt = r) \/ (row' = row)
    BY <1>0, <1>1 DEF DefinitelyNotSent, OwnsCall, Taint, Late, Clean
  <2> DEFINE c == [gmail[r] EXCEPT !.fate = "lost"]
  <2>5. gmail' = [gmail EXCEPT ![r] = c]
    BY <2>1
  <2>6. c.fate = "lost" /\ c.mode = gmail[r].mode /\ c.approved = gmail[r].approved
    BY <1>0, <2>1 DEF Call
  <2> HIDE DEF c
  <2>2. Granted' = Granted /\ Reached' = Reached
    BY <2>1, <2>5, <2>6, CallOnly
  <2>3. CASE row.status = "sending" /\ row.attempt = r
    <3>1. Says = "unknown"
      BY <2>3 DEF Says
    <3>2. \A q \in Requests : ~Delivered(q)
      BY <2>1, <2>3, <3>1, WhatReached DEF Delivered
    <3>3. Reached = {}
      BY <3>2 DEF Reached
    <3> QED
      BY <1>0, <2>1, <2>2, <3>1, <3>3, StatusOnly
  <2>4. CASE row' = row
    <3>1. row.status = "failed"
      BY <1>0, <2>1, <2>4 DEF Row
    <3> QED
      BY <1>0, <2>1, <2>2, <3>1, StatusOnly
  <2> QED
    BY <2>1, <2>3, <2>4
<1>2. CASE MarkSent(t)
  <2> DEFINE r == mine[t]
  <2>1. /\ gmail' = gmail /\ row' = [row EXCEPT !.status = StatusAfter(gmail[r].mode)]
        /\ r \in Requests /\ gmail[r].fate \in {"accepted", "mailed"}
        /\ (row.status = "sending" /\ row.attempt = r) \/ (row' = row)
    BY <1>0, <1>2 DEF MarkSent, OwnsCall, Taint, Late, Clean
  <2>2. Granted' = Granted /\ Reached' = Reached
    BY <2>1, RowOnly
  <2>3. CASE row.status = "sending" /\ row.attempt = r
    <3>1. Says = "unknown"
      BY <2>3 DEF Says
    <3>2. gmail[r].mode = row.mode /\ gmail[r].mode \in {"send", "draft"}
      BY <1>0, <2>1, <2>3, <3>1, WhatReached DEF Call, Modes
    <3>3. CASE gmail[r].mode = "send"
      <4>1. gmail[r].fate = "accepted"
        BY <1>0, <2>1, <3>3 DEF MailedIsDraft
      <4>2. Delivered(r)
        BY <3>3, <4>1 DEF Delivered
      <4>3. Reached # {}
        BY <2>1, <4>2, SomeReached
      <4>4. StatusAfter(gmail[r].mode) = "sent"
        BY <3>3 DEF StatusAfter
      <4> QED
        BY <1>0, <2>1, <2>2, <3>1, <4>3, <4>4, StatusOnly
    <3>4. CASE gmail[r].mode = "draft"
      <4>1. StatusAfter(gmail[r].mode) = "saved_to_gmail"
        BY <3>4 DEF StatusAfter
      <4> QED
        BY <1>0, <2>1, <2>2, <3>1, <3>2, <3>4, <4>1, StatusOnly
    <3> QED
      BY <3>2, <3>3, <3>4
  <2>4. CASE row' = row
    <3>1. row.status = StatusAfter(gmail[r].mode)
      BY <1>0, <2>1, <2>4 DEF Row
    <3> QED
      BY <1>0, <2>1, <2>2, <3>1, StatusOnly
  <2> QED
    BY <2>1, <2>3, <2>4
<1>3. CASE Adopt(t)
  <2>1. /\ gmail' = gmail /\ row' = [row EXCEPT !.status = StatusAfter(seen[t].mode)]
        /\ (row = seen[t] \/ row' = row)
        /\ seen[t].status = "sending"
        /\ seen[t].mode = "send" => \E r \in Requests : Delivered(r)
    BY <1>0, <1>3 DEF Adopt, AdoptedMode, Taint, Stale, Clean, SawIt, SentIsKnown
  <2>2. Granted' = Granted /\ Reached' = Reached
    BY <2>1, RowOnly
  <2>3. CASE row = seen[t]
    <3>1. Says = "unknown"
      BY <2>1, <2>3 DEF Says
    <3>2. row.mode \in {"send", "draft"}
      BY <1>0, <3>1, WhatReached DEF Call, Modes
    <3>3. CASE row.mode = "send"
      <4>1. Reached # {}
        BY <2>1, <2>3, <3>3, SomeReached
      <4>2. StatusAfter(seen[t].mode) = "sent"
        BY <2>3, <3>3 DEF StatusAfter
      <4> QED
        BY <1>0, <2>1, <2>2, <3>1, <4>1, <4>2, StatusOnly
    <3>4. CASE row.mode = "draft"
      <4>1. StatusAfter(seen[t].mode) = "saved_to_gmail"
        BY <2>3, <3>4 DEF StatusAfter
      <4> QED
        BY <1>0, <2>1, <2>2, <3>1, <3>4, <4>1, StatusOnly
    <3> QED
      BY <3>2, <3>3, <3>4
  <2>4. CASE row' = row
    <3>1. row.status = StatusAfter(seen[t].mode)
      BY <1>0, <2>1, <2>4 DEF Row
    <3> QED
      BY <1>0, <2>1, <2>2, <3>1, StatusOnly
  <2> QED
    BY <2>1, <2>3, <2>4
<1>4. CASE Release(t)
  <2>1. /\ gmail' = gmail /\ row' = [row EXCEPT !.status = "failed"]
        /\ (row = seen[t] \/ row' = row)
        /\ seen[t].status = "sending" /\ seen[t].mode = "draft"
    BY <1>0, <1>4 DEF Release, Taint, Stale, Clean, SawIt
  <2>2. Granted' = Granted /\ Reached' = Reached
    BY <2>1, RowOnly
  <2>3. CASE row = seen[t]
    <3>1. Says = "unknown" /\ row.mode # "send"
      BY <2>1, <2>3 DEF Says
    <3>2. Reached = {}
      BY <3>1, WhatReached DEF Reached
    <3> QED
      BY <1>0, <2>1, <2>2, <3>1, <3>2, StatusOnly
  <2>4. CASE row' = row
    <3>1. row.status = "failed"
      BY <1>0, <2>1, <2>4 DEF Row
    <3> QED
      BY <1>0, <2>1, <2>2, <3>1, StatusOnly
  <2> QED
    BY <2>1, <2>3, <2>4
<1> QED
  BY <1>1, <1>2, <1>3, <1>4

LEMMA ButtonDelivers ==
  ASSUME Promise, Clean, Clean', NEW t \in Threads,
         \/ \E b \in Bodies : EditWrite(t, b)
         \/ SkipWrite(t) \/ NotSentWrite(t) \/ MarkSentWrite(t)
  PROVE  [Delivery!Next]_(Delivery!vars)
<1>0. row \in Row /\ SawIt /\ SentIsKnown /\ seen \in [Threads -> Row] /\ RowNamesCall
  BY DEF Promise, IInv, TypeOK
<1>1. ASSUME NEW button, NEW new, Write(t, button, new)
      PROVE  /\ pc[t] = button /\ row' = new /\ (row = seen[t] \/ row' = row)
             /\ Granted' = Granted /\ Reached' = Reached
  BY <1>1, RowOnly DEF Write, Taint, Stale, Clean
<1>2. ASSUME NEW button, NEW s \in Statuses, Write(t, button, [row EXCEPT !.status = s]),
             row = seen[t] =>
                 \/ /\ Says = "saved" /\ s = "sent" /\ Reached # {}
                 \/ /\ Says = "unknown" /\ s = "failed" /\ Reached = {}
                 \/ /\ Says = "open" /\ s = "rejected"
      PROVE  [Delivery!Next]_(Delivery!vars)
  <2>1. /\ row' = [row EXCEPT !.status = s] /\ (row = seen[t] \/ row' = row)
        /\ Granted' = Granted /\ Reached' = Reached
    BY <1>1, <1>2
  <2>2. CASE row = seen[t]
    BY <1>0, <1>2, <2>1, <2>2, StatusOnly
  <2>3. CASE row' = row
    <3>1. row.status = s
      BY <1>0, <2>1, <2>3 DEF Row
    <3> QED
      BY <1>0, <2>1, <3>1, StatusOnly
  <2> QED
    BY <2>1, <2>2, <2>3
<1>3. CASE \E b \in Bodies : EditWrite(t, b)
  <2>1. PICK b \in Bodies : EditWrite(t, b)
    BY <1>3
  <2>2. /\ pc[t] = "edit" /\ row' = [row EXCEPT !.status = "drafted", !.body = b]
        /\ (row = seen[t] \/ row' = row) /\ Granted' = Granted /\ Reached' = Reached
    BY <1>1, <2>1 DEF EditWrite
  <2>3. /\ row'.status = "drafted" /\ row'.body = b /\ row'.mode = row.mode
        /\ row'.approved = row.approved
    BY <1>0, <2>2 DEF Row
  <2>4. Says' = "open"
    BY <2>3 DEF Says
  <2>5. Granted' = Granted /\ Reached' = Reached
    BY <1>1, <2>1 DEF EditWrite
  <2>6. row.status \in {"drafted", "failed"}
    BY <1>0, <2>2, <2>3 DEF SawIt
  <2>7. Says = "open"
    BY <2>6 DEF Says
  <2>8. Delivery!Edit(b)
    BY <2>3, <2>4, <2>5, <2>7 DEF Delivery!Edit
  <2> QED
    BY <2>8 DEF Delivery!Next
<1>4. CASE SkipWrite(t)
  <2>1. row = seen[t] => Says = "open"
    BY <1>0, <1>4 DEF SkipWrite, Write, SawIt, Says
  <2> QED
    BY <1>2, <1>4, <2>1 DEF SkipWrite, Statuses
<1>5. CASE NotSentWrite(t)
  <2>1. ASSUME row = seen[t] PROVE Says = "unknown" /\ Reached = {}
    <3>1. /\ pc[t] = "not_sent" /\ row.status = "sending"
      BY <1>0, <1>5, <2>1 DEF NotSentWrite, Write, SawIt
    <3>2. Says = "unknown"
      BY <3>1 DEF Says
    <3>3. gmail[row.attempt].mode = "send" => gmail[row.attempt].fate = "lost"
      BY <2>1, <3>1 DEF Promise, IInv, NotSentStays, Clean
    <3>4. \A r \in Requests : ~Delivered(r)
      BY <3>2, <3>3, WhatReached DEF Delivered
    <3> QED
      BY <3>2, <3>4 DEF Reached
  <2> QED
    BY <1>2, <1>5, <2>1 DEF NotSentWrite, Statuses
<1>6. CASE MarkSentWrite(t)
  <2>1. ASSUME row = seen[t] PROVE Says = "saved" /\ Reached # {}
    <3>1. pc[t] = "mark_sent" /\ row.status = "saved_to_gmail"
      BY <1>0, <1>6, <2>1 DEF MarkSentWrite, Write, SawIt
    <3>2. \E r \in Requests : Delivered(r)
      BY <1>0, <3>1 DEF SentIsKnown
    <3>3. Reached # {}
      BY <3>2, SomeReached
    <3> QED
      BY <3>1, <3>3 DEF Says
  <2> QED
    BY <1>2, <1>6, <2>1 DEF MarkSentWrite, Statuses
<1> QED
  BY <1>3, <1>4, <1>5, <1>6

LEMMA StepDelivers ==
  Promise /\ [Next]_vars => (Clean' => [Delivery!Next]_(Delivery!vars))
<1> SUFFICES ASSUME Promise, [Next]_vars, Clean' PROVE [Delivery!Next]_(Delivery!vars)
  OBVIOUS
<1>1. Clean
  BY DEF Clean, Next, Outside, ThreadStep, vars, Taint, Approve, FoundSending, AlreadyDone, Issue,
         DefinitelyNotSent, DeliveryUnknown, MarkSent, LookFound, SaveNotFound, SendNotFound, Adopt,
         Release, EditCheck, EditWrite, SkipCheck, SkipWrite, NotSentCheck, NotSentWrite,
         MarkSentCheck, MarkSentWrite, Write, Accept, Lose, SendByHand, Crash
<1>2. ASSUME UNCHANGED row, Granted' = Granted, Reached' = Reached
      PROVE  UNCHANGED Delivery!vars
  BY <1>2 DEF Delivery!vars, Says
<1>3. ASSUME NEW t \in Threads, ThreadStep(t) PROVE [Delivery!Next]_(Delivery!vars)
  <2>1. CASE \E mode \in Modes, r \in Requests : Approve(t, mode, r)
    BY <1>1, <2>1, ApproveDelivers DEF Delivery!Next, Modes
  <2>2. CASE Issue(t)
    <3>1. /\ mine[t] \in Requests /\ gmail[mine[t]].fate = "planned" /\ gmail \in [Requests -> Call]
      BY <2>2 DEF Issue, Promise, IInv, OwnsCall, TypeOK
    <3> DEFINE c == [gmail[mine[t]] EXCEPT !.fate = "flight", !.body = row.body]
    <3>2. /\ gmail' = [gmail EXCEPT ![mine[t]] = c] /\ UNCHANGED row
      BY <2>2 DEF Issue
    <3>3. c.fate = "flight" /\ c.mode = gmail[mine[t]].mode /\ c.approved = gmail[mine[t]].approved
      BY <3>1 DEF Call
    <3> HIDE DEF c
    <3> QED
      BY <1>2, <3>1, <3>2, <3>3, CallOnly
  <2>3. CASE DefinitelyNotSent(t) \/ MarkSent(t) \/ Adopt(t) \/ Release(t)
    BY <1>1, <2>3, OutcomeDelivers
  <2>4. CASE \/ \E b \in Bodies : EditWrite(t, b)
             \/ SkipWrite(t) \/ NotSentWrite(t) \/ MarkSentWrite(t)
    BY <1>1, <2>4, ButtonDelivers
  <2>5. CASE \/ \E mode \in Modes : FoundSending(t, mode)
             \/ AlreadyDone(t) \/ DeliveryUnknown(t) \/ LookFound(t) \/ SaveNotFound(t)
             \/ SendNotFound(t) \/ EditCheck(t) \/ SkipCheck(t) \/ NotSentCheck(t)
             \/ MarkSentCheck(t)
    <3>1. UNCHANGED <<row, gmail>>
      BY <2>5 DEF FoundSending, AlreadyDone, DeliveryUnknown, LookFound, SaveNotFound, SendNotFound,
                  EditCheck, SkipCheck, NotSentCheck, MarkSentCheck, Check
    <3> QED
      BY <1>2, <3>1, RowOnly
  <2> QED
    BY <1>3, <2>1, <2>2, <2>3, <2>4, <2>5 DEF ThreadStep
<1>4. ASSUME NEW r \in Requests, Accept(r) \/ Lose(r) \/ SendByHand(r)
      PROVE  [Delivery!Next]_(Delivery!vars)
  BY <1>1, <1>4, GmailDelivers
<1>5. CASE Crash
  <2>1. gmail \in [Requests -> Call]
    BY DEF Promise, IInv, TypeOK
  <2>2. Granted' = Granted /\ Reached' = Reached
    BY <1>5, <2>1, SameCalls DEF Crash, Delivered, Call
  <2> QED
    BY <1>2, <1>5, <2>2 DEF Crash
<1>6. CASE UNCHANGED vars
  BY <1>2, <1>6, RowOnly DEF vars
<1> QED
  BY <1>3, <1>4, <1>5, <1>6 DEF Next, Outside

(* EmailSend implements OneDelivery until a race the code accepts has      *)
(* happened: every step of a handler, of Gmail or of a dying process is    *)
(* one that the promise to the seller allows, or nothing he can see.       *)
THEOREM DeliveryIsKept == Spec => DeliversAsPromised
<1>1. Init => Delivery!Init
  BY DEF Init, Drafted, Delivery!Init, Delivery!Nothing, Says, Granted, Reached, Delivered
<1>2. Promise /\ [Next]_vars => [Clean' => Delivery!Next]_(Delivery!vars)
  BY StepDelivers
<1> QED
  BY <1>1, <1>2, PromiseHolds, PTL DEF Spec, DeliversAsPromised
----------------------------------------------------------------------------
(* Outreach, for any loops, limits, caps, days, nudges, replies and clicks. *)

LoopRow == [open : BOOLEAN, next : Nat, count : Nat, escalated : BOOLEAN, heard : Nat]
NudgeRow == [status : O!Statuses, loop : Loops, asked : BOOLEAN, sentOn : Nat,
             counted : BOOLEAN, fit : BOOLEAN]
Evaluator == [at : {"idle", "next", "agent", "draft"}, todo : SUBSET Loops,
              rows : [Loops -> LoopRow], loop : Loops, asked : BOOLEAN]

OutTyped ==
    /\ today \in Nat /\ written \in Nat /\ stored \in Nat /\ logged \in Nat /\ autoSent \in Nat
    /\ loops \in [Loops -> LoopRow]
    /\ nudges \in [O!Nudges -> NudgeRow]
    /\ mail \subseteq O!Nudges
    /\ eval \in [O!Evaluators -> Evaluator]
    /\ auto \in [batch : SUBSET O!Nudges, sent : BOOLEAN]

(* What is announced has gone out.                                         *)
Announced == \A n \in mail : nudges[n].status = "sent"

(* Two evaluations at once are an overlap.                                 *)
Alone == O!Short({"overlap"}) =>
             \A t, u \in O!Evaluators : t = u \/ O!Resting(t) \/ O!Resting(u)

(* What the rules saw of a loop is still so while a model thinks about it: *)
(* no nudge for it waits, and unless it was asked for, all that went out   *)
(* is counted and is less than the limit.                                  *)
LookedAt(t) ==
    eval[t].at \in {"agent", "draft"} /\ O!Short({"overlap"}) =>
        /\ (eval[t].asked => O!Short({"masked"})) => O!Pending(eval[t].loop) = {}
        /\ ~eval[t].asked /\ O!Short({"late"}) =>
               /\ eval[t].rows[eval[t].loop].count < Limit
               /\ \A n \in O!SentFor(eval[t].loop) : nudges[n].counted
AskedIsDrafted(t) == eval[t].at = "agent" => ~eval[t].asked
Looked == \A t \in O!Evaluators : LookedAt(t) /\ AskedIsDrafted(t)

(* A loop's follow-ups nobody asked for, with those that wait.             *)
Waiting == {"drafted", "sending", "failed", "saved_to_gmail"}
OwnAccord(l) == {n \in O!Nudges : /\ nudges[n].loop = l /\ ~nudges[n].asked
                                  /\ nudges[n].status \in Waiting \cup {"sent"}}
Within == O!Short({"overlap", "moved", "late"}) =>
              \A l \in Loops : Cardinality(OwnAccord(l)) <= Limit

(* What went out by itself is logged, but for the send at hand.            *)
Logged == O!Short({"unlogged"}) =>
              autoSent = logged + (IF auto.sent THEN 1 ELSE 0) /\ autoSent <= Cap

(* The drafts a pass took are as it read them, or one was edited.          *)
BatchIsFit == /\ \A n \in auto.batch : nudges[n].status # "none"
              /\ "swapped" \in races \/ \A n \in auto.batch : nudges[n].fit

OutInv == /\ OutTyped /\ Announced /\ Alone /\ Looked /\ Within /\ Logged /\ BatchIsFit
          /\ O!OnePending /\ O!CountedOnce

LEMMA Smallest ==
  ASSUME NEW T \in SUBSET Nat, T # {}
  PROVE  \E x \in T : \A y \in T : x <= y
<1>1. IsWellFoundedOn(OpToRel(<, Nat), Nat)
  BY NatLessThanWellFounded
<1>2. \E x \in T : \A y \in T : ~(<<y, x>> \in OpToRel(<, Nat))
  BY <1>1, WFMin
<1>3. PICK x \in T : \A y \in T : ~(<<y, x>> \in OpToRel(<, Nat))
  BY <1>2
<1>4. ASSUME NEW y \in T PROVE x <= y
  <2>1. <<y, x>> \in Nat \X Nat /\ x \in Nat /\ y \in Nat
    OBVIOUS
  <2>2. ~(<<y, x>> \in {ss \in Nat \X Nat : ss[1] < ss[2]})
    BY <1>3 DEF OpToRel
  <2>3. ~(y < x)
    BY <2>1, <2>2
  <2> QED
    BY <2>1, <2>3
<1> QED
  BY <1>4

(* Outreach counts as this module does.                                    *)
LEMMA OneCount == \A S : O!Cardinality(S) = Cardinality(S)
  BY DEF O!Cardinality, Cardinality

LEMMA Fewer ==
  ASSUME NEW S \in SUBSET O!Nudges, NEW T \in SUBSET S
  PROVE  /\ IsFiniteSet(S) /\ IsFiniteSet(T)
         /\ Cardinality(S) \in Nat /\ Cardinality(T) \in Nat /\ Cardinality(T) <= Cardinality(S)
<1>1. IsFiniteSet(O!Nudges)
  BY PartConstants, FS_Interval DEF O!OutreachConstants, O!Nudges
<1>2. IsFiniteSet(S)
  BY <1>1, FS_Subset
<1> QED
  BY <1>2, FS_Subset, FS_CardinalityType

LEMMA InitOutInv == O!Init => OutInv
<1> SUFFICES ASSUME O!Init PROVE OutInv
  OBVIOUS
<1>1. O!AnyLoop \in Loops /\ O!Never \in Nat /\ MaxNudges \in Nat
  BY PartConstants DEF O!OutreachConstants, O!AnyLoop, O!Never
<1>2. O!NewRow \in LoopRow /\ O!Blank \in NudgeRow /\ O!Idle \in Evaluator
  BY <1>1 DEF O!NewRow, O!Blank, O!Idle, LoopRow, NudgeRow, Evaluator, O!Statuses
<1>3. OutTyped
  BY <1>2 DEF O!Init, OutTyped
<1>4. Announced /\ Alone /\ Looked /\ BatchIsFit
  BY <1>2 DEF O!Init, Announced, Alone, O!Resting, Looked, LookedAt, AskedIsDrafted, O!Idle, BatchIsFit
<1>5. \A l \in Loops : OwnAccord(l) = {} /\ O!Pending(l) = {} /\ O!SentFor(l) = {}
  BY DEF O!Init, O!Blank, OwnAccord, O!Pending, O!SentFor, Waiting
<1>6. Within /\ O!OnePending
  <2>1. Cardinality({}) = 0
    BY FS_EmptySet
  <2>2. \A l \in Loops : Cardinality(OwnAccord(l)) = 0 /\ Cardinality(O!Pending(l)) = 0
    BY <1>5, <2>1
  <2>3. Limit \in Nat
    BY PartConstants DEF O!OutreachConstants
  <2> QED
    BY <2>2, <2>3, OneCount DEF Within, O!OnePending
<1>7. O!CountedOnce
  <2>1. \A l \in Loops : {n \in O!SentFor(l) : nudges[n].counted} = {}
    BY <1>5
  <2>2. \A l \in Loops : loops[l].count = 0
    BY DEF O!Init, O!NewRow
  <2>3. Cardinality({}) = 0
    BY FS_EmptySet
  <2>4. \A n \in O!Nudges : ~nudges[n].counted /\ nudges[n].status # "sent"
    BY DEF O!Init, O!Blank
  <2>5. \A l \in Loops : loops[l].count = Cardinality({n \in O!SentFor(l) : nudges[n].counted})
    BY <2>1, <2>2, <2>3
  <2> QED
    BY <2>4, <2>5, OneCount DEF O!CountedOnce
<1>8. Logged
  BY PartConstants DEF O!Init, Logged, O!OutreachConstants
<1> QED
  BY <1>3, <1>4, <1>6, <1>7, <1>8 DEF OutInv

(* cadence: days are days.                                                 *)
LEMMA DaysAreDays ==
  ASSUME today \in Nat
  PROVE  /\ O!NextAfter(today) \in Nat /\ O!Sight(today + 1) \in Nat /\ O!Never \in Nat
         /\ O!LaterOf(O!Sight(CheckAfter), today) \in Nat
  BY PartConstants DEF O!OutreachConstants, O!NextAfter, O!Sight, O!Never, O!LaterOf

LEMMA EarliestIsDay ==
  ASSUME OutTyped, NEW l \in Loops, O!TooSoon(l)
  PROVE  O!Earliest(l) \in Nat
<1> DEFINE day(n) == O!Sight(nudges[n].sentOn + Gap)
           left == {O!Never - day(n) : n \in O!SentFor(l)}
<1>1. O!Never \in Nat /\ \A n \in O!SentFor(l) : day(n) \in O!Days
  BY PartConstants DEF O!OutreachConstants, O!SentFor, O!Sight, O!Never, O!Days, OutTyped, NudgeRow
<1>2. left \in SUBSET Nat /\ left # {}
  BY <1>1 DEF O!TooSoon, O!Days
<1>3. PICK n \in O!SentFor(l) : \A m \in O!SentFor(l) : O!Never - day(n) <= O!Never - day(m)
  <2>1. PICK x \in left : \A y \in left : x <= y
    BY <1>2, Smallest
  <2> QED
    BY <2>1
<1>4. \A m \in O!SentFor(l) : day(m) <= day(n)
  BY <1>1, <1>3 DEF O!Days
<1>5. \E d \in O!Days : /\ \E m \in O!SentFor(l) : day(m) = d
                        /\ \A m \in O!SentFor(l) : day(m) <= d
  BY <1>1, <1>4
<1>6. O!Earliest(l) \in O!Days
  BY <1>5 DEF O!Earliest
<1> QED
  BY <1>1, <1>6 DEF O!Days

(* The checks in their order: the last one hits, each has a name of its    *)
(* own and a day.                                                          *)
LEMMA ChecksInOrder ==
  ASSUME OutTyped, NEW l \in Loops, NEW asRead, NEW fact
  PROVE  LET c == O!Checks(l, asRead, fact) IN
         /\ DOMAIN c = 1..15 /\ c[15].hit
         /\ c[9].hit <=> O!Pending(l) # {}
         /\ c[11].hit <=> O!Spent(asRead)
         /\ \A i \in 1..14 : c[i].verdict.check # "agent"
         /\ \A i \in 1..9 : c[i].verdict.check \in O!HoldsWhenAsked \cup O!Masking
         /\ \A i \in 1..15 : c[i].verdict.next \in Nat
<1> DEFINE c == O!Checks(l, asRead, fact)
<1>1. DOMAIN c = 1..15
  BY DEF O!Checks
<1>2. c[15].hit /\ (c[9].hit <=> O!Pending(l) # {}) /\ (c[11].hit <=> O!Spent(asRead))
  BY DEF O!Checks
<1>3. /\ c[1].verdict.check = "completed" /\ c[2].verdict.check = "superseded"
      /\ c[3].verdict.check = "deal_closed" /\ c[4].verdict.check = "deal_paused"
      /\ c[5].verdict.check = "replied" /\ c[6].verdict.check = "newer_call_processing"
      /\ c[7].verdict.check = "newer_call" /\ c[8].verdict.check = "own_commitment"
      /\ c[9].verdict.check = "nudge_pending" /\ c[10].verdict.check = "already_escalated"
      /\ c[11].verdict.check = "escalate" /\ c[12].verdict.check = "too_soon"
      /\ c[13].verdict.check = "no_recipient" /\ c[14].verdict.check = "weekend"
  BY DEF O!Checks, O!Verdict
<1>4. /\ c[1].verdict.next \in Nat /\ c[2].verdict.next \in Nat /\ c[3].verdict.next \in Nat
      /\ c[4].verdict.next \in Nat /\ c[5].verdict.next \in Nat /\ c[6].verdict.next \in Nat
      /\ c[7].verdict.next \in Nat /\ c[8].verdict.next \in Nat /\ c[9].verdict.next \in Nat
      /\ c[10].verdict.next \in Nat /\ c[11].verdict.next \in Nat /\ c[13].verdict.next \in Nat
      /\ c[14].verdict.next \in Nat /\ c[15].verdict.next \in Nat
  <2>1. today \in Nat
    BY DEF OutTyped
  <2> QED
    BY <2>1, DaysAreDays DEF O!Checks, O!Verdict
<1>5. c[12].verdict.next \in Nat
  <2>1. c[12].verdict.next = IF O!TooSoon(l) THEN O!Earliest(l) ELSE O!Never
    BY DEF O!Checks, O!Verdict
  <2>2. O!Never \in Nat
    BY DaysAreDays DEF OutTyped
  <2> QED
    BY <2>1, <2>2, EarliestIsDay
<1> HIDE DEF c
<1>6. \A i \in 1..14 : c[i].verdict.check # "agent"
  BY <1>3
<1>7. \A i \in 1..9 : c[i].verdict.check \in O!HoldsWhenAsked \cup O!Masking
  BY <1>3 DEF O!HoldsWhenAsked, O!Masking
<1>8. \A i \in 1..15 : c[i].verdict.next \in Nat
  BY <1>4, <1>5
<1> QED
  BY <1>1, <1>2, <1>6, <1>7, <1>8 DEF c

(* The rules leave a loop to the agent only when no nudge for it waits and *)
(* the limit is not reached; a nudge that waits holds one asked for, or    *)
(* something masks it.                                                     *)
LEMMA RulesHold ==
  ASSUME OutTyped, NEW l \in Loops, NEW asRead, NEW fact
  PROVE  LET v == O!Rules(l, asRead, fact) IN
         /\ v.next \in Nat
         /\ v.check = "agent" => O!Pending(l) = {} /\ ~O!Spent(asRead)
         /\ O!Pending(l) # {} => v.check \in O!HoldsWhenAsked \cup O!Masking
<1> DEFINE c == O!Checks(l, asRead, fact)
           first == CHOOSE i \in DOMAIN c : c[i].hit /\ \A j \in 1..(i - 1) : ~c[j].hit
           hits == {i \in 1..15 : c[i].hit}
<1>1. /\ DOMAIN c = 1..15 /\ c[15].hit
      /\ c[9].hit <=> O!Pending(l) # {}
      /\ c[11].hit <=> O!Spent(asRead)
      /\ \A i \in 1..14 : c[i].verdict.check # "agent"
      /\ \A i \in 1..9 : c[i].verdict.check \in O!HoldsWhenAsked \cup O!Masking
      /\ \A i \in 1..15 : c[i].verdict.next \in Nat
  BY ChecksInOrder
<1>2. O!Rules(l, asRead, fact) = c[first].verdict
  BY DEF O!Rules
<1> HIDE DEF c
<1>3. \E i \in DOMAIN c : c[i].hit /\ \A j \in 1..(i - 1) : ~c[j].hit
  <2>1. hits \in SUBSET Nat /\ hits # {}
    BY <1>1
  <2>2. PICK i \in hits : \A j \in hits : i <= j
    BY <2>1, Smallest
  <2>3. ASSUME NEW j \in 1..(i - 1) PROVE ~c[j].hit
    <3>1. j \in 1..15 /\ ~(i <= j)
      OBVIOUS
    <3> QED
      BY <2>2, <3>1
  <2> QED
    BY <1>1, <2>3
<1>4. first \in 1..15 /\ c[first].hit /\ \A j \in 1..(first - 1) : ~c[j].hit
  BY <1>1, <1>3
<1> HIDE DEF first
<1>5. ASSUME c[first].verdict.check = "agent" PROVE O!Pending(l) = {} /\ ~O!Spent(asRead)
  <2>1. first = 15
    BY <1>1, <1>4, <1>5
  <2> QED
    BY <1>1, <1>4, <2>1
<1>6. ASSUME O!Pending(l) # {} PROVE c[first].verdict.check \in O!HoldsWhenAsked \cup O!Masking
  <2>1. first \in 1..9
    BY <1>1, <1>4, <1>6
  <2> QED
    BY <1>1, <2>1
<1> QED
  BY <1>1, <1>2, <1>4, <1>5, <1>6

(* A step that leaves the nudges and the auto-send pass alone.             *)
LEMMA Aside ==
  ASSUME OutInv, OutTyped', UNCHANGED <<nudges, mail, auto, logged, autoSent>>,
         races \subseteq races', \A l \in Loops : loops'[l].count = loops[l].count, Alone', Looked'
  PROVE  OutInv'
<1>1. /\ \A l \in Loops : O!SentFor(l)' = O!SentFor(l) /\ O!Pending(l)' = O!Pending(l)
      /\ \A l \in Loops : OwnAccord(l)' = OwnAccord(l)
  BY DEF O!SentFor, O!Pending, OwnAccord
<1>2. Announced' /\ Within' /\ Logged' /\ BatchIsFit'
  BY <1>1 DEF OutInv, Announced, Within, Logged, BatchIsFit, O!Short
<1>3. O!OnePending'
  BY <1>1, OneCount DEF OutInv, O!OnePending, O!Short
<1>4. O!CountedOnce'
  <2>1. \A l \in Loops : {n \in O!SentFor(l)' : nudges'[n].counted}
                         = {n \in O!SentFor(l) : nudges[n].counted}
    BY <1>1
  <2> QED
    BY <1>1, <2>1, OneCount DEF OutInv, O!CountedOnce
<1> QED
  BY <1>2, <1>3, <1>4 DEF OutInv

(* What an evaluator saw stays so while it and the nudges do.              *)
LEMMA SeenStays ==
  ASSUME OutInv, NEW t \in O!Evaluators, nudges' = nudges, eval'[t] = eval[t], races \subseteq races'
  PROVE  LookedAt(t)' /\ AskedIsDrafted(t)'
<1>1. LookedAt(t) /\ AskedIsDrafted(t)
  BY DEF OutInv, Looked
<1>2. \A l : O!Pending(l)' = O!Pending(l) /\ O!SentFor(l)' = O!SentFor(l)
  BY DEF O!Pending, O!SentFor
<1> QED
  BY <1>1, <1>2 DEF LookedAt, AskedIsDrafted, O!Short

(* One evaluator goes on.                                                  *)
LEMMA Goes ==
  ASSUME OutInv, NEW t \in O!Evaluators, NEW new \in Evaluator,
         eval' = [eval EXCEPT ![t] = new], nudges' = nudges, races \subseteq races',
         O!Resting(t) /\ new.at # "idle" =>
             "overlap" \in races' \/ \A u \in O!Evaluators \ {t} : O!Resting(u),
         new.at \in {"agent", "draft"} => LookedAt(t)' /\ AskedIsDrafted(t)'
  PROVE  Alone' /\ Looked'
<1>1. eval'[t] = new /\ \A u \in O!Evaluators \ {t} : eval'[u] = eval[u]
  BY DEF OutInv, OutTyped
<1>2. Alone'
  BY <1>1 DEF OutInv, Alone, O!Short, O!Resting
<1>3. \A u \in O!Evaluators \ {t} : LookedAt(u)' /\ AskedIsDrafted(u)'
  BY <1>1, SeenStays
<1>4. LookedAt(t)' /\ AskedIsDrafted(t)'
  BY <1>1 DEF LookedAt, AskedIsDrafted
<1> QED
  BY <1>2, <1>3, <1>4 DEF Looked

LEMMA TurnIsEvaluator ==
  ASSUME OutTyped, NEW t \in O!Evaluators
  PROVE  O!Turn(t) \in Evaluator /\ O!Turn(t).at \in {"idle", "next"}
<1>1. O!Idle \in Evaluator
  BY PartConstants DEF O!OutreachConstants, O!Idle, O!NewRow, O!AnyLoop, O!Never, Evaluator, LoopRow
<1>2. eval[t] \in Evaluator
  BY DEF OutTyped
<1> QED
  BY <1>1, <1>2 DEF O!Turn, O!Idle, Evaluator

(* A decision changes a loop's row but not its count.                      *)
LEMMA Applied ==
  ASSUME OutTyped, NEW t, NEW l \in Loops, NEW v, v.next \in Nat, O!Apply(t, l, v)
  PROVE  /\ loops' \in [Loops -> LoopRow] /\ \A k \in Loops : loops'[k].count = loops[k].count
         /\ UNCHANGED <<today, nudges, mail, written, stored, auto, logged, autoSent>>
<1>1. PICK h \in O!HeardAfter(l, v) :
          loops' = [loops EXCEPT ![l] =
                        [loops[l] EXCEPT !.next = v.next, !.heard = h,
                                         !.escalated = \/ loops[l].escalated
                                                       \/ v.check = "escalate"]]
  BY DEF O!Apply
<1> DEFINE new == [loops[l] EXCEPT !.next = v.next, !.heard = h,
                                   !.escalated = \/ loops[l].escalated
                                                 \/ v.check = "escalate"]
<1>2. loops[l] \in LoopRow
  BY DEF OutTyped
<1>3. h \in Nat
  BY <1>2 DEF O!HeardAfter, OutTyped, LoopRow
<1>4. new \in LoopRow /\ new.count = loops[l].count
  BY <1>2, <1>3 DEF LoopRow
<1>5. loops' \in [Loops -> LoopRow] /\ \A k \in Loops : loops'[k].count = loops[k].count
  BY <1>1, <1>4 DEF OutTyped
<1> QED
  BY <1>5 DEF O!Apply

LEMMA EvaluateDueOut == ASSUME OutInv, NEW t \in O!Evaluators, O!EvaluateDue(t) PROVE OutInv'
<1> DEFINE new == [l \in Loops |-> O!Scheduled(l)]
           todo == O!DueLoops(new) \cap O!Undecided
           started == [O!Idle EXCEPT !.at = "next", !.todo = todo, !.rows = new]
<1>1. OutTyped
  BY DEF OutInv
<1>2. \A l \in Loops : O!Scheduled(l) \in LoopRow /\ O!Scheduled(l).count = loops[l].count
  <2> TAKE l \in Loops
  <2>1. loops[l] \in LoopRow
    BY <1>1 DEF OutTyped
  <2>2. O!LaterOf(O!Sight(CheckAfter), today) \in Nat
    BY <1>1, DaysAreDays DEF OutTyped
  <2> QED
    BY <2>1, <2>2 DEF O!Scheduled, LoopRow
<1>3. new \in [Loops -> LoopRow] /\ todo \in SUBSET Loops
  BY <1>2 DEF O!DueLoops
<1>4. loops' = new /\ UNCHANGED <<today, written, stored, nudges, mail, auto, logged, autoSent>>
  BY DEF O!EvaluateDue
<1>5. /\ O!Resting(t) /\ races' = races \cup O!If(\E u \in O!Evaluators : ~O!Resting(u), "overlap")
      /\ eval' = IF todo = {} THEN eval ELSE [eval EXCEPT ![t] = started]
  BY DEF O!EvaluateDue, O!Taint
<1> HIDE DEF new, todo
<1>6. started \in Evaluator /\ started.at = "next"
  <2>1. O!Idle \in Evaluator
    BY PartConstants DEF O!OutreachConstants, O!Idle, O!NewRow, O!AnyLoop, O!Never, Evaluator, LoopRow
  <2> QED
    BY <1>3, <2>1 DEF Evaluator
<1>7. OutTyped'
  BY <1>1, <1>3, <1>4, <1>5, <1>6 DEF OutTyped
<1>8. \A l \in Loops : loops'[l].count = loops[l].count
  BY <1>2, <1>4 DEF new
<1>9. Alone' /\ Looked'
  <2>1. CASE todo = {}
    <3>1. eval' = [eval EXCEPT ![t] = eval[t]]
      BY <1>1, <1>5, <2>1 DEF OutTyped
    <3>2. eval[t] \in Evaluator /\ eval[t].at = "idle"
      BY <1>1, <1>5 DEF OutTyped, O!Resting
    <3> QED
      BY <1>4, <1>5, <3>1, <3>2, Goes
  <2>2. CASE todo # {}
    <3>1. "overlap" \in races' \/ \A u \in O!Evaluators \ {t} : O!Resting(u)
      BY <1>5 DEF O!If
    <3> HIDE DEF started
    <3> QED
      BY <1>4, <1>5, <1>6, <2>2, <3>1, Goes
  <2> QED
    BY <2>1, <2>2
<1> QED
  BY <1>4, <1>5, <1>7, <1>8, <1>9, Aside

LEMMA EvaluateOneOut == ASSUME OutInv, NEW l \in Loops, O!EvaluateOne(l) PROVE OutInv'
<1> DEFINE started == [O!Idle EXCEPT !.at = "next", !.todo = {l}, !.rows = loops, !.asked = TRUE]
<1>1. OutTyped /\ Worker \in O!Evaluators
  BY DEF OutInv, O!Evaluators
<1>2. /\ UNCHANGED <<today, loops, written, stored, nudges, mail, auto, logged, autoSent>>
      /\ O!Resting(Worker) /\ races' = races \cup O!If(~O!Resting(Scheduler), "overlap")
      /\ eval' = [eval EXCEPT ![Worker] = started]
  BY DEF O!EvaluateOne, O!Taint
<1>3. started \in Evaluator /\ started.at = "next"
  <2>1. O!Idle \in Evaluator
    BY PartConstants DEF O!OutreachConstants, O!Idle, O!NewRow, O!AnyLoop, O!Never, Evaluator, LoopRow
  <2>2. loops \in [Loops -> LoopRow]
    BY <1>1 DEF OutTyped
  <2> QED
    BY <2>1, <2>2 DEF Evaluator
<1> HIDE DEF started
<1>4. OutTyped'
  BY <1>1, <1>2, <1>3 DEF OutTyped
<1>5. "overlap" \in races' \/ \A u \in O!Evaluators \ {Worker} : O!Resting(u)
  BY <1>2 DEF O!If, O!Evaluators
<1>6. Alone' /\ Looked'
  BY <1>1, <1>2, <1>3, <1>5, Goes
<1> QED
  BY <1>2, <1>4, <1>6, Aside

LEMMA EvaluateOut ==
  ASSUME OutInv, NEW t \in O!Evaluators, NEW l \in Loops, NEW fact, O!Evaluate(t, l, fact)
  PROVE  OutInv'
<1> DEFINE v == O!Rules(l, eval[t].rows[l], fact)
           rest == [eval[t] EXCEPT !.todo = @ \ {l}, !.loop = l]
           rule == IF eval[t].asked THEN v.check \in O!HoldsWhenAsked ELSE v.check # "agent"
           late == \E n \in O!SentFor(l) : ~nudges[n].counted
           masked == eval[t].asked /\ O!Pending(l) # {} /\ v.check \in O!Masking
           next == [rest EXCEPT !.at = IF rest.asked THEN "draft" ELSE "agent"]
<1>1. OutTyped /\ eval[t] \in Evaluator
  BY DEF OutInv, OutTyped
<1>2. /\ v.next \in Nat
      /\ v.check = "agent" => O!Pending(l) = {} /\ ~O!Spent(eval[t].rows[l])
      /\ O!Pending(l) # {} => v.check \in O!HoldsWhenAsked \cup O!Masking
  BY <1>1, RulesHold
<1>3. /\ eval[t].at = "next"
      /\ races' = races \cup (O!If(late, "late") \cup O!If(masked, "masked"))
  BY DEF O!Evaluate, O!Taint
<1>4. rest \in Evaluator /\ rest.at = "next" /\ rest.asked = eval[t].asked /\ rest.loop = l
      /\ rest.rows = eval[t].rows
  BY <1>1, <1>3 DEF Evaluator
<1>5. races \subseteq races' /\ ~O!Resting(t)
  BY <1>3 DEF O!Resting
<1>6. CASE rule
  <2>1. O!Apply(t, l, v) /\ eval' = [eval EXCEPT ![t] = IF rest.todo = {} THEN O!Idle ELSE rest]
    BY <1>6 DEF O!Evaluate
  <2>2. O!Idle \in Evaluator /\ O!Idle.at = "idle"
    BY PartConstants DEF O!OutreachConstants, O!Idle, O!NewRow, O!AnyLoop, O!Never, Evaluator, LoopRow
  <2>3. /\ loops' \in [Loops -> LoopRow] /\ \A k \in Loops : loops'[k].count = loops[k].count
        /\ UNCHANGED <<today, nudges, mail, written, stored, auto, logged, autoSent>>
    BY <1>1, <1>2, <2>1, Applied
  <2> DEFINE new == IF rest.todo = {} THEN O!Idle ELSE rest
  <2>4. new \in Evaluator /\ new.at \in {"idle", "next"} /\ eval' = [eval EXCEPT ![t] = new]
    BY <1>4, <2>1, <2>2
  <2> HIDE DEF new, rest, v, late, masked
  <2>5. OutTyped'
    BY <1>1, <2>3, <2>4 DEF OutTyped
  <2>6. Alone' /\ Looked'
    BY <1>5, <2>3, <2>4, Goes
  <2> QED
    BY <1>5, <2>3, <2>5, <2>6, Aside
<1>7. CASE ~rule
  <2>1. /\ UNCHANGED <<today, loops, nudges, mail, written, stored, auto, logged, autoSent>>
        /\ eval' = [eval EXCEPT ![t] = next]
    BY <1>7 DEF O!Evaluate
  <2>2. /\ next \in Evaluator /\ next.loop = l /\ next.asked = eval[t].asked
        /\ next.rows = eval[t].rows /\ next.at = IF eval[t].asked THEN "draft" ELSE "agent"
    BY <1>4 DEF Evaluator
  <2> HIDE DEF next, rest
  <2>3. eval'[t] = next
    BY <1>1, <2>1 DEF OutTyped
  <2>4. O!Pending(l)' = O!Pending(l) /\ O!SentFor(l)' = O!SentFor(l)
    BY <2>1 DEF O!Pending, O!SentFor
  <2>5. ASSUME eval[t].asked => O!Short({"masked"})' PROVE O!Pending(l) = {}
    <3>1. CASE ~eval[t].asked
      BY <1>2, <1>7, <3>1
    <3>2. CASE eval[t].asked
      <4>1. ~masked
        BY <1>3, <2>5, <3>2 DEF O!Short, O!If
      <4> QED
        BY <1>2, <1>7, <3>2, <4>1
    <3> QED
      BY <3>1, <3>2
  <2>6. ASSUME ~eval[t].asked, O!Short({"late"})'
        PROVE  eval[t].rows[l].count < Limit /\ \A n \in O!SentFor(l) : nudges[n].counted
    <3>1. ~late
      BY <1>3, <2>6 DEF O!Short, O!If
    <3>2. ~O!Spent(eval[t].rows[l])
      BY <1>2, <1>7, <2>6
    <3>3. eval[t].rows[l].count \in Nat
      BY <1>1 DEF Evaluator, LoopRow
    <3> QED
      BY <3>1, <3>2, <3>3, PartConstants DEF O!Spent, O!OutreachConstants
  <2> HIDE DEF v, late, masked
  <2>7. LookedAt(t)'
    <3>1. ASSUME eval[t].asked => O!Short({"masked"})' PROVE O!Pending(l)' = {}
      BY <2>4, <2>5, <3>1
    <3>2. ASSUME ~eval[t].asked, O!Short({"late"})'
          PROVE  eval[t].rows[l].count < Limit /\ \A n \in O!SentFor(l)' : nudges'[n].counted
      BY <2>1, <2>4, <2>6, <3>2
    <3> QED
      BY <2>2, <2>3, <3>1, <3>2 DEF LookedAt
  <2>8. AskedIsDrafted(t)'
    BY <2>2, <2>3 DEF AskedIsDrafted
  <2>9. OutTyped'
    BY <1>1, <2>1, <2>2 DEF OutTyped
  <2>10. Alone' /\ Looked'
    BY <1>5, <2>1, <2>2, <2>7, <2>8, Goes
  <2> QED
    BY <1>5, <2>1, <2>9, <2>10, Aside
<1> QED
  BY <1>6, <1>7

LEMMA AgentDecidesOut ==
  ASSUME OutInv, NEW t \in O!Evaluators, NEW check, O!AgentDecides(t, check) PROVE OutInv'
<1> DEFINE l == eval[t].loop
           v == [O!Verdict(check, IF check = "escalate" THEN O!Never ELSE O!NextAfter(today))
                    EXCEPT !.park = (check = "close_as_stale")]
<1>1. OutTyped /\ l \in Loops
  BY DEF OutInv, OutTyped, Evaluator
<1>2. v.next \in Nat
  BY <1>1, DaysAreDays DEF OutTyped, O!Verdict
<1>3. O!Apply(t, l, v) /\ eval' = [eval EXCEPT ![t] = O!Turn(t)] /\ races \subseteq races'
      /\ ~O!Resting(t)
  BY DEF O!AgentDecides, O!Done, O!Taint, O!Resting
<1> HIDE DEF l, v
<1>4. /\ loops' \in [Loops -> LoopRow] /\ \A k \in Loops : loops'[k].count = loops[k].count
      /\ UNCHANGED <<today, nudges, mail, written, stored, auto, logged, autoSent>>
  BY <1>1, <1>2, <1>3, Applied
<1>5. O!Turn(t) \in Evaluator /\ O!Turn(t).at \in {"idle", "next"}
  BY <1>1, TurnIsEvaluator
<1>6. OutTyped'
  BY <1>1, <1>3, <1>4, <1>5 DEF OutTyped
<1>7. Alone' /\ Looked'
  BY <1>3, <1>4, <1>5, Goes
<1> QED
  BY <1>3, <1>4, <1>6, <1>7, Aside

LEMMA AgentWantsNudgeOut ==
  ASSUME OutInv, NEW t \in O!Evaluators, O!AgentWantsNudge(t) PROVE OutInv'
<1> DEFINE new == [eval[t] EXCEPT !.at = "draft"]
<1>1. OutTyped /\ eval[t] \in Evaluator /\ eval[t].at = "agent"
  BY DEF OutInv, OutTyped, O!AgentWantsNudge
<1>2. /\ eval' = [eval EXCEPT ![t] = new]
      /\ UNCHANGED <<today, loops, nudges, mail, written, stored, auto, logged, autoSent, races>>
  BY DEF O!AgentWantsNudge
<1>3. /\ new \in Evaluator /\ new.at = "draft" /\ new.loop = eval[t].loop
      /\ new.asked = eval[t].asked /\ new.rows = eval[t].rows
  BY <1>1 DEF Evaluator
<1> HIDE DEF new
<1>4. eval'[t] = new /\ ~O!Resting(t)
  BY <1>1, <1>2 DEF OutTyped, O!Resting
<1>5. LookedAt(t) /\ \A l : O!Pending(l)' = O!Pending(l) /\ O!SentFor(l)' = O!SentFor(l)
  BY <1>2 DEF OutInv, Looked, O!Pending, O!SentFor
<1>6. LookedAt(t)' /\ AskedIsDrafted(t)'
  BY <1>1, <1>2, <1>3, <1>4, <1>5 DEF LookedAt, AskedIsDrafted, O!Short
<1>7. OutTyped'
  BY <1>1, <1>2, <1>3 DEF OutTyped
<1>8. Alone' /\ Looked'
  BY <1>2, <1>3, <1>4, <1>6, Goes
<1> QED
  BY <1>2, <1>7, <1>8, Aside

LEMMA DraftFailsOut == ASSUME OutInv, NEW t \in O!Evaluators, O!DraftFails(t) PROVE OutInv'
<1>1. OutTyped /\ eval[t].loop \in Loops /\ loops[eval[t].loop] \in LoopRow
  BY DEF OutInv, OutTyped, Evaluator
<1>2. /\ loops' = [loops EXCEPT ![eval[t].loop].next = O!NextAfter(today)]
      /\ eval' = [eval EXCEPT ![t] = O!Turn(t)] /\ ~O!Resting(t)
      /\ UNCHANGED <<today, nudges, mail, written, stored, auto, logged, autoSent, races>>
  BY DEF O!DraftFails, O!Done, O!Resting
<1>3. O!NextAfter(today) \in Nat
  BY <1>1, DaysAreDays DEF OutTyped
<1>4. loops' \in [Loops -> LoopRow] /\ \A k \in Loops : loops'[k].count = loops[k].count
  BY <1>1, <1>2, <1>3 DEF OutTyped, LoopRow
<1>5. O!Turn(t) \in Evaluator /\ O!Turn(t).at \in {"idle", "next"}
  BY <1>1, TurnIsEvaluator
<1>6. OutTyped'
  BY <1>1, <1>2, <1>4, <1>5 DEF OutTyped
<1>7. Alone' /\ Looked'
  BY <1>2, <1>5, Goes
<1> QED
  BY <1>2, <1>4, <1>6, <1>7, Aside

LEMMA DraftNudgeOut ==
  ASSUME OutInv, NEW t \in O!Evaluators, NEW n \in O!Nudges, O!DraftNudge(t, n) PROVE OutInv'
<1>0. PICK l \in Loops : l = eval[t].loop
  BY DEF OutInv, OutTyped, Evaluator
<1> DEFINE new == [O!Blank EXCEPT !.status = "drafted", !.loop = l, !.asked = eval[t].asked]
<1>1. OutTyped /\ eval[t] \in Evaluator /\ eval[t].asked \in BOOLEAN /\ loops[l] \in LoopRow
  BY DEF OutInv, OutTyped, Evaluator
<1>2. /\ eval[t].at = "draft" /\ ~O!Resting(t) /\ nudges[n].status = "none"
      /\ nudges' = [nudges EXCEPT ![n] = new]
      /\ loops' = [loops EXCEPT ![l].next = O!NextAfter(today)]
      /\ eval' = [eval EXCEPT ![t] = O!Turn(t)]
      /\ races' = races \cup O!If(loops[l] # eval[t].rows[l], "moved")
      /\ UNCHANGED <<today, written, stored, mail, auto, logged, autoSent>>
  <2>1. n \in O!Nudges /\ n >= n
    BY PartConstants DEF O!OutreachConstants, O!Nudges
  <2> QED
    BY <1>0, <2>1 DEF O!DraftNudge, O!Done, O!Taint, O!Moved, O!Resting
<1>3. new \in NudgeRow /\ new.status = "drafted" /\ new.loop = l /\ new.asked = eval[t].asked
      /\ ~new.counted
  <2>1. O!Blank \in NudgeRow
    BY PartConstants DEF O!OutreachConstants, O!Blank, O!AnyLoop, O!Never, NudgeRow, O!Statuses
  <2> QED
    BY <1>1, <2>1 DEF NudgeRow, O!Statuses, O!Blank
<1> HIDE DEF new
<1>4. nudges'[n] = new /\ \A m \in O!Nudges \ {n} : nudges'[m] = nudges[m]
  BY <1>1, <1>2 DEF OutTyped
<1>5. O!Turn(t) \in Evaluator /\ O!Turn(t).at \in {"idle", "next"} /\ eval'[t] = O!Turn(t)
      /\ \A u \in O!Evaluators \ {t} : eval'[u] = eval[u]
  BY <1>1, <1>2, TurnIsEvaluator DEF OutTyped
<1>6. loops' \in [Loops -> LoopRow] /\ \A k \in Loops : loops'[k].count = loops[k].count
  <2>1. O!NextAfter(today) \in Nat
    BY <1>1, DaysAreDays DEF OutTyped
  <2> QED
    BY <1>1, <1>2, <2>1 DEF OutTyped, LoopRow
<1>7. OutTyped'
  BY <1>1, <1>2, <1>3, <1>5, <1>6 DEF OutTyped
<1>8. \A k : O!SentFor(k)' = O!SentFor(k)
  BY <1>2, <1>3, <1>4 DEF O!SentFor
<1>9. O!Pending(l)' = O!Pending(l) \cup {n} /\ \A k : k # l => O!Pending(k)' = O!Pending(k)
  BY <1>2, <1>3, <1>4 DEF O!Pending
<1>10. /\ \A k : k # l => OwnAccord(k)' = OwnAccord(k)
       /\ OwnAccord(l)' = IF eval[t].asked THEN OwnAccord(l) ELSE OwnAccord(l) \cup {n}
  BY <1>2, <1>3, <1>4 DEF OwnAccord, Waiting
<1>11. races \subseteq races' /\ LookedAt(t)
  BY <1>2 DEF OutInv, Looked
<1>12. Alone'
  BY <1>2, <1>5, <1>11 DEF OutInv, Alone, O!Short, O!Resting
<1>13. Looked'
  <2>1. LookedAt(t)' /\ AskedIsDrafted(t)'
    BY <1>5 DEF LookedAt, AskedIsDrafted
  <2>2. ASSUME NEW u \in O!Evaluators \ {t} PROVE LookedAt(u)' /\ AskedIsDrafted(u)'
    <3>1. O!Short({"overlap"})' => eval'[u].at = "idle"
      BY <1>2, <1>5, <1>11 DEF OutInv, Alone, O!Short, O!Resting
    <3> QED
      BY <1>5, <3>1 DEF LookedAt, OutInv, Looked, AskedIsDrafted
  <2> QED
    BY <2>1, <2>2 DEF Looked
<1>14. O!OnePending'
  <2> SUFFICES ASSUME O!Short({"overlap", "masked"})', NEW k \in Loops
               PROVE  Cardinality(O!Pending(k)') <= 1
    BY OneCount DEF O!OnePending
  <2>1. O!Short({"overlap", "masked"}) /\ O!Short({"overlap"}) /\ O!Short({"masked"})
    BY <1>11 DEF O!Short
  <2>2. O!Pending(l) = {}
    BY <1>0, <1>2, <1>11, <2>1 DEF LookedAt
  <2>3. CASE k = l
    <3>1. O!Pending(l)' = {n}
      BY <1>9, <2>2
    <3>2. Cardinality({n}) = 1
      BY FS_Singleton
    <3> QED
      BY <2>3, <3>1, <3>2
  <2>4. CASE k # l
    BY <1>9, <2>1, <2>4, OneCount DEF OutInv, O!OnePending
  <2> QED
    BY <2>3, <2>4
<1>15. Within'
  <2> SUFFICES ASSUME O!Short({"overlap", "moved", "late"})', NEW k \in Loops
               PROVE  Cardinality(OwnAccord(k)') <= Limit
    BY DEF Within
  <2>1. /\ O!Short({"overlap", "moved", "late"}) /\ O!Short({"overlap"}) /\ O!Short({"late"})
        /\ loops[l] = eval[t].rows[l]
    BY <1>2, <1>11 DEF O!Short, O!If
  <2>2. Cardinality(OwnAccord(k)) <= Limit
    BY <2>1 DEF OutInv, Within
  <2>3. CASE k # l \/ eval[t].asked
    BY <1>10, <2>2, <2>3
  <2>4. CASE k = l /\ ~eval[t].asked
    <3>1. /\ O!Pending(l) = {} /\ loops[l].count < Limit
          /\ \A m \in O!SentFor(l) : nudges[m].counted
      BY <1>0, <1>2, <1>11, <2>1, <2>4 DEF LookedAt
    <3> DEFINE told == {m \in O!SentFor(l) : nudges[m].counted}
    <3>2. OwnAccord(l) \subseteq told /\ told \subseteq O!Nudges
      BY <3>1 DEF OwnAccord, O!Pending, O!SentFor, Waiting
    <3>3. loops[l].count = Cardinality(told)
      BY <1>1, OneCount DEF OutInv, O!CountedOnce
    <3> HIDE DEF told
    <3>4. /\ IsFiniteSet(OwnAccord(l)) /\ Cardinality(OwnAccord(l)) \in Nat
          /\ Cardinality(OwnAccord(l)) <= Cardinality(told) /\ Cardinality(told) \in Nat
      BY <3>2, Fewer
    <3>5. Cardinality(OwnAccord(l) \cup {n}) = IF n \in OwnAccord(l)
                                               THEN Cardinality(OwnAccord(l))
                                               ELSE Cardinality(OwnAccord(l)) + 1
      BY <3>4, FS_AddElement
    <3>6. /\ Cardinality(OwnAccord(l) \cup {n}) \in Nat
          /\ Cardinality(OwnAccord(l) \cup {n}) <= Cardinality(OwnAccord(l)) + 1
      BY <3>4, <3>5
    <3>7. Limit \in Nat
      BY PartConstants DEF O!OutreachConstants
    <3>8. Cardinality(OwnAccord(l) \cup {n}) <= Limit
      BY <3>1, <3>3, <3>4, <3>6, <3>7
    <3>9. OwnAccord(k)' = OwnAccord(l) \cup {n}
      BY <1>10, <2>4
    <3> QED
      BY <3>8, <3>9
  <2> QED
    BY <2>3, <2>4
<1>16. O!CountedOnce'
  <2>1. \A k \in Loops : {m \in O!SentFor(k)' : nudges'[m].counted}
                         = {m \in O!SentFor(k) : nudges[m].counted}
    BY <1>2, <1>4, <1>8 DEF O!SentFor
  <2>2. O!CountedOnce
    BY DEF OutInv
  <2>3. \A k \in Loops : loops'[k].count = Cardinality({m \in O!SentFor(k)' : nudges'[m].counted})
    BY <1>6, <2>1, <2>2, OneCount DEF O!CountedOnce
  <2>4. \A m \in O!Nudges : nudges'[m].counted => nudges'[m].status = "sent"
    BY <1>3, <1>4, <2>2, OneCount DEF O!CountedOnce
  <2>5. \A m \in O!Nudges : nudges'[m].status = "sent" /\ ~nudges'[m].counted => m \in mail'
    BY <1>2, <1>3, <1>4, <2>2, OneCount DEF O!CountedOnce
  <2> QED
    BY <2>3, <2>4, <2>5, OneCount DEF O!CountedOnce
<1>17. Announced' /\ Logged' /\ BatchIsFit'
  <2>1. auto.batch \subseteq O!Nudges \ {n}
    BY <1>1, <1>2 DEF OutInv, BatchIsFit, OutTyped
  <2>2. mail \subseteq O!Nudges \ {n}
    BY <1>1, <1>2 DEF OutInv, Announced, OutTyped
  <2> QED
    BY <1>2, <1>4, <1>11, <2>1, <2>2 DEF OutInv, Announced, Logged, BatchIsFit, O!Short
<1> QED
  BY <1>7, <1>12, <1>13, <1>14, <1>15, <1>16, <1>17 DEF OutInv

(* A nudge that waits is edited, discarded, or on its way out.             *)
LEMMA Moving ==
  ASSUME OutInv, NEW n \in O!Nudges, NEW new \in NudgeRow, nudges' = [nudges EXCEPT ![n] = new],
         nudges[n].status \in Waiting, new.status \in Waiting \cup {"sent", "rejected"},
         new.loop = nudges[n].loop, new.asked = nudges[n].asked, new.counted = nudges[n].counted,
         mail' = IF new.status = "sent" THEN mail \cup {n} ELSE mail,
         UNCHANGED <<today, loops, written, stored, eval>>, races \subseteq races',
         logged' \in Nat, autoSent' \in Nat, auto' \in [batch : SUBSET O!Nudges, sent : BOOLEAN]
  PROVE  /\ OutTyped' /\ Announced' /\ Alone' /\ Looked' /\ Within'
         /\ O!OnePending' /\ O!CountedOnce'
<1>1. OutTyped /\ O!CountedOnce
  BY DEF OutInv
<1>2. nudges'[n] = new /\ \A m \in O!Nudges \ {n} : nudges'[m] = nudges[m]
  BY <1>1 DEF OutTyped
<1>3. OutTyped'
  BY <1>1 DEF OutTyped
<1>4. ~nudges[n].counted /\ ~new.counted
  BY <1>1, OneCount DEF O!CountedOnce, Waiting
<1>5. Announced'
  BY <1>1, <1>2 DEF OutInv, Announced, OutTyped, Waiting
<1>6. \A k : O!Pending(k)' \subseteq O!Pending(k) /\ OwnAccord(k)' \subseteq OwnAccord(k)
  BY <1>2 DEF O!Pending, OwnAccord, Waiting
<1>7. \A k : O!SentFor(k)' \subseteq O!SentFor(k) \cup {n}
  BY <1>2 DEF O!SentFor
<1>8. \A k : n \in O!SentFor(k)' => n \in O!Pending(k)
  BY <1>2 DEF O!SentFor, O!Pending, Waiting
<1>9. Alone'
  BY DEF OutInv, Alone, O!Short, O!Resting
<1>10. Looked'
  <2> SUFFICES ASSUME NEW t \in O!Evaluators PROVE LookedAt(t)' /\ AskedIsDrafted(t)'
    BY DEF Looked
  <2>1. LookedAt(t) /\ AskedIsDrafted(t)
    BY DEF OutInv, Looked
  <2> DEFINE k == eval[t].loop
  <2>2. ASSUME eval[t].at \in {"agent", "draft"}, O!Short({"overlap"})',
               eval[t].asked => O!Short({"masked"})'
        PROVE  O!Pending(k)' = {}
    <3>1. O!Pending(k) = {}
      BY <2>1, <2>2 DEF LookedAt, O!Short
    <3> QED
      BY <1>6, <3>1
  <2>3. ASSUME eval[t].at \in {"agent", "draft"}, O!Short({"overlap"})',
               ~eval[t].asked, O!Short({"late"})'
        PROVE  eval[t].rows[k].count < Limit /\ \A m \in O!SentFor(k)' : nudges'[m].counted
    <3>1. /\ O!Pending(k) = {} /\ eval[t].rows[k].count < Limit
          /\ \A m \in O!SentFor(k) : nudges[m].counted
      BY <2>1, <2>3 DEF LookedAt, O!Short
    <3>2. O!SentFor(k)' \subseteq O!SentFor(k) \ {n}
      BY <1>7, <1>8, <3>1
    <3>3. O!SentFor(k) \subseteq O!Nudges
      BY DEF O!SentFor
    <3> QED
      BY <1>2, <3>1, <3>2, <3>3
  <2> QED
    BY <2>1, <2>2, <2>3 DEF LookedAt, AskedIsDrafted
<1>11. Within'
  <2> SUFFICES ASSUME O!Short({"overlap", "moved", "late"})', NEW k \in Loops
               PROVE  Cardinality(OwnAccord(k)') <= Limit
    BY DEF Within
  <2>1. Cardinality(OwnAccord(k)) <= Limit
    BY DEF OutInv, Within, O!Short
  <2>2. OwnAccord(k) \in SUBSET O!Nudges /\ OwnAccord(k)' \in SUBSET OwnAccord(k)
    BY <1>6 DEF OwnAccord
  <2>3. /\ Cardinality(OwnAccord(k)') <= Cardinality(OwnAccord(k))
        /\ Cardinality(OwnAccord(k)') \in Nat /\ Cardinality(OwnAccord(k)) \in Nat
    BY <2>2, Fewer
  <2> QED
    BY <2>1, <2>3, PartConstants DEF O!OutreachConstants
<1>12. O!OnePending'
  <2> SUFFICES ASSUME O!Short({"overlap", "masked"})', NEW k \in Loops
               PROVE  Cardinality(O!Pending(k)') <= 1
    BY OneCount DEF O!OnePending
  <2>1. Cardinality(O!Pending(k)) <= 1
    BY OneCount DEF OutInv, O!OnePending, O!Short
  <2>2. O!Pending(k) \in SUBSET O!Nudges /\ O!Pending(k)' \in SUBSET O!Pending(k)
    BY <1>6 DEF O!Pending
  <2>3. /\ Cardinality(O!Pending(k)') <= Cardinality(O!Pending(k))
        /\ Cardinality(O!Pending(k)') \in Nat /\ Cardinality(O!Pending(k)) \in Nat
    BY <2>2, Fewer
  <2> QED
    BY <2>1, <2>3
<1>13. O!CountedOnce'
  <2>1. \A k \in Loops : {m \in O!SentFor(k)' : nudges'[m].counted}
                         = {m \in O!SentFor(k) : nudges[m].counted}
    BY <1>2, <1>4 DEF O!SentFor
  <2>2. \A k \in Loops : loops'[k].count = Cardinality({m \in O!SentFor(k)' : nudges'[m].counted})
    BY <1>1, <2>1, OneCount DEF O!CountedOnce
  <2>3. \A m \in O!Nudges : nudges'[m].counted => nudges'[m].status = "sent"
    BY <1>1, <1>2, <1>4, OneCount DEF O!CountedOnce
  <2>4. \A m \in O!Nudges : nudges'[m].status = "sent" /\ ~nudges'[m].counted => m \in mail'
    BY <1>1, <1>2, OneCount DEF O!CountedOnce
  <2> QED
    BY <2>2, <2>3, <2>4, OneCount DEF O!CountedOnce
<1> QED
  BY <1>3, <1>5, <1>9, <1>10, <1>11, <1>12, <1>13

LEMMA Settled ==
  ASSUME OutInv, NEW n \in O!Nudges, NEW status \in O!Statuses
  PROVE  LET new == O!Outcome(n, status) IN
         /\ new \in NudgeRow /\ new.status = status /\ new.loop = nudges[n].loop
         /\ new.asked = nudges[n].asked /\ new.counted = nudges[n].counted /\ new.fit = nudges[n].fit
<1>1. nudges[n] \in NudgeRow /\ today \in Nat /\ O!Never \in Nat
  BY DaysAreDays DEF OutInv, OutTyped
<1>2. (IF status = "sent" THEN today ELSE O!Never) \in Nat
  BY <1>1
<1> QED
  BY <1>1, <1>2 DEF O!Outcome, NudgeRow

(* The buttons of a nudge, and a draft that ripens.                        *)
LEMMA AttemptOut ==
  ASSUME OutInv, NEW n \in O!Nudges, NEW from \in SUBSET Waiting,
         NEW to \in SUBSET (Waiting \cup {"sent"}), O!Attempt(n, from, to)
  PROVE  OutInv'
<1>1. PICK status \in to : /\ O!Touch(n, O!Outcome(n, status))
                           /\ mail' = IF status = "sent" THEN mail \cup {n} ELSE mail
  BY DEF O!Attempt
<1>2. nudges[n].status \in Waiting /\ status \in Waiting \cup {"sent"} /\ status \in O!Statuses
  BY DEF O!Attempt, Waiting, O!Statuses
<1> DEFINE new == O!Outcome(n, status)
<1>3. /\ new \in NudgeRow /\ new.status = status /\ new.loop = nudges[n].loop
      /\ new.asked = nudges[n].asked /\ new.counted = nudges[n].counted /\ new.fit = nudges[n].fit
  BY <1>2, Settled
<1>4. /\ nudges' = [nudges EXCEPT ![n] = new]
      /\ UNCHANGED <<today, loops, written, stored, eval, auto, logged, autoSent, races>>
  BY <1>1 DEF O!Touch
<1> HIDE DEF new
<1>5. OutTyped
  BY DEF OutInv
<1>6. /\ OutTyped' /\ Announced' /\ Alone' /\ Looked' /\ Within' /\ O!OnePending' /\ O!CountedOnce'
  <2>1. logged' \in Nat /\ autoSent' \in Nat /\ auto' \in [batch : SUBSET O!Nudges, sent : BOOLEAN]
    BY <1>4, <1>5 DEF OutTyped
  <2> QED
    BY <1>1, <1>2, <1>3, <1>4, <2>1, Moving
<1>7. Logged'
  BY <1>4 DEF OutInv, Logged, O!Short
<1>8. BatchIsFit'
  BY <1>2, <1>3, <1>4, <1>5 DEF OutInv, BatchIsFit, OutTyped, Waiting
<1> QED
  BY <1>6, <1>7, <1>8 DEF OutInv

LEMMA ReworkOut ==
  ASSUME OutInv, NEW n \in O!Nudges, NEW new \in NudgeRow, nudges' = [nudges EXCEPT ![n] = new],
         nudges[n].status \in Waiting, new.status \in {"drafted", "rejected"},
         new.loop = nudges[n].loop, new.asked = nudges[n].asked, new.counted = nudges[n].counted,
         new.fit \/ ~nudges[n].fit \/ n \notin auto.batch \/ "swapped" \in races',
         UNCHANGED <<today, loops, written, stored, eval, mail, auto, logged, autoSent>>,
         races \subseteq races', O!Short({"unlogged"})' => O!Short({"unlogged"})
  PROVE  OutInv'
<1>1. OutTyped
  BY DEF OutInv
<1>2. /\ OutTyped' /\ Announced' /\ Alone' /\ Looked' /\ Within' /\ O!OnePending' /\ O!CountedOnce'
  <2>1. logged' \in Nat /\ autoSent' \in Nat /\ auto' \in [batch : SUBSET O!Nudges, sent : BOOLEAN]
    BY <1>1 DEF OutTyped
  <2> QED
    BY <2>1, Moving DEF Waiting
<1>3. Logged'
  BY DEF OutInv, Logged
<1>4. BatchIsFit'
  <2>1. nudges'[n] = new /\ \A m \in O!Nudges \ {n} : nudges'[m] = nudges[m]
    BY <1>1 DEF OutTyped
  <2>2. auto.batch \subseteq O!Nudges
    BY <1>1 DEF OutTyped
  <2> QED
    BY <2>1, <2>2 DEF OutInv, BatchIsFit
<1> QED
  BY <1>2, <1>3, <1>4 DEF OutInv

LEMMA EditOut == ASSUME OutInv, NEW n \in O!Nudges, O!Edit(n) PROVE OutInv'
<1> DEFINE new == [nudges[n] EXCEPT !.status = "drafted", !.fit = FALSE]
<1>1. OutTyped /\ nudges[n] \in NudgeRow
  BY DEF OutInv, OutTyped
<1>2. /\ nudges' = [nudges EXCEPT ![n] = new] /\ nudges[n].status \in {"drafted", "failed"}
      /\ races' = races \cup O!If(n \in auto.batch, "swapped")
      /\ UNCHANGED <<today, loops, written, stored, eval, mail, auto, logged, autoSent>>
  <2>1. nudges' = [nudges EXCEPT ![n].status = "drafted", ![n].fit = FALSE]
    BY DEF O!Edit
  <2> QED
    BY <1>1, <2>1 DEF O!Edit, O!Taint, O!Unsent, OutTyped, NudgeRow
<1>3. /\ new \in NudgeRow /\ new.status = "drafted" /\ new.loop = nudges[n].loop
      /\ new.asked = nudges[n].asked /\ new.counted = nudges[n].counted
  BY <1>1 DEF NudgeRow, O!Statuses
<1> HIDE DEF new
<1>4. n \notin auto.batch \/ "swapped" \in races'
  BY <1>2 DEF O!If
<1>5. races \subseteq races' /\ (O!Short({"unlogged"})' => O!Short({"unlogged"}))
  BY <1>2 DEF O!Short
<1>6. nudges[n].status \in Waiting
  BY <1>2 DEF Waiting
<1> QED
  BY <1>2, <1>3, <1>4, <1>5, <1>6, ReworkOut

LEMMA DiscardOut == ASSUME OutInv, NEW n \in O!Nudges, O!Discard(n) PROVE OutInv'
<1> DEFINE new == [nudges[n] EXCEPT !.status = "rejected"]
<1>1. nudges[n] \in NudgeRow
  BY DEF OutInv, OutTyped
<1>2. /\ nudges' = [nudges EXCEPT ![n] = new] /\ nudges[n].status \in Waiting
      /\ UNCHANGED <<today, loops, written, stored, eval, mail, auto, logged, autoSent, races>>
  BY DEF O!Discard, O!Touch, O!Unsent, Waiting
<1>3. /\ new \in NudgeRow /\ new.status = "rejected" /\ new.loop = nudges[n].loop
      /\ new.asked = nudges[n].asked /\ new.counted = nudges[n].counted /\ new.fit = nudges[n].fit
  BY <1>1 DEF NudgeRow, O!Statuses
<1> HIDE DEF new
<1>4. new.fit \/ ~nudges[n].fit
  BY <1>1, <1>3 DEF NudgeRow
<1>5. races \subseteq races' /\ (O!Short({"unlogged"})' => O!Short({"unlogged"}))
  BY <1>2 DEF O!Short
<1> QED
  BY <1>2, <1>3, <1>4, <1>5, ReworkOut

LEMMA RipenOut == ASSUME OutInv, NEW n \in O!Nudges, O!Ripen(n) PROVE OutInv'
<1> DEFINE new == [nudges[n] EXCEPT !.fit = TRUE]
<1>1. nudges[n] \in NudgeRow
  BY DEF OutInv, OutTyped
<1>2. /\ nudges' = [nudges EXCEPT ![n] = new] /\ nudges[n].status = "drafted"
      /\ UNCHANGED <<today, loops, written, stored, eval, mail, auto, logged, autoSent, races>>
  BY DEF O!Ripen, O!Touch
<1>3. /\ new \in NudgeRow /\ new.status = "drafted" /\ new.loop = nudges[n].loop
      /\ new.asked = nudges[n].asked /\ new.counted = nudges[n].counted /\ new.fit
  BY <1>1, <1>2 DEF NudgeRow
<1> HIDE DEF new
<1>4. races \subseteq races' /\ (O!Short({"unlogged"})' => O!Short({"unlogged"}))
  BY <1>2 DEF O!Short
<1> QED
  BY <1>2, <1>3, <1>4, ReworkOut DEF Waiting

LEMMA CountSentOut ==
  ASSUME OutInv, NEW n \in O!Nudges, NEW again \in BOOLEAN, O!CountSent(n, again) PROVE OutInv'
<1>1. OutTyped /\ O!CountedOnce /\ nudges[n] \in NudgeRow /\ nudges[n].loop \in Loops
  BY DEF OutInv, OutTyped, NudgeRow
<1>2. /\ n \in mail /\ mail \ {n} \subseteq mail' /\ mail' \subseteq mail
      /\ UNCHANGED <<today, written, stored, eval, auto, logged, autoSent, races>>
  BY DEF O!CountSent
<1>3. nudges[n].status = "sent"
  BY <1>2 DEF OutInv, Announced
<1>4. CASE nudges[n].counted
  <2>1. UNCHANGED <<nudges, loops>>
    BY <1>4 DEF O!CountSent, O!Uncounted
  <2>2. OutTyped'
    BY <1>1, <1>2, <2>1 DEF OutTyped
  <2>3. \A l \in Loops : O!SentFor(l)' = O!SentFor(l) /\ O!Pending(l)' = O!Pending(l)
                         /\ OwnAccord(l)' = OwnAccord(l)
    BY <2>1 DEF O!SentFor, O!Pending, OwnAccord
  <2>4. Announced' /\ Within' /\ Logged' /\ BatchIsFit'
    BY <1>2, <2>1, <2>3 DEF OutInv, Announced, Within, Logged, BatchIsFit, O!Short
  <2>5. O!OnePending'
    BY <1>2, <2>3, OneCount DEF OutInv, O!OnePending, O!Short
  <2>6. Alone' /\ Looked'
    BY <1>2, <2>1, SeenStays DEF OutInv, Alone, Looked, O!Short, O!Resting
  <2>7. O!CountedOnce'
    <3>1. \A l \in Loops : {m \in O!SentFor(l)' : nudges'[m].counted}
                           = {m \in O!SentFor(l) : nudges[m].counted}
      BY <2>1, <2>3
    <3> QED
      BY <1>1, <1>2, <1>4, <2>1, <3>1, OneCount DEF O!CountedOnce
  <2> QED
    BY <2>2, <2>4, <2>5, <2>6, <2>7 DEF OutInv
<1>5. CASE ~nudges[n].counted
  <2> DEFINE l == nudges[n].loop
             new == [nudges[n] EXCEPT !.counted = TRUE]
             row1 == [loops[l] EXCEPT !.count = loops[l].count + 1, !.heard = written,
                                      !.next = O!NextAfter(today)]
  <2>1. loops[l] \in LoopRow /\ O!NextAfter(today) \in Nat /\ written \in Nat
    BY <1>1, DaysAreDays DEF OutTyped
  <2>2. nudges' = [nudges EXCEPT ![n] = new]
    <3>1. nudges' = [nudges EXCEPT ![n].counted = TRUE]
      BY <1>5 DEF O!CountSent, O!Uncounted
    <3> QED
      BY <1>1, <3>1 DEF OutTyped
  <2>3. loops' = [loops EXCEPT ![l] = row1]
    BY <1>5 DEF O!CountSent, O!Uncounted
  <2>4. /\ new \in NudgeRow /\ new.counted /\ new.status = "sent" /\ new.loop = l
        /\ new.asked = nudges[n].asked /\ new.fit = nudges[n].fit
    BY <1>1, <1>3 DEF NudgeRow
  <2>5. row1 \in LoopRow /\ row1.count = loops[l].count + 1
    <3>1. loops[l].count + 1 \in Nat
      BY <2>1 DEF LoopRow
    <3> QED
      BY <2>1, <3>1 DEF LoopRow
  <2> HIDE DEF new, row1
  <2>6. nudges'[n] = new /\ \A m \in O!Nudges \ {n} : nudges'[m] = nudges[m]
    BY <1>1, <2>2 DEF OutTyped
  <2>7. loops'[l] = row1 /\ \A k \in Loops \ {l} : loops'[k] = loops[k]
    BY <1>1, <2>3 DEF OutTyped
  <2>8. OutTyped'
    BY <1>1, <1>2, <2>2, <2>3, <2>4, <2>5 DEF OutTyped
  <2>9. \A k : O!SentFor(k)' = O!SentFor(k) /\ O!Pending(k)' = O!Pending(k)
               /\ OwnAccord(k)' = OwnAccord(k)
    BY <1>3, <2>4, <2>6 DEF O!SentFor, O!Pending, OwnAccord
  <2>10. Announced'
    BY <1>1, <1>2, <1>3, <2>4, <2>6 DEF OutInv, Announced, OutTyped
  <2>11. Within' /\ Logged'
    BY <1>2, <2>9 DEF OutInv, Within, Logged, O!Short
  <2>12. BatchIsFit'
    BY <1>1, <1>2, <1>3, <2>4, <2>6 DEF OutInv, BatchIsFit, OutTyped
  <2>13. O!OnePending' /\ Alone'
    BY <1>2, <2>9, OneCount DEF OutInv, O!OnePending, O!Short, Alone, O!Resting
  <2>14. Looked'
    <3> SUFFICES ASSUME NEW t \in O!Evaluators PROVE LookedAt(t)' /\ AskedIsDrafted(t)'
      BY DEF Looked
    <3>1. LookedAt(t) /\ AskedIsDrafted(t)
      BY DEF OutInv, Looked
    <3>2. \A k : O!SentFor(k) \subseteq O!Nudges
      BY DEF O!SentFor
    <3>3. \A k : (\A m \in O!SentFor(k) : nudges[m].counted)
                 => \A m \in O!SentFor(k)' : nudges'[m].counted
      BY <2>4, <2>6, <2>9, <3>2
    <3> QED
      BY <1>2, <2>9, <3>1, <3>3 DEF LookedAt, AskedIsDrafted, O!Short
  <2>15. O!CountedOnce'
    <3> DEFINE told(k) == {m \in O!SentFor(k) : nudges[m].counted}
               tells(k) == {m \in O!SentFor(k)' : nudges'[m].counted}
    <3>1. n \in O!SentFor(l) /\ n \notin told(l) /\ \A k : O!SentFor(k) \subseteq O!Nudges
      BY <1>3, <1>5 DEF O!SentFor
    <3>2. tells(l) = told(l) \cup {n}
      BY <2>4, <2>6, <2>9, <3>1
    <3>3. \A k \in Loops \ {l} : tells(k) = told(k)
      <4>1. \A k \in Loops \ {l} : n \notin O!SentFor(k)
        BY DEF O!SentFor
      <4> QED
        BY <2>6, <2>9, <3>1, <4>1
    <3>4. Cardinality(tells(l)) = Cardinality(told(l)) + 1
      <4>1. told(l) \in SUBSET O!Nudges
        BY <3>1
      <4> HIDE DEF told, tells
      <4>2. IsFiniteSet(told(l))
        BY <4>1, Fewer
      <4> QED
        BY <3>1, <3>2, <4>2, FS_AddElement
    <3>5. \A k \in Loops : loops[k].count = Cardinality(told(k))
      BY <1>1, OneCount DEF O!CountedOnce
    <3>6. \A k \in Loops : loops'[k].count = Cardinality(tells(k))
      <4> HIDE DEF told, tells
      <4> QED
        BY <1>1, <2>5, <2>7, <3>3, <3>4, <3>5
    <3>7. \A m \in O!Nudges : nudges'[m].counted => nudges'[m].status = "sent"
      BY <1>1, <2>4, <2>6, OneCount DEF O!CountedOnce
    <3>8. \A m \in O!Nudges : nudges'[m].status = "sent" /\ ~nudges'[m].counted => m \in mail'
      BY <1>1, <1>2, <2>4, <2>6, OneCount DEF O!CountedOnce
    <3> QED
      BY <3>6, <3>7, <3>8, OneCount DEF O!CountedOnce
  <2> QED
    BY <2>8, <2>10, <2>11, <2>12, <2>13, <2>14, <2>15 DEF OutInv
<1> QED
  BY <1>1, <1>4, <1>5

(* What touches nothing but loops, and what is proposed about them.        *)
LEMMA LoopsOnly ==
  ASSUME OutInv, loops' \in [Loops -> LoopRow], \A k \in Loops : loops'[k].count = loops[k].count,
         written' \in Nat, stored' \in Nat,
         UNCHANGED <<today, nudges, mail, eval, auto, logged, autoSent, races>>
  PROVE  OutInv'
<1>1. OutTyped'
  BY DEF OutInv, OutTyped
<1>2. Alone' /\ Looked'
  BY SeenStays DEF OutInv, Alone, Looked, O!Short, O!Resting
<1> QED
  BY <1>1, <1>2, Aside

LEMMA AnswerOut ==
  ASSUME OutInv, NEW l \in Loops, NEW row1 \in LoopRow, row1.count = loops[l].count, O!Answer(l, row1)
  PROVE  OutInv'
<1>1. /\ loops' = [loops EXCEPT ![l] = row1]
      /\ UNCHANGED <<today, written, stored, nudges, mail, eval, auto, logged, autoSent, races>>
  BY DEF O!Answer
<1>2. OutTyped
  BY DEF OutInv
<1>3. loops' \in [Loops -> LoopRow] /\ \A k \in Loops : loops'[k].count = loops[k].count
  BY <1>1, <1>2 DEF OutTyped
<1>4. written' \in Nat /\ stored' \in Nat
  BY <1>1, <1>2 DEF OutTyped
<1> QED
  BY <1>1, <1>3, <1>4, LoopsOnly

LEMMA SellerOut == ASSUME OutInv, O!Seller PROVE OutInv'
<1>1. OutTyped
  BY DEF OutInv
<1>2. ASSUME NEW l \in Loops, O!Snooze(l) PROVE OutInv'
  <2>1. PICK d \in (today + 1)..O!Never : O!Answer(l, [loops[l] EXCEPT !.next = d])
    BY <1>2 DEF O!Snooze
  <2>2. d \in Nat /\ loops[l] \in LoopRow
    BY <1>1, DaysAreDays DEF OutTyped
  <2>3. [loops[l] EXCEPT !.next = d] \in LoopRow /\ [loops[l] EXCEPT !.next = d].count = loops[l].count
    BY <2>2 DEF LoopRow
  <2> QED
    BY <2>1, <2>3, AnswerOut
<1>3. ASSUME NEW l \in Loops, O!StillOpen(l) PROVE OutInv'
  <2> DEFINE row1 == [loops[l] EXCEPT !.next = today, !.heard = written]
  <2>1. row1 \in LoopRow /\ row1.count = loops[l].count
    BY <1>1 DEF OutTyped, LoopRow
  <2> QED
    BY <1>3, <2>1, AnswerOut DEF O!StillOpen
<1>4. ASSUME NEW l \in Loops, O!Close(l) PROVE OutInv'
  <2> DEFINE row1 == [loops[l] EXCEPT !.open = FALSE]
  <2>1. row1 \in LoopRow /\ row1.count = loops[l].count
    BY <1>1 DEF OutTyped, LoopRow
  <2> QED
    BY <1>4, <2>1, AnswerOut DEF O!Close
<1>5. ASSUME NEW l \in Loops, O!RejectClosing(l) PROVE OutInv'
  BY <1>1, <1>5, LoopsOnly DEF O!RejectClosing, OutTyped
<1>6. ASSUME NEW n \in O!Nudges, O!SellerSends(n) PROVE OutInv'
  BY <1>6, AttemptOut DEF O!SellerSends, O!Unsent, Waiting
<1>7. ASSUME NEW n \in O!Nudges, O!Settle(n) PROVE OutInv'
  BY <1>7, AttemptOut DEF O!Settle, Waiting
<1> QED
  BY <1>2, <1>3, <1>4, <1>5, <1>6, <1>7, EvaluateOneOut, DiscardOut, EditOut DEF O!Seller

LEMMA HandlingOut == ASSUME OutInv, O!Handling PROVE OutInv'
<1>1. OutTyped
  BY DEF OutInv
<1>2. CASE O!Poll
  BY <1>1, <1>2, LoopsOnly DEF O!Poll, OutTyped
<1>3. ASSUME NEW r, NEW l \in Loops, NEW effect, O!Analyze(r, l, effect) PROVE OutInv'
  <2>1. loops[l] \in LoopRow
    BY <1>1 DEF OutTyped
  <2>2. loops' \in [Loops -> LoopRow] /\ \A k \in Loops : loops'[k].count = loops[k].count
    BY <1>1, <1>3, <2>1 DEF O!Analyze, OutTyped, LoopRow
  <2> QED
    BY <1>1, <1>3, <2>2, LoopsOnly DEF O!Analyze, OutTyped
<1> QED
  BY <1>2, <1>3, CountSentOut DEF O!Handling

(* The auto-send pass.                                                     *)
LEMMA AutoSendOut ==
  ASSUME OutInv, NEW n \in O!Nudges, NEW status \in {"sent", "sending", "failed"},
         O!AutoSend(n, status)
  PROVE  OutInv'
<1> DEFINE new == O!Outcome(n, status)
<1>1. OutTyped
  BY DEF OutInv
<1>2. /\ new \in NudgeRow /\ new.status = status /\ new.loop = nudges[n].loop
      /\ new.asked = nudges[n].asked /\ new.counted = nudges[n].counted /\ new.fit = nudges[n].fit
  BY Settled DEF O!Statuses
<1>3. /\ nudges' = [nudges EXCEPT ![n] = new] /\ nudges[n].status \in {"drafted", "failed"}
      /\ mail' = IF status = "sent" THEN mail \cup {n} ELSE mail
      /\ auto' = [batch |-> auto.batch \ {n}, sent |-> status = "sent"]
      /\ autoSent' = IF status = "sent" THEN autoSent + 1 ELSE autoSent
      /\ ~auto.sent /\ logged < Cap
      /\ UNCHANGED <<today, loops, written, stored, eval, logged, races>>
  BY DEF O!AutoSend, O!UnderCap, O!Unsent
<1> HIDE DEF new
<1>4. logged' \in Nat /\ autoSent' \in Nat /\ auto' \in [batch : SUBSET O!Nudges, sent : BOOLEAN]
  BY <1>1, <1>3 DEF OutTyped
<1>5. /\ OutTyped' /\ Announced' /\ Alone' /\ Looked' /\ Within' /\ O!OnePending' /\ O!CountedOnce'
  BY <1>2, <1>3, <1>4, Moving DEF Waiting
<1>6. Logged'
  <2>1. O!Short({"unlogged"})' => autoSent = logged
    BY <1>1, <1>3 DEF OutInv, Logged, O!Short, OutTyped
  <2>2. auto'.sent <=> status = "sent"
    BY <1>3
  <2>3. Cap \in Nat /\ logged \in Nat /\ autoSent \in Nat
    BY <1>1, PartConstants DEF O!OutreachConstants, OutTyped
  <2>4. CASE status = "sent"
    BY <1>3, <2>1, <2>2, <2>3, <2>4 DEF Logged
  <2>5. CASE status # "sent"
    BY <1>3, <2>1, <2>2, <2>3, <2>5 DEF Logged
  <2> QED
    BY <2>4, <2>5
<1>7. BatchIsFit'
  <2>1. auto'.batch = auto.batch \ {n} /\ auto.batch \subseteq O!Nudges
    BY <1>1, <1>3 DEF OutTyped
  <2>2. \A m \in O!Nudges \ {n} : nudges'[m] = nudges[m]
    BY <1>1, <1>3 DEF OutTyped
  <2> QED
    BY <1>3, <2>1, <2>2 DEF OutInv, BatchIsFit
<1> QED
  BY <1>5, <1>6, <1>7 DEF OutInv

LEMMA PassOut ==
  ASSUME OutInv, auto' \in [batch : SUBSET O!Nudges, sent : BOOLEAN], logged' \in Nat,
         UNCHANGED <<today, loops, written, stored, nudges, mail, eval, autoSent, races>>,
         Logged', BatchIsFit'
  PROVE  OutInv'
<1>1. OutTyped'
  BY DEF OutInv, OutTyped
<1>2. Alone' /\ Looked'
  BY SeenStays DEF OutInv, Alone, Looked, O!Short, O!Resting
<1>3. \A l \in Loops : O!SentFor(l)' = O!SentFor(l) /\ O!Pending(l)' = O!Pending(l)
                       /\ OwnAccord(l)' = OwnAccord(l)
  BY DEF O!SentFor, O!Pending, OwnAccord
<1>4. Announced' /\ Within' /\ O!OnePending'
  BY <1>3, OneCount DEF OutInv, Announced, Within, O!OnePending, O!Short
<1>5. O!CountedOnce'
  <2>1. \A k \in Loops : {m \in O!SentFor(k)' : nudges'[m].counted}
                         = {m \in O!SentFor(k) : nudges[m].counted}
    BY <1>3
  <2> QED
    BY <2>1, OneCount DEF OutInv, O!CountedOnce
<1> QED
  BY <1>1, <1>2, <1>4, <1>5 DEF OutInv

LEMMA AutoSendingOut == ASSUME OutInv, O!AutoSending PROVE OutInv'
<1>1. OutTyped /\ Logged /\ BatchIsFit
  BY DEF OutInv
<1>2. CASE O!PassStarts
  <2>1. auto' = [auto EXCEPT !.batch = {n \in O!Nudges : O!ChecksOut(n)}]
        /\ UNCHANGED <<today, loops, written, stored, nudges, mail, eval, logged, autoSent, races>>
    BY <1>2 DEF O!PassStarts
  <2>2. auto'.batch = {n \in O!Nudges : O!ChecksOut(n)} /\ auto'.sent = auto.sent
        /\ auto' \in [batch : SUBSET O!Nudges, sent : BOOLEAN]
    BY <1>1, <2>1 DEF OutTyped
  <2>3. Logged' /\ BatchIsFit'
    BY <1>1, <2>1, <2>2 DEF Logged, BatchIsFit, O!ChecksOut, O!Short
  <2>4. logged' \in Nat
    BY <1>1, <2>1 DEF OutTyped
  <2> QED
    BY <2>1, <2>2, <2>3, <2>4, PassOut
<1>3. CASE O!Refuse
  <2>1. auto' = [auto EXCEPT !.batch = auto.batch \ {O!First(auto.batch)}]
        /\ UNCHANGED <<today, loops, written, stored, nudges, mail, eval, logged, autoSent, races>>
    BY <1>3 DEF O!Refuse
  <2>2. auto'.batch \subseteq auto.batch /\ auto'.sent = auto.sent
        /\ auto' \in [batch : SUBSET O!Nudges, sent : BOOLEAN]
    BY <1>1, <2>1 DEF OutTyped
  <2>3. Logged' /\ BatchIsFit'
    BY <1>1, <2>1, <2>2 DEF Logged, BatchIsFit, O!Short
  <2>4. logged' \in Nat
    BY <1>1, <2>1 DEF OutTyped
  <2> QED
    BY <2>1, <2>2, <2>3, <2>4, PassOut
<1>4. CASE O!LogSent
  <2>1. auto' = [auto EXCEPT !.sent = FALSE] /\ auto.sent /\ logged' = logged + 1
        /\ UNCHANGED <<today, loops, written, stored, nudges, mail, eval, autoSent, races>>
    BY <1>4 DEF O!LogSent
  <2>2. auto'.batch = auto.batch /\ ~auto'.sent /\ logged \in Nat /\ logged' \in Nat
        /\ auto' \in [batch : SUBSET O!Nudges, sent : BOOLEAN]
    <3>1. auto \in [batch : SUBSET O!Nudges, sent : BOOLEAN] /\ logged \in Nat
      BY <1>1 DEF OutTyped
    <3>2. logged' \in Nat
      BY <2>1, <3>1
    <3>3. auto' = [batch |-> auto.batch, sent |-> FALSE]
      BY <2>1, <3>1
    <3> QED
      BY <3>1, <3>2, <3>3
  <2>3. Logged' /\ BatchIsFit'
    BY <1>1, <2>1, <2>2 DEF Logged, BatchIsFit, O!Short
  <2> QED
    BY <2>1, <2>2, <2>3, PassOut
<1> QED
  BY <1>2, <1>3, <1>4, AutoSendOut DEF O!AutoSending

LEMMA DiesOut == ASSUME OutInv, O!Dies PROVE OutInv'
<1>1. OutTyped /\ Logged
  BY DEF OutInv
<1>2. /\ eval' = [t \in O!Evaluators |-> O!Idle] /\ auto' = [batch |-> {}, sent |-> FALSE]
      /\ races' = races \cup O!If(auto.sent, "unlogged")
      /\ UNCHANGED <<today, loops, written, stored, nudges, mail, logged, autoSent>>
  BY DEF O!Dies, O!Taint
<1>3. O!Idle \in Evaluator /\ O!Idle.at = "idle"
  BY PartConstants DEF O!OutreachConstants, O!Idle, O!NewRow, O!AnyLoop, O!Never, Evaluator, LoopRow
<1>4. OutTyped'
  BY <1>1, <1>2, <1>3 DEF OutTyped
<1>5. Alone' /\ Looked' /\ BatchIsFit'
  BY <1>2, <1>3 DEF Alone, Looked, LookedAt, AskedIsDrafted, O!Resting, BatchIsFit
<1>6. Logged'
  <2>1. O!Short({"unlogged"})' => O!Short({"unlogged"}) /\ ~auto.sent
    BY <1>2 DEF O!Short, O!If
  <2>2. ~auto'.sent
    BY <1>2
  <2> QED
    BY <1>1, <1>2, <2>1, <2>2 DEF Logged
<1>7. \A l \in Loops : O!SentFor(l)' = O!SentFor(l) /\ O!Pending(l)' = O!Pending(l)
                       /\ OwnAccord(l)' = OwnAccord(l)
  BY <1>2 DEF O!SentFor, O!Pending, OwnAccord
<1>8. Announced' /\ Within' /\ O!OnePending'
  BY <1>2, <1>7, OneCount DEF OutInv, Announced, Within, O!OnePending, O!Short
<1>9. O!CountedOnce'
  <2>1. \A k \in Loops : {m \in O!SentFor(k)' : nudges'[m].counted}
                         = {m \in O!SentFor(k) : nudges[m].counted}
    BY <1>2, <1>7
  <2> QED
    BY <1>2, <2>1, OneCount DEF OutInv, O!CountedOnce
<1> QED
  BY <1>4, <1>5, <1>6, <1>8, <1>9 DEF OutInv

LEMMA NextDayOut == ASSUME OutInv, O!NextDay PROVE OutInv'
<1>1. /\ today' = today + 1 /\ logged' = 0 /\ autoSent' = 0 /\ ~auto.sent
      /\ UNCHANGED <<loops, written, stored, nudges, mail, eval, auto, races>>
  BY DEF O!NextDay
<1>2. OutTyped'
  BY <1>1 DEF OutInv, OutTyped
<1>3. Alone' /\ Looked'
  BY <1>1, SeenStays DEF OutInv, Alone, Looked, O!Short, O!Resting
<1>4. Logged' /\ BatchIsFit'
  BY <1>1, PartConstants DEF OutInv, Logged, BatchIsFit, O!OutreachConstants
<1>5. \A l \in Loops : O!SentFor(l)' = O!SentFor(l) /\ O!Pending(l)' = O!Pending(l)
                       /\ OwnAccord(l)' = OwnAccord(l)
  BY <1>1 DEF O!SentFor, O!Pending, OwnAccord
<1>6. Announced' /\ Within' /\ O!OnePending'
  BY <1>1, <1>5, OneCount DEF OutInv, Announced, Within, O!OnePending, O!Short
<1>7. O!CountedOnce'
  <2>1. \A k \in Loops : {m \in O!SentFor(k)' : nudges'[m].counted}
                         = {m \in O!SentFor(k) : nudges[m].counted}
    BY <1>1, <1>5
  <2> QED
    BY <1>1, <2>1, OneCount DEF OutInv, O!CountedOnce
<1> QED
  BY <1>2, <1>3, <1>4, <1>6, <1>7 DEF OutInv

LEMMA StepOutInv == OutInv /\ [O!Next]_(O!vars) => OutInv'
<1> SUFFICES ASSUME OutInv, [O!Next]_(O!vars) PROVE OutInv'
  OBVIOUS
<1>1. ASSUME NEW t \in O!Evaluators, O!Evaluation(t) PROVE OutInv'
  BY <1>1, EvaluateDueOut, EvaluateOut, AgentDecidesOut, AgentWantsNudgeOut, DraftNudgeOut,
     DraftFailsOut DEF O!Evaluation
<1>2. CASE O!BuyerWrites
  BY <1>2, LoopsOnly DEF O!BuyerWrites, OutInv, OutTyped
<1>3. CASE UNCHANGED O!vars
  BY <1>3, LoopsOnly DEF O!vars, OutInv, OutTyped
<1> QED
  BY <1>1, <1>2, <1>3, SellerOut, HandlingOut, AutoSendingOut, RipenOut, DiesOut, NextDayOut
     DEF O!Next

(* One nudge of a loop waits at a time, every follow-up that went out is   *)
(* counted once, and neither the loop's limit nor the day's cap is passed, *)
(* but for the races each names.                                           *)
THEOREM LimitsAreKept == BothSpec => []KeepsLimits
<1> DEFINE Inv == part = "outreach" => OutInv
           all == <<part, vars, ovars>>
<1>1. BothInit => Inv
  BY InitOutInv DEF BothInit
<1>2. Inv /\ [BothNext]_all => Inv'
  <2> SUFFICES ASSUME Inv, [BothNext]_all, part' = "outreach" PROVE OutInv'
    OBVIOUS
  <2>1. part = "outreach" /\ [O!Next]_(O!vars)
    BY DEF BothNext, ovars, O!vars
  <2> QED
    BY <2>1, StepOutInv
<1>3. Inv => KeepsLimits
  <2> SUFFICES ASSUME OutInv PROVE O!OnePending /\ O!CountedOnce /\ O!LimitHolds /\ O!CapHolds
    BY DEF KeepsLimits
  <2>1. O!LimitHolds
    <3> SUFFICES ASSUME O!Short({"overlap", "moved", "late"}), NEW l \in Loops
                 PROVE  Cardinality({n \in O!SentFor(l) : ~nudges[n].asked}) <= Limit
      BY OneCount DEF O!LimitHolds
    <3> DEFINE own == {n \in O!SentFor(l) : ~nudges[n].asked}
    <3>1. own \in SUBSET OwnAccord(l) /\ OwnAccord(l) \in SUBSET O!Nudges
      BY DEF O!SentFor, OwnAccord
    <3>2. Cardinality(OwnAccord(l)) <= Limit
      BY DEF OutInv, Within
    <3> HIDE DEF own
    <3>3. Cardinality(own) <= Cardinality(OwnAccord(l)) /\ Cardinality(own) \in Nat
          /\ Cardinality(OwnAccord(l)) \in Nat
      BY <3>1, Fewer
    <3>4. Cardinality(own) <= Limit
      BY <3>2, <3>3, PartConstants DEF O!OutreachConstants
    <3> QED
      BY <3>4 DEF own
  <2>2. O!CapHolds
    BY DEF OutInv, Logged, O!CapHolds
  <2> QED
    BY <2>1, <2>2 DEF OutInv
<1> QED
  BY <1>1, <1>2, <1>3, PTL DEF BothSpec

(* What goes out without a click was held and is low risk as it goes out,  *)
(* unless it was edited after the pass had read it.                        *)
THEOREM AutoSendsAreHeld == BothSpec => AutoSendsHeld
<1> DEFINE Inv == /\ part = "outreach" => OutInv
                  /\ part # "outreach" => autoSent = 0
           all == <<part, vars, ovars>>
           Held == autoSent' > autoSent =>
                      "swapped" \in races' \/
                      \A n \in O!Nudges : nudges'[n].status = "sent" /\ nudges[n].status # "sent" =>
                          nudges[n].fit
<1>1. BothInit => Inv
  BY InitOutInv DEF BothInit
<1>2. Inv /\ [BothNext]_all => Inv'
  <2> SUFFICES ASSUME Inv, [BothNext]_all PROVE Inv'
    OBVIOUS
  <2>1. CASE part' = "outreach"
    <3>1. part = "outreach" /\ [O!Next]_(O!vars)
      BY <2>1 DEF BothNext, ovars, O!vars
    <3> QED
      BY <2>1, <3>1, StepOutInv
  <2>2. CASE part' # "outreach"
    BY <2>2 DEF BothNext, ovars
  <2> QED
    BY <2>1, <2>2
<1>3. Inv /\ [BothNext]_all => [Held]_(O!vars)
  <2> SUFFICES ASSUME Inv, [BothNext]_all, autoSent' > autoSent, "swapped" \notin races',
                      NEW m \in O!Nudges, nudges'[m].status = "sent", nudges[m].status # "sent"
               PROVE  nudges[m].fit
    OBVIOUS
  <2>1. part = "outreach" /\ O!Next /\ OutInv /\ OutTyped
    <3>1. autoSent' # autoSent
      <4>1. autoSent \in Nat
        BY DEF OutInv, OutTyped, BothNext
      <4> QED
        BY <4>1
    <3> QED
      BY <3>1 DEF BothNext, ovars, OutInv
  <2>2. PICK n \in O!Nudges : O!AutoSend(n, "sent")
    <3>1. autoSent' # autoSent /\ autoSent \in Nat
      BY <2>1 DEF OutTyped
    <3>2. ~O!Dies /\ ~O!BuyerWrites /\ \A n \in O!Nudges : ~O!Ripen(n)
      BY <3>1 DEF O!Dies, O!BuyerWrites, O!Ripen, O!Touch
    <3>3. ~O!NextDay
      BY <3>1 DEF O!NextDay
    <3>4. ~O!Seller
      BY <3>1 DEF O!Seller, O!EvaluateOne, O!Snooze, O!StillOpen, O!Close, O!Answer,
         O!RejectClosing, O!SellerSends, O!Settle, O!Attempt, O!Touch, O!Edit, O!Discard
    <3>5. ~O!Handling
      BY <3>1 DEF O!Handling, O!CountSent, O!Poll, O!Analyze
    <3>6. ASSUME NEW t \in O!Evaluators PROVE ~O!Evaluation(t)
      <4>1. \A l \in Loops, fact \in Facts : ~O!Evaluate(t, l, fact)
        BY <3>1 DEF O!Evaluate, O!Apply
      <4>2. \A check : ~O!AgentDecides(t, check)
        BY <3>1 DEF O!AgentDecides, O!Apply
      <4>3. ~O!EvaluateDue(t) /\ ~O!AgentWantsNudge(t) /\ ~O!DraftFails(t)
        BY <3>1 DEF O!EvaluateDue, O!AgentWantsNudge, O!DraftFails
      <4>4. \A m0 \in O!Nudges : ~O!DraftNudge(t, m0)
        BY <3>1 DEF O!DraftNudge
      <4> QED
        BY <4>1, <4>2, <4>3, <4>4 DEF O!Evaluation
    <3>7. O!AutoSending
      BY <2>1, <3>2, <3>3, <3>4, <3>5, <3>6 DEF O!Next
    <3>8. ~O!PassStarts /\ ~O!Refuse /\ ~O!LogSent
      BY <3>1 DEF O!PassStarts, O!Refuse, O!LogSent
    <3> QED
      BY <3>1, <3>7, <3>8 DEF O!AutoSending, O!AutoSend
  <2>3. n \in auto.batch
    <3>1. auto.batch \in SUBSET Nat /\ auto.batch # {} /\ n = O!First(auto.batch)
      BY <2>1, <2>2, PartConstants DEF O!AutoSend, OutTyped, O!Nudges, O!OutreachConstants
    <3>2. \E x \in auto.batch : \A y \in auto.batch : x <= y
      BY <3>1, Smallest
    <3> QED
      BY <3>1, <3>2 DEF O!First
  <2>4. m = n /\ races' = races
    BY <2>1, <2>2 DEF O!AutoSend, OutTyped
  <2> QED
    BY <2>1, <2>3, <2>4 DEF OutInv, BatchIsFit
<1> QED
  BY <1>1, <1>2, <1>3, PTL DEF BothSpec, AutoSendsHeld, O!AutoSendsHeld
=============================================================================
