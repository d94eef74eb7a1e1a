------------------------------ MODULE OneDelivery ------------------------------
(***************************************************************************)
(* What execution/policy.py promises the seller about one email, and       *)
(* nothing of how it keeps it: no threads, no Gmail calls, no crashes.     *)
(* The page offers an email, or says that nobody knows yet, that it is in  *)
(* Gmail Drafts, that it was sent or rejected; of copies the buyer gets    *)
(* one, with the content the seller approved.  EmailSend implements it     *)
(* until a race that the code accepts has happened.                        *)
(***************************************************************************)
CONSTANTS Bodies, FirstBody, Calls

VARIABLES
    says,       \* what the page says of the email
    text,       \* the content it shows
    asked,      \* what the seller approved last, and for Send or Drafts
    granted,    \* everything he approved so far
    reached     \* the copies the buyer has got

vars == <<says, text, asked, granted, reached>>

Nothing == [mode |-> "none", body |-> FirstBody]

Init ==
    /\ says = "open" /\ text = FirstBody /\ asked = Nothing
    /\ granted = {} /\ reached = {}

(* "one approved email": Send or Save to Drafts of what the page shows.    *)
Approve(mode) ==
    /\ says = "open"
    /\ says' = "unknown"
    /\ asked' = [mode |-> mode, body |-> text]
    /\ granted' = granted \cup {asked'}
    /\ UNCHANGED <<text, reached>>

(* "exactly once": a copy with that content, while nothing else is said.   *)
Reach(c) ==
    /\ says = "unknown" /\ asked.mode = "send"
    /\ reached = {}
    /\ reached' = {[call |-> c, body |-> asked.body]}
    /\ UNCHANGED <<says, text, asked, granted>>

(* The seller sends a copy that was saved, from Gmail.                     *)
ReachByHand(c, body) ==
    /\ says = "saved"
    /\ [mode |-> "draft", body |-> body] \in granted
    /\ reached = {}
    /\ reached' = {[call |-> c, body |-> body]}
    /\ UNCHANGED <<says, text, asked, granted>>

(* The page says "sent" of what the buyer has, "saved" of what was to be   *)
(* saved, and offers again what he has not got.                            *)
Confirmed(word) ==
    /\ \/ says \in {"unknown", "saved"} /\ word = "sent" /\ reached # {}
       \/ says = "unknown" /\ word = "saved" /\ asked.mode = "draft"
       \/ says = "unknown" /\ word = "open" /\ reached = {}
       \/ says = "open" /\ word = "rejected"
    /\ says' = word
    /\ UNCHANGED <<text, asked, granted, reached>>

(* "only a draft can be edited".                                           *)
Edit(body) ==
    /\ says = "open"
    /\ text' = body
    /\ UNCHANGED <<says, asked, granted, reached>>

Next ==
    \/ \E mode \in {"send", "draft"} : Approve(mode)
    \/ \E c \in Calls : Reach(c) \/ \E body \in Bodies : ReachByHand(c, body)
    \/ \E word \in {"open", "saved", "sent", "rejected"} : Confirmed(word)
    \/ \E body \in Bodies : Edit(body)

Spec == Init /\ [][Next]_vars
=============================================================================
