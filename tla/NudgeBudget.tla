------------------------------ MODULE NudgeBudget ------------------------------
(***************************************************************************)
(* What config/live_coach.yaml promises the seller about the screen during *)
(* a call, and nothing of how the coach keeps it: at most one nudge is up  *)
(* at a time, a pause lies between two of them, an objection may come      *)
(* sooner, and a session shows only so many.  LiveCoach implements it.     *)
(***************************************************************************)
EXTENDS Integers, Sequences

CONSTANTS
    Triggers, Objection,
    Display,            \* budget.display_s
    Cooldown,           \* budget.cooldown_s
    ObjectionGap,       \* budget.objection_min_gap_s
    Warmup,             \* budget.warmup_s, of which an objection is exempt
    MaxPerCall          \* budget.max_per_call

BudgetConstants ==
    /\ {Display, Cooldown, ObjectionGap, Warmup, MaxPerCall} \subseteq Nat
    /\ Objection \in Triggers

VARIABLES
    now,
    screen,         \* the nudges this session has put up, oldest first
    dismissed       \* those the seller has waved away, as positions in screen

vars == <<now, screen, dismissed>>

Init == now = 0 /\ screen = <<>> /\ dismissed = {}

Last == screen[Len(screen)]
Up == {i \in DOMAIN screen : i \notin dismissed /\ now < screen[i].at + Display}
Gap(t) == IF t = Objection THEN ObjectionGap ELSE Cooldown

Show(t) ==
    /\ Len(screen) < MaxPerCall
    /\ Up = {}
    /\ screen # <<>> => now - Last.at >= Gap(t)
    /\ now >= Warmup \/ t = Objection
    /\ screen' = Append(screen, [trigger |-> t, at |-> now])
    /\ UNCHANGED <<now, dismissed>>

Dismiss(i) ==
    /\ i \in DOMAIN screen
    /\ dismissed' = dismissed \cup {i}
    /\ UNCHANGED <<now, screen>>

Pass ==
    /\ now' > now
    /\ UNCHANGED <<screen, dismissed>>

(* The coach attaches again, to the same call or to another.               *)
NewSession ==
    /\ screen' = <<>> /\ dismissed' = {}
    /\ UNCHANGED now

Next == \/ \E t \in Triggers : Show(t)
        \/ \E i \in DOMAIN screen : Dismiss(i)
        \/ Pass \/ NewSession

Spec == Init /\ [][Next]_vars
=============================================================================
