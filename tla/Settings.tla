-------------------------------- MODULE Settings --------------------------------
(***************************************************************************)
(* The model choice (salescoach/config.py, providers/__init__.py,          *)
(* providers/setup.py, setupui/web.py, setupui/state.py): a settings file  *)
(* that forms save and the seller edits by hand, the keys beside it, the   *)
(* connection test, and what the pages say of them.                        *)
(*                                                                         *)
(* models.yaml stands for all settings files: config.load, load_user and   *)
(* save_user treat them alike.  A form reads and saves in one step; a      *)
(* connection test takes time.                                             *)
(***************************************************************************)
EXTENDS Integers, FiniteSets

CONSTANTS
    Providers, Default,     \* the catalog, and the provider of the tracked file
    NeedsKey, Editable, Preset,     \* those that need a key, whose address is
                                    \* typed, whose models the tracked file names
    Hosts,
    MaxClicks, MaxEdits     \* bounds

SettingsConstants ==
    /\ Default \in Providers /\ NeedsKey \cup Editable \cup Preset \subseteq Providers
    /\ "none" \notin Providers      \* which stands for no provider
    /\ MaxClicks \in Nat /\ MaxEdits \in Nat

None == "none"
Tiers == {"heavy", "light"}

VARIABLES
    file,       \* the seller's models.yaml
    kept,       \* its unreadable versions that were set aside
    keys,       \* providers whose key is stored
    keyHost,    \* setup:key_host: of each provider
    cli,        \* is the Claude CLI installed
    testing,    \* connection tests under way: provider, address, can they pass
    test,       \* setup:provider_test: the last one's provider and outcome
    dismissed,  \* setup:card_dismissed
    clicks, edits,  \* so far: bounds
    hand,       \* history: the last thing the seller wrote by hand
    tested,     \* history: what the last test asked
    good        \* history: was the card gone, for all being well, since it was dismissed

vars == <<file, kept, keys, keyHost, cli, testing, test, dismissed, clicks, edits, hand, tested, good>>

Blank == [p \in Providers |-> [url |-> None, tiers |-> {}]]
Nothing == [hand |-> 0, provider |-> None, block |-> Blank]
Conf == [p : Providers, url : Hosts \cup {None}, tiers : SUBSET Tiers]

Init ==
    /\ file = [state |-> "absent", text |-> Nothing] /\ kept = {}
    /\ keys = {} /\ keyHost = [p \in Providers |-> None] /\ cli \in BOOLEAN
    /\ testing = {} /\ test = [provider |-> None, ok |-> FALSE] /\ tested = None
    /\ dismissed = <<>> /\ clicks = 0 /\ edits = 0 /\ hand = 0 /\ good = FALSE

----------------------------------------------------------------------------
(* Reading: a file that cannot be read counts as nothing saved.            *)

load_user == IF file.state = "good" THEN file.text ELSE Nothing

(* load: the seller's file over the tracked one, key by key.               *)
Over(own) ==
    [provider |-> IF own.provider = None THEN Default ELSE own.provider,
     block |-> [p \in Providers |-> [url |-> own.block[p].url,
                                     tiers |-> own.block[p].tiers \cup IF p \in Preset THEN Tiers ELSE {}]]]
load == Over(load_user)

(* provider_state: usable, tested_ok; route: what an agent of a tier gets. *)
Usable(l, ks) ==
    LET p == l.provider
    IN  /\ p = Default => cli
        /\ p \in NeedsKey => p \in ks
        /\ p \in Editable => l.block[p].url # None
        /\ l.block[p].tiers = Tiers
TestedOk == test.provider = load.provider /\ test.ok
Routed(l, ks, tier) ==
    LET p == l.provider
    IN  tier \in l.block[p].tiers /\ (p \in Editable => l.block[p].url # None) /\ (p \in NeedsKey => p \in ks)

Signature == <<load.provider, Usable(load, keys)>>
CardShown == ~(Usable(load, keys) /\ TestedOk) /\ dismissed # Signature
AllWell == Usable(load, keys) /\ TestedOk

----------------------------------------------------------------------------
(* Saving: over what was read; an unreadable file is set aside first.      *)

SetAsideSlip == kept
SetAside == IF file.state = "broken" THEN kept \cup {file.text.hand} ELSE kept
Saved(text) == file' = [state |-> "good", text |-> text] /\ kept' = SetAside

Choice(c) == [load_user EXCEPT !.provider = c.p,
                               !.block[c.p] = [url |-> IF c.url = None THEN @.url ELSE c.url,
                                               tiers |-> @.tiers \cup c.tiers]]

Click == clicks < MaxClicks /\ clicks' = clicks + 1
Later == good' = (good \/ AllWell')

(* _host_change: a stored key is not sent to another host than it was      *)
(* entered for; entering one says for which.                               *)
KnownHost(p) == IF keyHost[p] # None THEN keyHost[p] ELSE load.block[p].url
HostHolds(c, typed) ==
    \/ c.p \notin Editable \/ c.url = None \/ typed
    \/ c.p \notin keys \/ KnownHost(c.p) \in {None, c.url}
HostNoted(c, typed) ==
    keyHost' = IF c.p \in Editable /\ c.url # None /\ HostHolds(c, typed)
                  /\ (typed \/ (c.p \in keys /\ KnownHost(c.p) = None))
               THEN [keyHost EXCEPT ![c.p] = c.url] ELSE keyHost

(* What every form does with a typed key, whatever comes of the rest.      *)
Typed(c, typed) ==
    /\ typed => c.p # Default
    /\ c.url # None => c.p \in Editable
    /\ keys' = IF typed THEN keys \cup {c.p} ELSE keys
    /\ HostNoted(c, typed)

(* model_use, save_choice: refused unless the choice can be used.          *)
AcceptedSlip(c) ==
    /\ c.p = Default => cli
    /\ c.p \in Editable => c.url # None
    /\ c.tiers = Tiers
Accepted(c) ==
    /\ c.p = Default => cli
    /\ c.p \in NeedsKey => c.p \in keys'
    /\ c.p \in Editable => c.url # None
    /\ c.tiers = Tiers

model_use(c, typed) ==
    /\ Click /\ Typed(c, typed)
    /\ IF HostHolds(c, typed) /\ Accepted(c) THEN Saved(Choice(c)) ELSE UNCHANGED <<file, kept>>
    /\ UNCHANGED <<cli, testing, test, dismissed, edits, hand, tested>>
    /\ Later

(* model_list needs the model's key too, and stores it on the way.         *)
model_list(c, typed) ==
    /\ Click /\ Typed(c, typed)
    /\ UNCHANGED <<file, kept, cli, testing, test, dismissed, edits, hand, tested>> /\ Later

(* model_test: asks the light model with the form's values over the saved  *)
(* ones; the answer is recorded when it comes, whatever happened since.    *)
Asking(c) ==
    LET saved == load.block[c.p]
        url == IF c.url = None THEN saved.url ELSE c.url
    IN  [p |-> c.p, url |-> url,
         can |-> /\ "light" \in c.tiers \cup saved.tiers /\ (c.p = Default => cli)
                 /\ c.p \in NeedsKey => c.p \in keys'
                 /\ c.p \in Editable => url # None]

model_test(c, typed) ==
    /\ Click /\ Typed(c, typed)
    /\ testing' = IF HostHolds(c, typed) THEN testing \cup {Asking(c)} ELSE testing
    /\ UNCHANGED <<file, kept, cli, test, dismissed, edits, hand, tested>> /\ Later

test_connection(a, ok) ==
    /\ a \in testing /\ testing' = testing \ {a}
    /\ ok => a.can
    /\ test' = [provider |-> a.p, ok |-> ok] /\ tested' = <<a.p, a.url>>
    /\ UNCHANGED <<file, kept, keys, keyHost, cli, dismissed, clicks, edits, hand>>
    /\ Later

dismiss_card ==
    /\ Click
    /\ dismissed' = Signature /\ good' = FALSE
    /\ UNCHANGED <<file, kept, keys, keyHost, cli, testing, test, edits, hand, tested>>

----------------------------------------------------------------------------
(* Outside: the seller edits the file, and may get it wrong, or takes a    *)
(* key away; the CLI comes and goes.                                       *)

Edit == edits < MaxEdits /\ edits' = edits + 1

HandEdits(state, p) ==
    /\ Edit /\ hand' = edits'
    /\ file' = [state |-> state, text |-> [file.text EXCEPT !.hand = edits', !.provider = p]]
    /\ UNCHANGED <<kept, keys, keyHost, cli, testing, test, dismissed, clicks, tested>>
    /\ Later

Elsewhere ==
    /\ Edit
    /\ \/ cli' = ~cli /\ UNCHANGED keys
       \/ keys # {} /\ keys' \in {keys \ {p} : p \in keys} /\ UNCHANGED cli
    /\ UNCHANGED <<file, kept, keyHost, testing, test, dismissed, clicks, hand, tested>>
    /\ Later

Next ==
    \/ \E c \in Conf, typed \in BOOLEAN : model_use(c, typed) \/ model_list(c, typed) \/ model_test(c, typed)
    \/ \E a \in testing, ok \in BOOLEAN : test_connection(a, ok)
    \/ dismiss_card \/ Elsewhere
    \/ \E state \in {"good", "broken"}, p \in Providers \cup {None} : HandEdits(state, p)

Spec == Init /\ [][Next]_vars

----------------------------------------------------------------------------
TypeOK ==
    /\ file.state \in {"absent", "good", "broken"} /\ kept \subseteq 0..MaxEdits
    /\ keys \subseteq Providers /\ \A a \in testing : a.p \in Providers

(* "A save must not destroy hand edits": the last thing the seller wrote   *)
(* is in the file or, could it not be read, beside it.                     *)
HandEditsKept == hand > 0 => file.text.hand = hand \/ hand \in kept

(* What model_use accepts, by checks of its own, is what provider_state    *)
(* calls usable and what route builds for an agent of either tier, over    *)
(* any file the seller may have left.                                      *)
SavedIsUsable ==
    \A c \in Conf, typed \in BOOLEAN :
        model_use(c, typed) /\ HostHolds(c, typed) /\ Accepted(c) =>
            /\ load'.provider = c.p /\ Usable(load', keys')
            /\ \A tier \in Tiers : Routed(load', keys', tier)
UsedIsUsable == [][SavedIsUsable]_vars

----------------------------------------------------------------------------
(* Statements of the code that do not hold.                                *)

(* "A provider that stops being usable ... brings the card back": not if   *)
(* the card was dismissed for the same before it was.                      *)
CardComesBack == good /\ ~AllWell => CardShown

(* "whether a test passed" of the active provider: a test of values that   *)
(* were never saved passes for those that were.                            *)
TestedIsUsed == AllWell => tested = <<load.provider, load.block[load.provider].url>>
=============================================================================
