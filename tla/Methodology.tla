------------------------------ MODULE Methodology ------------------------------
(***************************************************************************)
(* The methodology as data (salescoach/intel/methodology.py) and what the  *)
(* strategist's answer may claim under it (strategist.validate,            *)
(* validators/evidence.py): pure functions over the files of an install,   *)
(* over definitions a form or a YAML file may hold, and over answers of a  *)
(* model.  Wording and lengths of texts are left out.                      *)
(***************************************************************************)
EXTENDS Integers, Sequences, FiniteSets, FiniteSetsExt, SequencesExt

CONSTANTS
    ElementKeys, RuleNames,     \* what a definition may name
    MinElements, MaxElements,
    Library                     \* keys of methodologies; "meddpicc" is one, "none" stands for no key

ASSUME MethodologyConstants ==
    /\ "meddpicc" \in Library /\ "none" \notin Library
    /\ MinElements \in Nat /\ MaxElements \in Nat

NoCap == -1
Reserved == {<<"single_threaded">>, <<"no_dated_buyer_commitment">>}
Places(s, v) == {i \in DOMAIN s : s[i] = v}

----------------------------------------------------------------------------
(* validate_definition and build.  An element: key, critical, cap or none, *)
(* rule or <<>>, risk (what not knowing it raises) or "".                   *)

KeysOf(d) == [i \in DOMAIN d.elements |-> d.elements[i].key]
RulesOf(d) == [i \in DOMAIN d.elements |-> d.elements[i].rule]

Valid(d) ==
    /\ Len(d.elements) \in MinElements..MaxElements
    /\ IsInjective(KeysOf(d))
    /\ \A i \in DOMAIN d.elements :
          LET e == d.elements[i] IN
          /\ e.critical <=> e.cap # NoCap
          /\ e.cap # NoCap => e.cap \in 0..100
          /\ e.rule # <<>> => e.rule \notin Reserved /\ Places(RulesOf(d), e.rule) = {i}
    /\ ToSet(d.order) \subseteq ToSet(KeysOf(d)) /\ IsInjective(d.order)
    /\ d.known # <<>> =>
          /\ d.known.count \in 1..Len(d.elements) /\ d.known.cap \in 0..100
          /\ d.known.rule # <<>> => /\ d.known.rule \notin Reserved
                                    /\ Places(RulesOf(d), d.known.rule) = {}

(* A list comprehension, [k for k in keys if k in wanted].                 *)
Kept(keys, wanted) ==
    LET f[i \in 0..Len(keys)] == IF i = 0 THEN <<>>
                                 ELSE IF keys[i] \in wanted THEN Append(f[i - 1], keys[i]) ELSE f[i - 1]
    IN  f[Len(keys)]

RestSlip(first, keys) == keys
Rest(first, keys) == Kept(keys, ToSet(keys) \ ToSet(first))

Critical(d) == Kept(KeysOf(d), {e.key : e \in {e \in ToSet(d.elements) : e.critical}})
Build(d) ==
    LET keys  == KeysOf(d)
        first == IF d.order # <<>> THEN d.order ELSE Critical(d)
    IN  [elements |-> {[key |-> e.key, critical |-> e.critical, cap |-> e.cap, risk |-> e.risk,
                        rule |-> IF ~e.critical THEN <<>>
                                 ELSE IF e.rule # <<>> THEN e.rule ELSE <<"not_known", e.key>>] :
                       e \in ToSet(d.elements)},
         order |-> first \o Rest(first, keys),
         known |-> IF d.known = <<>> THEN <<>>
                   ELSE [d.known EXCEPT !.rule = IF @ = <<>> THEN <<"known_below">> ELSE @]]

----------------------------------------------------------------------------
(* _library, active_key, and the forms that change methodology.yaml.       *)
(* tracked and custom map keys to "absent", "invalid" or "valid".          *)

BuiltIn(tracked) == {k \in Library : tracked[k] = "valid"} \cup {"meddpicc"}
Custom(tracked, o) == {k \in Library : o.custom[k] = "valid"} \ BuiltIn(tracked)
Found(tracked, o) == BuiltIn(tracked) \cup Custom(tracked, o)
Active(tracked, o) == IF o.active \in Found(tracked, o) THEN o.active ELSE "meddpicc"

SaveActive(o, active) == [o EXCEPT !.active = IF active = "none" THEN "meddpicc" ELSE active]
MayChoose(tracked, o, k) == k \in Found(tracked, o) /\ k # Active(tracked, o)
Chosen(tracked, o, k) == SaveActive(o, k)
MaySave(tracked, o, k) == k \notin BuiltIn(tracked)
Save(tracked, o, k) == SaveActive([o EXCEPT !.custom[k] = "valid"], o.active)
MayDelete(tracked, o, k) == o.custom[k] # "absent" /\ Active(tracked, o) # k
Delete(tracked, o, k) == SaveActive([o EXCEPT !.custom[k] = "absent"], o.active)

----------------------------------------------------------------------------
(* The answer of a model: for an element a status, a confidence of 1..3,   *)
(* and for each quote how it was found in the call.                        *)

Hows == {"exact", "loose", "garbled", "negated", "missing"}
IsFound(how) == how \in {"exact", "loose", "garbled"}

(* judge: a quote that is not there drops the claim to low, a doubtful one *)
(* to medium; judge_entries: each of them counts.                          *)
Judged(stated, how) == CASE how = "exact" -> stated
                         [] how \in {"loose", "garbled"} -> Min({stated, 2})
                         [] OTHER -> 1
EntriesSlip(item) == IF item.quotes = {} THEN 1 ELSE Max({Judged(item.conf, h) : h \in item.quotes})
Entries(item) == IF item.quotes = {} THEN IF item.status = "unknown" THEN item.conf ELSE 1
                 ELSE Min({Judged(item.conf, h) : h \in item.quotes})

Status(item) ==
    LET seen == \E h \in item.quotes : IsFound(h)
    IN  CASE item.status = "known" /\ ~(seen /\ Entries(item) >= 2) ->
                 IF seen THEN "partial" ELSE "unknown"
          [] item.status = "partial" /\ ~seen -> "unknown"
          [] OTHER -> item.status

(* health_caps: an install's own number for a rule goes before the         *)
(* methodology's; two rules are about the deal and need such a number.     *)
Tuned(rule, cap, tuning) == IF rule \in DOMAIN tuning THEN tuning[rule] ELSE cap
Caps(m, status, deal, tuning) ==
    {Tuned(e.rule, e.cap, tuning) : e \in {e \in m.elements : e.critical /\ status[e.key] # "known"}}
    \cup (IF m.known # <<>> /\ Cardinality({e \in m.elements : status[e.key] = "known"}) < m.known.count
          THEN {Tuned(m.known.rule, m.known.cap, tuning)} ELSE {})
    \cup {tuning[r] : r \in DOMAIN tuning \cap
            ((IF deal.buyers <= 1 THEN {<<"single_threaded">>} ELSE {})
             \cup (IF deal.dated THEN {} ELSE {<<"no_dated_buyer_commitment">>}))}

(* validate: elements not assessed are unknown; the score under its caps;  *)
(* the risks not knowing an element, or knowing one buyer, raises.         *)
Missing == [status |-> "unknown", conf |-> 1, quotes |-> {}]
StatusesOf(m, answer) ==
    [k \in {e.key : e \in m.elements} |-> Status(IF k \in DOMAIN answer.items THEN answer.items[k] ELSE Missing)]
Validate(m, answer, deal, tuning) ==
    LET status == StatusesOf(m, answer)
    IN  [status |-> status,
         score  |-> Min({answer.score} \cup Caps(m, status, deal, tuning)),
         risks  |-> answer.risks \cup (IF deal.buyers <= 1 THEN {"single_threading"} ELSE {})
                    \cup {e.risk : e \in {e \in m.elements : e.risk # "" /\ status[e.key] = "unknown"}}]
=============================================================================
