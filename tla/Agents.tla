-------------------------------- MODULE Agents --------------------------------
(***************************************************************************)
(* How an agent gets a model's answer (agents/base.py, Agent.run) from a   *)
(* provider that several threads share: the worker's, the live coach's and *)
(* those of web requests ask the one instance that providers.build keeps,  *)
(* and it remembers what the endpoint refused (providers/http_chat.py).    *)
(*                                                                         *)
(* A request is one step when it leaves and one when its answer is dealt   *)
(* with.  Answers are their kind; prompts and outputs are left out.        *)
(***************************************************************************)
EXTENDS Integers, Sequences, FiniteSets

CONSTANTS Runs      \* agent runs, each in a thread of its own

VARIABLES
    style,      \* of the active provider: "tool" (AnthropicProvider), "schema"
                \* (OpenAICompatProvider), "plain" (claude_code, ollama)
    refuses,    \* what its endpoint refuses of what the style may ask for
    tooLong,    \* runs whose prompt the endpoint rejects in any form
    optedIn,    \* runs whose agent sets fallback: true ...
    local,      \* ... and is the fallback provider reachable
    learned,    \* _auto_tool, _no_effort, _json_object of the shared instance
    run,        \* the state of each run
    rows,       \* its agent_runs rows: provider and status
    limited,    \* history: runs that were told to wait, ...
    trouble,    \* ... that met an error other than a refused form, ...
    raced       \* ... or were refused what another had just learned

vars == <<style, refuses, tooLong, optedIn, local, learned, run, rows, limited, trouble, raced>>
world == <<style, refuses, tooLong, optedIn, local>>

Asks == [tool |-> {"tool", "effort"}, schema |-> {"schema"}, plain |-> {}]

Idle == [at |-> "idle", attempt |-> 0, on |-> "main", chain |-> 1, tries |-> 0, form |-> {}]

Init ==
    /\ style \in DOMAIN Asks /\ refuses \in SUBSET Asks[style]
    /\ tooLong \in SUBSET Runs /\ optedIn \in SUBSET Runs /\ local \in BOOLEAN
    /\ learned = {} /\ limited = {} /\ trouble = {} /\ raced = {}
    /\ run = [r \in Runs |-> Idle] /\ rows = [r \in Runs |-> <<>>]

----------------------------------------------------------------------------
Set(r, new) == run' = [run EXCEPT ![r] = new]
Row(r, status) == rows' = [rows EXCEPT ![r][Len(rows[r])].status = status]

(* attempts[min(attempt, len - 1)]: the fallback once it was appended.     *)
Whom(r) == IF run[r].chain = 2 THEN "fallback" ELSE "main"

(* The row is committed before the model is asked.                         *)
StartRun(r) ==
    /\ run[r].at \in {"idle", "again"}
    /\ rows' = [rows EXCEPT ![r] = Append(@, [on |-> Whom(r), status |-> "running"])]
    /\ Set(r, [run[r] EXCEPT !.at = "ask", !.on = Whom(r), !.tries = 0])
    /\ UNCHANGED <<world, learned, limited, trouble, raced>>

(* _messages, extract_structured: the form of the request is decided by    *)
(* what was learned so far.  A schema that was just refused is asked       *)
(* without, whatever is learned.                                           *)
Form(r) ==
    IF run[r].on = "fallback" THEN {}
    ELSE IF style = "schema" /\ run[r].tries > 0 THEN {}
    ELSE Asks[style] \ learned

Request(r) ==
    /\ run[r].at = "ask"
    /\ Set(r, [run[r] EXCEPT !.at = "wait", !.tries = @ + 1, !.form = Form(r)])
    /\ UNCHANGED <<world, learned, rows, limited, trouble, raced>>

----------------------------------------------------------------------------
(* What the endpoint may say, and what Agent.run makes of it.              *)

Refused(r) == IF run[r].on = "main" THEN run[r].form \cap refuses ELSE {}
Rejects(r) == run[r].on = "main" /\ r \in tooLong
Free(r) == run[r].at = "wait" /\ Refused(r) = {} /\ ~Rejects(r)

(* A form that worked where the first one did not is remembered.           *)
Works(r) == IF run[r].on = "main" /\ style = "schema" /\ run[r].tries = 2 THEN {"schema"} ELSE {}

Completes(r) ==
    /\ Free(r)
    /\ Row(r, "ok") /\ learned' = learned \cup Works(r)
    /\ Set(r, [run[r] EXCEPT !.at = "done"])
    /\ UNCHANGED <<world, limited, trouble, raced>>

(* SchemaViolation: one retry, of the first attempt only.  An answer cut   *)
(* off is found out before the form is remembered.                         *)
Invalid(r) ==
    /\ Free(r)
    /\ Row(r, "invalid") /\ learned' \in {learned, learned \cup Works(r)}
    /\ Set(r, [run[r] EXCEPT !.at = IF run[r].attempt = 0 THEN "again" ELSE "failed", !.attempt = @ + 1])
    /\ UNCHANGED <<world, limited, trouble, raced>>

(* ProviderError: the fallback, once, where the agent wants it.            *)
FallsBackSlip(r) == r \in optedIn /\ local
FallsBack(r) == r \in optedIn /\ local /\ run[r].chain = 1

Errs(r) ==
    /\ Row(r, "error")
    /\ Set(r, [run[r] EXCEPT !.at = IF FallsBack(r) /\ run[r].attempt < 2 THEN "again" ELSE "failed",
                             !.attempt = @ + 1, !.chain = IF FallsBack(r) THEN 2 ELSE @])

Down(r) ==
    /\ run[r].at = "wait"
    /\ Errs(r) /\ trouble' = trouble \cup {r}
    /\ UNCHANGED <<world, learned, limited, raced>>

(* RateLimited: failed at once, "waiting is the only fix".                 *)
WaitsSlip == FALSE
Waits == TRUE

Limited(r) ==
    /\ Free(r) /\ run[r].on = "main"
    /\ limited' = limited \cup {r} /\ trouble' = trouble \cup {r}
    /\ IF Waits THEN Row(r, "error") /\ Set(r, [run[r] EXCEPT !.at = "limited"]) ELSE Errs(r)
    /\ UNCHANGED <<world, learned, raced>>

(* What a provider does not foresee (no CLI to run, an answer of another   *)
(* shape) is no ProviderError: it leaves Agent.run as it is.               *)
Breaks(r) ==
    /\ run[r].at = "wait" /\ (style = "plain" \/ run[r].on = "fallback")
    /\ Set(r, [run[r] EXCEPT !.at = "broken"])
    /\ UNCHANGED <<world, learned, rows, limited, trouble, raced>>

(* A 400 that names what it refuses.  AnthropicProvider drops the named    *)
(* thing and asks again, three times in all, unless it knew already;       *)
(* OpenAICompatProvider asks once more without the schema, and learns only *)
(* when that has worked.                                                   *)
LearnsSlip(f) == {f}
Learns(f) == IF f = "schema" THEN {} ELSE {f}

TriesSlip == 2
Tries == 3

Refusal(r, f) ==
    /\ run[r].at = "wait" /\ f \in Refused(r)
    /\ learned' = learned \cup Learns(f)
    /\ raced' = IF f = "tool" /\ f \in learned THEN raced \cup {r} ELSE raced
    /\ IF (f = "tool" /\ f \in learned) \/ (style = "tool" /\ run[r].tries = Tries)
       THEN Errs(r)
       ELSE Set(r, [run[r] EXCEPT !.at = "ask"]) /\ UNCHANGED rows
    /\ UNCHANGED <<world, limited, trouble>>

(* A 400 about something else.                                             *)
Rejection(r) ==
    /\ run[r].at = "wait" /\ Rejects(r)
    /\ IF "schema" \in run[r].form
       THEN /\ Set(r, [run[r] EXCEPT !.at = "ask"]) /\ UNCHANGED <<rows, trouble>>
            /\ learned' = learned \cup Learns("schema")
       ELSE Errs(r) /\ trouble' = trouble \cup {r} /\ UNCHANGED learned
    /\ UNCHANGED <<world, limited, raced>>

Next == \E r \in Runs :
    \/ StartRun(r) \/ Request(r) \/ Completes(r) \/ Invalid(r) \/ Down(r) \/ Limited(r) \/ Breaks(r)
    \/ Rejection(r)
    \/ \E f \in Refused(r) : Refusal(r, f)

Spec == Init /\ [][Next]_vars

----------------------------------------------------------------------------
TypeOK ==
    /\ learned \subseteq {"tool", "effort", "schema"}
    /\ \A r \in Runs : run[r].tries \in 0..Tries /\ run[r].attempt \in 0..3

Is(r, i, on, status) == rows[r][i].on = on /\ rows[r][i].status = status
Over(r) == run[r].at \in {"done", "failed", "limited"}

(* Whatever order the threads ask in, the rows of a run tell what it did:  *)
(* its answer, if any, is the last; nothing else is unfinished; at most    *)
(* three attempts, the fallback's at most one and only after an error of   *)
(* the provider it stands in for.                                          *)
RowsTell == \A r \in Runs :
    /\ Len(rows[r]) <= 3
    /\ \A i \in 1..Len(rows[r]) :
          /\ rows[r][i].status = "ok" => i = Len(rows[r]) /\ run[r].at = "done"
          /\ rows[r][i].status = "running" => i = Len(rows[r]) /\ ~Over(r)
          /\ rows[r][i].on = "fallback" => i = Len(rows[r]) /\ i > 1 /\ Is(r, i - 1, "main", "error")

(* "Waiting is the only fix; never fall back or burn retries": a run told  *)
(* to wait asks nobody again.                                              *)
QuotaIsFinal == \A r \in limited : run[r].at = "limited"

(* "A 400 about something else ... changes nothing": what is remembered    *)
(* for every later run is what the endpoint refuses.                       *)
LearnedIsRefused == learned \subseteq refuses

(* "A model that rejects forced tool use is asked again", and "a model     *)
(* that rejects [effort] is remembered and asked without": whoever learns  *)
(* when, refusals cost a run nothing, ...                                  *)
Unlucky(r) == r \in trouble \/ \E i \in 1..Len(rows[r]) : rows[r][i].status = "invalid"

(* ... but where two asked at once and the other's refusal came first.     *)
RefusalsAreMet == \A r \in Runs : run[r].at = "failed" => Unlucky(r) \/ r \in raced

(* A run's rows tell what it did, and it does no more than it should.      *)
AttemptsTell == RowsTell /\ QuotaIsFinal /\ LearnedIsRefused /\ RefusalsAreMet

----------------------------------------------------------------------------
(* Statements of the code that do not hold.                                *)
AskedAgain == \A r \in Runs : run[r].at = "failed" => Unlucky(r)

(* "Every attempt is recorded ... so the Why? view can show failed runs".  *)
NoneUnfinished == \A r \in Runs : run[r].at = "broken" => rows[r][Len(rows[r])].status # "running"
=============================================================================
