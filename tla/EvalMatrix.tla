----------------------------- MODULE EvalMatrix -----------------------------
(***************************************************************************)
(* One (pair, scenario) cell of scripts/eval_model_comparison.py, from     *)
(* run_cell through run_matrix's repetitions to the vote that aggregates   *)
(* them and the verdict of the report.  The cells of a matrix share        *)
(* nothing: the run fails when one of them does.                           *)
(*                                                                         *)
(* An optional boolean is "None", "True" or "False".  A latency is a pair  *)
(* <<sum, n>>, the mean of n measurements; <<0, 0>> is None.  Messages,    *)
(* error texts, queries and timeouts of the record are left out, and so is *)
(* search_ms, which no budget reads.                                       *)
(***************************************************************************)
EXTENDS Naturals, FiniteSets, Sequences, SequencesExt, FiniteSetsExt

CONSTANTS
    Scenario,           \* Seq of [expect_action, expect_delegated, expect_citations, judged]
    Answers,            \* what host._handle_transcript may return, see AnswerType
    Verdicts,           \* the judge's verdicts, a timeout or an error included
    RepeatCount,        \* --repeat
    MaxRouting,         \* --max-routing-seconds
    MaxLatency          \* --max-latency-seconds

ASSUME RepeatAssumption == RepeatCount \in Nat \ {0}

TurnStatuses == {"ok", "provider-error", "timeout", "setup-error", "turn-error", "skipped"}
CellStatuses == (TurnStatuses \ {"skipped"}) \cup {"manifest-rejected"}
Optional == {"None", "True", "False"}
Actions == {"None", "direct", "unsupported", "new_worker"}
\* text: what ui_text is; "nothing" is an empty tuple, None or a bare string.
\* decides: the action the turn writes to host.state.routing, if it does.
\* metrics: "record" if the turn's app_turn_foreground record exists,
\* "parent" if only that of the parent of a multi-intent item does.
AnswerType == [text : {"reply", "timeout", "safe", "nothing"}, decides : Actions,
               delegated : BOOLEAN, citations : BOOLEAN,
               metrics : {"record", "parent", "missing"}, routing : Nat, total : Nat]
NoAnswer == [text |-> "nothing", decides |-> "None", delegated |-> FALSE, citations |-> FALSE,
             metrics |-> "missing", routing |-> 0, total |-> 0]

VARIABLES
    pair,       \* [accepted, enforced]: in the manifest, and the baseline pair
    pc,         \* where run_matrix is
    open,       \* what run_cell has built and not closed
    turns,      \* TurnOutcomes of the current run_cell
    outcome,    \* the TurnOutcome being scored
    cell,       \* cell_status
    routing,    \* host.state.routing: [turn, action]
    repeats,    \* the finished repetitions
    report,     \* the aggregate and its failure reasons
    asked,      \* history: the answer to each paid call of this run_cell
    paid        \* history: how many calls each finished repetition paid for

vars == <<pair, pc, open, turns, outcome, cell, routing, repeats, report, asked, paid>>

Bool(b) == IF b THEN "True" ELSE "False"
NoMs == <<0, 0>>

\* TurnOutcome with every assertion unevaluated.
Bare(status) ==
    [status |-> status, judge_verdict |-> "None", deterministic_action_pass |-> "None",
     unevaluated |-> FALSE, citations_pass |-> "None", worker_presence_pass |-> "None",
     routing_ms |-> NoMs, total_ms |-> NoMs,
     latency_budget_exceeded |-> "None", latency_budget_enforced |-> FALSE]

----------------------------------------------------------------------------
(* The votes.                                                              *)

CellPriority == <<"provider-error", "timeout", "setup-error", "turn-error",
                  "manifest-rejected", "ok">>
TurnPriority == <<"provider-error", "timeout", "setup-error", "turn-error", "skipped", "ok">>
VerdictPriority == <<"judge-error", "no", "continue", "yes">>

Field(s, f) == [i \in DOMAIN s |-> s[i][f]]
CountOf(values, v) == Cardinality({i \in DOMAIN values : values[i] = v})
FirstIn(priority, S) == priority[Min({i \in DOMAIN priority : priority[i] \in S})]

\* _majority_with_tiebreak.
MajorityWithTiebreak(values, priority, clean) ==
    LET winners == {v \in ToSet(values) :
                      \A w \in ToSet(values) : CountOf(values, w) <= CountOf(values, v)}
        winner == FirstIn(priority, winners)
    IN IF winner = clean /\ CountOf(values, clean) * 2 <= Len(values)
       THEN FirstIn(priority, ToSet(values) \ {clean})
       ELSE winner

\* _majority_bool: a tie is False.
MajorityBool(values) ==
    LET present == SelectSeq(values, LAMBDA v : v # "None")
    IN IF present = <<>> THEN "None" ELSE Bool(CountOf(present, "True") * 2 > Len(present))

\* _average.
Average(values) ==
    LET Add(m, n) == <<m[1] + n[1], m[2] + n[2]>> IN FoldSeq(Add, NoMs, values)

Over(mean, budget) == mean[1] > budget * mean[2]

\* _latency_budget_exceeded.
BudgetExceeded(routing_ms, total_ms) ==
    IF routing_ms = NoMs /\ total_ms = NoMs
    THEN "None"
    ELSE Bool(Over(routing_ms, MaxRouting) \/ Over(total_ms, MaxLatency))

\* A repetition that never measured a latency leaves the flag at its default.
Enforced(ts) == \E i \in DOMAIN ts : ts[i].latency_budget_enforced

\* Only a repetition with a result votes on what the result was.
Voters(ts) == SelectSeq(ts, LAMBDA t : t.status = "ok")

\* A strict majority of them could not evaluate the action assertion.
Unevaluated(ok) == CountOf(Field(ok, "unevaluated"), TRUE) * 2 > Len(ok)

\* _aggregate_turn_repeats.
AggregateTurn(ts) ==
    LET ok == Voters(ts)
        verdicts == SelectSeq(Field(ok, "judge_verdict"), LAMBDA v : v # "None")
        routing_ms == Average(Field(ok, "routing_ms"))
        total_ms == Average(Field(ok, "total_ms"))
    IN IF Len(ts) = 1 THEN ts[1] ELSE
       [status |-> MajorityWithTiebreak(Field(ts, "status"), TurnPriority, "ok"),
        judge_verdict |-> IF verdicts = <<>> THEN "None"
                          ELSE MajorityWithTiebreak(verdicts, VerdictPriority, "yes"),
        deterministic_action_pass |-> MajorityBool(Field(ok, "deterministic_action_pass")),
        unevaluated |-> Unevaluated(ok),
        citations_pass |-> MajorityBool(Field(ok, "citations_pass")),
        worker_presence_pass |-> MajorityBool(Field(ok, "worker_presence_pass")),
        routing_ms |-> routing_ms, total_ms |-> total_ms,
        latency_budget_exceeded |-> BudgetExceeded(routing_ms, total_ms),
        latency_budget_enforced |-> Enforced(ts)]

\* _aggregate_cell_repeats, of raw repetitions.  "repeats" is <<>> for None.
AggregateCell(cells) ==
    LET TurnCount == Max({Len(cells[r].turns) : r \in DOMAIN cells})
        At(i) == [r \in DOMAIN cells |->
                    IF i <= Len(cells[r].turns) THEN cells[r].turns[i] ELSE Bare("skipped")]
    IN IF Len(cells) = 1 THEN cells[1] ELSE
       [status |-> MajorityWithTiebreak(Field(cells, "status"), CellPriority, "ok"),
        turns |-> [i \in 1..TurnCount |-> AggregateTurn(At(i))],
        repeats |-> cells]

----------------------------------------------------------------------------
(* The verdict.                                                            *)

\* _cell_failure_reasons: the assertions of a turn that fail it.
TurnFailures(t) ==
    IF t.status # "ok" THEN {"status"} ELSE
    (IF t.judge_verdict \in {"None", "yes"} THEN {} ELSE {"judge"})
    \cup (IF t.deterministic_action_pass = "False" THEN {"action"} ELSE {})
    \cup (IF t.unevaluated THEN {"unevaluated"} ELSE {})
    \cup (IF t.worker_presence_pass = "False" THEN {"presence"} ELSE {})
    \cup (IF t.citations_pass = "False" THEN {"citations"} ELSE {})
    \cup (IF t.latency_budget_enforced /\ t.latency_budget_exceeded = "True"
          THEN {"latency"} ELSE {})

CellFailures(c) ==
    (IF c.status = "ok" THEN {} ELSE {<<0, "status">>})
    \cup UNION {{<<i, f>> : f \in TurnFailures(c.turns[i])} : i \in DOMAIN c.turns}

\* Slip: the verdict is taken from the aggregate alone.
RepeatFailuresNone(c) == {}

\* compute_pass_fail: no strict majority of repetitions was clean end to end.
RepeatFailures(c) ==
    LET clean == {r \in DOMAIN c.repeats : CellFailures(c.repeats[r]) = {}}
    IN IF c.repeats # <<>> /\ Cardinality(clean) * 2 <= Len(c.repeats)
       THEN {<<0, "repeat">>} ELSE {}

\* build_report's check of the repetitions it advertises.
MiscountFailures(c) ==
    IF (IF c.repeats = <<>> THEN 1 ELSE Len(c.repeats)) = RepeatCount
    THEN {} ELSE {<<0, "miscount">>}

\* build_report.
Reported(c) ==
    [cell |-> c, reasons |-> RepeatFailures(c) \cup CellFailures(c) \cup MiscountFailures(c)]

----------------------------------------------------------------------------
(* run_cell.                                                               *)

\* _skipped_turn_outcomes.
SkippedAfter(n) == [i \in 1..(Len(Scenario) - n) |-> Bare("skipped")]

\* _never_ran_cell.
NeverRan(status) == [status |-> status, turns |-> SkippedAfter(0), repeats |-> <<>>]

Current == Len(turns) + 1
Asking == pc = "turn" /\ Current <= Len(Scenario)

\* run_matrix's manifest gate: no repetition of the cell runs.
Reject ==
    /\ pc = "cell" /\ ~pair.accepted
    /\ repeats' = [r \in 1..RepeatCount |-> NeverRan("manifest-rejected")]
    /\ paid' = [r \in 1..RepeatCount |-> 0]
    /\ pc' = "report"
    /\ UNCHANGED <<pair, open, turns, outcome, cell, routing, report, asked>>

\* The handler of what escapes the loop.
Caught(started) ==
    LET ts == IF started THEN Append(turns, Bare("turn-error")) ELSE turns
    IN /\ turns' = ts
       /\ cell' = IF ts # <<>> THEN "turn-error" ELSE "setup-error"

\* Configuration, construction, start or connect raises, or the configuration
\* does not resolve to the candidate, with "built" constructed by then.
SetupFails(built) ==
    /\ pc = "cell" /\ pair.accepted
    /\ open' = built
    /\ Caught(FALSE)
    /\ pc' = "shutdown"
    /\ UNCHANGED <<pair, outcome, routing, repeats, report, asked, paid>>

SetupDone ==
    /\ pc = "cell" /\ pair.accepted
    /\ open' = {"host", "judge", "clients"}
    /\ pc' = "turn"
    /\ UNCHANGED <<pair, turns, outcome, cell, routing, repeats, report, asked, paid>>

\* A turn with no result ends the cell.
Break(status) ==
    /\ turns' = Append(turns, Bare(status))
    /\ cell' = status
    /\ pc' = "shutdown"
    /\ UNCHANGED outcome

\* wait_for expires, or _handle_transcript raises.
CallFails(status) ==
    /\ Asking
    /\ asked' = Append(asked, NoAnswer)
    /\ Break(status)
    /\ UNCHANGED <<pair, open, routing, repeats, report, paid>>

\* turn_correlated_routing_action.
RoutingAction(r, turn) == IF r.turn = turn THEN r.action ELSE "None"

\* The assertions of a turn that has a result.
Scored(a, action) ==
    LET turn == Scenario[Current]
        measured == a.metrics = "record"
        routing_ms == IF measured THEN <<a.routing, 1>> ELSE NoMs
        total_ms == IF measured THEN <<a.total, 1>> ELSE NoMs
        asserted == turn.expect_action # "None"
    IN [status |-> IF a.metrics = "missing" THEN "turn-error" ELSE "ok",
        judge_verdict |-> "None",
        deterministic_action_pass |-> IF asserted /\ action # "None"
                                      THEN Bool(action = turn.expect_action) ELSE "None",
        unevaluated |-> asserted /\ action = "None",
        worker_presence_pass |->
            Bool((action = "new_worker" \/ a.delegated) = turn.expect_delegated),
        citations_pass |-> IF turn.expect_citations THEN Bool(a.citations) ELSE "None",
        routing_ms |-> routing_ms, total_ms |-> total_ms,
        latency_budget_exceeded |-> BudgetExceeded(routing_ms, total_ms),
        latency_budget_enforced |-> measured /\ pair.enforced]

\* The router's decision as the turn leaves it in the host's state.
Decided(a) == IF a.decides = "None" THEN routing ELSE [turn |-> Current, action |-> a.decides]

\* What the reply says of the infrastructure: a real "unsupported" decision
\* is worded like a failed dispatch.
Infra(a, action) ==
    IF a.text = "timeout" THEN "timeout"
    ELSE IF a.text = "nothing" \/ (a.text = "safe" /\ action # "unsupported")
    THEN "provider-error" ELSE "ok"

\* _handle_transcript returns.
Answered(a) ==
    LET action == RoutingAction(Decided(a), Current)
        infra == Infra(a, action)
    IN
    /\ Asking
    /\ asked' = Append(asked, a)
    /\ routing' = Decided(a)
    /\ \/ infra # "ok" /\ Break(infra)
       \/ /\ infra = "ok" /\ a.metrics = "missing"
          /\ turns' = Append(turns, Scored(a, action))
          /\ UNCHANGED <<pc, outcome, cell>>
       \/ /\ infra = "ok" /\ a.metrics # "missing"
          /\ outcome' = Scored(a, action)
          /\ pc' = "judge"
          /\ UNCHANGED <<turns, cell>>
    /\ UNCHANGED <<pair, open, repeats, report, paid>>

\* The reply comes from a worker that is not the candidate.
WorkerMismatch(a) ==
    /\ Asking /\ a.delegated
    /\ Infra(a, RoutingAction(Decided(a), Current)) = "ok"
    /\ asked' = Append(asked, a)
    /\ routing' = Decided(a)
    /\ Break("setup-error")
    /\ UNCHANGED <<pair, open, repeats, report, paid>>

\* The judge's verdict on the reply, where the turn has a criterion.
Judge(verdict) ==
    /\ pc = "judge"
    /\ verdict = "None" <=> ~Scenario[Current].judged
    /\ turns' = Append(turns, [outcome EXCEPT !.judge_verdict = verdict])
    /\ pc' = "turn"
    /\ UNCHANGED <<pair, open, outcome, cell, routing, repeats, report, asked, paid>>

\* Anything else raises between the paid call and the turn's append.
Escapes ==
    /\ pc = "judge"
    /\ Caught(TRUE)
    /\ pc' = "shutdown"
    /\ UNCHANGED <<pair, open, outcome, routing, repeats, report, asked, paid>>

LoopEnds ==
    /\ pc = "turn" /\ Current > Len(Scenario)
    /\ pc' = "shutdown"
    /\ UNCHANGED <<pair, open, turns, outcome, cell, routing, repeats, report, asked, paid>>

\* A step of the finally block: what was built is closed, and a step that
\* raises neither stops the next nor masks an outcome that is not "ok".
Close(what, to, raises) ==
    /\ raises => what \in open
    /\ open' = open \ {what}
    /\ cell' = IF raises /\ cell = "ok" THEN "turn-error" ELSE cell
    /\ pc' = to
    /\ UNCHANGED <<pair, turns, outcome, routing, repeats, report, asked, paid>>

Shutdown(raises) == pc = "shutdown" /\ Close("host", "close_judge", raises)
CloseJudge(raises) == pc = "close_judge" /\ Close("judge", "close_clients", raises)
CloseClients(raises) == pc = "close_clients" /\ Close("clients", "return", raises)

\* Slip: the turns a failed cell never reached are left out.
BackfilledNot == turns

\* The turns a failed cell never reached are recorded as skipped.
Backfilled == IF cell = "ok" THEN turns ELSE turns \o SkippedAfter(Len(turns))

\* run_cell returns, and run_matrix starts the next repetition, if any.
Return ==
    /\ pc = "return"
    /\ repeats' = Append(repeats, [status |-> cell, turns |-> Backfilled, repeats |-> <<>>])
    /\ paid' = Append(paid, Len(asked))
    /\ pc' = IF Len(repeats') < RepeatCount THEN "cell" ELSE "report"
    /\ turns' = <<>> /\ outcome' = Bare("ok") /\ cell' = "ok" /\ asked' = <<>>
    /\ routing' = [turn |-> 0, action |-> "None"]
    /\ UNCHANGED <<pair, open, report>>

\* _aggregate_cell_repeats, compute_pass_fail and build_report.
Report ==
    /\ pc = "report"
    /\ report' = Reported(AggregateCell(repeats))
    /\ pc' = "done"
    /\ UNCHANGED <<pair, open, turns, outcome, cell, routing, repeats, asked, paid>>

Init ==
    /\ pair \in [accepted : BOOLEAN, enforced : BOOLEAN]
    /\ pc = "cell" /\ open = {} /\ turns = <<>> /\ outcome = Bare("ok") /\ cell = "ok"
    /\ routing = [turn |-> 0, action |-> "None"]
    /\ repeats = <<>> /\ asked = <<>> /\ paid = <<>>
    /\ report = [cell |-> NeverRan("ok"), reasons |-> {}]

Next ==
    \/ Reject \/ SetupDone \/ LoopEnds \/ Escapes \/ Return \/ Report
    \/ \E built \in {{}, {"host", "clients"}, {"host", "judge", "clients"}} : SetupFails(built)
    \/ \E status \in {"timeout", "provider-error"} : CallFails(status)
    \/ \E a \in Answers : Answered(a) \/ WorkerMismatch(a)
    \/ \E verdict \in Verdicts \cup {"None"} : Judge(verdict)
    \/ \E raises \in BOOLEAN : Shutdown(raises) \/ CloseJudge(raises) \/ CloseClients(raises)

Spec == Init /\ [][Next]_vars

----------------------------------------------------------------------------
(* Properties.                                                             *)

OutcomeOK(t) ==
    /\ t.status \in TurnStatuses
    /\ t.judge_verdict \in {"None", "yes", "no", "continue", "judge-error"}
    /\ {t.deterministic_action_pass, t.citations_pass, t.worker_presence_pass,
         t.latency_budget_exceeded} \subseteq Optional
    /\ t.unevaluated \in BOOLEAN /\ t.latency_budget_enforced \in BOOLEAN
    /\ t.latency_budget_exceeded = "None" <=> t.total_ms = NoMs
CellOK(c) == c.status \in CellStatuses /\ \A i \in DOMAIN c.turns : OutcomeOK(c.turns[i])

\* The records stay in their vocabularies, a turn has a latency verdict exactly
\* when it has a latency, and a cell never holds more outcomes than its
\* scenario has turns.
TypeOK ==
    /\ Answers \subseteq AnswerType
    /\ pc \in {"cell", "turn", "judge", "shutdown", "close_judge", "close_clients", "return",
               "report", "done"}
    /\ open \subseteq {"host", "judge", "clients"}
    /\ cell \in CellStatuses
    /\ Len(turns) <= Len(Scenario)
    /\ \A i \in DOMAIN turns : OutcomeOK(turns[i])
    /\ OutcomeOK(outcome)
    /\ Len(repeats) <= RepeatCount
    /\ \A r \in DOMAIN repeats : CellOK(repeats[r])
    /\ CellOK(report.cell)

\* Every finished repetition has one outcome per turn of the scenario, and the
\* turns marked "skipped" are exactly those no call was paid for: the except
\* handler's in-flight outcome and run_cell's backfill together never label a
\* billed turn "skipped" nor drop one that never ran.
BilledIsNotSkipped ==
    \A r \in DOMAIN repeats :
        /\ Len(repeats[r].turns) = Len(Scenario)
        /\ \A i \in DOMAIN Scenario : repeats[r].turns[i].status = "skipped" <=> i > paid[r]

\* A repetition that passed every assertion end to end, latency included if
\* the pair is the baseline.
Clean(c) ==
    /\ c.status = "ok"
    /\ \A i \in DOMAIN Scenario : LET t == c.turns[i] IN
        /\ t.status = "ok" /\ ~t.unevaluated
        /\ t.judge_verdict = IF Scenario[i].judged THEN "yes" ELSE "None"
        /\ "False" \notin {t.deterministic_action_pass, t.citations_pass, t.worker_presence_pass}
        /\ pair.enforced => ~Over(t.routing_ms, MaxRouting) /\ ~Over(t.total_ms, MaxLatency)
CleanMajority == Cardinality({r \in DOMAIN repeats : Clean(repeats[r])}) * 2 > Len(repeats)
Passes == pc = "done" /\ report.reasons = {}

\* The run passes only if a strict majority of the repetitions was clean end
\* to end: no mixture of per-field majorities over repetitions that each
\* failed somewhere reads as a pass (compute_pass_fail's docstring).  And such a
\* majority is enough, unless a mean latency is over an enforced budget: no
\* per-field vote, over its own voters and with its own tie rule, fails a cell
\* that most repetitions passed.
PassMeansCleanMajority ==
    /\ Passes => CleanMajority
    /\ pc = "done" /\ CleanMajority =>
          \A f \in report.reasons : pair.enforced /\ f[2] = "latency"

-----------------------------------------------------------------------------
(* What a comment, a document or a test says, and the code does not do. *)

\* The aggregate does not contradict itself: a cell does not report a provider
\* error while its own turns report a timeout and no provider error, nor the
\* reverse.  The tie priorities agree for this reason: "on an exact tie that
\* let a cell report `timeout` while its own turns reported `provider-error`,
\* a self-contradictory artifact".
AggregateAgrees ==
    LET said == ToSet(Field(report.cell.turns, "status"))
        ends == {"provider-error", "timeout"}
    IN pc = "done" /\ report.cell.status \in ends /\ said \cap ends # {} =>
           report.cell.status \in said
=============================================================================
