---------------------------- MODULE MCEvalMatrix ----------------------------
(***************************************************************************)
(* A greeting and a search, and answers that meet each branch of the       *)
(* scoring: what is expected, late, uncited, unmeasured or a fallback.     *)
(* Two repetitions with every answer, or three with the answers that make  *)
(* the per-field votes disagree, as `part' says.                           *)
(***************************************************************************)
EXTENDS EvalMatrix

Greeting == [expect_action |-> "direct", expect_delegated |-> FALSE,
             expect_citations |-> FALSE, judged |-> FALSE]
Search == [expect_action |-> "None", expect_delegated |-> TRUE,
           expect_citations |-> TRUE, judged |-> TRUE]
MCScenario == <<Greeting, Search>>

Direct == [text |-> "reply", decides |-> "direct", delegated |-> FALSE, citations |-> FALSE,
           metrics |-> "record", routing |-> 1, total |-> 1]
Found == [Direct EXCEPT !.decides = "new_worker", !.delegated = TRUE, !.citations = TRUE]
Slow == [Found EXCEPT !.total = 10]
SlowRouter == [Found EXCEPT !.routing = 3]
Items == [Found EXCEPT !.decides = "None", !.metrics = "parent", !.citations = FALSE]
Unmeasured == [Direct EXCEPT !.metrics = "missing"]
Unsupported == [Direct EXCEPT !.text = "safe", !.decides = "unsupported"]
Fallback == [Direct EXCEPT !.text = "safe", !.decides = "None"]
TimedOut == [Found EXCEPT !.text = "timeout"]

MCAnswers == {Direct, Found, Slow, SlowRouter, Items, Unmeasured, Unsupported, Fallback,
              TimedOut, NoAnswer}
VoteAnswers == {Direct, Found, Items, Fallback}

Vote == INSTANCE EvalMatrix
          WITH Answers <- VoteAnswers, Verdicts <- {"yes", "no"}, RepeatCount <- 3

VARIABLE part

EvalInit == Init /\ part \in {"cells", "vote"}

EvalNext ==
    \/ part = "cells" /\ Next /\ UNCHANGED part
    \/ part = "vote" /\ Vote!Next /\ UNCHANGED part

EvalSpec == EvalInit /\ [][EvalNext]_<<part, vars>>
=============================================================================
