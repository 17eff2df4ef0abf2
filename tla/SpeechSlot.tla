------------------------------ MODULE SpeechSlot ------------------------------
(***************************************************************************)
(* What the speech lifecycle coordinator of one connection promises to the *)
(* rest of the server: one transport slot, held by at most one admitted    *)
(* generation; every generation leaves the slot once, with one delivery    *)
(* disposition; an interruption recorded while the generation holds the    *)
(* slot is what it leaves with; a closed connection admits nothing more.   *)
(***************************************************************************)
CONSTANTS Tokens,   \* generation tokens (uuid4 hex in the code), never reused
          None      \* the free slot

VARIABLES slot,      \* the generation that holds the transport slot, or None
          verdict,   \* the disposition recorded so far for the slot's holder
          outcome,   \* the disposition each generation left the slot with
          closed     \* the connection has been torn down

vars == <<slot, verdict, outcome, closed>>

Dispositions == {"paused", "interrupted", "delivery_unknown", "delivery_completed"}

Init ==
    /\ slot = None
    /\ verdict = "none"
    /\ outcome = [t \in Tokens |-> "none"]
    /\ closed = FALSE

\* A generation takes the free slot of an open connection.
Admit(t) ==
    /\ ~closed
    /\ slot = None
    /\ outcome[t] = "none"
    /\ slot' = t
    /\ verdict' = "none"
    /\ UNCHANGED <<outcome, closed>>

\* The holder is interrupted, paused or given up on; an interruption replaces a
\* presumed-unknown verdict, never the other way round.
Record(d) ==
    /\ slot # None
    /\ d = "delivery_unknown" => verdict = "none"
    /\ d \in {"paused", "interrupted", "delivery_unknown"}
    /\ verdict' = d
    /\ UNCHANGED <<slot, outcome, closed>>

\* The holder leaves: with the recorded verdict if there is one.
Settle(d) ==
    /\ slot # None
    /\ \/ verdict # "none" /\ d = verdict
       \/ verdict = "none" /\ d \in {"delivery_unknown", "delivery_completed"}
    /\ outcome' = [outcome EXCEPT ![slot] = d]
    /\ slot' = None
    /\ verdict' = "none"
    /\ UNCHANGED closed

\* Connection teardown discards the slot without a disposition.
Close ==
    /\ closed' = TRUE
    /\ slot' = None
    /\ verdict' = "none"
    /\ UNCHANGED outcome

Next ==
    \/ \E t \in Tokens : Admit(t)
    \/ \E d \in Dispositions : Record(d) \/ Settle(d)
    \/ Close

Spec == Init /\ [][Next]_vars
===============================================================================
