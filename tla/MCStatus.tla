------------------------------ MODULE MCStatus -------------------------------
(***************************************************************************)
(* The work-status ledger on small instances: by itself, with a turn of    *)
(* two items beside a turn of one, a restart and a longer clock; and with  *)
(* the browser's copy of it, for two turns of one item and no restart.     *)
(* `part' says which of the two a behaviour is.                            *)
(***************************************************************************)
EXTENDS WorkStatusView

CONSTANTS a1, b1, c1, c2, A, B, C,
          ViewTime   \* bound on the clock when a browser is watching

VARIABLE part

MCItems == {a1, b1, c1, c2}
MCKeys == {A, B, C}
MCKids == [k \in MCKeys |-> IF k = A THEN <<a1>> ELSE IF k = B THEN <<b1>> ELSE <<c1, c2>>]
MCKeyOf == [i \in MCItems |-> IF i = a1 THEN A ELSE IF i = b1 THEN B ELSE C]

StatusInit == ViewInit /\ part \in {"ledger", "view"}

\* The turns of the other instance are not taken.
NotTaken(items) == \A i \in items : phase'[i] = "new"

StatusNext ==
  \/ part = "ledger" /\ Next /\ NotTaken({b1}) /\ UNCHANGED <<part, viewVars>>
  \/ /\ part = "view" /\ ViewNext /\ NotTaken({c1, c2})
     /\ now' <= ViewTime /\ restarts' = 0 /\ UNCHANGED part

StatusSpec == StatusInit /\ [][StatusNext]_<<allVars, part>>

(* Where a browser watches (in the other part none is connected), it shows *)
(* what the ledger holds once everything sent has arrived (after a loss:   *)
(* from the next increment on), a live record is never missing while       *)
(* nothing was lost, and a browser that waits for a snapshot has asked for *)
(* one (web/src/state.js).                                                 *)
WatchedCatchesUp == part = "view" => ViewCatchesUp
=============================================================================
