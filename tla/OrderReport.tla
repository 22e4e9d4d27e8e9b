----------------------------- MODULE OrderReport -----------------------------
(***************************************************************************)
(* What an application may believe of the reports on the execution of an   *)
(* intent order (sdk/src/protocols/intentsV2/OrderExecutor.ts): the amount *)
(* reported as filled is on the chain, FILLED is only said of an order     *)
(* that is filled, and PARTIAL_FILL_EXHAUSTED of one that has a fill.      *)
(* FAILED says nothing: a fill may have been made, or may still be made.   *)
(***************************************************************************)
EXTENDS Naturals

CONSTANT Target     \* the amount the order asks for

VARIABLES
    filled,     \* filled on the destination chain
    claimed,    \* reported as filled
    verdict     \* the report that ended the execution, or "open"

reportVars == <<filled, claimed, verdict>>

Verdicts == {"open", "SUBMITTED", "FILLED", "PARTIAL_FILL_EXHAUSTED", "FAILED"}

Init == filled = 0 /\ claimed = 0 /\ verdict = "open"

Fill ==
    /\ filled' \in (filled + 1)..Target
    /\ UNCHANGED <<claimed, verdict>>

Tell ==
    /\ claimed' \in 0..filled
    /\ verdict' \in Verdicts
    /\ verdict' = "FILLED" => claimed' = Target
    /\ verdict' = "PARTIAL_FILL_EXHAUSTED" => claimed' \in 1..(Target - 1)
    /\ UNCHANGED filled

Next == Fill \/ Tell

Spec == Init /\ [][Next]_reportVars
=============================================================================
