------------------------- MODULE ExtrinsicSubmission -------------------------
(***************************************************************************)
(* What a caller may rely on when it submits extrinsics to Hyperbridge     *)
(* through IntentsCoprocessor.submitBid and retractBid                     *)
(* (sdk/src/chains/intentsCoprocessor.ts): success is only reported for an *)
(* extrinsic that is in a block, nothing more is included for a call that  *)
(* has reported success, and failure says nothing: the extrinsic may be in *)
(* a block already or may still get there.                                 *)
(***************************************************************************)
CONSTANT Calls

VARIABLES
    result,     \* "idle", "pending", "ok" or "failed", for each call
    included    \* the calls whose extrinsic has been in a block

absVars == <<result, included>>

Init ==
    /\ result = [c \in Calls |-> "idle"]
    /\ included = {}

(* The caller submits. *)
Begin(c) ==
    /\ result[c] = "idle"
    /\ result' = [result EXCEPT ![c] = "pending"]
    /\ UNCHANGED included

(* An extrinsic of the call is included, even after the call gave up. *)
Include(c) ==
    /\ result[c] \in {"pending", "failed"}
    /\ included' = included \cup {c}
    /\ UNCHANGED result

Report(c) ==
    /\ result[c] = "pending"
    /\ \E answer \in {"ok", "failed"} :
        /\ answer = "ok" => c \in included
        /\ result' = [result EXCEPT ![c] = answer]
    /\ UNCHANGED included

Next == \E c \in Calls : Begin(c) \/ Include(c) \/ Report(c)

Spec == Init /\ [][Next]_absVars
=============================================================================
