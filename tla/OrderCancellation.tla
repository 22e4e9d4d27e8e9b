-------------------------- MODULE OrderCancellation --------------------------
(***************************************************************************)
(* Cancelling an intent order (sdk/src/protocols/intentsV2/OrderCanceller, *)
(* and cancelOrder of the first version in protocols/intents.ts).          *)
(*                                                                         *)
(* From the source, the user has a GET request dispatched that proves the  *)
(* order was not filled by its deadline; the generator brings proofs of    *)
(* both chains to Hyperbridge and ends when the response can be submitted. *)
(* Each intermediate result is kept in cancellationStorage, so that the    *)
(* application may enter the generator again after a crash, or after it    *)
(* stopped listening. On one chain, a single transaction does it. From the *)
(* destination, a POST request asks the source for the refund.             *)
(***************************************************************************)
EXTENDS Naturals

CONSTANTS
    Paths,          \* the ways to cancel, of AllPaths
    MaxHeight,      \* bound: finalized heights of the destination past the deadline
    MaxRequests,    \* bound: transactions the user signs
    MaxInterrupts   \* bound: crashes and abandoned generators

AllPaths == {"source", "sourceV1", "sameChain", "dest"}

ASSUME CancellationAssumption ==
    /\ Paths \subseteq AllPaths
    /\ MaxHeight \in Nat \ {0} /\ MaxRequests \in Nat /\ MaxInterrupts \in Nat

VARIABLES
    path,        \* how the order is cancelled
    escrow,      \* the input on the source: "held", "refunded" or "released"
    filled,      \* the order was filled before its deadline
    finalized,   \* heights past the deadline that Hyperbridge has finalized
    sent,        \* transactions broadcast that dispatched a request
    stage,       \* of each request: "none", "dispatched", "final" (on
                 \* Hyperbridge), "delivered", "answered" (the response is
                 \* provable on the source) or "handled"
    destProof,   \* stored: height of the proof of the destination, 0 for none
    getRequest,  \* stored: the request, 0 for none
    sourceProof, \* stored: the request that is proved, 0 for none
    pc,          \* where the generator is
    failedAt,    \* lastFailedHeight
    proof,       \* destIProof of this run
    request,     \* the request of this run
    interrupts,  \* interruptions so far
    unsaved,     \* requests whose generator ended before they were stored
    uncleaned,   \* a clean-up was interrupted
    cleaned      \* clean-ups that passed the stored request

chains == <<escrow, filled, finalized, stage>>
storage == <<destProof, getRequest, sourceProof>>
locals == <<failedAt, proof, request>>
history == <<interrupts, unsaved, uncleaned, cleaned>>
vars == <<path, chains, sent, storage, pc, locals, history>>

Requests == 1..MaxRequests

Stages == <<"dispatched", "final", "delivered", "answered", "handled">>

Position(s) ==
    IF s = "none" THEN 0 ELSE CHOOSE i \in DOMAIN Stages : Stages[i] = s

Reached(r, s) == Position(stage[r]) >= Position(s)

(* unstorage keys that createCancellationStorage can encode. *)
Encodable == {"destProof", "getRequest", "sourceProof"}

Init ==
    /\ path \in Paths
    /\ escrow = "held" /\ filled = FALSE /\ finalized = 0
    /\ sent = 0 /\ stage = [r \in Requests |-> "none"]
    /\ destProof = 0 /\ getRequest = 0 /\ sourceProof = 0
    /\ pc = "off" /\ failedAt = 0 /\ proof = 0 /\ request = 0
    /\ interrupts = 0 /\ unsaved = {} /\ uncleaned = FALSE /\ cleaned = 0

-----------------------------------------------------------------------------
(* The chains. *)

Fill ==
    /\ escrow = "held" /\ ~filled /\ finalized = 0 /\ sent = 0
    /\ filled' = TRUE
    /\ UNCHANGED <<path, escrow, finalized, stage, sent, storage, pc, locals, history>>

(* The solver of a filled order is paid. *)
Release ==
    /\ escrow = "held" /\ filled
    /\ escrow' = "released"
    /\ UNCHANGED <<path, filled, finalized, stage, sent, storage, pc, locals, history>>

Finalize ==
    /\ finalized < MaxHeight
    /\ finalized' = finalized + 1
    /\ UNCHANGED <<path, escrow, filled, stage, sent, storage, pc, locals, history>>

Advance(r, from, to) ==
    /\ stage[r] = from
    /\ stage' = [stage EXCEPT ![r] = to]

SourceFinal(r) ==
    /\ Advance(r, "dispatched", "final")
    /\ UNCHANGED <<path, escrow, filled, finalized, sent, storage, pc, locals, history>>

(* Another relayer brings the same proofs. *)
RelayerDelivers(r) ==
    /\ Advance(r, "final", "delivered")
    /\ UNCHANGED <<path, escrow, filled, finalized, sent, storage, pc, locals, history>>

Answer(r) ==
    /\ Advance(r, "delivered", "answered")
    /\ UNCHANGED <<path, escrow, filled, finalized, sent, storage, pc, locals, history>>

(* The response is submitted to the source, by the application or a relayer.  *)
HandleResponse(r) ==
    /\ Advance(r, "answered", "handled")
    /\ escrow' = IF escrow = "held" /\ ~filled THEN "refunded" ELSE escrow
    /\ UNCHANGED <<path, filled, finalized, sent, storage, pc, locals, history>>

-----------------------------------------------------------------------------
(* The generator. *)

FromSource == path \in {"source", "sourceV1"}

(* The generator is left: it threw, returned or was closed. *)
Leave(to) ==
    /\ pc' = to
    /\ failedAt' = 0 /\ proof' = 0 /\ request' = 0

(* cancelOrder is called: a stored proof of the destination is used. *)
Enter ==
    /\ pc \in {"off", "thrown", "silent"}
    /\ pc' = CASE path = "sameChain" -> "askingSame"
               [] path = "dest" -> "askingDest"
               [] OTHER -> IF destProof = 0 THEN "probing" ELSE "proved"
    /\ proof' = IF FromSource THEN destProof ELSE 0
    /\ UNCHANGED <<path, chains, sent, storage, failedAt, request, history>>

(* Fault: the proof is asked for one block above what is finalized.           *)
ProbeNext ==
    /\ pc = "probing" /\ finalized > failedAt
    /\ proof' = finalized + 1 /\ pc' = "saving"
    /\ UNCHANGED <<path, chains, sent, storage, failedAt, request, history>>

(* fetchDestinationProof: the latest finalized height is past the deadline,   *)
(* and past the last one that failed. The query of the proof may fail, but of *)
(* the highest height of the model, after which no other comes.               *)
Probe ==
    /\ pc = "probing" /\ finalized > failedAt
    /\ \/ proof' = finalized /\ pc' = "saving" /\ UNCHANGED failedAt
       \/ /\ finalized < MaxHeight
          /\ failedAt' = finalized /\ UNCHANGED <<proof, pc>>
    /\ UNCHANGED <<path, chains, sent, storage, request, history>>

SaveProof ==
    /\ pc = "saving"
    /\ destProof' = proof /\ pc' = "proved"
    /\ UNCHANGED <<path, chains, sent, getRequest, sourceProof, locals, history>>

(* Fault: the stored request is not looked for. *)
AskAgain ==
    /\ pc = "proved"
    /\ pc' = "asking" /\ UNCHANGED request
    /\ UNCHANGED <<path, chains, sent, storage, failedAt, proof, history>>

(* The stored request, or AWAITING_CANCEL_TRANSACTION (AWAITING_GET_REQUEST   *)
(* in the first version). *)
LoadRequest ==
    /\ pc = "proved"
    /\ IF getRequest # 0
       THEN request' = getRequest /\ pc' = "opening"
       ELSE pc' = "asking" /\ UNCHANGED request
    /\ UNCHANGED <<path, chains, sent, storage, failedAt, proof, history>>

(* A transaction dispatches a new request while the escrow is held. *)
Dispatched(r) ==
    /\ r = sent + 1
    /\ sent' = r
    /\ stage' = [stage EXCEPT ![r] = "dispatched"]

(* The application signs the transaction, it is broadcast and its receipt is  *)
(* searched for GetRequestEvent; a transaction that reverted has none. In the *)
(* first version the application sends it, and may answer with the hash of    *)
(* one it has sent before.                                                    *)
Broadcast ==
    /\ pc = "asking"
    /\ \/ /\ escrow = "held" /\ sent < MaxRequests
          /\ \E r \in Requests : Dispatched(r) /\ request' = r
          /\ pc' = "dispatched"
          /\ UNCHANGED <<failedAt, proof>>
       \/ /\ path = "sourceV1"
          /\ \E r \in 1..sent : request' = r
          /\ pc' = "dispatched"
          /\ UNCHANGED <<sent, stage, failedAt, proof>>
       \/ escrow # "held" /\ Leave("thrown") /\ UNCHANGED <<sent, stage>>
    /\ UNCHANGED <<path, escrow, filled, finalized, storage, history>>

SaveRequest ==
    /\ pc = "dispatched"
    /\ getRequest' = request /\ pc' = "opening"
    /\ UNCHANGED <<path, chains, sent, destProof, sourceProof, locals, history>>

(* getRequestStatusStream starts at the latest status: SOURCE, delivered, or, *)
(* if the response was handled meanwhile, at its end: it yields nothing and   *)
(* the generator returns without a word.                                      *)
OpenStream ==
    /\ pc = "opening"
    /\ CASE stage[request] \in {"dispatched", "final"} -> pc' = "awaitSource" /\ UNCHANGED locals
         [] stage[request] \in {"delivered", "answered"} -> pc' = "awaitAnswer" /\ UNCHANGED locals
         [] OTHER -> Leave("silent")
    /\ UNCHANGED <<path, chains, sent, storage, history>>

(* SOURCE_FINALIZED is yielded, and the proof of the source is the stored one *)
(* or fetched and stored.                                                     *)
ProveSource ==
    /\ pc = "awaitSource" /\ Reached(request, "final")
    /\ sourceProof' = IF sourceProof = 0 THEN request ELSE sourceProof
    /\ pc' = "submitting"
    /\ UNCHANGED <<path, chains, sent, destProof, getRequest, locals, history>>

(* submitAndConfirmReceipt: nothing is submitted if there is a receipt; an    *)
(* error of the submission is ignored. Hyperbridge accepts a proof of this    *)
(* very request only.                                                         *)
SubmitRequest ==
    /\ pc = "submitting"
    /\ IF Reached(request, "delivered")
       THEN pc' = "awaitDelivery" /\ UNCHANGED stage
       ELSE /\ stage' \in {stage} \cup
                (IF sourceProof = request
                 THEN {[stage EXCEPT ![request] = "delivered"]} ELSE {})
            /\ pc' = "confirming"
    /\ UNCHANGED <<path, escrow, filled, finalized, sent, storage, locals, history>>

ReceiptConfirmed ==
    /\ pc = "confirming" /\ Reached(request, "delivered")
    /\ pc' = "awaitDelivery"
    /\ UNCHANGED <<path, chains, sent, storage, locals, history>>

(* Ten retries have not found the receipt. *)
ReceiptMissing ==
    /\ pc = "confirming" /\ ~Reached(request, "delivered")
    /\ Leave("thrown")
    /\ UNCHANGED <<path, chains, sent, storage, history>>

(* Fault: only the status of the delivery itself is waited for.              *)
DeliveredExactly ==
    /\ pc = "awaitDelivery" /\ stage[request] = "delivered"
    /\ pc' = "awaitAnswer"
    /\ UNCHANGED <<path, chains, sent, storage, locals, history>>

Delivered ==
    /\ pc = "awaitDelivery" /\ Reached(request, "delivered")
    /\ pc' = "awaitAnswer"
    /\ UNCHANGED <<path, chains, sent, storage, locals, history>>

(* Fault: the delivery of the request is taken for that of the response.      *)
FinalizedOnDelivery ==
    /\ pc = "awaitAnswer"
    /\ pc' = "clean1"
    /\ UNCHANGED <<path, chains, sent, storage, locals, history>>

(* HYPERBRIDGE_FINALIZED is yielded with the call data of the response. *)
Finalized ==
    /\ pc = "awaitAnswer" /\ Reached(request, "answered")
    /\ pc' = "clean1"
    /\ UNCHANGED <<path, chains, sent, storage, locals, history>>

(* Fault: the clean-up forgets the proof of the source. *)
CleanAllButSource ==
    \/ /\ pc = "clean1" /\ destProof' = 0 /\ pc' = "clean2"
       /\ UNCHANGED <<getRequest, sourceProof, cleaned>>
       /\ UNCHANGED <<path, chains, sent, locals, interrupts, unsaved, uncleaned>>
    \/ /\ pc = "clean2" /\ getRequest' = 0 /\ pc' = "complete"
       /\ cleaned' = cleaned + 1
       /\ UNCHANGED <<destProof, sourceProof>>
       /\ UNCHANGED <<path, chains, sent, locals, interrupts, unsaved, uncleaned>>

(* The three removals, in their order. *)
Clean ==
    /\ \/ /\ pc = "clean1" /\ destProof' = 0 /\ pc' = "clean2"
          /\ UNCHANGED <<getRequest, sourceProof, cleaned>>
       \/ /\ pc = "clean2" /\ getRequest' = 0 /\ pc' = "clean3"
          /\ cleaned' = cleaned + 1
          /\ UNCHANGED <<destProof, sourceProof>>
       \/ /\ pc = "clean3" /\ sourceProof' = 0 /\ pc' = "complete"
          /\ UNCHANGED <<destProof, getRequest, cleaned>>
    /\ UNCHANGED <<path, chains, sent, locals, interrupts, unsaved, uncleaned>>

(* One chain: the transaction refunds, or reverts and has no EscrowRefunded.  *)
BroadcastSame ==
    /\ pc = "askingSame"
    /\ IF escrow = "held" /\ ~filled
       THEN escrow' = "refunded" /\ pc' = "complete" /\ UNCHANGED locals
       ELSE Leave("thrown") /\ UNCHANGED escrow
    /\ UNCHANGED <<path, filled, finalized, stage, sent, storage, history>>

(* From the destination, whose contract only cancels what is not filled.      *)
BroadcastDest ==
    /\ pc = "askingDest"
    /\ \/ /\ escrow = "held" /\ ~filled /\ sent < MaxRequests
          /\ \E r \in Requests : Dispatched(r) /\ request' = r
          /\ pc' = "dispatchedDest" /\ UNCHANGED <<failedAt, proof>>
       \/ (escrow # "held" \/ filled) /\ Leave("thrown") /\ UNCHANGED <<sent, stage>>
    /\ UNCHANGED <<path, escrow, filled, finalized, storage, history>>

(* The commitment is stored under a key that is neither a proof nor a GET     *)
(* request: setItem throws.                                                   *)
SaveCommitment ==
    /\ pc = "dispatchedDest" /\ "postCommitment" \notin Encodable
    /\ unsaved' = unsaved \cup {request}
    /\ Leave("thrown")
    /\ UNCHANGED <<path, chains, sent, storage, interrupts, uncleaned, cleaned>>

(* A crash, or the application stops asking for events; after the last one,   *)
(* before it has submitted the response.                                      *)
Interrupt ==
    /\ pc \notin {"off", "thrown", "silent"} /\ interrupts < MaxInterrupts
    /\ interrupts' = interrupts + 1
    /\ unsaved' = IF pc \in {"dispatched", "dispatchedDest"} THEN unsaved \cup {request} ELSE unsaved
    /\ uncleaned' = (uncleaned \/ pc \in {"clean2", "clean3"})
    /\ Leave("off")
    /\ UNCHANGED <<path, chains, sent, storage, cleaned>>

Environment ==
    \/ Fill \/ Release \/ Finalize
    \/ \E r \in Requests :
        SourceFinal(r) \/ RelayerDelivers(r) \/ Answer(r) \/ HandleResponse(r)

Generator ==
    \/ Enter \/ Probe \/ SaveProof \/ LoadRequest \/ Broadcast \/ SaveRequest
    \/ OpenStream \/ ProveSource \/ SubmitRequest \/ ReceiptConfirmed
    \/ ReceiptMissing \/ Delivered \/ Finalized \/ Clean
    \/ BroadcastSame \/ BroadcastDest \/ SaveCommitment

Next == Environment \/ Generator \/ Interrupt

(* The application enters the generator again until the order is cancelled,   *)
(* the chains and Hyperbridge go on, and a submission that is repeated is     *)
(* accepted some time. Nothing is expected of other relayers and fillers.     *)
Fairness ==
    /\ WF_vars(Generator)
    /\ SF_vars(SubmitRequest /\ stage' # stage)
    /\ WF_vars(Finalize)
    /\ \A r \in Requests : WF_vars(SourceFinal(r)) /\ WF_vars(Answer(r))

Spec == Init /\ [][Next]_vars /\ Fairness

-----------------------------------------------------------------------------
TypeOK ==
    /\ path \in Paths
    /\ escrow \in {"held", "refunded", "released"} /\ filled \in BOOLEAN
    /\ finalized \in 0..MaxHeight
    /\ sent \in 0..MaxRequests
    /\ stage \in [Requests -> {"none", "dispatched", "final", "delivered", "answered", "handled"}]
    /\ destProof \in 0..MaxHeight
    /\ getRequest \in 0..MaxRequests /\ sourceProof \in 0..MaxRequests
    /\ pc \in {"off", "thrown", "silent", "probing", "saving", "proved", "asking",
               "dispatched", "opening", "awaitSource", "submitting", "confirming",
               "awaitDelivery", "awaitAnswer", "clean1", "clean2", "clean3", "complete",
               "askingSame", "askingDest", "dispatchedDest"}
    /\ failedAt \in 0..MaxHeight /\ proof \in 0..MaxHeight
    /\ request \in 0..MaxRequests
    /\ interrupts \in 0..MaxInterrupts /\ unsaved \subseteq Requests
    /\ uncleaned \in BOOLEAN /\ cleaned \in Nat

(* A user pays for one request: another is only dispatched after a generator  *)
(* ended between the broadcast and the write of the request, or after the     *)
(* clean-up of a cancellation that was complete.                              *)
RequestsAccountedFor ==
    FromSource => \A r \in 1..sent :
        \/ r \in {getRequest} \cup unsaved
        \/ pc = "dispatched" /\ r = request
        \/ cleaned > 0

(* The proof of the source that is submitted is that of the request the       *)
(* generator waits for, on every re-entry, unless a clean-up was interrupted  *)
(* before it removed the proof of the request it had finished.                *)
ProofsBelong ==
    ~uncleaned /\ pc \in {"awaitSource", "submitting", "confirming"}
        => sourceProof \in {0, request}

(* Nothing is forgotten before the cancellation is through: when the clean-up *)
(* has begun, or the generator reports completion, some request has its       *)
(* response, or the escrow was refunded on the spot.                          *)
CompleteMeansRefundable ==
    pc \in {"clean1", "clean2", "clean3", "complete"} =>
        \/ escrow = "refunded"
        \/ \E r \in 1..sent : Reached(r, "answered")

(* An order that expired without a fill is cancelled in the end, whatever is  *)
(* interrupted, thrown or delivered by others, but for a stale proof that an  *)
(* interrupted clean-up left.                                                 *)
CancellationEnds ==
    (path # "dest" /\ finalized > 0 /\ ~filled)
        ~> (pc = "complete" \/ escrow = "refunded" \/ uncleaned)

(* OrderCanceller.ts:42 "so the generator can be re-entered after a crash     *)
(* without re-submitting transactions": one that nothing interrupted sends    *)
(* its transaction once.                                                      *)
NotResubmitted == sent <= 1 + interrupts + cleaned
=============================================================================
