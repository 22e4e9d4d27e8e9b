------------------------ MODULE OrderCancellationProofs ------------------------
(***************************************************************************)
(* Proofs about OrderCancellation, for any ways to cancel, heights,        *)
(* numbers of requests and of interruptions.                               *)
(***************************************************************************)
EXTENDS OrderCancellation, TLAPS

(* Where the generator is when its request is the stored one. *)
Following == {"opening", "awaitSource", "submitting", "confirming", "awaitDelivery",
              "awaitAnswer", "clean1", "clean2"}

(* The request of a run was sent, and is the stored one once it is stored.    *)
RequestOfRun ==
    /\ pc \in Following \cup {"dispatched", "dispatchedDest"} => request \in 1..sent
    /\ pc \in Following => request = getRequest
    /\ pc \in {"asking", "dispatched"} => getRequest = 0
    /\ getRequest \in 0..sent
    /\ pc = "askingDest" => path = "dest"

(* A stored proof of the source is that of the stored request. *)
ProofOfStored ==
    ~uncleaned => sourceProof \in {0, getRequest} \/ pc = "clean3"

IInv ==
    /\ TypeOK
    /\ RequestOfRun
    /\ ProofOfStored
    /\ RequestsAccountedFor
    /\ CompleteMeansRefundable

Cleaning == {"clean1", "clean2", "clean3", "complete"}

-----------------------------------------------------------------------------
LEMMA Positions ==
    /\ Position("none") = 0 /\ Position("dispatched") = 1 /\ Position("final") = 2
    /\ Position("delivered") = 3 /\ Position("answered") = 4 /\ Position("handled") = 5
<1>1. DOMAIN Stages = 1..5
  BY DEF Stages
<1>2. ASSUME NEW k \in 1..5
      PROVE  \A i \in 1..5 : Stages[i] = Stages[k] <=> i = k
  BY DEF Stages
<1>3. ASSUME NEW k \in 1..5
      PROVE  Position(Stages[k]) = k
  <2>1. Stages[k] # "none"
    BY DEF Stages
  <2> QED BY <1>1, <1>2, <2>1 DEF Position
<1>4. /\ Stages[1] = "dispatched" /\ Stages[2] = "final" /\ Stages[3] = "delivered"
      /\ Stages[4] = "answered" /\ Stages[5] = "handled"
  BY DEF Stages
<1> QED BY <1>3, <1>4 DEF Position

LEMMA Bounds ==
    ASSUME TypeOK
    PROVE  /\ MaxHeight \in Nat /\ MaxRequests \in Nat /\ MaxInterrupts \in Nat
           /\ sent \in Nat /\ sent <= MaxRequests /\ finalized \in Nat /\ interrupts \in Nat
           /\ \A r \in 1..sent : r \in Requests
BY CancellationAssumption DEF TypeOK, Requests

(* What is answered stays answered when a request moves on. *)
LEMMA AnsweredStays ==
    ASSUME TypeOK, NEW r \in Requests, NEW from, NEW to,
           <<from, to>> \in {<<"dispatched", "final">>, <<"final", "delivered">>,
                             <<"delivered", "answered">>, <<"answered", "handled">>},
           Advance(r, from, to)
    PROVE  /\ stage' \in [Requests -> {"none", "dispatched", "final", "delivered",
                                       "answered", "handled"}]
           /\ \A q \in Requests : Reached(q, "answered") => Reached(q, "answered")'
<1>1. \A q \in Requests : stage'[q] = IF q = r THEN to ELSE stage[q]
  BY DEF Advance, TypeOK
<1>2. ASSUME NEW q \in Requests, Reached(q, "answered")
      PROVE  Reached(q, "answered")'
  BY <1>1, <1>2, Positions DEF Reached, Advance
<1> QED BY <1>2 DEF Advance, TypeOK

-----------------------------------------------------------------------------
LEMMA InitIInv == Init => IInv
<1> SUFFICES ASSUME Init PROVE IInv
  OBVIOUS
<1>1. MaxHeight \in Nat /\ MaxRequests \in Nat /\ MaxInterrupts \in Nat
  BY CancellationAssumption
<1>2. TypeOK
  <2>1. 0 \in 0..MaxHeight /\ 0 \in 0..MaxRequests /\ 0 \in 0..MaxInterrupts
    BY <1>1
  <2>2. stage \in [Requests -> {"none", "dispatched", "final", "delivered", "answered",
                                "handled"}]
    BY DEF Init
  <2>3. filled \in BOOLEAN /\ uncleaned \in BOOLEAN
    BY DEF Init
  <2> QED BY <2>1, <2>2, <2>3 DEF Init, TypeOK
<1>3. RequestOfRun /\ ProofOfStored /\ RequestsAccountedFor /\ CompleteMeansRefundable
  BY DEF Init, RequestOfRun, ProofOfStored, RequestsAccountedFor, CompleteMeansRefundable,
     Following
<1> QED BY <1>2, <1>3 DEF IInv

(* The chains move on by themselves. *)
LEMMA EnvironmentKeepsIInv ==
    ASSUME IInv, Environment
    PROVE  IInv'
<1>1. UNCHANGED <<path, sent, storage, pc, locals, history>>
  BY DEF Environment, Fill, Release, Finalize, SourceFinal, RelayerDelivers, Answer,
         HandleResponse
<1>2. UNCHANGED <<path, sent, destProof, getRequest, sourceProof, pc, failedAt, proof,
                  request, interrupts, unsaved, uncleaned, cleaned>>
  BY <1>1 DEF storage, locals, history
<1>3. /\ stage' \in [Requests -> {"none", "dispatched", "final", "delivered",
                                  "answered", "handled"}]
      /\ \A q \in Requests : Reached(q, "answered") => Reached(q, "answered")'
  <2>1. CASE Fill \/ Release \/ Finalize
    <3>1. stage' = stage
      BY <2>1 DEF Fill, Release, Finalize
    <3> QED BY <3>1 DEF IInv, TypeOK, Reached
  <2>2. ASSUME NEW r \in Requests,
               SourceFinal(r) \/ RelayerDelivers(r) \/ Answer(r) \/ HandleResponse(r)
        PROVE  /\ stage' \in [Requests -> {"none", "dispatched", "final", "delivered",
                                           "answered", "handled"}]
               /\ \A q \in Requests : Reached(q, "answered") => Reached(q, "answered")'
    <3>1. PICK m \in {<<"dispatched", "final">>, <<"final", "delivered">>,
                      <<"delivered", "answered">>, <<"answered", "handled">>} :
            Advance(r, m[1], m[2])
      BY <2>2 DEF SourceFinal, RelayerDelivers, Answer, HandleResponse
    <3>2. <<m[1], m[2]>> = m
      BY <3>1
    <3> QED BY <3>1, <3>2, AnsweredStays DEF IInv
  <2> QED BY <2>1, <2>2 DEF Environment
<1>4. /\ escrow' \in {"held", "refunded", "released"}
      /\ escrow = "refunded" => escrow' = "refunded"
  BY DEF IInv, TypeOK, Environment, Fill, Release, Finalize, SourceFinal, RelayerDelivers,
         Answer, HandleResponse
<1>5. filled' \in BOOLEAN
  <2>1. filled' = TRUE \/ filled' = filled
    BY DEF Environment, Fill, Release, Finalize, SourceFinal, RelayerDelivers, Answer,
           HandleResponse
  <2> QED BY <2>1 DEF IInv, TypeOK
<1>6. finalized' \in 0..MaxHeight
  <2>1. finalized' = finalized \/ (finalized < MaxHeight /\ finalized' = finalized + 1)
    BY DEF Environment, Fill, Release, Finalize, SourceFinal, RelayerDelivers, Answer,
           HandleResponse
  <2> QED BY <2>1, Bounds DEF IInv, TypeOK
<1>7. TypeOK'
  BY <1>2, <1>3, <1>4, <1>5, <1>6 DEF IInv, TypeOK
<1>8. RequestOfRun' /\ ProofOfStored' /\ RequestsAccountedFor'
  BY <1>2 DEF IInv, RequestOfRun, ProofOfStored, RequestsAccountedFor, FromSource
<1>9. CompleteMeansRefundable'
  <2>1. \A r \in 1..sent : r \in Requests
    BY Bounds DEF IInv
  <2> QED BY <1>2, <1>3, <1>4, <2>1 DEF IInv, CompleteMeansRefundable
<1> QED BY <1>7, <1>8, <1>9 DEF IInv

(* The steps of the generator that write nothing but where it is and what it  *)
(* has in hand.                                                               *)
LEMMA ReadingKeepsIInv ==
    ASSUME IInv, Enter \/ Probe \/ LoadRequest \/ OpenStream \/ ReceiptConfirmed
                 \/ ReceiptMissing \/ Delivered \/ Finalized
    PROVE  IInv'
<1>1. /\ UNCHANGED <<path, escrow, filled, finalized, stage, sent>>
      /\ UNCHANGED <<destProof, getRequest, sourceProof>>
      /\ UNCHANGED <<interrupts, unsaved, uncleaned, cleaned>>
  BY DEF Enter, Probe, LoadRequest, OpenStream, ReceiptConfirmed, ReceiptMissing, Delivered,
         Finalized, chains, storage, history
<1>2. /\ pc' \in {"off", "thrown", "silent", "probing", "saving", "proved", "asking",
               "dispatched", "opening", "awaitSource", "submitting", "confirming",
               "awaitDelivery", "awaitAnswer", "clean1", "clean2", "clean3", "complete",
               "askingSame", "askingDest", "dispatchedDest"}
      /\ failedAt' \in 0..MaxHeight /\ proof' \in 0..MaxHeight
      /\ request' \in 0..MaxRequests
  <2>1. 0 \in 0..MaxHeight /\ 0 \in 0..MaxRequests
    BY CancellationAssumption
  <2>2. CASE Enter
    BY <2>1, <2>2 DEF IInv, TypeOK, Enter
  <2>3. CASE Probe
    BY <2>3 DEF IInv, TypeOK, Probe
  <2>4. CASE LoadRequest
    BY <2>4 DEF IInv, TypeOK, LoadRequest
  <2>5. CASE OpenStream
    BY <2>1, <2>5 DEF IInv, TypeOK, OpenStream, Leave, locals
  <2>6. CASE ReceiptConfirmed \/ ReceiptMissing \/ Delivered \/ Finalized
    BY <2>1, <2>6 DEF IInv, TypeOK, ReceiptConfirmed, ReceiptMissing, Delivered, Finalized,
       Leave, locals
  <2> QED BY <2>2, <2>3, <2>4, <2>5, <2>6
<1>3. TypeOK'
  BY <1>1, <1>2 DEF IInv, TypeOK
<1>4. RequestOfRun'
  <2>1. CASE Enter
    <3>1. /\ pc' \in {"askingSame", "askingDest", "probing", "proved"}
          /\ pc' = "askingDest" => path = "dest"
      BY <2>1 DEF Enter
    <3> QED BY <1>1, <3>1 DEF IInv, RequestOfRun, Following
  <2>2. CASE Probe
    <3>1. pc' \in {"probing", "saving"}
      BY <2>2 DEF Probe
    <3> QED BY <1>1, <3>1 DEF IInv, RequestOfRun, Following
  <2>3. CASE LoadRequest
    <3>1. \/ getRequest # 0 /\ request' = getRequest /\ pc' = "opening"
          \/ getRequest = 0 /\ pc' = "asking"
      BY <2>3 DEF LoadRequest
    <3>2. getRequest \in 0..sent /\ sent \in Nat
      BY Bounds DEF IInv, RequestOfRun
    <3> QED BY <1>1, <3>1, <3>2 DEF RequestOfRun, Following
  <2>4. CASE OpenStream \/ ReceiptConfirmed \/ ReceiptMissing \/ Delivered \/ Finalized
    <3>1. \/ pc' \in {"thrown", "silent"}
          \/ pc \in Following /\ pc' \in Following /\ request' = request
      BY <2>4 DEF OpenStream, ReceiptConfirmed, ReceiptMissing, Delivered, Finalized, Leave,
         locals, Following
    <3> QED BY <1>1, <3>1 DEF IInv, RequestOfRun, Following
  <2> QED BY <2>1, <2>2, <2>3, <2>4
<1>5. pc \notin {"clean3", "dispatched"}
  BY DEF Enter, Probe, LoadRequest, OpenStream, ReceiptConfirmed, ReceiptMissing, Delivered,
         Finalized
<1>6. ProofOfStored' /\ RequestsAccountedFor'
  BY <1>1, <1>5 DEF IInv, ProofOfStored, RequestsAccountedFor, FromSource
<1>7. CompleteMeansRefundable'
  <2>1. pc' \in Cleaning => pc = "awaitAnswer" /\ Reached(request, "answered")
    BY DEF Enter, Probe, LoadRequest, OpenStream, ReceiptConfirmed, ReceiptMissing, Delivered,
           Finalized, Leave, Cleaning
  <2>2. pc = "awaitAnswer" => request \in 1..sent
    BY DEF IInv, RequestOfRun, Following
  <2>3. \A r : Reached(r, "answered")' = Reached(r, "answered")
    BY <1>1 DEF Reached
  <2> QED BY <1>1, <2>1, <2>2, <2>3 DEF CompleteMeansRefundable, Cleaning
<1> QED BY <1>3, <1>4, <1>6, <1>7 DEF IInv

(* A request in hand is brought to Hyperbridge, or refused. *)
LEMMA SubmitKeepsIInv ==
    ASSUME IInv, SubmitRequest
    PROVE  IInv'
<1>1. /\ UNCHANGED <<path, escrow, filled, finalized, sent>>
      /\ UNCHANGED <<destProof, getRequest, sourceProof>>
      /\ UNCHANGED <<failedAt, proof, request>>
      /\ UNCHANGED <<interrupts, unsaved, uncleaned, cleaned>>
      /\ pc = "submitting" /\ pc' \in {"awaitDelivery", "confirming"}
  BY DEF SubmitRequest, storage, locals, history
<1>2. stage' = stage \/ stage' = [stage EXCEPT ![request] = "delivered"]
  BY DEF SubmitRequest
<1>3. TypeOK'
  BY <1>1, <1>2 DEF IInv, TypeOK
<1>4. RequestOfRun' /\ ProofOfStored' /\ RequestsAccountedFor' /\ CompleteMeansRefundable'
  BY <1>1 DEF IInv, RequestOfRun, ProofOfStored, RequestsAccountedFor,
     CompleteMeansRefundable, FromSource, Following
<1> QED BY <1>3, <1>4 DEF IInv

(* A request is dispatched, or the hash of one that was is given. *)
LEMMA BroadcastKeepsIInv ==
    ASSUME IInv, Broadcast \/ BroadcastDest
    PROVE  IInv'
<1>1. /\ UNCHANGED <<path, escrow, filled, finalized>>
      /\ UNCHANGED <<destProof, getRequest, sourceProof>>
      /\ UNCHANGED <<interrupts, unsaved, uncleaned, cleaned>>
      /\ pc \in {"asking", "askingDest"}
      /\ pc = "askingDest" => path = "dest"
  BY DEF IInv, RequestOfRun, Broadcast, BroadcastDest, storage, history
<1>2. /\ MaxRequests \in Nat /\ sent \in Nat /\ sent <= MaxRequests
      /\ 0 \in 0..MaxHeight /\ 0 \in 0..MaxRequests
  BY Bounds DEF IInv
<1>3. CASE \E r \in Requests : Dispatched(r) /\ request' = r
  <2>1. PICK r \in Requests : Dispatched(r) /\ request' = r
    BY <1>3
  <2>2. /\ r = sent + 1 /\ sent' = r /\ sent' \in 1..MaxRequests
        /\ stage' = [stage EXCEPT ![r] = "dispatched"]
    BY <1>2, <2>1 DEF Dispatched, Requests
  <2>3. /\ pc' \in {"dispatched", "dispatchedDest", "thrown"}
        /\ pc' = "dispatched" => pc = "asking"
        /\ failedAt' \in 0..MaxHeight /\ proof' \in 0..MaxHeight
        /\ pc = "asking" => pc' # "thrown" \/ sent' = sent
        /\ pc = "asking" => pc' # "dispatchedDest"
    BY <1>2 DEF IInv, TypeOK, Broadcast, BroadcastDest, Leave
  <2>4. TypeOK'
    BY <1>1, <1>2, <2>1, <2>2, <2>3 DEF IInv, TypeOK, Requests
  <2>5. RequestOfRun'
    <3>1. pc = "asking" => getRequest = 0
      BY DEF IInv, RequestOfRun
    <3>2. getRequest \in 0..sent'
      BY <1>2, <2>2 DEF IInv, RequestOfRun
    <3>3. request' \in 1..sent'
      BY <1>2, <2>1, <2>2
    <3> QED BY <1>1, <2>3, <3>1, <3>2, <3>3 DEF RequestOfRun, Following
  <2>6. ProofOfStored' /\ CompleteMeansRefundable'
    BY <1>1, <2>3 DEF IInv, ProofOfStored, CompleteMeansRefundable
  <2>7. RequestsAccountedFor'
    <3> SUFFICES ASSUME FromSource, NEW q \in 1..sent'
                 PROVE  \/ q \in {getRequest} \cup unsaved
                        \/ pc' = "dispatched" /\ q = request'
                        \/ cleaned > 0
      BY <1>1 DEF RequestsAccountedFor, FromSource
    <3>1. pc = "asking"
      BY <1>1 DEF FromSource
    <3>2. pc' = "dispatched"
      BY <1>2, <2>2, <2>3, <3>1
    <3>3. CASE q \in 1..sent
      BY <3>1, <3>3 DEF IInv, RequestsAccountedFor
    <3>4. CASE q = r
      BY <2>1, <3>2, <3>4
    <3> QED BY <1>2, <2>2, <3>3, <3>4
  <2> QED BY <2>4, <2>5, <2>6, <2>7 DEF IInv
<1>4. CASE /\ pc = "asking" /\ pc' = "dispatched"
           /\ \E r \in 1..sent : request' = r
           /\ UNCHANGED <<sent, stage, failedAt, proof>>
  <2>1. TypeOK'
    BY <1>1, <1>2, <1>4 DEF IInv, TypeOK
  <2>2. RequestOfRun' /\ ProofOfStored' /\ RequestsAccountedFor' /\ CompleteMeansRefundable'
    BY <1>1, <1>4 DEF IInv, RequestOfRun, ProofOfStored, RequestsAccountedFor,
       CompleteMeansRefundable, FromSource, Following
  <2> QED BY <2>1, <2>2 DEF IInv
<1>5. CASE Leave("thrown") /\ UNCHANGED <<sent, stage>>
  <2>1. TypeOK'
    BY <1>1, <1>2, <1>5 DEF IInv, TypeOK, Leave
  <2>2. RequestOfRun' /\ ProofOfStored' /\ RequestsAccountedFor' /\ CompleteMeansRefundable'
    BY <1>1, <1>5 DEF IInv, RequestOfRun, ProofOfStored, RequestsAccountedFor,
       CompleteMeansRefundable, FromSource, Following, Leave
  <2> QED BY <2>1, <2>2 DEF IInv
<1> QED BY <1>3, <1>4, <1>5 DEF Broadcast, BroadcastDest

(* The writes to the storage. *)
LEMMA SaveKeepsIInv ==
    ASSUME IInv, SaveProof \/ SaveRequest \/ ProveSource
    PROVE  IInv'
<1>1. /\ UNCHANGED <<path, escrow, filled, finalized, stage, sent>>
      /\ UNCHANGED <<failedAt, proof, request>>
      /\ UNCHANGED <<interrupts, unsaved, uncleaned, cleaned>>
      /\ pc \in {"saving", "dispatched", "awaitSource"}
      /\ pc' \in {"proved", "opening", "submitting"}
  BY DEF SaveProof, SaveRequest, ProveSource, chains, locals, history
<1>2. TypeOK'
  BY <1>1 DEF IInv, TypeOK, SaveProof, SaveRequest, ProveSource
<1>3. CompleteMeansRefundable'
  BY <1>1 DEF CompleteMeansRefundable
<1>4. CASE SaveProof
  <2>1. getRequest' = getRequest /\ sourceProof' = sourceProof /\ pc' = "proved"
    BY <1>4 DEF SaveProof
  <2>2. RequestOfRun' /\ ProofOfStored' /\ RequestsAccountedFor'
    BY <1>1, <1>4, <2>1 DEF IInv, RequestOfRun, ProofOfStored, RequestsAccountedFor,
       FromSource, Following, SaveProof
  <2> QED BY <1>2, <1>3, <2>2 DEF IInv
<1>5. CASE SaveRequest
  <2>1. /\ pc = "dispatched" /\ pc' = "opening" /\ getRequest' = request /\ getRequest = 0
        /\ sourceProof' = sourceProof /\ request \in 1..sent /\ sent \in Nat
    BY <1>5, Bounds DEF SaveRequest, IInv, RequestOfRun
  <2>2. RequestOfRun' /\ ProofOfStored'
    BY <1>1, <2>1 DEF IInv, RequestOfRun, ProofOfStored, Following
  <2>3. RequestsAccountedFor'
    BY <1>1, <2>1 DEF IInv, RequestsAccountedFor, FromSource
  <2> QED BY <1>2, <1>3, <2>2, <2>3 DEF IInv
<1>6. CASE ProveSource
  <2>1. /\ pc = "awaitSource" /\ pc' = "submitting" /\ getRequest' = getRequest
        /\ sourceProof' \in {sourceProof, request} /\ request = getRequest
    BY <1>6 DEF ProveSource, IInv, RequestOfRun, Following
  <2>2. RequestOfRun' /\ ProofOfStored' /\ RequestsAccountedFor'
    BY <1>1, <2>1 DEF IInv, RequestOfRun, ProofOfStored, RequestsAccountedFor, FromSource,
       Following
  <2> QED BY <1>2, <1>3, <2>2 DEF IInv
<1> QED BY <1>4, <1>5, <1>6

(* The three removals. *)
LEMMA CleanKeepsIInv ==
    ASSUME IInv, Clean
    PROVE  IInv'
<1>1. /\ UNCHANGED <<path, escrow, filled, finalized, stage, sent>>
      /\ UNCHANGED <<failedAt, proof, request>>
      /\ UNCHANGED <<interrupts, unsaved, uncleaned>>
      /\ pc \in Cleaning /\ pc' \in Cleaning
  BY DEF Clean, chains, locals, Cleaning
<1>2. TypeOK'
  <2>1. 0 \in 0..MaxHeight /\ 0 \in 0..MaxRequests
    BY CancellationAssumption
  <2>2. /\ destProof' \in {destProof, 0} /\ getRequest' \in {getRequest, 0}
        /\ sourceProof' \in {sourceProof, 0} /\ cleaned' \in {cleaned, cleaned + 1}
        /\ pc' \in {"clean2", "clean3", "complete"}
    BY DEF Clean
  <2>3. cleaned' \in Nat
    BY <2>2 DEF IInv, TypeOK
  <2> QED BY <1>1, <2>1, <2>2, <2>3 DEF IInv, TypeOK
<1>3. CompleteMeansRefundable'
  <2>1. \A r : Reached(r, "answered")' = Reached(r, "answered")
    BY <1>1 DEF Reached
  <2> QED BY <1>1, <2>1 DEF IInv, CompleteMeansRefundable, Cleaning
<1>4. sent \in Nat /\ cleaned \in Nat /\ getRequest \in 0..sent
  BY Bounds DEF IInv, TypeOK, RequestOfRun
<1>5. CASE pc = "clean1" /\ pc' = "clean2" /\ UNCHANGED <<getRequest, sourceProof, cleaned>>
  BY <1>1, <1>2, <1>3, <1>5 DEF IInv, RequestOfRun, ProofOfStored, RequestsAccountedFor,
     FromSource, Following
<1>6. CASE /\ pc = "clean2" /\ pc' = "clean3" /\ getRequest' = 0 /\ cleaned' = cleaned + 1
           /\ sourceProof' = sourceProof
  <2>1. RequestOfRun' /\ ProofOfStored'
    BY <1>1, <1>4, <1>6 DEF RequestOfRun, ProofOfStored, Following
  <2>2. cleaned' > 0
    BY <1>4, <1>6
  <2>3. RequestsAccountedFor'
    BY <2>2 DEF RequestsAccountedFor
  <2> QED BY <1>2, <1>3, <2>1, <2>3 DEF IInv
<1>7. CASE /\ pc = "clean3" /\ pc' = "complete" /\ sourceProof' = 0
           /\ UNCHANGED <<getRequest, cleaned>>
  BY <1>1, <1>2, <1>3, <1>7 DEF IInv, RequestOfRun, ProofOfStored, RequestsAccountedFor,
     FromSource, Following
<1> QED BY <1>5, <1>6, <1>7 DEF Clean

LEMMA BroadcastSameKeepsIInv ==
    ASSUME IInv, BroadcastSame
    PROVE  IInv'
<1>1. /\ UNCHANGED <<path, filled, finalized, stage, sent>>
      /\ UNCHANGED <<destProof, getRequest, sourceProof>>
      /\ UNCHANGED <<interrupts, unsaved, uncleaned, cleaned>>
      /\ pc = "askingSame"
  BY DEF BroadcastSame, storage, history
<1>2. 0 \in 0..MaxHeight /\ 0 \in 0..MaxRequests
  BY CancellationAssumption
<1>3. /\ escrow' \in {"held", "refunded", "released"} /\ pc' \in {"complete", "thrown"}
      /\ failedAt' \in {failedAt, 0} /\ proof' \in {proof, 0} /\ request' \in {request, 0}
      /\ pc' = "complete" => escrow' = "refunded"
  BY DEF BroadcastSame, Leave, locals, IInv, TypeOK
<1>4. TypeOK'
  BY <1>1, <1>2, <1>3 DEF IInv, TypeOK
<1>5. RequestOfRun' /\ ProofOfStored' /\ RequestsAccountedFor' /\ CompleteMeansRefundable'
  BY <1>1, <1>3 DEF IInv, RequestOfRun, ProofOfStored, RequestsAccountedFor,
     CompleteMeansRefundable, FromSource, Following
<1> QED BY <1>4, <1>5 DEF IInv

(* A generator that ends before it has stored its request. *)
LEMMA LeavingKeepsIInv ==
    ASSUME IInv, Interrupt \/ SaveCommitment
    PROVE  IInv'
<1>1. /\ UNCHANGED <<path, escrow, filled, finalized, stage, sent>>
      /\ UNCHANGED <<destProof, getRequest, sourceProof, cleaned>>
      /\ pc' \in {"off", "thrown"} /\ failedAt' = 0 /\ proof' = 0 /\ request' = 0
  BY DEF Interrupt, SaveCommitment, Leave, chains, storage
<1>2. /\ pc \in {"dispatched", "dispatchedDest"} => unsaved' = unsaved \cup {request}
      /\ pc \notin {"dispatched", "dispatchedDest"} => unsaved' = unsaved
  BY DEF Interrupt, SaveCommitment
<1>3. uncleaned' \in BOOLEAN /\ (uncleaned => uncleaned') /\ (pc = "clean3" => uncleaned')
  <2>1. CASE Interrupt
    BY <2>1 DEF Interrupt
  <2>2. CASE SaveCommitment
    BY <2>2 DEF SaveCommitment, IInv, TypeOK
  <2> QED BY <2>1, <2>2
<1>4. interrupts' \in 0..MaxInterrupts
  <2>1. \/ interrupts' = interrupts
        \/ interrupts < MaxInterrupts /\ interrupts' = interrupts + 1
    BY DEF Interrupt, SaveCommitment
  <2> QED BY <2>1, Bounds DEF IInv, TypeOK
<1>5. TypeOK'
  <2>1. 0 \in 0..MaxHeight /\ 0 \in 0..MaxRequests
    BY CancellationAssumption
  <2>2. pc \in {"dispatched", "dispatchedDest"} => request \in Requests
    BY Bounds DEF IInv, RequestOfRun
  <2> QED BY <1>1, <1>2, <1>3, <1>4, <2>1, <2>2 DEF IInv, TypeOK
<1>6. RequestOfRun' /\ CompleteMeansRefundable'
  BY <1>1 DEF IInv, RequestOfRun, CompleteMeansRefundable, Following
<1>7. ProofOfStored'
  BY <1>1, <1>3 DEF IInv, ProofOfStored
<1>8. RequestsAccountedFor'
  BY <1>1, <1>2 DEF IInv, RequestsAccountedFor, FromSource
<1> QED BY <1>5, <1>6, <1>7, <1>8 DEF IInv

LEMMA StepKeepsIInv == IInv /\ [Next]_vars => IInv'
<1> SUFFICES ASSUME IInv, [Next]_vars PROVE IInv'
  OBVIOUS
<1>1. CASE UNCHANGED vars
  <2>1. /\ UNCHANGED <<path, escrow, filled, finalized, stage, sent, destProof, getRequest,
                       sourceProof, pc, failedAt, proof, request>>
        /\ UNCHANGED <<interrupts, unsaved, uncleaned, cleaned>>
    BY <1>1 DEF vars, chains, storage, locals, history
  <2>2. \A r : Reached(r, "answered")' = Reached(r, "answered")
    BY <2>1 DEF Reached
  <2> QED BY <2>1, <2>2 DEF IInv, TypeOK, RequestOfRun, ProofOfStored, RequestsAccountedFor,
      CompleteMeansRefundable, FromSource
<1>2. CASE Generator
  BY <1>2, ReadingKeepsIInv, SubmitKeepsIInv, BroadcastKeepsIInv, SaveKeepsIInv,
     CleanKeepsIInv, BroadcastSameKeepsIInv, LeavingKeepsIInv DEF Generator
<1> QED BY <1>1, <1>2, EnvironmentKeepsIInv, LeavingKeepsIInv DEF Next

(* The invariant holds in every reachable state. *)
THEOREM InvariantHolds == Spec => []IInv
<1>1. IInv /\ [Next]_vars => IInv'
  BY StepKeepsIInv
<1> QED BY <1>1, InitIInv, PTL DEF Spec

(* The storage, the chains and the generator have their types. *)
THEOREM TypeCorrect == Spec => []TypeOK
<1>1. IInv => TypeOK
  BY DEF IInv
<1> QED BY <1>1, InvariantHolds, PTL

(* No request is forgotten but by an interruption right after its broadcast,  *)
(* or by the clean-up of a complete cancellation.                             *)
THEOREM NoRequestForgotten == Spec => []RequestsAccountedFor
<1>1. IInv => RequestsAccountedFor
  BY DEF IInv
<1> QED BY <1>1, InvariantHolds, PTL

(* The proof submitted is that of the request waited for, as long as no       *)
(* clean-up was interrupted.                                                  *)
THEOREM ProofsAreOwn == Spec => []ProofsBelong
<1>1. IInv => ProofsBelong
  BY DEF IInv, RequestOfRun, ProofOfStored, ProofsBelong, Following
<1> QED BY <1>1, InvariantHolds, PTL

(* Completion is reported of a cancellation that is through. *)
THEOREM CompletionIsEarned == Spec => []CompleteMeansRefundable
<1>1. IInv => CompleteMeansRefundable
  BY DEF IInv
<1> QED BY <1>1, InvariantHolds, PTL
=============================================================================
