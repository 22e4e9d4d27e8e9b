------------------------- MODULE RequestTimeoutStream -------------------------
(***************************************************************************)
(* postRequestTimeoutStreamInternal (packages/sdk/src/client.ts): the      *)
(* client times out a request that was not delivered in time. It proves to *)
(* Hyperbridge that the destination has no receipt of it, and hands out    *)
(* the proof that Hyperbridge has none, which times it out on the source.  *)
(* The request is queried once, when the stream is opened; receipts are    *)
(* read from Hyperbridge itself, statuses from the indexer.                *)
(***************************************************************************)
EXTENDS RequestRecord

VARIABLES
    before,     \* the height of each chain when the request expired
    stage,      \* the status the loop is at, "unopened", "thrown", or "astray":
                \* polling for updates of a chain that has no name
    delivered,  \* HYPERBRIDGE_DELIVERED is in the snapshot of the request
    proofHeight \* height of Hyperbridge the proof for the source is made at

timeoutStreamVars == <<stage, delivered, proofHeight>>
timeoutVars == <<recordVars, before, timeoutStreamVars>>

TimeoutInit ==
    /\ RecordInit /\ destEvm
    /\ before = [c \in Chains |-> 0]
    /\ stage = "unopened" /\ delivered = FALSE /\ proofHeight = 0

HasStatus(s) == statuses[s] > 0

(* Hyperbridge's receipt of a request it has relayed, after a height. *)
ReceiptAt(height) ==
    /\ BlockOf("hyperbridge", "Handled") \in 1..height
    /\ BlockOf("hyperbridge", "TimeoutHandled") \notin 1..height

Receipt == ReceiptAt(MaxHeight)

(* queryStateMachineUpdateByTimestamp: the latest state of m that c verified  *)
(* is one after the timeout.                                                  *)
PastTimeout(c, m) == expired /\ known[<<c, m>>] > before[m]

(* The stream is for a request whose timeout has passed. It throws for one    *)
(* the indexer does not have. It starts at PENDING_TIMEOUT, or at             *)
(* HYPERBRIDGE_TIMED_OUT if Hyperbridge is the destination, or at the latest  *)
(* status of a timeout. The details of a placeholder are empty, and make      *)
(* another commitment: there is no receipt of it, so that the stream goes on  *)
(* to HYPERBRIDGE_TIMED_OUT, where it asks for ever for the updates that the  *)
(* source "" has seen.                                                        *)
OpenTimeout ==
    /\ stage = "unopened" /\ expired
    /\ stage' = CASE record = "absent" -> "thrown"
                  [] record # "absent" /\ HasStatus("TIMED_OUT") -> "TIMED_OUT"
                  [] record = "placeholder" /\ ~HasStatus("TIMED_OUT") -> "astray"
                  [] record = "full" /\ ~HasStatus("TIMED_OUT") ->
                        IF Dest = "hyperbridge" \/ HasStatus("HYPERBRIDGE_TIMED_OUT")
                        THEN "HYPERBRIDGE_TIMED_OUT" ELSE "PENDING_TIMEOUT"
    /\ delivered' = HasStatus("HYPERBRIDGE_DELIVERED")
    /\ UNCHANGED <<recordVars, before, proofHeight>>

(* case PENDING_TIMEOUT *)
DestinationFinalized ==
    /\ stage = "PENDING_TIMEOUT"
    /\ \/ /\ ~Receipt /\ Source # "hyperbridge"
          /\ stage' = "HYPERBRIDGE_TIMED_OUT"
       \/ /\ Receipt \/ Source = "hyperbridge"
          /\ PastTimeout("hyperbridge", "dest")
          /\ stage' = "DESTINATION_FINALIZED_TIMEOUT"
    /\ UNCHANGED <<recordVars, before, delivered, proofHeight>>

(* What Hyperbridge does with a proof of the destination at a height: it is   *)
(* refused if the request was delivered there, or is timed out already.       *)
Refused(height) ==
    \/ BlockOf("dest", "Handled") \in 1..height
    \/ Happened("hyperbridge", "TimeoutHandled")

(* case DESTINATION_FINALIZED_TIMEOUT: the receipt is looked for again, then  *)
(* the timeout is submitted to Hyperbridge, unsigned, and waited for.         *)
TimeOutOnHyperbridge ==
    /\ stage = "DESTINATION_FINALIZED_TIMEOUT"
    /\ UNCHANGED <<before, delivered, proofHeight>>
    /\ \/ /\ ~Receipt /\ Source # "hyperbridge"
          /\ stage' = "HYPERBRIDGE_TIMED_OUT"
          /\ UNCHANGED recordVars
       \/ /\ Receipt \/ Source = "hyperbridge"
          /\ IF Refused(known[<<"hyperbridge", "dest">>])
             THEN stage' = "thrown" /\ UNCHANGED recordVars
             ELSE /\ AddBlock("hyperbridge", "TimeoutHandled")
                  /\ stage' = IF Source = "hyperbridge" THEN "TIMED_OUT" ELSE "HYPERBRIDGE_TIMED_OUT"

(* Fault: any state after the timeout is taken to be without the receipt. *)
NeverDelivered == FALSE

(* hasDelivered, of the snapshot. *)
HasDelivered == delivered

(* The last status, in the order of COMBINED_STATUS_WEIGHTS. *)
LastIsTimeout == HasStatus("HYPERBRIDGE_TIMED_OUT") /\ ~HasStatus("TIMED_OUT")

(* Fault: the proof is asked for one block above the update. *)
ProveNext ==
    /\ stage = "HYPERBRIDGE_TIMED_OUT" /\ Source # "hyperbridge"
    /\ IF HasDelivered
       THEN LastIsTimeout /\ known[<<"source", "hyperbridge">>] >= statuses["HYPERBRIDGE_TIMED_OUT"]
       ELSE PastTimeout("source", "hyperbridge")
    /\ proofHeight' = known[<<"source", "hyperbridge">>] + 1
    /\ stage' = "HYPERBRIDGE_FINALIZED_TIMEOUT"
    /\ UNCHANGED <<recordVars, before, delivered>>

(* Fault: the loop waits for the timeout of a request that never got there. *)
AwaitTimeoutStatus ==
    /\ stage = "HYPERBRIDGE_TIMED_OUT" /\ Source # "hyperbridge"
    /\ LastIsTimeout /\ known[<<"source", "hyperbridge">>] >= statuses["HYPERBRIDGE_TIMED_OUT"]
    /\ proofHeight' = known[<<"source", "hyperbridge">>]
    /\ stage' = "HYPERBRIDGE_FINALIZED_TIMEOUT"
    /\ UNCHANGED <<recordVars, before, delivered>>

(* case HYPERBRIDGE_TIMED_OUT: a state of Hyperbridge the source has verified *)
(* is one after the timeout, or one after the block that removed the receipt. *)
HyperbridgeTimeoutFinalized ==
    /\ stage = "HYPERBRIDGE_TIMED_OUT" /\ Source # "hyperbridge"
    /\ IF HasDelivered
       THEN LastIsTimeout /\ known[<<"source", "hyperbridge">>] >= statuses["HYPERBRIDGE_TIMED_OUT"]
       ELSE PastTimeout("source", "hyperbridge")
    /\ proofHeight' = known[<<"source", "hyperbridge">>]
    /\ stage' = "HYPERBRIDGE_FINALIZED_TIMEOUT"
    /\ UNCHANGED <<recordVars, before, delivered>>

(* case HYPERBRIDGE_FINALIZED_TIMEOUT *)
TimedOut ==
    /\ stage = "HYPERBRIDGE_FINALIZED_TIMEOUT" /\ HasStatus("TIMED_OUT")
    /\ stage' = "TIMED_OUT"
    /\ UNCHANGED <<recordVars, before, delivered, proofHeight>>

TimeoutStreamStep ==
    OpenTimeout \/ DestinationFinalized \/ TimeOutOnHyperbridge \/ HyperbridgeTimeoutFinalized \/ TimedOut

(* Before the timeout deliveries need consensus updates, and after it the     *)
(* proofs of the timeout. Empty blocks matter where time passes: after the    *)
(* timeout, one of the destination, and those of Hyperbridge.                 *)
Waiting ==
    {c \in {"hyperbridge", "dest"} :
        expired /\ (c = "dest" => Len(blocks["dest"]) = before["dest"])}

World == ChainStep(Waiting, IF expired THEN TimeoutUpdates ELSE DeliveryUpdates)

TimeoutNext ==
    \/ /\ World \/ IndexerStep
       /\ before' = IF expired' /\ ~expired THEN [c \in Chains |-> Len(blocks[c])] ELSE before
       /\ UNCHANGED timeoutStreamVars
    \/ TimeoutStreamStep

(* Chains make blocks and follow each other, indexers and polls run. *)
TimeoutFairness ==
    /\ WF_timeoutVars((\E c \in Chains : ReadRequest(c) \/ SaveRequest(c) \/ SaveStatus(c) \/ SkipEvent(c))
               /\ UNCHANGED <<before, timeoutStreamVars>>)
    /\ \A c \in {"hyperbridge", "dest"} : WF_timeoutVars(c \in Waiting /\ EmptyBlock(c) /\ UNCHANGED <<before, timeoutStreamVars>>)
    /\ \A u \in TimeoutUpdates : WF_timeoutVars(expired /\ Verify(u[1], u[2]) /\ UNCHANGED <<before, timeoutStreamVars>>)
    /\ WF_timeoutVars(TimeoutStreamStep)

TimeoutSpec == TimeoutInit /\ [][TimeoutNext]_timeoutVars /\ TimeoutFairness

-----------------------------------------------------------------------------
TimeoutTypeOK ==
    /\ RecordTypeOK
    /\ before \in [Chains -> 0..MaxHeight]
    /\ stage \in {"unopened", "thrown", "astray", "PENDING_TIMEOUT", "DESTINATION_FINALIZED_TIMEOUT",
               "HYPERBRIDGE_TIMED_OUT", "HYPERBRIDGE_FINALIZED_TIMEOUT", "TIMED_OUT"}
    /\ delivered \in BOOLEAN
    /\ proofHeight \in 0..MaxHeight

(* Whoever timed the request out on Hyperbridge, and whenever, the proof that *)
(* is handed out shows what the source checks: Hyperbridge, in a state after  *)
(* the timeout, has no receipt. This needs a snapshot in which no delivery is *)
(* missing, and a request that did not reach its destination.                 *)
TimeoutsProvable ==
    (stage = "HYPERBRIDGE_FINALIZED_TIMEOUT" /\ ~Happened(Dest, "Handled")
        /\ (route = "relayed" /\ Happened("hyperbridge", "Handled") => delivered))
    => proofHeight > before["hyperbridge"] /\ ~ReceiptAt(proofHeight)

(* A request that did not reach its destination is timed out: while the       *)
(* chains have blocks left to make, the stream comes to the proof for the     *)
(* source, unless the source has been told by somebody else (the loop then    *)
(* waits for ever for a last status that is passed) or Hyperbridge has, just  *)
(* before the stream's own submission.                                        *)
RoomLeft ==
    /\ before["dest"] < MaxHeight
    /\ \/ Len(blocks["hyperbridge"]) < MaxHeight
       \/ Happened("hyperbridge", "TimeoutHandled")
       \/ ~Receipt /\ Source # "hyperbridge"

TimeoutsAreProved ==
    (punctual /\ stage \in {"PENDING_TIMEOUT", "HYPERBRIDGE_TIMED_OUT"} /\ before["hyperbridge"] < MaxHeight
        /\ ~Happened(Dest, "Handled"))
    ~> (stage \in {"HYPERBRIDGE_FINALIZED_TIMEOUT", "TIMED_OUT", "thrown"}
        \/ Happened(Source, "TimeoutHandled") \/ ~RoomLeft)
=============================================================================
