------------------------- MODULE RequestStatusStream -------------------------
(***************************************************************************)
(* postRequestStatusStreamInternal (packages/sdk/src/client.ts): the       *)
(* client polls the indexer for a request and yields the statuses it       *)
(* reaches, finality included. A request is a snapshot: it is queried when *)
(* the stream is opened and again only where the code awaits it, and its   *)
(* statuses are a list that is read by position.                           *)
(***************************************************************************)
EXTENDS RequestRecord

VARIABLES
    at,        \* the status the loop is at, "unopened" or "thrown"
    request,   \* the snapshot: are its details known, and its statuses
    yielded    \* what the stream has yielded: statuses and their blocks

streamVars == <<at, request, yielded>>
vars == <<recordVars, streamVars>>

Init ==
    /\ RecordInit
    /\ at = "unopened"
    /\ request = [details |-> FALSE, statuses |-> << >>]
    /\ yielded = << >>

(* A status in the list, if it is recorded. *)
Entry(s) ==
    IF statuses[s] > 0 THEN <<[status |-> s, block |-> statuses[s]]>> ELSE << >>

(* _queryRequestInternal: statuses sorted by weight. *)
Queried ==
    [details |-> record = "full",
     statuses |-> Entry(ByWeight[1]) \o Entry(ByWeight[2]) \o Entry(ByWeight[3])
                    \o Entry(ByWeight[4]) \o Entry(ByWeight[5])]

(* request.source and request.dest of a placeholder are no chain. *)
FromHyperbridge(r) == r.details /\ Source = "hyperbridge"
ToHyperbridge(r) == r.details /\ Dest = "hyperbridge"

Recorded(r) == {r.statuses[i].status : i \in DOMAIN r.statuses}

Yield(status, block) ==
    /\ yielded' = Append(yielded, [status |-> status, block |-> block])
    /\ at' = status

(* An undefined status is read or a proof is not found: the generator throws. *)
Throw == at' = "thrown" /\ UNCHANGED yielded

(* The first query that finds the request decides where the loop starts: at   *)
(* the latest status, or at HYPERBRIDGE_DELIVERED if Hyperbridge is the       *)
(* source. The statuses of a timeout have no case: from there the loop turns  *)
(* without an await, for ever.                                                *)
Open ==
    /\ at = "unopened" /\ record # "absent"
    /\ request' = Queried
    /\ LET latest == Queried.statuses[Len(Queried.statuses)].status IN
        at' = IF latest = "SOURCE" /\ FromHyperbridge(Queried)
              THEN "HYPERBRIDGE_DELIVERED" ELSE latest
    /\ UNCHANGED <<recordVars, yielded>>

(* case SOURCE *)
SourceFinalized ==
    /\ at = "SOURCE" /\ request.details
    /\ known[<<"hyperbridge", "source">>] >= request.statuses[1].block
    /\ Yield("SOURCE_FINALIZED", known[<<"hyperbridge", "source">>])
    /\ UNCHANGED <<recordVars, request>>

(* Fault: three statuses are awaited, whatever the destination. *)
AwaitThree(r) == Len(r.statuses) >= 3

DeliveryAwaited(r) == Len(r.statuses) >= 2

(* case SOURCE_FINALIZED *)
HyperbridgeDelivered ==
    /\ at = "SOURCE_FINALIZED" /\ DeliveryAwaited(Queried)
    /\ request' = Queried
    /\ Yield(IF ToHyperbridge(Queried) THEN "DESTINATION" ELSE "HYPERBRIDGE_DELIVERED",
             Queried.statuses[2].block)
    /\ UNCHANGED recordVars

(* case HYPERBRIDGE_DELIVERED: an update of Hyperbridge on request.dest, and  *)
(* the proof of the request at its height; queryProof fails where the request *)
(* is not in the state.                                                       *)
HyperbridgeFinalized ==
    LET index == IF FromHyperbridge(request) THEN 1 ELSE 2
        height == known[<<"dest", "hyperbridge">>]
        proven == OnHyperbridge \in 1..height
    IN
    /\ at = "HYPERBRIDGE_DELIVERED"
    /\ request.details /\ Dest # "hyperbridge"
    /\ height >= request.statuses[index].block
    /\ IF proven THEN Yield("HYPERBRIDGE_FINALIZED", height) ELSE Throw
    /\ UNCHANGED <<recordVars, request>>

(* Fault: the position of a request from Hyperbridge is used for all. *)
PositionFromHyperbridge(r) == 2

DestinationPosition(r) == IF FromHyperbridge(r) THEN 2 ELSE 3

(* case HYPERBRIDGE_FINALIZED *)
DestinationReached ==
    /\ at = "HYPERBRIDGE_FINALIZED" /\ "DESTINATION" \in Recorded(Queried)
    /\ request' = Queried
    /\ IF DestinationPosition(Queried) \in DOMAIN Queried.statuses
       THEN Yield("DESTINATION", Queried.statuses[DestinationPosition(Queried)].block)
       ELSE Throw
    /\ UNCHANGED recordVars

StreamStep ==
    \/ Open
    \/ SourceFinalized
    \/ HyperbridgeDelivered
    \/ HyperbridgeFinalized
    \/ DestinationReached

Next ==
    \/ (ChainStep(Chains, DeliveryUpdates) \/ IndexerStep) /\ UNCHANGED streamVars
    \/ StreamStep

(* Indexers and polls run; nothing is assumed of the chains. *)
Fairness ==
    /\ \A c \in Chains :
        WF_vars((ReadRequest(c) \/ SaveRequest(c) \/ SaveStatus(c) \/ SkipEvent(c))
                /\ UNCHANGED streamVars)
    /\ WF_vars(StreamStep)

Spec == Init /\ [][Next]_vars /\ Fairness

-----------------------------------------------------------------------------
Yields == {"SOURCE_FINALIZED", "HYPERBRIDGE_DELIVERED", "HYPERBRIDGE_FINALIZED",
           "DESTINATION"}

TypeOK ==
    /\ RecordTypeOK
    /\ at \in Statuses \cup Yields \cup {"unopened", "thrown"}
    /\ request.details \in BOOLEAN
    /\ Recorded(request) \subseteq Statuses
    /\ yielded \in Seq([status : Yields, block : 1..MaxHeight])

(* Statuses are read by position, from a list other processes append to: with *)
(* punctual indexers the block yielded with a status is nevertheless the one  *)
(* where it was reached, unless the request timed out undelivered.            *)
YieldedBlocksMatch ==
    (punctual /\ (Happened(Source, "TimeoutHandled") => OnHyperbridge > 0)) =>
        \A i \in DOMAIN yielded :
            LET y == yielded[i] IN
            CASE y.status = "SOURCE_FINALIZED" -> y.block >= BlockOf("source", "Request")
              [] y.status = "HYPERBRIDGE_FINALIZED" -> y.block >= OnHyperbridge
              [] y.status = "HYPERBRIDGE_DELIVERED" -> y.block = OnHyperbridge
              [] y.status = "DESTINATION" -> y.block = BlockOf(Dest, "Handled")

(* client.ts:860 "Stream ends when either the request reaches the             *)
(* destination or times out": with punctual indexers it ends when the request *)
(* is handled at its destination, wherever the loop was opened.               *)
HandledRequestsEnd ==
    (punctual /\ Happened(Dest, "Handled")) ~> (at = "DESTINATION")
=============================================================================
