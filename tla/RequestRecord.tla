---------------------------- MODULE RequestRecord ----------------------------
(***************************************************************************)
(* The record of one post request in the indexer's database, and the       *)
(* chains it is written from (packages/indexer: request.service.ts and the *)
(* handlers of host events).                                               *)
(*                                                                         *)
(* Every chain has an indexer process of its own; all of them write to one *)
(* database, each reads the blocks of its chain in order and at its own    *)
(* pace, and the changes of a block are committed together. A handler      *)
(* reads the request before it saves: another process may write between.   *)
(***************************************************************************)
EXTENDS Naturals, Sequences

CONSTANTS
    Routes,     \* the routes a request may take, of AllRoutes
    MaxHeight   \* bound: blocks of each chain

AllRoutes == {"relayed", "toHyperbridge", "fromHyperbridge"}

ASSUME RecordAssumption ==
    /\ Routes \subseteq AllRoutes
    /\ MaxHeight \in Nat

VARIABLES
    route,      \* the request's route: are source and destination Hyperbridge?
    destEvm,    \* whether the destination is an EVM chain or a parachain
    punctual,   \* whether every block is indexed before another is made
    blocks,     \* the request's event in each block of each chain, or "none"
    known,      \* known[<<c, m>>]: latest height of m that c has verified
    expired,    \* the request's timeout has passed
    indexed,    \* blocks of each chain that are indexed
    reading,    \* what the handler under way has found, or "idle"
    record,     \* RequestV2: "absent", "placeholder" (no details) or "full"
    statuses    \* RequestStatusMetadata: block of each status, 0 for none

setting  == <<route, destEvm, punctual>>
chains   == <<blocks, known, expired>>
database == <<record, statuses>>
indexers == <<indexed, reading, database>>
recordVars == <<setting, chains, indexers>>

Chains == {"source", "hyperbridge", "dest"}

Events == {"Request", "Handled", "TimeoutHandled"}

(* Statuses of the indexer, in the order of REQUEST_STATUS_WEIGHTS. *)
ByWeight == <<"SOURCE", "HYPERBRIDGE_DELIVERED", "DESTINATION",
              "HYPERBRIDGE_TIMED_OUT", "TIMED_OUT">>

Statuses == {ByWeight[i] : i \in DOMAIN ByWeight}

Source == IF route = "fromHyperbridge" THEN "hyperbridge" ELSE "source"
Dest == IF route = "toHyperbridge" THEN "hyperbridge" ELSE "dest"

(* The block of an event on a chain, 0 for none. *)
BlockOf(c, event) ==
    IF \E i \in DOMAIN blocks[c] : blocks[c][i] = event
    THEN CHOOSE i \in DOMAIN blocks[c] : blocks[c][i] = event
    ELSE 0

Happened(c, event) == BlockOf(c, event) > 0

RecordInit ==
    /\ route \in Routes /\ destEvm \in BOOLEAN /\ punctual \in BOOLEAN
    /\ blocks = [c \in Chains |-> << >>]
    /\ known = [pair \in Chains \X Chains |-> 0]
    /\ expired = FALSE
    /\ indexed = [c \in Chains |-> 0]
    /\ reading = [c \in Chains |-> "idle"]
    /\ record = "absent"
    /\ statuses = [s \in Statuses |-> 0]

-----------------------------------------------------------------------------
(* The chains: what ISMP lets happen to a request. *)

AllIndexed == \A c \in Chains : indexed[c] = Len(blocks[c])

AddBlock(c, event) ==
    /\ Len(blocks[c]) < MaxHeight
    /\ punctual => AllIndexed
    /\ blocks' = [blocks EXCEPT ![c] = Append(@, event)]
    /\ UNCHANGED <<setting, known, expired, indexers>>

EmptyBlock(c) == AddBlock(c, "none")

Dispatch ==
    /\ ~Happened(Source, "Request")
    /\ AddBlock(Source, "Request")

(* Delivery needs a proof against a height of the source that is verified. *)
DeliverToHyperbridge ==
    /\ route # "fromHyperbridge" /\ ~expired
    /\ Happened("source", "Request") /\ ~Happened("hyperbridge", "Handled")
    /\ BlockOf("source", "Request") <= known[<<"hyperbridge", "source">>]
    /\ AddBlock("hyperbridge", "Handled")

(* The event on Hyperbridge that the destination's proof is about. *)
OnHyperbridge ==
    BlockOf("hyperbridge", IF route = "fromHyperbridge" THEN "Request" ELSE "Handled")

DeliverToDest ==
    /\ route # "toHyperbridge" /\ ~expired
    /\ OnHyperbridge > 0 /\ ~Happened("dest", "Handled")
    /\ OnHyperbridge <= known[<<"dest", "hyperbridge">>]
    /\ AddBlock("dest", "Handled")

(* Hyperbridge times out what it has relayed, or its own request. *)
TimeoutOnHyperbridge ==
    /\ route # "toHyperbridge" /\ expired
    /\ OnHyperbridge > 0 /\ ~Happened("dest", "Handled")
    /\ ~Happened("hyperbridge", "TimeoutHandled")
    /\ AddBlock("hyperbridge", "TimeoutHandled")

(* The source times out a request Hyperbridge never saw, or has timed out. *)
TimeoutOnSource ==
    /\ route # "fromHyperbridge" /\ expired
    /\ Happened("source", "Request") /\ ~Happened("source", "TimeoutHandled")
    /\ ~Happened("hyperbridge", "Handled") \/ Happened("hyperbridge", "TimeoutHandled")
    /\ AddBlock("source", "TimeoutHandled")

(* A consensus update: c verifies the present height of m. Clients see it at  *)
(* once: the lag of its indexing only makes them poll longer.                 *)
Verify(c, m) ==
    /\ known[<<c, m>>] < Len(blocks[m])
    /\ known' = [known EXCEPT ![<<c, m>>] = Len(blocks[m])]
    /\ UNCHANGED <<setting, blocks, expired, indexers>>

(* Updates that deliveries need, and those that timeouts need. *)
DeliveryUpdates == {<<"hyperbridge", "source">>, <<"dest", "hyperbridge">>}
TimeoutUpdates == {<<"hyperbridge", "dest">>, <<"source", "hyperbridge">>}

Expire ==
    /\ ~expired
    /\ expired' = TRUE
    /\ UNCHANGED <<setting, blocks, known, indexers>>

-----------------------------------------------------------------------------
(* The indexers. *)

NextEvent(c) == blocks[c][indexed[c] + 1]

(* A block is fetched and its handler, if any, reads the request. *)
ReadRequest(c) ==
    /\ indexed[c] < Len(blocks[c]) /\ reading[c] = "idle"
    /\ IF NextEvent(c) = "none"
       THEN /\ indexed' = [indexed EXCEPT ![c] = @ + 1]
            /\ UNCHANGED reading
       ELSE /\ reading' = [reading EXCEPT ![c] = record]
            /\ UNCHANGED indexed
    /\ UNCHANGED <<setting, chains, database>>

(* Handlers of EVM chains call updateStatus for a request they do not find;   *)
(* those of Substrate chains give up. The request is on the source's own      *)
(* chain, so it is found there whatever kind of chain the source is.          *)
EvmHandler(c) == c = "source" \/ (c = "dest" /\ destEvm)

(* Fault: the handler compares its host with the source. *)
LabelOfSource(c) ==
    IF EvmHandler(c) \/ (reading[c] = "full" /\ Source = c)
    THEN "DESTINATION" ELSE "HYPERBRIDGE_DELIVERED"

(* request.dest === host decides what was handled, where it is looked at. *)
HandledStatus(c) ==
    IF EvmHandler(c) \/ (reading[c] = "full" /\ Dest = c)
    THEN "DESTINATION" ELSE "HYPERBRIDGE_DELIVERED"

TimeoutStatus(c) ==
    IF EvmHandler(c) \/ (reading[c] = "full" /\ Source = c)
    THEN "TIMED_OUT" ELSE "HYPERBRIDGE_TIMED_OUT"

Done(c) ==
    /\ indexed' = [indexed EXCEPT ![c] = @ + 1]
    /\ reading' = [reading EXCEPT ![c] = "idle"]
    /\ UNCHANGED <<setting, chains>>

(* Fault: the number of the next block is saved. *)
SaveNextBlock(c, status) == statuses' = [statuses EXCEPT ![status] = indexed[c] + 2]

Save(c, status) == statuses' = [statuses EXCEPT ![status] = indexed[c] + 1]

(* createOrUpdate with all details, and the SOURCE status. *)
SaveRequest(c) ==
    /\ reading[c] # "idle" /\ NextEvent(c) = "Request"
    /\ record' = "full"
    /\ Save(c, "SOURCE")
    /\ Done(c)

(* updateStatus: a request that was not found is saved without its details.  *)
SaveStatus(c) ==
    /\ reading[c] # "idle" /\ NextEvent(c) # "Request"
    /\ reading[c] # "absent" \/ EvmHandler(c)
    /\ record' = IF reading[c] = "absent" THEN "placeholder" ELSE record
    /\ Save(c, IF NextEvent(c) = "Handled" THEN HandledStatus(c) ELSE TimeoutStatus(c))
    /\ Done(c)

(* "RequestV2 not found for commitment": the event is skipped. *)
SkipEvent(c) ==
    /\ reading[c] = "absent" /\ NextEvent(c) # "Request" /\ ~EvmHandler(c)
    /\ UNCHANGED database
    /\ Done(c)

(* Of the empty blocks and the consensus updates, a composition needs some.   *)
ChainStep(empty, updates) ==
    \/ \E c \in empty : EmptyBlock(c)
    \/ \E u \in updates : Verify(u[1], u[2])
    \/ Dispatch
    \/ DeliverToHyperbridge
    \/ DeliverToDest
    \/ TimeoutOnHyperbridge
    \/ TimeoutOnSource
    \/ Expire

IndexerStep ==
    \E c \in Chains :
        \/ ReadRequest(c)
        \/ SaveRequest(c)
        \/ SaveStatus(c)
        \/ SkipEvent(c)

-----------------------------------------------------------------------------
RecordTypeOK ==
    /\ route \in AllRoutes /\ destEvm \in BOOLEAN /\ punctual \in BOOLEAN
    /\ blocks \in [Chains -> Seq(Events \cup {"none"})]
    /\ known \in [Chains \X Chains -> 0..MaxHeight]
    /\ expired \in BOOLEAN
    /\ indexed \in [Chains -> 0..MaxHeight]
    /\ reading \in [Chains -> {"idle", "absent", "placeholder", "full"}]
    /\ record \in {"absent", "placeholder", "full"}
    /\ statuses \in [Statuses -> 0..MaxHeight]

(* Whatever order the indexers run in, and although a handler decides by      *)
(* details another process may not have saved yet, a status in the database   *)
(* is true: the event it stands for is in the block it names.                 *)
StatusesAreTrue ==
    \A s \in Statuses : statuses[s] > 0 => statuses[s] =
        CASE s = "SOURCE" -> BlockOf(Source, "Request")
          [] s = "HYPERBRIDGE_DELIVERED" -> IF route = "relayed" THEN OnHyperbridge ELSE 0
          [] s = "DESTINATION" -> BlockOf(Dest, "Handled")
          [] s = "HYPERBRIDGE_TIMED_OUT" ->
                IF route = "relayed" THEN BlockOf("hyperbridge", "TimeoutHandled") ELSE 0
          [] s = "TIMED_OUT" -> BlockOf(Source, "TimeoutHandled")
=============================================================================
