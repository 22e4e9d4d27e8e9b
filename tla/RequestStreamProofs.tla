------------------------- MODULE RequestStreamProofs -------------------------
(***************************************************************************)
(* Proofs about the record of a request (RequestRecord) and the two        *)
(* streams that read it, for any routes and any number of blocks. Whatever *)
(* order the indexers run in, the statuses in the database are true; what  *)
(* the status stream yields is true while the indexers keep up; and the    *)
(* timeout stream hands out proofs that hold.                              *)
(***************************************************************************)
EXTENDS RequestStatusStream, RequestTimeoutStream, SequenceTheorems, TLAPS

-----------------------------------------------------------------------------
(* The record, and the chains it is written from. *)

At(c, i, event) == i \in DOMAIN blocks[c] /\ blocks[c][i] = event

(* An event of the request is in one block of a chain at most. *)
EventsOnce ==
    \A c \in Chains : \A event \in Events : \A i, j \in Nat :
        At(c, i, event) /\ At(c, j, event) => i = j

(* Where an event may be: a request is dispatched on its source, handled      *)
(* where it is delivered, and timed out where it was dispatched or relayed.   *)
EventsPlaced ==
    \A c \in Chains : \A i \in Nat :
        /\ At(c, i, "Request") => c = Source
        /\ At(c, i, "Handled") =>
            \/ c = "dest" /\ route # "toHyperbridge"
            \/ c = "hyperbridge" /\ route # "fromHyperbridge"
        /\ At(c, i, "TimeoutHandled") =>
            \/ c = "source" /\ route # "fromHyperbridge"
            \/ c = "hyperbridge" /\ route # "toHyperbridge"

(* A timeout follows the request on the source, and on Hyperbridge it         *)
(* excludes that the destination handled it.                                  *)
EventsOrdered ==
    /\ \A i \in Nat : At("source", i, "TimeoutHandled") =>
        \E j \in Nat : j < i /\ At("source", j, "Request")
    /\ \A i, j \in Nat :
        At("hyperbridge", i, "TimeoutHandled") => expired /\ ~At("dest", j, "Handled")

ChainsOK == EventsOnce /\ EventsPlaced /\ EventsOrdered

(* Indexers read their chains in order, and a handler is at an event. *)
ReadingInOrder ==
    \A c \in Chains :
        /\ indexed[c] <= Len(blocks[c]) /\ Len(blocks[c]) <= MaxHeight
        /\ reading[c] # "idle" => indexed[c] < Len(blocks[c]) /\ NextEvent(c) # "none"

(* A record without details is one the destination's handler made, and the    *)
(* source's own indexer finds the request it has saved.                       *)
RecordsExplained ==
    /\ record = "placeholder" \/ (\E c \in Chains : reading[c] = "placeholder") =>
        destEvm /\ \E i \in Nat : At("dest", i, "Handled")
    /\ \A i \in Nat : At("source", i, "Request") /\ i <= indexed["source"] =>
        record # "absent" /\ reading["source"] # "absent"

(* The block a status stands for. *)
TrueBlock(s) ==
    CASE s = "SOURCE" -> BlockOf(Source, "Request")
      [] s = "HYPERBRIDGE_DELIVERED" -> IF route = "relayed" THEN OnHyperbridge ELSE 0
      [] s = "DESTINATION" -> BlockOf(Dest, "Handled")
      [] s = "HYPERBRIDGE_TIMED_OUT" ->
            IF route = "relayed" THEN BlockOf("hyperbridge", "TimeoutHandled") ELSE 0
      [] s = "TIMED_OUT" -> BlockOf(Source, "TimeoutHandled")

RInv ==
    /\ RecordTypeOK
    /\ ChainsOK
    /\ ReadingInOrder
    /\ RecordsExplained
    /\ StatusesAreTrue

-----------------------------------------------------------------------------
LEMMA StatusNames ==
    Statuses = {"SOURCE", "HYPERBRIDGE_DELIVERED", "DESTINATION",
                "HYPERBRIDGE_TIMED_OUT", "TIMED_OUT"}
<1>1. DOMAIN ByWeight = 1..5
  BY DEF ByWeight
<1> QED BY <1>1, SMTT(20) DEF Statuses, ByWeight

LEMMA TrueBlocks == StatusesAreTrue <=> \A s \in Statuses : statuses[s] > 0 => statuses[s] = TrueBlock(s)
BY DEF StatusesAreTrue, TrueBlock

LEMMA BlockTypes ==
    ASSUME RecordTypeOK, NEW c \in Chains
    PROVE  /\ blocks[c] \in Seq(Events \cup {"none"}) /\ Len(blocks[c]) \in Nat
           /\ DOMAIN blocks[c] = 1..Len(blocks[c])
           /\ indexed[c] \in Nat /\ indexed[c] <= MaxHeight /\ MaxHeight \in Nat
BY RecordAssumption DEF RecordTypeOK

(* The block of an event is where it is. *)
LEMMA BlockOfEvent ==
    ASSUME RecordTypeOK, EventsOnce, NEW c \in Chains, NEW event \in Events
    PROVE  /\ \A i \in Nat : At(c, i, event) => BlockOf(c, event) = i /\ i > 0
           /\ BlockOf(c, event) \in Nat
           /\ BlockOf(c, event) > 0 => At(c, BlockOf(c, event), event)
<1>1. DOMAIN blocks[c] = 1..Len(blocks[c]) /\ Len(blocks[c]) \in Nat
  BY BlockTypes
<1>2. ASSUME NEW i \in Nat, At(c, i, event)
      PROVE  BlockOf(c, event) = i /\ i > 0
  <2>1. i \in DOMAIN blocks[c] /\ blocks[c][i] = event /\ i > 0
    BY <1>1, <1>2 DEF At
  <2>2. \A j \in DOMAIN blocks[c] : blocks[c][j] = event => j = i
    BY <1>1, <1>2 DEF At, EventsOnce
  <2> QED BY <2>1, <2>2 DEF BlockOf
<1>3. CASE \E i \in Nat : At(c, i, event)
  <2>1. PICK i \in Nat : At(c, i, event)
    BY <1>3
  <2> QED BY <1>2, <2>1
<1>4. CASE ~\E i \in Nat : At(c, i, event)
  <2>1. ~\E i \in DOMAIN blocks[c] : blocks[c][i] = event
    BY <1>1, <1>4 DEF At
  <2>2. BlockOf(c, event) = 0
    BY <2>1 DEF BlockOf
  <2> QED BY <2>2, <1>4
<1> QED BY <1>2, <1>3, <1>4

(* The same as one formula, for the state after a step as well. *)
EventBlocks ==
    \A c \in Chains : \A event \in Events :
        /\ \A i \in Nat : At(c, i, event) => BlockOf(c, event) = i /\ i > 0
        /\ BlockOf(c, event) \in Nat
        /\ BlockOf(c, event) > 0 => At(c, BlockOf(c, event), event)

LEMMA RInvEventBlocks == RInv => EventBlocks
BY BlockOfEvent DEF EventBlocks, RInv, ChainsOK

(* An event happened on a chain, or is nowhere on it. *)
LEMMA HappenedAt ==
    ASSUME RecordTypeOK, EventsOnce, NEW c \in Chains, NEW event \in Events
    PROVE  Happened(c, event) <=> \E i \in Nat : At(c, i, event)
<1>1. /\ \A i \in Nat : At(c, i, event) => BlockOf(c, event) = i /\ i > 0
      /\ BlockOf(c, event) \in Nat
      /\ BlockOf(c, event) > 0 => At(c, BlockOf(c, event), event)
  BY BlockOfEvent
<1> QED BY <1>1 DEF Happened

-----------------------------------------------------------------------------
(* A block is added at the end of a chain. *)
LEMMA AddedBlock ==
    ASSUME RecordTypeOK, NEW c \in Chains, NEW event \in Events \cup {"none"},
           AddBlock(c, event)
    PROVE  /\ RecordTypeOK'
           /\ Len(blocks'[c]) = Len(blocks[c]) + 1 /\ (\A d \in Chains \ {c} : blocks'[d] = blocks[d])
           /\ \A d \in Chains : \A i \in DOMAIN blocks[d] : blocks'[d][i] = blocks[d][i]
           /\ \A d \in Chains : \A i \in Nat : \A e \in Events :
                At(d, i, e)' <=> At(d, i, e)
                                 \/ (d = c /\ e = event /\ i = Len(blocks[c]) + 1)
<1>1. blocks' = [blocks EXCEPT ![c] = Append(@, event)]
  BY DEF AddBlock
<1>2. blocks \in [Chains -> Seq(Events \cup {"none"})] /\ blocks[c] \in Seq(Events \cup {"none"})
  BY DEF RecordTypeOK
<1>3. /\ blocks'[c] = Append(blocks[c], event)
      /\ \A d \in Chains \ {c} : blocks'[d] = blocks[d]
      /\ blocks' \in [Chains -> Seq(Events \cup {"none"})]
  BY <1>1, <1>2
<1>4. UNCHANGED <<route, destEvm, punctual, known, expired, indexed, reading, record, statuses>>
  BY DEF AddBlock, setting, indexers, database
<1>5. RecordTypeOK'
  BY <1>3, <1>4 DEF RecordTypeOK
<1>6. /\ Len(blocks'[c]) = Len(blocks[c]) + 1 /\ Len(blocks[c]) \in Nat
      /\ \A i \in 1..Len(blocks[c]) : blocks'[c][i] = blocks[c][i]
      /\ blocks'[c][Len(blocks[c]) + 1] = event
      /\ DOMAIN blocks[c] = 1..Len(blocks[c])
      /\ DOMAIN blocks'[c] = 1..(Len(blocks[c]) + 1)
  BY <1>2, <1>3
<1>7. Len(blocks'[c]) = Len(blocks[c]) + 1 /\ (\A d \in Chains \ {c} : blocks'[d] = blocks[d])
  BY <1>3, <1>6
<1>8. \A d \in Chains : \A i \in DOMAIN blocks[d] : blocks'[d][i] = blocks[d][i]
  BY <1>3, <1>6
<1>9. ASSUME NEW d \in Chains, NEW i \in Nat, NEW e \in Events
      PROVE  At(d, i, e)' <=> At(d, i, e)
                              \/ (d = c /\ e = event /\ i = Len(blocks[c]) + 1)
  <2>1. CASE d # c
    BY <1>3, <2>1 DEF At
  <2>2. CASE d = c
    BY <1>6, <2>2 DEF At
  <2> QED BY <2>1, <2>2
<1> QED BY <1>5, <1>7, <1>8, <1>9

(* What a new block leaves true, if its event is new and in its place. *)
LEMMA AddBlockKeepsRInv ==
    ASSUME RInv, NEW c \in Chains, NEW event \in Events \cup {"none"}, AddBlock(c, event),
           event # "none" => ~Happened(c, event),
           ChainsOK'
    PROVE  RInv'
<1>1. /\ RecordTypeOK'
      /\ Len(blocks'[c]) = Len(blocks[c]) + 1 /\ (\A d \in Chains \ {c} : blocks'[d] = blocks[d])
      /\ \A d \in Chains : \A i \in DOMAIN blocks[d] : blocks'[d][i] = blocks[d][i]
      /\ \A d \in Chains : \A i \in Nat : \A e \in Events :
            At(d, i, e)' <=> At(d, i, e)
                             \/ (d = c /\ e = event /\ i = Len(blocks[c]) + 1)
  BY AddedBlock DEF RInv
<1>2. UNCHANGED <<route, destEvm, expired, indexed, reading, record, statuses>>
  BY DEF AddBlock, setting, indexers, database
<1>3. \A d \in Chains : /\ Len(blocks[d]) \in Nat /\ indexed[d] \in Nat
                        /\ DOMAIN blocks[d] = 1..Len(blocks[d])
  BY BlockTypes DEF RInv
<1>4. \A d \in Chains : indexed[d] <= Len(blocks[d])
  BY DEF RInv, ReadingInOrder
<1>5. ReadingInOrder'
  <2> SUFFICES ASSUME NEW d \in Chains
               PROVE  /\ indexed[d] <= Len(blocks'[d]) /\ Len(blocks'[d]) <= MaxHeight
                      /\ reading[d] # "idle" => /\ indexed[d] < Len(blocks'[d])
                                                /\ blocks'[d][indexed[d] + 1] # "none"
    BY <1>2 DEF ReadingInOrder, NextEvent
  <2>1. Len(blocks[d]) <= Len(blocks'[d])
    <3>1. CASE d = c
      BY <1>1, <1>3, <3>1
    <3>2. CASE d # c
      BY <1>1, <1>3, <3>2
    <3> QED BY <3>1, <3>2
  <2>2. reading[d] # "idle" =>
            indexed[d] < Len(blocks[d]) /\ blocks[d][indexed[d] + 1] # "none"
    BY DEF RInv, ReadingInOrder, NextEvent
  <2>3. reading[d] # "idle" => indexed[d] + 1 \in DOMAIN blocks[d]
    BY <1>3, <2>2
  <2>4. Len(blocks'[d]) \in Nat /\ MaxHeight \in Nat
    BY <1>1, <1>3, RecordAssumption
  <2>5. Len(blocks[d]) <= MaxHeight
    BY DEF RInv, ReadingInOrder
  <2>6. Len(blocks'[d]) <= MaxHeight
    <3>1. CASE d = c
      BY <1>1, <1>3, <2>4, <3>1 DEF AddBlock
    <3>2. CASE d # c
      BY <1>1, <2>5, <3>2
    <3> QED BY <3>1, <3>2
  <2> QED BY <1>1, <1>3, <1>4, <2>1, <2>2, <2>3, <2>4, <2>6
<1>6. RecordsExplained'
  <2>1. "source" \in Chains /\ "dest" \in Chains /\ "Handled" \in Events /\ "Request" \in Events
    BY DEF Chains, Events
  <2>2. \A i \in Nat : At("source", i, "Request")' /\ i <= indexed["source"]
            => At("source", i, "Request")
    <3> SUFFICES ASSUME NEW i \in Nat, At("source", i, "Request")', i <= indexed["source"]
                 PROVE  At("source", i, "Request")
      OBVIOUS
    <3>1. At("source", i, "Request") \/ i = Len(blocks["source"]) + 1
      BY <1>1, <2>1
    <3>2. indexed["source"] <= Len(blocks["source"]) /\ indexed["source"] \in Nat
          /\ Len(blocks["source"]) \in Nat
      BY <1>3, <1>4, <2>1
    <3> QED BY <3>1, <3>2
  <2>3. \A i \in Nat : At("dest", i, "Handled") => At("dest", i, "Handled")'
    BY <1>1, <2>1
  <2>4. /\ record = "placeholder" \/ (\E d \in Chains : reading[d] = "placeholder") =>
            destEvm /\ \E i \in Nat : At("dest", i, "Handled")
        /\ \A i \in Nat : At("source", i, "Request") /\ i <= indexed["source"] =>
            record # "absent" /\ reading["source"] # "absent"
    BY DEF RInv, RecordsExplained
  <2> QED BY <1>2, <2>2, <2>3, <2>4 DEF RecordsExplained
<1>7. ASSUME NEW d \in Chains, NEW e \in Events, BlockOf(d, e) > 0
      PROVE  BlockOf(d, e)' = BlockOf(d, e)
  <2>1. PICK b \in Nat : b = BlockOf(d, e) /\ At(d, b, e) /\ b > 0
    BY <1>7, BlockOfEvent DEF RInv, ChainsOK
  <2>2. At(d, b, e)'
    BY <1>1, <2>1
  <2>3. b \in DOMAIN blocks'[d] /\ blocks'[d][b] = e
    BY <2>2 DEF At
  <2>4. EventsOnce' /\ DOMAIN blocks'[d] \subseteq Nat
    <3>1. blocks'[d] \in Seq(Events \cup {"none"})
      BY <1>1 DEF RecordTypeOK
    <3> QED BY <3>1 DEF ChainsOK
  <2>5. \A i \in DOMAIN blocks'[d] : blocks'[d][i] = e => i = b
    BY <2>3, <2>4 DEF EventsOnce, At
  <2>6. BlockOf(d, e)' = b
    BY <2>3, <2>5 DEF BlockOf
  <2> QED BY <2>1, <2>6
<1>8. StatusesAreTrue'
  <2> SUFFICES ASSUME NEW s \in Statuses, statuses[s] > 0
               PROVE  TrueBlock(s)' = statuses[s]
    BY <1>2 DEF StatusesAreTrue, TrueBlock
  <2>1. TrueBlock(s) = statuses[s]
    BY TrueBlocks DEF RInv
  <2>2. Source' = Source /\ Dest' = Dest /\ Source \in Chains /\ Dest \in Chains
        /\ {"source", "hyperbridge", "dest"} \subseteq Chains
        /\ {"Request", "Handled", "TimeoutHandled"} \subseteq Events
    BY <1>2 DEF Source, Dest, Chains, Events
  <2>3. OnHyperbridge > 0 => OnHyperbridge' = OnHyperbridge
    BY <1>2, <1>7, <2>2 DEF OnHyperbridge
  <2>4. CASE s = "SOURCE"
    <3>1. TrueBlock(s) = BlockOf(Source, "Request") /\ TrueBlock(s)' = BlockOf(Source, "Request")'
      BY <2>4 DEF TrueBlock
    <3>2. BlockOf(Source, "Request")' = BlockOf(Source, "Request")
      BY <3>1, <2>1, <2>2, <1>7
    <3> QED BY <3>1, <3>2, <2>1
  <2>5. CASE s = "DESTINATION"
    <3>1. TrueBlock(s) = BlockOf(Dest, "Handled") /\ TrueBlock(s)' = BlockOf(Dest, "Handled")'
      BY <2>5 DEF TrueBlock
    <3>2. BlockOf(Dest, "Handled")' = BlockOf(Dest, "Handled")
      BY <3>1, <2>1, <2>2, <1>7
    <3> QED BY <3>1, <3>2, <2>1
  <2>6. CASE s = "TIMED_OUT"
    <3>1. TrueBlock(s) = BlockOf(Source, "TimeoutHandled")
          /\ TrueBlock(s)' = BlockOf(Source, "TimeoutHandled")'
      BY <2>6 DEF TrueBlock
    <3>2. BlockOf(Source, "TimeoutHandled")' = BlockOf(Source, "TimeoutHandled")
      BY <3>1, <2>1, <2>2, <1>7
    <3> QED BY <3>1, <3>2, <2>1
  <2>7. CASE s = "HYPERBRIDGE_DELIVERED"
    BY <1>2, <2>1, <2>3, <2>7 DEF TrueBlock
  <2>8. CASE s = "HYPERBRIDGE_TIMED_OUT"
    BY <1>2, <1>7, <2>1, <2>2, <2>8 DEF TrueBlock
  <2> QED BY <2>4, <2>5, <2>6, <2>7, <2>8, StatusNames
<1> QED BY <1>1, <1>5, <1>6, <1>8 DEF RInv

(* What a new block does to the events of the chains. *)
LEMMA EventAdded ==
    ASSUME RInv, NEW c \in Chains, NEW event \in Events \cup {"none"}, AddBlock(c, event),
           event # "none" => ~Happened(c, event)
    PROVE  /\ \A d \in Chains : \A i \in Nat : \A e \in Events :
                At(d, i, e)' <=> At(d, i, e)
                                 \/ (d = c /\ e = event /\ i = Len(blocks[c]) + 1)
           /\ /\ event = "Request" => c = Source
              /\ event = "Handled" => \/ c = "dest" /\ route # "toHyperbridge"
                                      \/ c = "hyperbridge" /\ route # "fromHyperbridge"
              /\ event = "TimeoutHandled" => \/ c = "source" /\ route # "fromHyperbridge"
                                             \/ c = "hyperbridge" /\ route # "toHyperbridge"
              => EventsPlaced'
           /\ EventsPlaced' /\ EventsOrdered' => RInv'
           /\ expired' = expired
<1>1. \A d \in Chains : \A i \in Nat : \A e \in Events :
        At(d, i, e)' <=> At(d, i, e)
                         \/ (d = c /\ e = event /\ i = Len(blocks[c]) + 1)
  BY AddedBlock DEF RInv
<1>2. route' = route /\ expired' = expired
  BY DEF AddBlock, setting
<1>3. ASSUME /\ event = "Request" => c = Source
             /\ event = "Handled" => \/ c = "dest" /\ route # "toHyperbridge"
                                     \/ c = "hyperbridge" /\ route # "fromHyperbridge"
             /\ event = "TimeoutHandled" => \/ c = "source" /\ route # "fromHyperbridge"
                                            \/ c = "hyperbridge" /\ route # "toHyperbridge"
      PROVE  EventsPlaced'
  <2>1. EventsPlaced /\ {"Request", "Handled", "TimeoutHandled"} \subseteq Events
    BY DEF RInv, ChainsOK, Events
  <2> QED BY <1>1, <1>2, <1>3, <2>1 DEF EventsPlaced, Source
<1>4. EventsOnce'
  <2> SUFFICES ASSUME NEW d \in Chains, NEW e \in Events, NEW i \in Nat, NEW j \in Nat,
                      At(d, i, e)', At(d, j, e)'
               PROVE  i = j
    BY DEF EventsOnce
  <2>1. CASE At(d, i, e) /\ At(d, j, e)
    BY <2>1 DEF RInv, ChainsOK, EventsOnce
  <2>2. CASE d = c /\ e = event
    <3>1. ~At(d, i, e) /\ ~At(d, j, e)
      BY <2>2, HappenedAt DEF RInv, ChainsOK, Events
    <3> QED BY <1>1, <3>1
  <2> QED BY <1>1, <2>1, <2>2
<1>5. ASSUME EventsPlaced', EventsOrdered'
      PROVE  RInv'
  BY <1>4, <1>5, AddBlockKeepsRInv DEF ChainsOK
<1> QED BY <1>1, <1>2, <1>3, <1>5

(* Where the chains do not change, what statuses stand for does not. *)
LEMMA ChainsStay ==
    ASSUME UNCHANGED <<route, blocks>>
    PROVE  \A s \in Statuses : TrueBlock(s)' = TrueBlock(s)
<1>1. \A c, e : BlockOf(c, e)' = BlockOf(c, e)
  BY DEF BlockOf
<1>2. Source' = Source /\ Dest' = Dest
  BY DEF Source, Dest
<1>3. OnHyperbridge' = OnHyperbridge
  BY <1>1 DEF OnHyperbridge
<1>4. BlockOf(Source, "Request")' = BlockOf(Source, "Request")
      /\ BlockOf(Source, "TimeoutHandled")' = BlockOf(Source, "TimeoutHandled")
      /\ BlockOf(Dest, "Handled")' = BlockOf(Dest, "Handled")
  BY <1>1, <1>2 DEF BlockOf
<1> QED BY <1>1, <1>3, <1>4 DEF TrueBlock

(* Hyperbridge may time out what the destination has not handled. *)
LEMMA TimeoutAdded ==
    ASSUME RInv, AddBlock("hyperbridge", "TimeoutHandled"), route # "toHyperbridge", expired,
           ~Happened("hyperbridge", "TimeoutHandled"), ~Happened("dest", "Handled")
    PROVE  RInv'
<1>1. /\ {"source", "hyperbridge", "dest"} \subseteq Chains
      /\ {"Request", "Handled", "TimeoutHandled"} \subseteq Events
      /\ \A c \in Chains : \A e \in Events : Happened(c, e) <=> \E i \in Nat : At(c, i, e)
  BY HappenedAt DEF Chains, Events, RInv, ChainsOK
<1>2. /\ \A i \in Nat : At("source", i, "TimeoutHandled") =>
            \E j \in Nat : j < i /\ At("source", j, "Request")
      /\ \A i, j \in Nat :
            At("hyperbridge", i, "TimeoutHandled") => expired /\ ~At("dest", j, "Handled")
  BY DEF RInv, ChainsOK, EventsOrdered
<1>3. \A d \in Chains : \A i \in Nat : \A e \in Events :
        At(d, i, e)' <=> At(d, i, e)
                         \/ (/\ d = "hyperbridge" /\ e = "TimeoutHandled"
                             /\ i = Len(blocks["hyperbridge"]) + 1)
  BY <1>1, EventAdded
<1>4. EventsPlaced' /\ expired' = expired
  BY <1>1, EventAdded
<1>5. \A d \in Chains : \A i \in Nat :
        /\ d = "source" => (At(d, i, "TimeoutHandled")' <=> At(d, i, "TimeoutHandled"))
        /\ At(d, i, "Request")' <=> At(d, i, "Request")
        /\ At(d, i, "Handled")' <=> At(d, i, "Handled")
  BY <1>1, <1>3
<1>6. EventsOrdered'
  BY <1>1, <1>2, <1>4, <1>5 DEF EventsOrdered
<1> QED BY <1>1, <1>4, <1>6, EventAdded

LEMMA ChainStepKeepsRInv ==
    ASSUME RInv, NEW empty \in SUBSET Chains, NEW updates \in SUBSET (Chains \X Chains),
           ChainStep(empty, updates)
    PROVE  RInv'
<1>1. /\ {"source", "hyperbridge", "dest"} \subseteq Chains /\ Source \in Chains
      /\ {"Request", "Handled", "TimeoutHandled"} \subseteq Events /\ "none" \notin Events
      /\ \A c \in Chains : \A e \in Events : Happened(c, e) <=> \E i \in Nat : At(c, i, e)
  BY HappenedAt DEF Chains, Events, Source, RInv, ChainsOK
<1>2. /\ \A i \in Nat : At("source", i, "TimeoutHandled") =>
            \E j \in Nat : j < i /\ At("source", j, "Request")
      /\ \A i, j \in Nat :
            At("hyperbridge", i, "TimeoutHandled") => expired /\ ~At("dest", j, "Handled")
  BY DEF RInv, ChainsOK, EventsOrdered
<1>3. ASSUME NEW c \in Chains, EmptyBlock(c)
      PROVE  RInv'
  <2>1. \A d \in Chains : \A i \in Nat : \A e \in Events : At(d, i, e)' <=> At(d, i, e)
    BY <1>1, <1>3, EventAdded DEF EmptyBlock
  <2>2. EventsPlaced' /\ expired' = expired
    BY <1>1, <1>3, EventAdded DEF EmptyBlock
  <2>3. EventsOrdered'
    BY <1>1, <1>2, <2>1, <2>2 DEF EventsOrdered
  <2> QED BY <1>1, <1>3, <2>2, <2>3, EventAdded DEF EmptyBlock
<1>4. CASE Dispatch
  <2>1. AddBlock(Source, "Request") /\ ~Happened(Source, "Request")
    BY <1>4 DEF Dispatch
  <2>2. /\ EventsPlaced' /\ expired' = expired
        /\ \A d \in Chains : \A i \in Nat :
            /\ At(d, i, "TimeoutHandled")' <=> At(d, i, "TimeoutHandled")
            /\ At(d, i, "Handled")' <=> At(d, i, "Handled")
            /\ At(d, i, "Request") => At(d, i, "Request")'
    BY <1>1, <2>1, EventAdded
  <2>3. EventsOrdered'
    BY <1>1, <1>2, <2>2 DEF EventsOrdered
  <2> QED BY <1>1, <2>1, <2>2, <2>3, EventAdded
<1>5. CASE DeliverToHyperbridge
  <2>1. /\ AddBlock("hyperbridge", "Handled") /\ ~Happened("hyperbridge", "Handled")
        /\ route # "fromHyperbridge"
    BY <1>5 DEF DeliverToHyperbridge
  <2>2. /\ EventsPlaced' /\ expired' = expired
        /\ \A d \in Chains : \A i \in Nat :
            /\ At(d, i, "TimeoutHandled")' <=> At(d, i, "TimeoutHandled")
            /\ At(d, i, "Request")' <=> At(d, i, "Request")
            /\ d = "dest" => (At(d, i, "Handled")' <=> At(d, i, "Handled"))
    BY <1>1, <2>1, EventAdded
  <2>3. EventsOrdered'
    BY <1>1, <1>2, <2>2 DEF EventsOrdered
  <2> QED BY <1>1, <2>1, <2>2, <2>3, EventAdded
<1>6. CASE DeliverToDest
  <2>1. /\ AddBlock("dest", "Handled") /\ ~Happened("dest", "Handled")
        /\ route # "toHyperbridge" /\ ~expired
    BY <1>6 DEF DeliverToDest
  <2>2. /\ EventsPlaced' /\ expired' = expired
        /\ \A d \in Chains : \A i \in Nat :
            /\ At(d, i, "TimeoutHandled")' <=> At(d, i, "TimeoutHandled")
            /\ At(d, i, "Request")' <=> At(d, i, "Request")
    BY <1>1, <2>1, EventAdded
  <2>3. EventsOrdered'
    BY <1>1, <1>2, <2>1, <2>2 DEF EventsOrdered
  <2> QED BY <1>1, <2>1, <2>2, <2>3, EventAdded
<1>7. CASE TimeoutOnHyperbridge
  BY <1>7, TimeoutAdded DEF TimeoutOnHyperbridge
<1>8. CASE TimeoutOnSource
  <2>1. /\ AddBlock("source", "TimeoutHandled") /\ ~Happened("source", "TimeoutHandled")
        /\ route # "fromHyperbridge" /\ Happened("source", "Request")
    BY <1>8 DEF TimeoutOnSource
  <2>2. /\ EventsPlaced' /\ expired' = expired
        /\ \A d \in Chains : \A i \in Nat :
            /\ At(d, i, "TimeoutHandled")' <=>
                At(d, i, "TimeoutHandled") \/ (d = "source" /\ i = Len(blocks["source"]) + 1)
            /\ At(d, i, "Request")' <=> At(d, i, "Request")
            /\ At(d, i, "Handled")' <=> At(d, i, "Handled")
    BY <1>1, <2>1, EventAdded
  <2>3. PICK j \in Nat : At("source", j, "Request") /\ j < Len(blocks["source"]) + 1
    <3>1. PICK j \in Nat : At("source", j, "Request")
      BY <1>1, <2>1
    <3>2. DOMAIN blocks["source"] = 1..Len(blocks["source"]) /\ Len(blocks["source"]) \in Nat
      BY <1>1, BlockTypes DEF RInv
    <3>3. j \in DOMAIN blocks["source"]
      BY <3>1 DEF At
    <3> QED BY <3>1, <3>2, <3>3
  <2>4. EventsOrdered'
    BY <1>1, <1>2, <2>2, <2>3 DEF EventsOrdered
  <2> QED BY <1>1, <2>1, <2>2, <2>4, EventAdded
<1>9. ASSUME Expire \/ \E u \in updates : Verify(u[1], u[2])
      PROVE  RInv'
  <2>1. UNCHANGED <<route, destEvm, punctual, blocks, indexed, reading, record, statuses>>
    BY <1>9 DEF Expire, Verify, setting, indexers, database
  <2>2. RecordTypeOK'
    <3>1. CASE Expire
      BY <2>1, <3>1 DEF Expire, RInv, RecordTypeOK
    <3>2. ASSUME NEW u \in updates, Verify(u[1], u[2])
          PROVE  RecordTypeOK'
      <4>1. u[1] \in Chains /\ u[2] \in Chains
        OBVIOUS
      <4>2. Len(blocks[u[2]]) \in 0..MaxHeight
        BY <4>1, BlockTypes DEF RInv, ReadingInOrder
      <4>3. known' = [known EXCEPT ![<<u[1], u[2]>>] = Len(blocks[u[2]])] /\ expired' = expired
        BY <3>2 DEF Verify
      <4>4. known' \in [Chains \X Chains -> 0..MaxHeight]
        BY <4>2, <4>3 DEF RInv, RecordTypeOK
      <4> QED BY <2>1, <4>3, <4>4 DEF RInv, RecordTypeOK
    <3> QED BY <1>9, <3>1, <3>2
  <2>3. expired => expired'
    BY <1>9 DEF Expire, Verify
  <2>4. ChainsOK'
    BY <2>1, <2>3 DEF RInv, ChainsOK, EventsOnce, EventsPlaced, EventsOrdered, At, Source
  <2>5. ReadingInOrder' /\ RecordsExplained'
    BY <2>1 DEF RInv, ReadingInOrder, RecordsExplained, NextEvent, At
  <2>6. StatusesAreTrue'
    <3>1. \A s \in Statuses : TrueBlock(s)' = TrueBlock(s)
      BY <2>1, ChainsStay
    <3>2. \A s \in Statuses : statuses'[s] > 0 => statuses'[s] = TrueBlock(s)'
      BY <2>1, <3>1, TrueBlocks DEF RInv
    <3> QED BY <3>2 DEF StatusesAreTrue, TrueBlock
  <2> QED BY <2>2, <2>4, <2>5, <2>6 DEF RInv
<1> QED BY <1>3, <1>4, <1>5, <1>6, <1>7, <1>8, <1>9 DEF ChainStep

-----------------------------------------------------------------------------
(* A handler under way is at an event of its chain. *)
LEMMA HandlerAt ==
    ASSUME RInv, NEW c \in Chains, reading[c] # "idle"
    PROVE  /\ NextEvent(c) \in Events /\ At(c, indexed[c] + 1, NextEvent(c))
           /\ BlockOf(c, NextEvent(c)) = indexed[c] + 1
           /\ indexed[c] + 1 <= Len(blocks[c]) /\ indexed[c] + 1 \in 0..MaxHeight
<1>1. /\ DOMAIN blocks[c] = 1..Len(blocks[c]) /\ Len(blocks[c]) \in Nat
      /\ indexed[c] \in Nat /\ MaxHeight \in Nat /\ blocks[c] \in Seq(Events \cup {"none"})
  BY BlockTypes DEF RInv
<1>2. indexed[c] < Len(blocks[c]) /\ NextEvent(c) # "none" /\ Len(blocks[c]) <= MaxHeight
  BY DEF RInv, ReadingInOrder
<1>3. indexed[c] + 1 \in DOMAIN blocks[c]
  BY <1>1, <1>2
<1>4. NextEvent(c) \in Events
  BY <1>1, <1>2, <1>3 DEF NextEvent
<1>5. At(c, indexed[c] + 1, NextEvent(c))
  BY <1>3 DEF At, NextEvent
<1>6. BlockOf(c, NextEvent(c)) = indexed[c] + 1
  BY <1>1, <1>4, <1>5, BlockOfEvent DEF RInv, ChainsOK
<1> QED BY <1>1, <1>2, <1>4, <1>5, <1>6

(* A handler that ends goes on to the next block. *)
LEMMA DoneKeepsOrder ==
    ASSUME RInv, NEW c \in Chains, reading[c] # "idle", Done(c)
    PROVE  /\ ChainsOK' /\ ReadingInOrder'
           /\ indexed' \in [Chains -> 0..MaxHeight]
           /\ reading' \in [Chains -> {"idle", "absent", "placeholder", "full"}]
           /\ \A i \in Nat : At("source", i, "Request") /\ i <= indexed'["source"] =>
                \/ At("source", i, "Request") /\ i <= indexed["source"]
                \/ c = "source" /\ NextEvent(c) = "Request"
           /\ UNCHANGED <<route, destEvm, punctual, blocks, known, expired>>
<1>1. /\ UNCHANGED <<route, destEvm, punctual, blocks, known, expired>>
      /\ indexed' = [indexed EXCEPT ![c] = @ + 1]
      /\ reading' = [reading EXCEPT ![c] = "idle"]
  BY DEF Done, setting, chains
<1>2. indexed \in [Chains -> 0..MaxHeight]
      /\ reading \in [Chains -> {"idle", "absent", "placeholder", "full"}]
  BY DEF RInv, RecordTypeOK
<1>3. /\ indexed[c] + 1 <= Len(blocks[c]) /\ indexed[c] + 1 \in 0..MaxHeight
      /\ At(c, indexed[c] + 1, NextEvent(c))
  BY HandlerAt
<1>4. ChainsOK'
  BY <1>1 DEF RInv, ChainsOK, EventsOnce, EventsPlaced, EventsOrdered, At, Source
<1>5. /\ indexed' \in [Chains -> 0..MaxHeight]
      /\ reading' \in [Chains -> {"idle", "absent", "placeholder", "full"}]
      /\ indexed'[c] = indexed[c] + 1 /\ reading'[c] = "idle"
      /\ \A d \in Chains \ {c} : indexed'[d] = indexed[d] /\ reading'[d] = reading[d]
  BY <1>1, <1>2, <1>3
<1>6. ReadingInOrder'
  <2> SUFFICES ASSUME NEW d \in Chains
               PROVE  /\ indexed'[d] <= Len(blocks[d]) /\ Len(blocks[d]) <= MaxHeight
                      /\ reading'[d] # "idle" => /\ indexed'[d] < Len(blocks[d])
                                                 /\ blocks[d][indexed'[d] + 1] # "none"
    BY <1>1 DEF ReadingInOrder, NextEvent
  <2>1. /\ indexed[d] <= Len(blocks[d]) /\ Len(blocks[d]) <= MaxHeight
        /\ reading[d] # "idle" => /\ indexed[d] < Len(blocks[d])
                                  /\ blocks[d][indexed[d] + 1] # "none"
    BY DEF RInv, ReadingInOrder, NextEvent
  <2>2. CASE d = c
    BY <1>3, <1>5, <2>1, <2>2
  <2>3. CASE d # c
    BY <1>5, <2>1, <2>3
  <2> QED BY <2>2, <2>3
<1>7. ASSUME NEW i \in Nat, At("source", i, "Request"), i <= indexed'["source"]
      PROVE  i <= indexed["source"] \/ (c = "source" /\ NextEvent(c) = "Request")
  <2>1. CASE c = "source"
    <3>1. i = indexed[c] + 1 => NextEvent(c) = "Request"
      BY <1>7, <2>1 DEF At, NextEvent
    <3>2. indexed[c] \in Nat
      BY <1>2
    <3> QED BY <1>5, <1>7, <2>1, <3>1, <3>2
  <2>2. CASE c # "source"
    BY <1>5, <1>7, <2>2 DEF Chains
  <2> QED BY <2>1, <2>2
<1> QED BY <1>1, <1>4, <1>5, <1>6, <1>7

(* A saved status is true, if the event under way is what it stands for. *)
LEMMA SaveIsTrue ==
    ASSUME RInv, NEW c \in Chains, NEW s \in Statuses, reading[c] # "idle", Save(c, s),
           UNCHANGED <<route, blocks>>, TrueBlock(s) = indexed[c] + 1
    PROVE  statuses' \in [Statuses -> 0..MaxHeight] /\ StatusesAreTrue'
<1>1. statuses' = [statuses EXCEPT ![s] = indexed[c] + 1] /\ statuses \in [Statuses -> 0..MaxHeight]
  BY DEF Save, RInv, RecordTypeOK
<1>2. indexed[c] + 1 \in 0..MaxHeight
  BY HandlerAt
<1>3. \A r \in Statuses : TrueBlock(r)' = TrueBlock(r)
  BY ChainsStay
<1>4. \A r \in Statuses : statuses[r] > 0 => statuses[r] = TrueBlock(r)
  BY TrueBlocks DEF RInv
<1>5. ASSUME NEW r \in Statuses, statuses'[r] > 0
      PROVE  statuses'[r] = TrueBlock(r)'
  <2>1. CASE r = s
    BY <1>1, <1>3, <2>1
  <2>2. CASE r # s
    BY <1>1, <1>3, <1>4, <1>5, <2>2
  <2> QED BY <2>1, <2>2
<1>6. StatusesAreTrue'
  BY <1>5 DEF StatusesAreTrue, TrueBlock
<1>7. statuses' \in [Statuses -> 0..MaxHeight]
  BY <1>1, <1>2
<1> QED BY <1>6, <1>7

LEMMA SaveRequestKeepsRInv ==
    ASSUME RInv, NEW c \in Chains, SaveRequest(c)
    PROVE  RInv'
<1>1. /\ reading[c] # "idle" /\ NextEvent(c) = "Request" /\ record' = "full"
      /\ Save(c, "SOURCE") /\ Done(c)
  BY DEF SaveRequest
<1>2. /\ ChainsOK' /\ ReadingInOrder'
      /\ indexed' \in [Chains -> 0..MaxHeight]
      /\ reading' \in [Chains -> {"idle", "absent", "placeholder", "full"}]
      /\ UNCHANGED <<route, destEvm, punctual, blocks, known, expired>>
  BY <1>1, DoneKeepsOrder
<1>3. /\ At(c, indexed[c] + 1, "Request") /\ BlockOf(c, "Request") = indexed[c] + 1
      /\ indexed[c] + 1 \in Nat
  BY <1>1, HandlerAt
<1>4. c = Source
  BY <1>3 DEF RInv, ChainsOK, EventsPlaced
<1>5. TrueBlock("SOURCE") = indexed[c] + 1 /\ "SOURCE" \in Statuses
  BY <1>3, <1>4, StatusNames DEF TrueBlock
<1>6. statuses' \in [Statuses -> 0..MaxHeight] /\ StatusesAreTrue'
  BY <1>1, <1>2, <1>5, SaveIsTrue
<1>7. RecordTypeOK'
  BY <1>1, <1>2, <1>6 DEF RInv, RecordTypeOK
<1>8. RecordsExplained'
  <2>1. \A d \in Chains : reading'[d] # "idle" => d # c /\ reading'[d] = reading[d]
    BY <1>1 DEF Done, RInv, RecordTypeOK
  <2>2. (\E d \in Chains : reading[d] = "placeholder") =>
            destEvm /\ \E i \in Nat : At("dest", i, "Handled")
    BY DEF RInv, RecordsExplained
  <2>3. (\E d \in Chains : reading'[d] = "placeholder") =>
            destEvm' /\ \E i \in Nat : At("dest", i, "Handled")'
    BY <1>2, <2>1, <2>2 DEF At
  <2>4. \A i \in Nat : At("source", i, "Request")' /\ i <= indexed'["source"] =>
            reading'["source"] # "absent"
    <3> SUFFICES ASSUME NEW i \in Nat, At("source", i, "Request"), i <= indexed'["source"]
                 PROVE  reading'["source"] # "absent"
      BY <1>2 DEF At
    <3>1. "source" = c \/ i <= indexed["source"]
      BY <1>1, DoneKeepsOrder
    <3>2. "source" \in Chains
      BY DEF Chains
    <3>3. i <= indexed["source"] => reading["source"] # "absent"
      BY DEF RInv, RecordsExplained
    <3> QED BY <2>1, <3>1, <3>2, <3>3
  <2> QED BY <1>1, <2>3, <2>4 DEF RecordsExplained
<1> QED BY <1>2, <1>6, <1>7, <1>8 DEF RInv

(* The key to the invariant: what a handler decides by the details it has     *)
(* found, or by their absence, is what the event stands for.                  *)
LEMMA DecidedStatus ==
    ASSUME RInv, NEW c \in Chains, reading[c] # "idle", NextEvent(c) # "Request",
           reading[c] # "absent" \/ EvmHandler(c),
           NEW s, s = IF NextEvent(c) = "Handled" THEN HandledStatus(c) ELSE TimeoutStatus(c)
    PROVE  s \in Statuses /\ TrueBlock(s) = indexed[c] + 1
<1>1. /\ NextEvent(c) \in Events /\ At(c, indexed[c] + 1, NextEvent(c))
      /\ BlockOf(c, NextEvent(c)) = indexed[c] + 1 /\ indexed[c] + 1 \in Nat
  BY HandlerAt
<1>2. reading[c] \in {"absent", "placeholder", "full"} /\ route \in AllRoutes
  BY DEF RInv, RecordTypeOK
<1>3. reading[c] = "placeholder" => destEvm /\ \E i \in Nat : At("dest", i, "Handled")
  BY DEF RInv, RecordsExplained
<1>4. /\ EventsPlaced
      /\ \A i, j \in Nat :
            At("hyperbridge", i, "TimeoutHandled") => expired /\ ~At("dest", j, "Handled")
  BY DEF RInv, ChainsOK, EventsOrdered
<1>5. "dest" \in Chains /\ "source" \in Chains /\ "hyperbridge" \in Chains
  BY DEF Chains
<1>6. CASE NextEvent(c) = "Handled"
  <2>1. \/ c = "dest" /\ route # "toHyperbridge"
        \/ c = "hyperbridge" /\ route # "fromHyperbridge"
    BY <1>1, <1>4, <1>6 DEF EventsPlaced
  <2>2. s = HandledStatus(c)
    BY <1>6
  <2>3. CASE c = "dest" /\ route # "toHyperbridge"
    <3>1. Dest = c
      BY <2>3 DEF Dest
    <3>2. s = "DESTINATION"
      <4>1. EvmHandler(c) \/ reading[c] = "full"
        BY <1>2, <1>3, <2>3 DEF EvmHandler
      <4> QED BY <2>2, <3>1, <4>1 DEF HandledStatus
    <3> QED BY <1>1, <1>6, <3>1, <3>2, StatusNames DEF TrueBlock
  <2>4. CASE c = "hyperbridge" /\ route = "toHyperbridge"
    <3>1. Dest = c
      BY <2>4 DEF Dest
    <3>2. reading[c] # "placeholder"
      <4>1. \A i \in Nat : ~At("dest", i, "Handled")
        BY <1>4, <1>5, <2>4 DEF EventsPlaced
      <4> QED BY <1>3, <4>1
    <3>3. s = "DESTINATION"
      <4>1. reading[c] = "full"
        BY <1>2, <3>2, <2>4 DEF EvmHandler
      <4> QED BY <2>2, <3>1, <4>1 DEF HandledStatus
    <3> QED BY <1>1, <1>6, <3>1, <3>3, StatusNames DEF TrueBlock
  <2>5. CASE c = "hyperbridge" /\ route = "relayed"
    <3>1. Dest # c /\ OnHyperbridge = BlockOf(c, "Handled")
      BY <2>5 DEF Dest, OnHyperbridge
    <3>2. s = "HYPERBRIDGE_DELIVERED"
      BY <2>2, <2>5, <3>1 DEF HandledStatus, EvmHandler
    <3> QED BY <1>1, <1>6, <2>5, <3>1, <3>2, StatusNames DEF TrueBlock
  <2> QED BY <1>2, <2>1, <2>3, <2>4, <2>5 DEF AllRoutes
<1>7. CASE NextEvent(c) = "TimeoutHandled"
  <2>1. \/ c = "source" /\ route # "fromHyperbridge"
        \/ c = "hyperbridge" /\ route # "toHyperbridge"
    BY <1>1, <1>4, <1>7 DEF EventsPlaced
  <2>2. s = TimeoutStatus(c)
    BY <1>7
  <2>3. CASE c = "source" /\ route # "fromHyperbridge"
    <3>1. Source = c
      BY <2>3 DEF Source
    <3>2. s = "TIMED_OUT"
      BY <2>2, <2>3 DEF TimeoutStatus, EvmHandler
    <3> QED BY <1>1, <1>7, <3>1, <3>2, StatusNames DEF TrueBlock
  <2>4. CASE c = "hyperbridge" /\ route = "fromHyperbridge"
    <3>1. Source = c
      BY <2>4 DEF Source
    <3>2. reading[c] # "placeholder"
      <4>1. \A i \in Nat : ~At("dest", i, "Handled")
        BY <1>1, <1>4, <1>7, <2>4
      <4> QED BY <1>3, <4>1
    <3>3. s = "TIMED_OUT"
      <4>1. reading[c] = "full"
        BY <1>2, <3>2, <2>4 DEF EvmHandler
      <4> QED BY <2>2, <3>1, <4>1 DEF TimeoutStatus
    <3> QED BY <1>1, <1>7, <3>1, <3>3, StatusNames DEF TrueBlock
  <2>5. CASE c = "hyperbridge" /\ route = "relayed"
    <3>1. Source # c
      BY <2>5 DEF Source
    <3>2. s = "HYPERBRIDGE_TIMED_OUT"
      BY <2>2, <2>5, <3>1 DEF TimeoutStatus, EvmHandler
    <3> QED BY <1>1, <1>7, <2>5, <3>2, StatusNames DEF TrueBlock
  <2> QED BY <1>2, <2>1, <2>3, <2>4, <2>5 DEF AllRoutes
<1> QED BY <1>1, <1>6, <1>7 DEF Events

LEMMA SaveStatusKeepsRInv ==
    ASSUME RInv, NEW c \in Chains, SaveStatus(c)
    PROVE  RInv'
<1> DEFINE s == IF NextEvent(c) = "Handled" THEN HandledStatus(c) ELSE TimeoutStatus(c)
<1>1. /\ reading[c] # "idle" /\ NextEvent(c) # "Request"
      /\ reading[c] # "absent" \/ EvmHandler(c)
      /\ record' = IF reading[c] = "absent" THEN "placeholder" ELSE record
      /\ Save(c, s) /\ Done(c)
  BY DEF SaveStatus
<1>2. /\ ChainsOK' /\ ReadingInOrder'
      /\ indexed' \in [Chains -> 0..MaxHeight]
      /\ reading' \in [Chains -> {"idle", "absent", "placeholder", "full"}]
      /\ UNCHANGED <<route, destEvm, punctual, blocks, known, expired>>
      /\ \A i \in Nat : At("source", i, "Request") /\ i <= indexed'["source"] =>
            i <= indexed["source"]
  BY <1>1, DoneKeepsOrder
<1>3. s \in Statuses /\ TrueBlock(s) = indexed[c] + 1
  BY <1>1, DecidedStatus
<1> HIDE DEF s
<1>4. statuses' \in [Statuses -> 0..MaxHeight] /\ StatusesAreTrue'
  BY <1>1, <1>2, <1>3, SaveIsTrue
<1>5. RecordTypeOK'
  BY <1>1, <1>2, <1>4 DEF RInv, RecordTypeOK
<1>6. \A d \in Chains : reading'[d] # "idle" => d # c /\ reading'[d] = reading[d]
  BY <1>1 DEF Done, RInv, RecordTypeOK
<1>7. /\ record = "placeholder" \/ (\E d \in Chains : reading[d] = "placeholder") =>
            destEvm /\ \E i \in Nat : At("dest", i, "Handled")
      /\ \A i \in Nat : At("source", i, "Request") /\ i <= indexed["source"] =>
            record # "absent" /\ reading["source"] # "absent"
  BY DEF RInv, RecordsExplained
<1>8. reading[c] = "absent" => destEvm /\ \E i \in Nat : At("dest", i, "Handled")
  <2> SUFFICES ASSUME reading[c] = "absent"
               PROVE  destEvm /\ \E i \in Nat : At("dest", i, "Handled")
    OBVIOUS
  <2>1. /\ NextEvent(c) \in Events /\ At(c, indexed[c] + 1, NextEvent(c))
        /\ indexed[c] \in Nat /\ indexed[c] + 1 \in Nat
    BY <1>1, HandlerAt, BlockTypes DEF RInv
  <2>2. EventsPlaced /\ EventsOrdered
    BY DEF RInv, ChainsOK
  <2>3. CASE c = "source"
    <3>1. NextEvent(c) = "TimeoutHandled"
      <4>1. NextEvent(c) # "Handled"
        BY <2>1, <2>2, <2>3 DEF EventsPlaced
      <4> QED BY <1>1, <2>1, <4>1 DEF Events
    <3>2. PICK j \in Nat : j < indexed[c] + 1 /\ At("source", j, "Request")
      BY <2>1, <2>2, <2>3, <3>1 DEF EventsOrdered
    <3>3. j <= indexed[c]
      BY <2>1, <3>2
    <3> QED BY <1>7, <2>3, <3>2, <3>3
  <2>4. CASE c = "dest" /\ destEvm
    <3>1. NextEvent(c) # "TimeoutHandled"
      BY <2>1, <2>2, <2>4 DEF EventsPlaced
    <3>2. NextEvent(c) = "Handled"
      BY <1>1, <2>1, <3>1 DEF Events
    <3> QED BY <2>1, <2>4, <3>2
  <2> QED BY <1>1, <2>3, <2>4 DEF EvmHandler
<1>9. RecordsExplained'
  <2>1. record' = "placeholder" \/ (\E d \in Chains : reading'[d] = "placeholder") =>
            destEvm' /\ \E i \in Nat : At("dest", i, "Handled")'
    BY <1>1, <1>2, <1>6, <1>7, <1>8 DEF At
  <2>2. \A i \in Nat : At("source", i, "Request")' /\ i <= indexed'["source"] =>
            record' # "absent" /\ reading'["source"] # "absent"
    <3> SUFFICES ASSUME NEW i \in Nat, At("source", i, "Request"), i <= indexed'["source"]
                 PROVE  record' # "absent" /\ reading'["source"] # "absent"
      BY <1>2 DEF At
    <3>1. record # "absent" /\ reading["source"] # "absent" /\ "source" \in Chains
      BY <1>2, <1>7 DEF Chains
    <3> QED BY <1>1, <1>6, <3>1
  <2> QED BY <2>1, <2>2 DEF RecordsExplained
<1> QED BY <1>2, <1>4, <1>5, <1>9 DEF RInv

LEMMA SkipEventKeepsRInv ==
    ASSUME RInv, NEW c \in Chains, SkipEvent(c)
    PROVE  RInv'
<1>1. /\ reading[c] # "idle" /\ NextEvent(c) # "Request" /\ Done(c)
      /\ UNCHANGED <<record, statuses>>
  BY DEF SkipEvent, database
<1>2. /\ ChainsOK' /\ ReadingInOrder'
      /\ indexed' \in [Chains -> 0..MaxHeight]
      /\ reading' \in [Chains -> {"idle", "absent", "placeholder", "full"}]
      /\ UNCHANGED <<route, destEvm, punctual, blocks, known, expired>>
      /\ \A i \in Nat : At("source", i, "Request") /\ i <= indexed'["source"] =>
            i <= indexed["source"]
  BY <1>1, DoneKeepsOrder
<1>3. RecordTypeOK'
  BY <1>1, <1>2 DEF RInv, RecordTypeOK
<1>4. StatusesAreTrue'
  <2>1. \A r \in Statuses : TrueBlock(r)' = TrueBlock(r)
    BY <1>2, ChainsStay
  <2>2. \A r \in Statuses : statuses'[r] > 0 => statuses'[r] = TrueBlock(r)'
    BY <1>1, <2>1, TrueBlocks DEF RInv
  <2> QED BY <2>2 DEF StatusesAreTrue, TrueBlock
<1>5. RecordsExplained'
  <2>1. \A d \in Chains : reading'[d] # "idle" => d # c /\ reading'[d] = reading[d]
    BY <1>1 DEF Done, RInv, RecordTypeOK
  <2>2. "source" \in Chains
    BY DEF Chains
  <2> QED BY <1>1, <1>2, <2>1, <2>2 DEF RInv, RecordsExplained, At
<1> QED BY <1>2, <1>3, <1>4, <1>5 DEF RInv

LEMMA ReadKeepsRInv ==
    ASSUME RInv, NEW c \in Chains, ReadRequest(c)
    PROVE  RInv'
<1>1. /\ indexed[c] < Len(blocks[c]) /\ reading[c] = "idle"
      /\ UNCHANGED <<route, destEvm, punctual, blocks, known, expired, record, statuses>>
  BY DEF ReadRequest, setting, chains, database
<1>2. \/ /\ NextEvent(c) = "none"
         /\ indexed' = [indexed EXCEPT ![c] = @ + 1] /\ reading' = reading
      \/ /\ NextEvent(c) # "none"
         /\ reading' = [reading EXCEPT ![c] = record] /\ indexed' = indexed
  BY DEF ReadRequest
<1>3. /\ indexed \in [Chains -> 0..MaxHeight]
      /\ reading \in [Chains -> {"idle", "absent", "placeholder", "full"}]
      /\ record \in {"absent", "placeholder", "full"}
      /\ \A d \in Chains : Len(blocks[d]) \in Nat
      /\ MaxHeight \in Nat
  BY BlockTypes, RecordAssumption DEF RInv, RecordTypeOK
<1>4. \A d \in Chains : /\ indexed[d] <= Len(blocks[d]) /\ Len(blocks[d]) <= MaxHeight
                        /\ reading[d] # "idle" => /\ indexed[d] < Len(blocks[d])
                                                  /\ blocks[d][indexed[d] + 1] # "none"
  BY DEF RInv, ReadingInOrder, NextEvent
<1>5. /\ indexed' \in [Chains -> 0..MaxHeight]
      /\ reading' \in [Chains -> {"idle", "absent", "placeholder", "full"}]
      /\ indexed'[c] = IF NextEvent(c) = "none" THEN indexed[c] + 1 ELSE indexed[c]
      /\ reading'[c] = IF NextEvent(c) = "none" THEN "idle" ELSE record
      /\ \A d \in Chains \ {c} : indexed'[d] = indexed[d] /\ reading'[d] = reading[d]
  <2>1. indexed[c] \in Nat /\ Len(blocks[c]) <= MaxHeight
    BY <1>3, <1>4
  <2>2. indexed[c] + 1 \in 0..MaxHeight
    BY <1>1, <1>3, <2>1
  <2> QED BY <1>1, <1>2, <1>3, <2>2
<1>6. ChainsOK'
  BY <1>1 DEF RInv, ChainsOK, EventsOnce, EventsPlaced, EventsOrdered, At, Source
<1>7. ReadingInOrder'
  <2> SUFFICES ASSUME NEW d \in Chains
               PROVE  /\ indexed'[d] <= Len(blocks[d]) /\ Len(blocks[d]) <= MaxHeight
                      /\ reading'[d] # "idle" => /\ indexed'[d] < Len(blocks[d])
                                                 /\ blocks[d][indexed'[d] + 1] # "none"
    BY <1>1 DEF ReadingInOrder, NextEvent
  <2>1. CASE d # c
    BY <1>4, <1>5, <2>1
  <2>2. CASE d = c /\ NextEvent(c) = "none"
    BY <1>1, <1>3, <1>4, <1>5, <2>2
  <2>3. CASE d = c /\ NextEvent(c) # "none"
    BY <1>1, <1>3, <1>4, <1>5, <2>3 DEF NextEvent
  <2> QED BY <2>1, <2>2, <2>3
<1>8. RecordsExplained'
  <2>1. /\ record = "placeholder" \/ (\E d \in Chains : reading[d] = "placeholder") =>
            destEvm /\ \E i \in Nat : At("dest", i, "Handled")
        /\ \A i \in Nat : At("source", i, "Request") /\ i <= indexed["source"] =>
            record # "absent" /\ reading["source"] # "absent"
    BY DEF RInv, RecordsExplained
  <2>2. record' = "placeholder" \/ (\E d \in Chains : reading'[d] = "placeholder") =>
            destEvm' /\ \E i \in Nat : At("dest", i, "Handled")'
    <3>1. \A d \in Chains : reading'[d] = "placeholder" =>
            record = "placeholder" \/ reading[d] = "placeholder"
      BY <1>5
    <3> QED BY <1>1, <2>1, <3>1 DEF At
  <2>3. \A i \in Nat : At("source", i, "Request")' /\ i <= indexed'["source"] =>
            record' # "absent" /\ reading'["source"] # "absent"
    <3> SUFFICES ASSUME NEW i \in Nat, At("source", i, "Request"), i <= indexed'["source"]
                 PROVE  record # "absent" /\ reading'["source"] # "absent"
      BY <1>1 DEF At
    <3>1. "source" \in Chains /\ indexed["source"] \in Nat
      BY <1>3 DEF Chains
    <3>2. i <= indexed["source"]
      <4>1. CASE c = "source"
        <5>1. i = indexed[c] + 1 => NextEvent(c) # "none"
          BY <4>1 DEF At, NextEvent
        <5> QED BY <1>5, <3>1, <4>1, <5>1
      <4>2. CASE c # "source"
        BY <1>5, <3>1, <4>2
      <4> QED BY <4>1, <4>2
    <3>3. record # "absent" /\ reading["source"] # "absent"
      BY <2>1, <3>2
    <3> QED BY <1>5, <3>1, <3>3
  <2> QED BY <2>2, <2>3 DEF RecordsExplained
<1>9. StatusesAreTrue'
  <2>1. \A r \in Statuses : TrueBlock(r)' = TrueBlock(r)
    BY <1>1, ChainsStay
  <2>2. \A r \in Statuses : statuses'[r] > 0 => statuses'[r] = TrueBlock(r)'
    BY <1>1, <2>1, TrueBlocks DEF RInv
  <2> QED BY <2>2 DEF StatusesAreTrue, TrueBlock
<1>10. RecordTypeOK'
  BY <1>1, <1>5 DEF RInv, RecordTypeOK
<1> QED BY <1>6, <1>7, <1>8, <1>9, <1>10 DEF RInv

-----------------------------------------------------------------------------
LEMMA InitRInv ==
    ASSUME RecordInit
    PROVE  RInv
<1>1. /\ route \in AllRoutes /\ destEvm \in BOOLEAN /\ punctual \in BOOLEAN
      /\ blocks = [c \in Chains |-> << >>] /\ expired = FALSE
      /\ indexed = [c \in Chains |-> 0] /\ reading = [c \in Chains |-> "idle"]
      /\ record = "absent" /\ statuses = [s \in Statuses |-> 0]
  BY RecordAssumption DEF RecordInit
<1>2. known \in [Chains \X Chains -> 0..MaxHeight]
  <2>1. known = [pair \in Chains \X Chains |-> 0] /\ 0 \in 0..MaxHeight
    BY RecordAssumption DEF RecordInit
  <2> QED BY <2>1
<1>3. 0 \in 0..MaxHeight /\ << >> \in Seq(Events \cup {"none"})
  BY RecordAssumption
<1>4. RecordTypeOK
  BY <1>1, <1>2, <1>3 DEF RecordTypeOK
<1>5. \A c \in Chains : Len(blocks[c]) = 0 /\ blocks[c] = << >> /\ \A i, e : ~At(c, i, e)
  BY <1>1 DEF At
<1>6. "source" \in Chains /\ "dest" \in Chains /\ "hyperbridge" \in Chains
  BY DEF Chains
<1>7. ChainsOK
  BY <1>5, <1>6 DEF ChainsOK, EventsOnce, EventsPlaced, EventsOrdered
<1>8. ReadingInOrder
  BY <1>1, <1>5, RecordAssumption DEF ReadingInOrder
<1>9. RecordsExplained
  BY <1>1, <1>5, <1>6 DEF RecordsExplained
<1>10. StatusesAreTrue
  BY <1>1 DEF StatusesAreTrue
<1> QED BY <1>4, <1>7, <1>8, <1>9, <1>10 DEF RInv

(* The invariant speaks of the record only, which the stream does not write.  *)
LEMMA RecordStays ==
    ASSUME RInv, UNCHANGED recordVars
    PROVE  RInv'
<1>1. UNCHANGED <<route, destEvm, punctual, blocks, known, expired, indexed, reading,
                  record, statuses>>
  BY DEF recordVars, setting, chains, indexers, database
<1>2. RecordTypeOK' /\ ReadingInOrder' /\ RecordsExplained'
  BY <1>1 DEF RInv, RecordTypeOK, ReadingInOrder, RecordsExplained, NextEvent, At
<1>3. ChainsOK'
  BY <1>1 DEF RInv, ChainsOK, EventsOnce, EventsPlaced, EventsOrdered, At, Source
<1>4. StatusesAreTrue'
  <2>1. \A r \in Statuses : TrueBlock(r)' = TrueBlock(r)
    BY <1>1, ChainsStay
  <2>2. \A r \in Statuses : statuses'[r] > 0 => statuses'[r] = TrueBlock(r)'
    BY <1>1, <2>1, TrueBlocks DEF RInv
  <2> QED BY <2>2 DEF StatusesAreTrue, TrueBlock
<1> QED BY <1>2, <1>3, <1>4 DEF RInv

LEMMA IndexerStepKeepsRInv ==
    ASSUME RInv, IndexerStep
    PROVE  RInv'
BY ReadKeepsRInv, SaveRequestKeepsRInv, SaveStatusKeepsRInv, SkipEventKeepsRInv
DEF IndexerStep

-----------------------------------------------------------------------------
(* What a step of the chains does to the blocks of events. *)

(* When the chains let an event happen. *)
MayHappen(c, event) ==
    CASE event = "Request" -> c = Source
      [] event = "Handled" ->
            /\ ~expired
            /\ \/ c = "hyperbridge" /\ route # "fromHyperbridge" /\ Happened("source", "Request")
               \/ c = "dest" /\ route # "toHyperbridge" /\ OnHyperbridge > 0
      [] event = "TimeoutHandled" ->
            /\ expired
            /\ \/ /\ c = "hyperbridge" /\ route # "toHyperbridge"
                  /\ OnHyperbridge > 0 /\ ~Happened("dest", "Handled")
               \/ /\ c = "source" /\ route # "fromHyperbridge" /\ Happened("source", "Request")
                  /\ ~Happened("hyperbridge", "Handled") \/ Happened("hyperbridge", "TimeoutHandled")
      [] OTHER -> TRUE

LEMMA ChainStepCases ==
    ASSUME RInv, NEW empty \in SUBSET Chains, NEW updates \in SUBSET (Chains \X Chains),
           ChainStep(empty, updates)
    PROVE  \/ \E c \in Chains : \E event \in Events \cup {"none"} :
                /\ AddBlock(c, event)
                /\ event # "none" => ~Happened(c, event)
                /\ MayHappen(c, event)
           \/ /\ UNCHANGED <<setting, blocks, indexers>>
              /\ expired => expired'
              /\ \A p \in Chains \X Chains : known[p] <= known'[p]
<1>1. /\ {"source", "hyperbridge", "dest"} \subseteq Chains /\ Source \in Chains
      /\ {"Request", "Handled", "TimeoutHandled"} \subseteq Events
  BY DEF Chains, Events, Source
<1>2. ASSUME NEW c \in empty, EmptyBlock(c)
      PROVE  /\ c \in Chains /\ "none" \in Events \cup {"none"} /\ AddBlock(c, "none")
             /\ MayHappen(c, "none")
  BY <1>2 DEF EmptyBlock, MayHappen
<1>3. Dispatch => AddBlock(Source, "Request") /\ ~Happened(Source, "Request")
                  /\ MayHappen(Source, "Request")
  BY DEF Dispatch, MayHappen
<1>4. DeliverToHyperbridge =>
        AddBlock("hyperbridge", "Handled") /\ ~Happened("hyperbridge", "Handled")
        /\ MayHappen("hyperbridge", "Handled")
  BY DEF DeliverToHyperbridge, MayHappen
<1>5. DeliverToDest =>
        AddBlock("dest", "Handled") /\ ~Happened("dest", "Handled") /\ MayHappen("dest", "Handled")
  BY DEF DeliverToDest, MayHappen
<1>6. TimeoutOnHyperbridge =>
        AddBlock("hyperbridge", "TimeoutHandled") /\ ~Happened("hyperbridge", "TimeoutHandled")
        /\ MayHappen("hyperbridge", "TimeoutHandled")
  BY DEF TimeoutOnHyperbridge, MayHappen
<1>7. TimeoutOnSource =>
        AddBlock("source", "TimeoutHandled") /\ ~Happened("source", "TimeoutHandled")
        /\ MayHappen("source", "TimeoutHandled")
  BY DEF TimeoutOnSource, MayHappen
<1>8. ASSUME NEW u \in updates, Verify(u[1], u[2])
      PROVE  /\ UNCHANGED <<setting, blocks, indexers>> /\ (expired => expired')
             /\ \A p \in Chains \X Chains : known[p] <= known'[p]
  <2>1. UNCHANGED <<setting, blocks, expired, indexers>>
    BY <1>8 DEF Verify
  <2>2. /\ known[<<u[1], u[2]>>] < Len(blocks[u[2]])
        /\ known' = [known EXCEPT ![<<u[1], u[2]>>] = Len(blocks[u[2]])]
    BY <1>8 DEF Verify
  <2>3. known \in [Chains \X Chains -> 0..MaxHeight] /\ Len(blocks[u[2]]) \in Nat
    BY BlockTypes DEF RInv, RecordTypeOK
  <2>4. MaxHeight \in Nat
    BY RecordAssumption
  <2> QED BY <2>1, <2>2, <2>3, <2>4
<1>9. Expire => /\ UNCHANGED <<setting, blocks, indexers>> /\ (expired => expired')
                /\ \A p \in Chains \X Chains : known[p] <= known'[p]
  <2>1. \A p \in Chains \X Chains : known[p] \in Nat
    BY RecordAssumption DEF RInv, RecordTypeOK
  <2> QED BY <2>1 DEF Expire
<1>10. CASE \E c \in empty : EmptyBlock(c)
  BY <1>2, <1>10
<1>11. CASE \/ Dispatch \/ DeliverToHyperbridge \/ DeliverToDest
            \/ TimeoutOnHyperbridge \/ TimeoutOnSource
  BY <1>1, <1>3, <1>4, <1>5, <1>6, <1>7, <1>11
<1>12. CASE (\E u \in updates : Verify(u[1], u[2])) \/ Expire
  BY <1>8, <1>9, <1>12
<1> QED BY <1>10, <1>11, <1>12 DEF ChainStep

(* A new block moves no event, and adds the one it is made of. *)
LEMMA BlockAdded ==
    ASSUME RInv, RInv', NEW c \in Chains, NEW event \in Events \cup {"none"}, AddBlock(c, event),
           event # "none" => ~Happened(c, event)
    PROVE  /\ \A d \in Chains : \A e \in Events :
                BlockOf(d, e)' = IF d = c /\ e = event THEN Len(blocks[c]) + 1 ELSE BlockOf(d, e)
           /\ \A d \in Chains : Len(blocks[d]) <= Len(blocks'[d])
           /\ Len(blocks'[c]) = Len(blocks[c]) + 1 /\ (\A d \in Chains \ {c} : blocks'[d] = blocks[d])
           /\ UNCHANGED <<setting, known, expired, indexers, Source, Dest>>
<1>1. /\ Len(blocks'[c]) = Len(blocks[c]) + 1 /\ (\A d \in Chains \ {c} : blocks'[d] = blocks[d])
      /\ \A d \in Chains : \A i \in Nat : \A e \in Events :
            At(d, i, e)' <=> At(d, i, e)
                             \/ (d = c /\ e = event /\ i = Len(blocks[c]) + 1)
  BY AddedBlock DEF RInv
<1>2. UNCHANGED <<setting, known, expired, indexers>>
  BY DEF AddBlock
<1>3. \A d \in Chains : Len(blocks[d]) \in Nat
  BY BlockTypes DEF RInv
<1>4. ASSUME NEW d \in Chains
      PROVE  Len(blocks[d]) <= Len(blocks'[d])
  BY <1>1, <1>3
<1>5. ASSUME NEW d \in Chains, NEW e \in Events
      PROVE  BlockOf(d, e)' = IF d = c /\ e = event THEN Len(blocks[c]) + 1 ELSE BlockOf(d, e)
  <2>1. /\ \A i \in Nat : At(d, i, e) => BlockOf(d, e) = i /\ i > 0
        /\ BlockOf(d, e) \in Nat
        /\ BlockOf(d, e) > 0 => At(d, BlockOf(d, e), e)
    BY RInvEventBlocks DEF EventBlocks
  <2>2. /\ \A i \in Nat : At(d, i, e)' => BlockOf(d, e)' = i /\ i > 0
        /\ BlockOf(d, e)' \in Nat
        /\ BlockOf(d, e)' > 0 => \E i \in Nat : i = BlockOf(d, e)' /\ At(d, i, e)'
    <3>1. EventBlocks'
      BY RInv', RInvEventBlocks, PTL
    <3> QED BY <3>1 DEF EventBlocks, At
  <2>3. CASE d = c /\ e = event
    <3>1. PICK n \in Nat : n = Len(blocks[c]) + 1
      BY <1>3
    <3>2. At(d, n, e)'
      BY <1>1, <2>3, <3>1
    <3> QED BY <2>2, <2>3, <3>1, <3>2
  <2>4. CASE ~(d = c /\ e = event)
    <3>1. \A i \in Nat : At(d, i, e)' <=> At(d, i, e)
      BY <1>1, <2>4
    <3>2. CASE BlockOf(d, e) > 0
      BY <2>1, <2>2, <2>4, <3>1, <3>2
    <3>3. CASE ~(BlockOf(d, e) > 0)
      <4>1. \A i \in Nat : ~At(d, i, e)
        BY <2>1, <3>3
      <4>2. ~(BlockOf(d, e)' > 0)
        BY <2>2, <3>1, <4>1
      <4> QED BY <2>1, <2>2, <2>4, <3>3, <4>2
    <3> QED BY <3>2, <3>3
  <2> QED BY <2>3, <2>4
<1>6. Source' = Source /\ Dest' = Dest
  BY <1>2 DEF Source, Dest, setting
<1> QED BY <1>1, <1>2, <1>4, <1>5, <1>6

-----------------------------------------------------------------------------
(* The timeout stream. *)

(* What a stage of the stream says of the chains.                             *)
StagesExplained ==
    /\ stage # "unopened" => expired
    /\ stage \in {"PENDING_TIMEOUT", "DESTINATION_FINALIZED_TIMEOUT"} => route # "toHyperbridge"
    /\ stage = "DESTINATION_FINALIZED_TIMEOUT" => known[<<"hyperbridge", "dest">>] > before["dest"]

(* Deliveries come before the request expires, its timeouts after that. *)
DividedByExpiry ==
    /\ \A c \in Chains : before[c] <= Len(blocks[c])
    /\ expired => BlockOf("dest", "Handled") <= before["dest"]
    /\ BlockOf("hyperbridge", "TimeoutHandled") > 0 =>
        BlockOf("hyperbridge", "TimeoutHandled") > before["hyperbridge"]

TimeoutInv ==
    /\ RInv
    /\ TimeoutTypeOK
    /\ StagesExplained
    /\ DividedByExpiry
    /\ TimeoutsProvable

LEMMA InitTimeoutInv == TimeoutInit => TimeoutInv
<1> SUFFICES ASSUME TimeoutInit
             PROVE  TimeoutInv
  OBVIOUS
<1>1. /\ RecordInit /\ before = [c \in Chains |-> 0]
      /\ stage = "unopened" /\ delivered = FALSE /\ proofHeight = 0 /\ expired = FALSE
  BY DEF TimeoutInit, RecordInit
<1>2. RInv
  BY <1>1, InitRInv
<1>3. TimeoutTypeOK
  <2>1. 0 \in 0..MaxHeight
    BY RecordAssumption
  <2>2. before \in [Chains -> 0..MaxHeight]
    BY <1>1, <2>1
  <2> QED BY <1>1, <1>2, <2>1, <2>2 DEF TimeoutTypeOK, RInv
<1>4. StagesExplained
  BY <1>1 DEF StagesExplained
<1>5. DividedByExpiry
  <2>1. \A c \in Chains : Len(blocks[c]) \in Nat /\ before[c] = 0
    BY <1>1, <1>2, BlockTypes DEF RInv
  <2>2. BlockOf("hyperbridge", "TimeoutHandled") > 0 =>
            BlockOf("hyperbridge", "TimeoutHandled") > before["hyperbridge"]
    BY <2>1 DEF Chains
  <2> QED BY <1>1, <2>1, <2>2 DEF DividedByExpiry
<1>6. TimeoutsProvable
  BY <1>1 DEF TimeoutsProvable
<1> QED BY <1>2, <1>3, <1>4, <1>5, <1>6 DEF TimeoutInv

(* Types of what the steps below compare. *)
LEMMA TimeoutTypes ==
    ASSUME TimeoutInv
    PROVE  /\ \A c \in Chains : Len(blocks[c]) \in 0..MaxHeight /\ before[c] \in Nat
           /\ \A p \in Chains \X Chains : known[p] \in 0..MaxHeight
           /\ \A c \in Chains : \A e \in Events : BlockOf(c, e) \in Nat
           /\ MaxHeight \in Nat /\ proofHeight \in Nat
           /\ {"source", "hyperbridge", "dest"} \subseteq Chains
           /\ Dest \in Chains /\ Source \in Chains
           /\ {"Request", "Handled", "TimeoutHandled"} \subseteq Events
<1>1. RInv /\ RecordTypeOK /\ MaxHeight \in Nat
  BY RecordAssumption DEF TimeoutInv, RInv
<1>2. \A c \in Chains : Len(blocks[c]) \in 0..MaxHeight
  BY <1>1, BlockTypes DEF RInv, ReadingInOrder
<1>3. \A c \in Chains : before[c] \in Nat
  BY <1>1 DEF TimeoutInv, TimeoutTypeOK
<1>4. \A c \in Chains : \A e \in Events : BlockOf(c, e) \in Nat
  BY <1>1, RInvEventBlocks DEF EventBlocks
<1>5. proofHeight \in Nat
  BY <1>1 DEF TimeoutInv, TimeoutTypeOK
<1>6. \A p \in Chains \X Chains : known[p] \in 0..MaxHeight
  BY <1>1 DEF RecordTypeOK
<1> QED BY <1>1, <1>2, <1>3, <1>4, <1>5, <1>6 DEF Chains, Events, Source, Dest

(* A timeout comes to a block above all that were made before the expiry, and *)
(* no delivery comes then.                                                    *)
LEMMA BlockKeepsTimeoutInv ==
    ASSUME TimeoutInv, RInv', NEW c \in Chains, NEW event \in Events \cup {"none"},
           AddBlock(c, event), event # "none" => ~Happened(c, event),
           event = "Handled" => ~expired,
           UNCHANGED before
    PROVE  /\ DividedByExpiry'
           /\ UNCHANGED <<stage, delivered, proofHeight>> => TimeoutsProvable'
<1>1. /\ \A d \in Chains : \A e \in Events :
            BlockOf(d, e)' = IF d = c /\ e = event THEN Len(blocks[c]) + 1 ELSE BlockOf(d, e)
      /\ \A d \in Chains : Len(blocks[d]) <= Len(blocks'[d])
      /\ UNCHANGED <<route, expired, Source, Dest>>
  <2>1. RInv
    BY DEF TimeoutInv
  <2> QED BY <2>1, BlockAdded DEF setting
<1>2. /\ \A d \in Chains : Len(blocks[d]) \in 0..MaxHeight /\ before[d] \in Nat
      /\ \A d \in Chains : \A e \in Events : BlockOf(d, e) \in Nat
      /\ MaxHeight \in Nat
      /\ "hyperbridge" \in Chains /\ "dest" \in Chains /\ Dest \in Chains
      /\ "Handled" \in Events /\ "TimeoutHandled" \in Events
  BY TimeoutTypes
<1>3. /\ \A d \in Chains : before[d] <= Len(blocks[d])
      /\ expired => BlockOf("dest", "Handled") <= before["dest"]
      /\ BlockOf("hyperbridge", "TimeoutHandled") > 0 =>
            BlockOf("hyperbridge", "TimeoutHandled") > before["hyperbridge"]
  BY DEF TimeoutInv, DividedByExpiry
<1>4. DividedByExpiry'
  <2>1. ASSUME NEW d \in Chains
        PROVE  before[d] <= Len(blocks'[d])
    <3>1. Len(blocks'[d]) \in Nat
      <4>1. RecordTypeOK'
        BY DEF RInv
      <4>2. blocks'[d] \in Seq(Events \cup {"none"})
        BY <4>1 DEF RecordTypeOK
      <4> QED BY <4>2
    <3>2. before[d] \in Nat /\ Len(blocks[d]) \in Nat /\ before[d] <= Len(blocks[d])
      BY <1>2, <1>3
    <3>3. Len(blocks[d]) <= Len(blocks'[d])
      BY <1>1
    <3> QED BY <3>1, <3>2, <3>3
  <2>2. expired' => BlockOf("dest", "Handled")' <= before["dest"]
    BY <1>1, <1>2, <1>3
  <2>3. BlockOf("hyperbridge", "TimeoutHandled")' > 0 =>
            BlockOf("hyperbridge", "TimeoutHandled")' > before["hyperbridge"]
    BY <1>1, <1>2, <1>3
  <2> QED BY <2>1, <2>2, <2>3 DEF DividedByExpiry
<1>5. ASSUME UNCHANGED <<stage, delivered, proofHeight>>
      PROVE  TimeoutsProvable'
  <2> SUFFICES ASSUME stage = "HYPERBRIDGE_FINALIZED_TIMEOUT", ~Happened(Dest, "Handled")',
                      route = "relayed" /\ Happened("hyperbridge", "Handled")' => delivered
               PROVE  proofHeight > before["hyperbridge"] /\ ~ReceiptAt(proofHeight)'
    BY <1>1, <1>5 DEF TimeoutsProvable
  <2>1. expired /\ event # "Handled"
    BY DEF TimeoutInv, StagesExplained
  <2>2. \A d \in Chains : BlockOf(d, "Handled")' = BlockOf(d, "Handled")
    BY <1>1, <1>2, <2>1
  <2>3. \A d \in Chains : Happened(d, "Handled")' <=> Happened(d, "Handled")
    BY <2>2 DEF Happened
  <2>4. ~Happened(Dest, "Handled")
    <3>1. PICK d \in Chains : d = Dest /\ d = Dest'
      BY <1>1, <1>2
    <3>2. ~Happened(d, "Handled")'
      BY <3>1 DEF Happened, BlockOf
    <3> QED BY <2>3, <3>1, <3>2
  <2>5. proofHeight > before["hyperbridge"] /\ ~ReceiptAt(proofHeight)
    BY <1>2, <2>3, <2>4 DEF TimeoutInv, TimeoutsProvable
  <2>6. BlockOf("hyperbridge", "TimeoutHandled") > 0 =>
            BlockOf("hyperbridge", "TimeoutHandled")' = BlockOf("hyperbridge", "TimeoutHandled")
    BY <1>1, <1>2 DEF Happened
  <2>7. proofHeight \in Nat /\ BlockOf("hyperbridge", "Handled")' = BlockOf("hyperbridge", "Handled")
    BY <1>2, <2>2, TimeoutTypes
  <2> QED BY <1>5, <2>5, <2>6, <2>7 DEF ReceiptAt
<1> QED BY <1>4, <1>5

(* Steps that make no block: updates, the expiry, and the indexers. *)
LEMMA NoBlockKeepsTimeoutInv ==
    ASSUME TimeoutInv, RInv', UNCHANGED <<setting, blocks>>, expired => expired',
           \A p \in Chains \X Chains : known[p] <= known'[p],
           before' = IF expired' /\ ~expired THEN [c \in Chains |-> Len(blocks[c])] ELSE before,
           UNCHANGED timeoutStreamVars
    PROVE  TimeoutInv'
<1>1. /\ \A c \in Chains : Len(blocks[c]) \in 0..MaxHeight /\ before[c] \in Nat
      /\ \A p \in Chains \X Chains : known[p] \in 0..MaxHeight
      /\ \A c \in Chains : \A e \in Events : BlockOf(c, e) \in Nat
      /\ MaxHeight \in Nat /\ {"source", "hyperbridge", "dest"} \subseteq Chains
      /\ {"Request", "Handled", "TimeoutHandled"} \subseteq Events
  BY TimeoutTypes
<1>2. UNCHANGED <<route, stage, delivered, proofHeight, Source, Dest>>
  BY DEF setting, timeoutStreamVars, Source, Dest
<1>3. \A c, e : BlockOf(c, e)' = BlockOf(c, e) /\ (Happened(c, e)' <=> Happened(c, e))
  BY DEF BlockOf, Happened
<1>4. TimeoutTypeOK'
  <2>1. before' \in [Chains -> 0..MaxHeight]
    BY <1>1 DEF TimeoutInv, TimeoutTypeOK
  <2> QED BY <1>2, <2>1 DEF TimeoutInv, TimeoutTypeOK, RInv
<1>5. CASE expired' /\ ~expired
  <2>1. stage = "unopened"
    BY <1>5 DEF TimeoutInv, StagesExplained
  <2>2. StagesExplained'
    BY <1>2, <2>1 DEF StagesExplained
  <2>3. TimeoutsProvable'
    BY <1>2, <2>1 DEF TimeoutsProvable
  <2>4. before' = [c \in Chains |-> Len(blocks[c])]
    BY <1>5
  <2>5. BlockOf("hyperbridge", "TimeoutHandled") = 0
    <3>1. BlockOf("hyperbridge", "TimeoutHandled") > 0 =>
            At("hyperbridge", BlockOf("hyperbridge", "TimeoutHandled"), "TimeoutHandled")
      BY <1>1, RInvEventBlocks DEF TimeoutInv, EventBlocks
    <3>2. \A i \in Nat : ~At("hyperbridge", i, "TimeoutHandled")
      BY <1>5 DEF TimeoutInv, RInv, ChainsOK, EventsOrdered
    <3> QED BY <1>1, <3>1, <3>2
  <2>6. BlockOf("dest", "Handled") <= Len(blocks["dest"])
    <3>1. BlockOf("dest", "Handled") > 0 => At("dest", BlockOf("dest", "Handled"), "Handled")
      BY <1>1, RInvEventBlocks DEF TimeoutInv, EventBlocks
    <3>2. DOMAIN blocks["dest"] = 1..Len(blocks["dest"])
      BY <1>1, BlockTypes DEF TimeoutInv, RInv
    <3> QED BY <1>1, <3>1, <3>2 DEF At
  <2>7. DividedByExpiry'
    <3>1. \A c \in Chains : before'[c] = Len(blocks[c]) /\ blocks'[c] = blocks[c]
      BY <2>4
    <3>2. before'["dest"] = Len(blocks["dest"])
      BY <1>1, <3>1
    <3>3. \A c \in Chains : before'[c] <= Len(blocks'[c])
      BY <1>1, <3>1
    <3> QED BY <1>3, <2>5, <2>6, <3>2, <3>3 DEF DividedByExpiry
  <2> QED BY <1>4, <2>2, <2>3, <2>7 DEF TimeoutInv
<1>6. CASE ~(expired' /\ ~expired)
  <2>1. before' = before /\ (expired' <=> expired)
    BY <1>6
  <2>2. StagesExplained'
    <3>1. <<"hyperbridge", "dest">> \in Chains \X Chains
      BY <1>1
    <3>2. /\ known[<<"hyperbridge", "dest">>] <= known'[<<"hyperbridge", "dest">>]
          /\ known[<<"hyperbridge", "dest">>] \in Nat
      BY <1>1, <3>1
    <3>3. known'[<<"hyperbridge", "dest">>] \in Nat
      BY <1>1, <3>1 DEF RInv, RecordTypeOK
    <3>4. before["dest"] \in Nat
      BY <1>1
    <3> QED BY <1>2, <2>1, <3>2, <3>3, <3>4 DEF TimeoutInv, StagesExplained
  <2>3. DividedByExpiry'
    BY <1>3, <2>1 DEF TimeoutInv, DividedByExpiry
  <2>4. TimeoutsProvable'
    <3>1. ReceiptAt(proofHeight)' <=> ReceiptAt(proofHeight)
      BY <1>2, <1>3 DEF ReceiptAt
    <3>2. Happened(Dest, "Handled")' <=> Happened(Dest, "Handled")
      BY <1>2 DEF Happened, BlockOf
    <3> QED BY <1>2, <1>3, <2>1, <3>1, <3>2 DEF TimeoutInv, TimeoutsProvable
  <2> QED BY <1>4, <2>2, <2>3, <2>4 DEF TimeoutInv
<1> QED BY <1>5, <1>6

(* The stream's own steps, but for the block its submission makes. *)
LEMMA StagesKeepTimeoutInv ==
    ASSUME TimeoutInv, UNCHANGED <<recordVars, before>>, TimeoutTypeOK', StagesExplained',
           stage' = "HYPERBRIDGE_FINALIZED_TIMEOUT" => TimeoutsProvable'
    PROVE  TimeoutInv'
<1>1. RInv'
  BY RecordStays DEF TimeoutInv
<1>2. UNCHANGED <<blocks, expired, before>>
  BY DEF recordVars, chains
<1>3. DividedByExpiry'
  BY <1>2 DEF TimeoutInv, DividedByExpiry, BlockOf
<1>4. TimeoutsProvable'
  BY DEF TimeoutsProvable
<1> QED BY <1>1, <1>3, <1>4 DEF TimeoutInv

LEMMA OpenKeepsTimeoutInv ==
    ASSUME TimeoutInv, OpenTimeout
    PROVE  TimeoutInv'
<1>1. /\ stage = "unopened" /\ expired /\ UNCHANGED <<recordVars, before, proofHeight>>
      /\ stage' \in {"thrown", "astray", "TIMED_OUT", "HYPERBRIDGE_TIMED_OUT", "PENDING_TIMEOUT"}
      /\ stage' = "PENDING_TIMEOUT" => Dest # "hyperbridge"
      /\ delivered' \in BOOLEAN
  BY DEF OpenTimeout, HasStatus, TimeoutInv, RInv, RecordTypeOK
<1>2. UNCHANGED <<route, expired, known>> /\ RInv'
  BY <1>1, RecordStays DEF TimeoutInv, recordVars, setting, chains
<1>3. TimeoutTypeOK'
  BY <1>1, <1>2 DEF TimeoutInv, TimeoutTypeOK, RInv
<1>4. StagesExplained'
  BY <1>1, <1>2 DEF StagesExplained, Dest
<1> QED BY <1>1, <1>3, <1>4, StagesKeepTimeoutInv

LEMMA DestinationKeepsTimeoutInv ==
    ASSUME TimeoutInv, DestinationFinalized
    PROVE  TimeoutInv'
<1>1. /\ stage = "PENDING_TIMEOUT" /\ UNCHANGED <<recordVars, before, delivered, proofHeight>>
      /\ \/ stage' = "HYPERBRIDGE_TIMED_OUT"
         \/ /\ stage' = "DESTINATION_FINALIZED_TIMEOUT"
            /\ expired /\ known[<<"hyperbridge", "dest">>] > before["dest"]
  BY DEF DestinationFinalized, PastTimeout
<1>2. UNCHANGED <<route, expired, known>> /\ RInv'
  BY <1>1, RecordStays DEF TimeoutInv, recordVars, setting, chains
<1>3. TimeoutTypeOK'
  BY <1>1, <1>2 DEF TimeoutInv, TimeoutTypeOK, RInv
<1>4. StagesExplained'
  BY <1>1, <1>2 DEF TimeoutInv, StagesExplained
<1> QED BY <1>1, <1>3, <1>4, StagesKeepTimeoutInv

(* Hyperbridge accepts the stream's proof only of what was not delivered.     *)
LEMMA SubmissionKeepsTimeoutInv ==
    ASSUME TimeoutInv, TimeOutOnHyperbridge
    PROVE  TimeoutInv'
<1>1. /\ stage = "DESTINATION_FINALIZED_TIMEOUT" /\ UNCHANGED <<before, delivered, proofHeight>>
      /\ stage' \in {"thrown", "TIMED_OUT", "HYPERBRIDGE_TIMED_OUT"}
      /\ \/ UNCHANGED recordVars
         \/ /\ ~Refused(known[<<"hyperbridge", "dest">>])
            /\ AddBlock("hyperbridge", "TimeoutHandled")
  BY DEF TimeOutOnHyperbridge
<1>2. /\ expired /\ route # "toHyperbridge" /\ known[<<"hyperbridge", "dest">>] > before["dest"]
  BY <1>1 DEF TimeoutInv, StagesExplained
<1>3. CASE UNCHANGED recordVars
  <2>1. UNCHANGED <<route, expired, known>> /\ RInv'
    BY <1>3, RecordStays DEF TimeoutInv, recordVars, setting, chains
  <2>2. TimeoutTypeOK'
    BY <1>1, <2>1 DEF TimeoutInv, TimeoutTypeOK, RInv
  <2>3. StagesExplained'
    BY <1>1, <1>2, <2>1 DEF StagesExplained
  <2> QED BY <1>1, <1>3, <2>2, <2>3, StagesKeepTimeoutInv
<1>4. CASE /\ ~Refused(known[<<"hyperbridge", "dest">>])
           /\ AddBlock("hyperbridge", "TimeoutHandled")
  <2>1. /\ BlockOf("dest", "Handled") \in Nat /\ before["dest"] \in Nat
        /\ known[<<"hyperbridge", "dest">>] \in Nat
        /\ {"hyperbridge", "dest"} \subseteq Chains /\ "TimeoutHandled" \in Events
    <3>1. <<"hyperbridge", "dest">> \in Chains \X Chains
      BY TimeoutTypes
    <3> QED BY <3>1, TimeoutTypes
  <2>2. ~Happened("dest", "Handled") /\ ~Happened("hyperbridge", "TimeoutHandled")
    <3>1. BlockOf("dest", "Handled") <= before["dest"]
      BY <1>2 DEF TimeoutInv, DividedByExpiry
    <3> QED BY <1>2, <1>4, <2>1, <3>1 DEF Refused, Happened
  <2>3. RInv'
    BY <1>2, <1>4, <2>2, TimeoutAdded DEF TimeoutInv
  <2>4. DividedByExpiry'
    BY <1>1, <1>4, <2>1, <2>2, <2>3, BlockKeepsTimeoutInv
  <2>5. UNCHANGED <<expired, route>>
    BY <1>4 DEF AddBlock, setting
  <2>6. TimeoutTypeOK'
    BY <1>1, <2>3 DEF TimeoutInv, TimeoutTypeOK, RInv
  <2>7. StagesExplained' /\ TimeoutsProvable'
    BY <1>1, <1>2, <2>5 DEF StagesExplained, TimeoutsProvable
  <2> QED BY <2>3, <2>4, <2>6, <2>7 DEF TimeoutInv
<1> QED BY <1>1, <1>3, <1>4

(* The proof that is handed out is of a state without the receipt. *)
LEMMA FinalizedKeepsTimeoutInv ==
    ASSUME TimeoutInv, HyperbridgeTimeoutFinalized
    PROVE  TimeoutInv'
<1>1. /\ stage = "HYPERBRIDGE_TIMED_OUT" /\ Source # "hyperbridge"
      /\ UNCHANGED <<recordVars, before, delivered>>
      /\ proofHeight' = known[<<"source", "hyperbridge">>]
      /\ stage' = "HYPERBRIDGE_FINALIZED_TIMEOUT"
      /\ IF delivered
         THEN /\ statuses["HYPERBRIDGE_TIMED_OUT"] > 0
              /\ known[<<"source", "hyperbridge">>] >= statuses["HYPERBRIDGE_TIMED_OUT"]
         ELSE known[<<"source", "hyperbridge">>] > before["hyperbridge"]
  BY DEF HyperbridgeTimeoutFinalized, HasDelivered, LastIsTimeout, HasStatus, PastTimeout
<1>2. UNCHANGED <<route, blocks, expired, known, statuses>> /\ RInv'
  BY <1>1, RecordStays DEF TimeoutInv, recordVars, setting, chains, indexers, database
<1>3. /\ known[<<"source", "hyperbridge">>] \in 0..MaxHeight /\ before["hyperbridge"] \in Nat
      /\ BlockOf("hyperbridge", "Handled") \in Nat
      /\ BlockOf("hyperbridge", "TimeoutHandled") \in Nat /\ BlockOf(Dest, "Handled") \in Nat
      /\ MaxHeight \in Nat
  <2>1. <<"source", "hyperbridge">> \in Chains \X Chains
    BY TimeoutTypes
  <2> QED BY <2>1, TimeoutTypes
<1>4. TimeoutTypeOK'
  BY <1>1, <1>2, <1>3 DEF TimeoutInv, TimeoutTypeOK, RInv
<1>5. StagesExplained'
  BY <1>1, <1>2 DEF TimeoutInv, StagesExplained
<1>6. TimeoutsProvable'
  <2> SUFFICES ASSUME ~Happened(Dest, "Handled"),
                      route = "relayed" /\ Happened("hyperbridge", "Handled") => delivered
               PROVE  /\ known[<<"source", "hyperbridge">>] > before["hyperbridge"]
                      /\ ~ReceiptAt(known[<<"source", "hyperbridge">>])
    <3>1. Dest' = Dest
      BY <1>2 DEF Dest
    <3> QED BY <1>1, <1>2, <3>1 DEF TimeoutsProvable, ReceiptAt, Happened, BlockOf
  <2>1. CASE delivered
    <3>1. statuses["HYPERBRIDGE_TIMED_OUT"] = TrueBlock("HYPERBRIDGE_TIMED_OUT")
      BY <1>1, <2>1, TrueBlocks, StatusNames DEF TimeoutInv, RInv
    <3>2. TrueBlock("HYPERBRIDGE_TIMED_OUT") > 0 =>
            TrueBlock("HYPERBRIDGE_TIMED_OUT") = BlockOf("hyperbridge", "TimeoutHandled")
      BY DEF TrueBlock
    <3>3. /\ BlockOf("hyperbridge", "TimeoutHandled") > 0
          /\ known[<<"source", "hyperbridge">>] >= BlockOf("hyperbridge", "TimeoutHandled")
      BY <1>1, <2>1, <3>1, <3>2
    <3>4. BlockOf("hyperbridge", "TimeoutHandled") > before["hyperbridge"]
      BY <3>3 DEF TimeoutInv, DividedByExpiry
    <3> QED BY <1>3, <3>3, <3>4 DEF ReceiptAt
  <2>2. CASE ~delivered
    <3>1. ~(BlockOf("hyperbridge", "Handled") > 0)
      <4>1. CASE route = "relayed"
        BY <2>2, <4>1 DEF Happened
      <4>2. CASE route = "toHyperbridge"
        BY <4>2 DEF Happened, Dest
      <4>3. route # "fromHyperbridge"
        BY <1>1 DEF Source
      <4> QED BY <4>1, <4>2, <4>3 DEF TimeoutInv, RInv, RecordTypeOK, AllRoutes
    <3> QED BY <1>1, <1>3, <2>2, <3>1 DEF ReceiptAt
  <2> QED BY <2>1, <2>2, <1>2 DEF TimeoutInv, TimeoutTypeOK
<1> QED BY <1>1, <1>4, <1>5, <1>6, StagesKeepTimeoutInv

LEMMA TimedOutKeepsTimeoutInv ==
    ASSUME TimeoutInv, TimedOut
    PROVE  TimeoutInv'
<1>1. /\ stage = "HYPERBRIDGE_FINALIZED_TIMEOUT" /\ stage' = "TIMED_OUT"
      /\ UNCHANGED <<recordVars, before, delivered, proofHeight>>
  BY DEF TimedOut
<1>2. UNCHANGED <<route, expired, known>> /\ RInv'
  BY <1>1, RecordStays DEF TimeoutInv, recordVars, setting, chains
<1>3. TimeoutTypeOK'
  BY <1>1, <1>2 DEF TimeoutInv, TimeoutTypeOK, RInv
<1>4. StagesExplained'
  BY <1>1, <1>2 DEF TimeoutInv, StagesExplained
<1> QED BY <1>1, <1>3, <1>4, StagesKeepTimeoutInv

LEMMA StepKeepsTimeoutInv == TimeoutInv /\ [TimeoutNext]_timeoutVars => TimeoutInv'
<1> SUFFICES ASSUME TimeoutInv, [TimeoutNext]_timeoutVars
             PROVE  TimeoutInv'
  OBVIOUS
<1>1. CASE TimeoutStreamStep
  BY <1>1, OpenKeepsTimeoutInv, DestinationKeepsTimeoutInv, SubmissionKeepsTimeoutInv,
     FinalizedKeepsTimeoutInv, TimedOutKeepsTimeoutInv DEF TimeoutStreamStep
<1>2. ASSUME World \/ IndexerStep,
             before' = IF expired' /\ ~expired THEN [c \in Chains |-> Len(blocks[c])] ELSE before,
             UNCHANGED timeoutStreamVars
      PROVE  TimeoutInv'
  <2>1. CASE IndexerStep
    <3>1. UNCHANGED <<setting, chains>>
      BY <2>1 DEF IndexerStep, ReadRequest, SaveRequest, SaveStatus, SkipEvent, Done
    <3>2. UNCHANGED <<blocks, expired, known>>
      BY <3>1 DEF chains
    <3>3. \A p \in Chains \X Chains : known[p] <= known'[p]
      <4>1. \A p \in Chains \X Chains : known[p] \in 0..MaxHeight
        BY TimeoutTypes
      <4> QED BY <3>2, <4>1
    <3>4. RInv'
      BY <2>1, IndexerStepKeepsRInv DEF TimeoutInv
    <3> QED BY <1>2, <3>1, <3>2, <3>3, <3>4, NoBlockKeepsTimeoutInv
  <2>2. CASE World
    <3>1. PICK empty \in SUBSET Chains, updates \in SUBSET (Chains \X Chains) :
            ChainStep(empty, updates)
      <4>1. Waiting \in SUBSET Chains
        BY DEF Waiting, Chains
      <4>2. (IF expired THEN TimeoutUpdates ELSE DeliveryUpdates) \in SUBSET (Chains \X Chains)
        BY DEF TimeoutUpdates, DeliveryUpdates, Chains
      <4> QED BY <2>2, <4>1, <4>2 DEF World
    <3>2. RInv /\ RInv'
      BY <3>1, ChainStepKeepsRInv DEF TimeoutInv
    <3>3. ASSUME NEW c \in Chains, NEW event \in Events \cup {"none"}, AddBlock(c, event),
                 event # "none" => ~Happened(c, event), MayHappen(c, event)
          PROVE  TimeoutInv'
      <4>1. UNCHANGED <<route, expired, known>>
        BY <3>3 DEF AddBlock, setting
      <4>2. event = "Handled" => ~expired
        BY <3>3 DEF MayHappen
      <4>3. UNCHANGED <<before, stage, delivered, proofHeight>>
        BY <1>2, <4>1 DEF timeoutStreamVars
      <4>4. DividedByExpiry' /\ TimeoutsProvable'
        BY <3>2, <3>3, <4>2, <4>3, BlockKeepsTimeoutInv
      <4>5. TimeoutTypeOK'
        BY <3>2, <4>3 DEF TimeoutInv, TimeoutTypeOK, RInv
      <4>6. StagesExplained'
        BY <4>1, <4>3 DEF TimeoutInv, StagesExplained
      <4> QED BY <3>2, <4>4, <4>5, <4>6 DEF TimeoutInv
    <3>4. ASSUME UNCHANGED <<setting, blocks, indexers>>, expired => expired',
                 \A p \in Chains \X Chains : known[p] <= known'[p]
          PROVE  TimeoutInv'
      BY <1>2, <3>2, <3>4, NoBlockKeepsTimeoutInv
    <3> QED BY <3>1, <3>2, <3>3, <3>4, ChainStepCases
  <2> QED BY <1>2, <2>1, <2>2
<1>3. CASE UNCHANGED timeoutVars
  <2>1. UNCHANGED <<recordVars, before, stage, delivered, proofHeight>>
    BY <1>3 DEF timeoutVars, timeoutStreamVars
  <2>2. UNCHANGED <<route, blocks, expired, known>> /\ RInv'
    BY <2>1, RecordStays DEF TimeoutInv, recordVars, setting, chains
  <2>3. TimeoutTypeOK' /\ StagesExplained'
    BY <2>1, <2>2 DEF TimeoutInv, TimeoutTypeOK, StagesExplained, RInv
  <2>4. TimeoutsProvable'
    BY <2>1, <2>2 DEF TimeoutInv, TimeoutsProvable, ReceiptAt, Happened, BlockOf, Dest
  <2> QED BY <2>1, <2>3, <2>4, StagesKeepTimeoutInv
<1> QED BY <1>1, <1>2, <1>3 DEF TimeoutNext

(* Whoever times the request out and whenever: what the timeout stream is at  *)
(* is true of the chains.                                                     *)
THEOREM TimeoutInvariantHolds == TimeoutSpec => []TimeoutInv
BY InitTimeoutInv, StepKeepsTimeoutInv, PTL DEF TimeoutSpec

(* The state of the timeout stream has its type. *)
THEOREM TimeoutTypeCorrect == TimeoutSpec => []TimeoutTypeOK
<1>1. TimeoutInv => TimeoutTypeOK
  BY DEF TimeoutInv
<1> QED BY <1>1, TimeoutInvariantHolds, PTL

(* The proof the timeout stream hands out is of a state of Hyperbridge after  *)
(* the timeout in which it has no receipt: unless the request reached its     *)
(* destination, or the snapshot it was decided by lacked a delivery.          *)
THEOREM ProofsHold == TimeoutSpec => []TimeoutsProvable
<1>1. TimeoutInv => TimeoutsProvable
  BY DEF TimeoutInv
<1> QED BY <1>1, TimeoutInvariantHolds, PTL

-----------------------------------------------------------------------------
(* Indexers that keep up: what the record says of the chains. *)

(* The chain and the event a status is about. *)
StatusChain(s) ==
    CASE s \in {"SOURCE", "TIMED_OUT"} -> Source
      [] s = "DESTINATION" -> Dest
      [] OTHER -> "hyperbridge"

StatusEvent(s) ==
    CASE s = "SOURCE" -> "Request"
      [] s \in {"HYPERBRIDGE_TIMED_OUT", "TIMED_OUT"} -> "TimeoutHandled"
      [] OTHER -> "Handled"

RequestIndexed == BlockOf(Source, "Request") \in 1..indexed[Source]
DeliveryIndexed == OnHyperbridge \in 1..indexed["hyperbridge"]

(* At most one block of all chains is not indexed yet. *)
IndexedInStep ==
    \A c \in Chains : indexed[c] < Len(blocks[c]) =>
        /\ indexed[c] + 1 = Len(blocks[c])
        /\ \A d \in Chains \ {c} : indexed[d] = Len(blocks[d])

(* What is indexed is recorded, none is passed over or written over. *)
EventsRecorded ==
    \A s \in Statuses : TrueBlock(s) \in 1..indexed[StatusChain(s)] => statuses[s] = TrueBlock(s)

(* The request is indexed, with its details, before anything else happens. *)
RequestFirst ==
    /\ \A c \in Chains : \A i \in Nat :
            At(c, i, "Handled") \/ At(c, i, "TimeoutHandled") => RequestIndexed
    /\ record = IF RequestIndexed THEN "full" ELSE "absent"
    /\ \A c \in Chains : reading[c] # "idle" /\ NextEvent(c) # "Request" => reading[c] = "full"

(* And what Hyperbridge has relayed, before it reaches the destination or     *)
(* times out; the source times out nothing that came to Hyperbridge itself.   *)
DeliveryFirst ==
    \A i \in Nat :
        /\ At("dest", i, "Handled") => DeliveryIndexed
        /\ At("hyperbridge", i, "TimeoutHandled") => DeliveryIndexed
        /\ At("source", i, "TimeoutHandled") =>
            expired /\ (OnHyperbridge > 0 => DeliveryIndexed /\ route = "relayed")

PunctualInv == IndexedInStep /\ EventsRecorded /\ RequestFirst /\ DeliveryFirst

(* The one case YieldedBlocksMatch leaves out. *)
TimedOutUndelivered == Happened(Source, "TimeoutHandled") /\ ~(OnHyperbridge > 0)

LEMMA InitPunctualInv ==
    ASSUME RecordInit
    PROVE  PunctualInv
<1>1. /\ blocks = [c \in Chains |-> << >>] /\ indexed = [c \in Chains |-> 0]
      /\ reading = [c \in Chains |-> "idle"] /\ record = "absent"
      /\ Source \in Chains /\ "hyperbridge" \in Chains /\ Dest \in Chains
  BY DEF RecordInit, Chains, Source, Dest
<1>2. /\ \A c \in Chains : Len(blocks[c]) = 0 /\ indexed[c] = 0 /\ reading[c] = "idle"
      /\ \A c \in Chains : \A i, e : ~At(c, i, e)
  BY <1>1 DEF At
<1>3. \A c \in Chains : 1..indexed[c] = {}
  BY <1>2
<1>4. IndexedInStep
  BY <1>2 DEF IndexedInStep
<1>5. EventsRecorded
  <2>1. \A s : StatusChain(s) \in Chains
    BY <1>1 DEF StatusChain
  <2> QED BY <1>3, <2>1 DEF EventsRecorded
<1>6. RequestFirst
  <2>1. ~RequestIndexed
    BY <1>1, <1>3 DEF RequestIndexed
  <2> QED BY <1>1, <1>2, <2>1 DEF RequestFirst
<1>7. DeliveryFirst
  <2>1. "dest" \in Chains /\ "source" \in Chains
    BY DEF Chains
  <2> QED BY <1>1, <1>2, <2>1 DEF DeliveryFirst
<1> QED BY <1>4, <1>5, <1>6, <1>7 DEF PunctualInv

(* A status names a block of its chain, or none. *)
LEMMA TrueBlockOf ==
    ASSUME RecordTypeOK, NEW s \in Statuses
    PROVE  /\ TrueBlock(s) = IF s \in {"HYPERBRIDGE_DELIVERED", "HYPERBRIDGE_TIMED_OUT"} /\ route # "relayed"
                             THEN 0 ELSE BlockOf(StatusChain(s), StatusEvent(s))
           /\ StatusChain(s) \in Chains /\ StatusEvent(s) \in Events
<1>1. s \in {"SOURCE", "HYPERBRIDGE_DELIVERED", "DESTINATION", "HYPERBRIDGE_TIMED_OUT", "TIMED_OUT"}
  BY StatusNames
<1>2. StatusChain(s) \in Chains /\ StatusEvent(s) \in Events
  BY DEF StatusChain, StatusEvent, Chains, Events, Source, Dest
<1>3. CASE s = "HYPERBRIDGE_DELIVERED"
  BY <1>2, <1>3 DEF TrueBlock, StatusChain, StatusEvent, OnHyperbridge
<1>4. CASE s # "HYPERBRIDGE_DELIVERED"
  BY <1>1, <1>2, <1>4 DEF TrueBlock, StatusChain, StatusEvent
<1> QED BY <1>2, <1>3, <1>4

(* The event a status names is where the status says. *)
LEMMA TrueBlockAt ==
    ASSUME RInv, NEW s \in Statuses, TrueBlock(s) > 0
    PROVE  /\ At(StatusChain(s), TrueBlock(s), StatusEvent(s)) /\ TrueBlock(s) \in Nat
           /\ TrueBlock(s) = BlockOf(StatusChain(s), StatusEvent(s))
           /\ StatusChain(s) \in Chains /\ StatusEvent(s) \in Events
           /\ s \in {"HYPERBRIDGE_DELIVERED", "HYPERBRIDGE_TIMED_OUT"} => route = "relayed"
<1>1. /\ TrueBlock(s) = IF s \in {"HYPERBRIDGE_DELIVERED", "HYPERBRIDGE_TIMED_OUT"} /\ route # "relayed"
                        THEN 0 ELSE BlockOf(StatusChain(s), StatusEvent(s))
      /\ StatusChain(s) \in Chains /\ StatusEvent(s) \in Events
  BY TrueBlockOf DEF RInv
<1>2. TrueBlock(s) = BlockOf(StatusChain(s), StatusEvent(s))
      /\ (s \in {"HYPERBRIDGE_DELIVERED", "HYPERBRIDGE_TIMED_OUT"} => route = "relayed")
  BY <1>1
<1>3. /\ BlockOf(StatusChain(s), StatusEvent(s)) \in Nat
      /\ BlockOf(StatusChain(s), StatusEvent(s)) > 0 =>
            At(StatusChain(s), BlockOf(StatusChain(s), StatusEvent(s)), StatusEvent(s))
  BY <1>1, RInvEventBlocks DEF EventBlocks
<1> QED BY <1>1, <1>2, <1>3

(* No two statuses name one event. *)
LEMMA StatusOfEvent ==
    ASSUME RInv, NEW r \in Statuses, NEW s \in Statuses, TrueBlock(r) > 0, TrueBlock(s) > 0,
           StatusChain(r) = StatusChain(s), StatusEvent(r) = StatusEvent(s)
    PROVE  r = s
<1>1. /\ r \in {"HYPERBRIDGE_DELIVERED", "HYPERBRIDGE_TIMED_OUT"} => route = "relayed"
      /\ s \in {"HYPERBRIDGE_DELIVERED", "HYPERBRIDGE_TIMED_OUT"} => route = "relayed"
  BY TrueBlockAt
<1>2. route = "relayed" => Source = "source" /\ Dest = "dest"
  BY DEF Source, Dest
<1> QED BY <1>1, <1>2, StatusNames DEF StatusChain, StatusEvent

(* What makes a block needs all blocks indexed: nothing is recorded meanwhile, *)
(* and what the new event follows is indexed.                                  *)
LEMMA BlockKeepsPunctualInv ==
    ASSUME RInv, RInv', PunctualInv, punctual, NEW c \in Chains, NEW event \in Events \cup {"none"},
           AddBlock(c, event), event # "none" => ~Happened(c, event), MayHappen(c, event)
    PROVE  PunctualInv'
<1>1. /\ \A d \in Chains : \A e \in Events :
            BlockOf(d, e)' = IF d = c /\ e = event THEN Len(blocks[c]) + 1 ELSE BlockOf(d, e)
      /\ Len(blocks'[c]) = Len(blocks[c]) + 1 /\ (\A d \in Chains \ {c} : blocks'[d] = blocks[d])
      /\ UNCHANGED <<route, expired, indexed, reading, record, statuses, Source, Dest>>
  BY BlockAdded DEF setting, indexers, database
<1>2. \A d \in Chains : indexed[d] = Len(blocks[d]) /\ Len(blocks[d]) \in Nat
  BY BlockTypes DEF AddBlock, AllIndexed, RInv
<1>3. /\ {"source", "hyperbridge", "dest"} \subseteq Chains /\ Source \in Chains /\ Dest \in Chains
      /\ {"Request", "Handled", "TimeoutHandled"} \subseteq Events /\ "none" \notin Events
      /\ \A d \in Chains : \A e \in Events : BlockOf(d, e) \in Nat
      /\ \A d \in Chains : \A e \in Events : BlockOf(d, e) <= Len(blocks[d])
  <2>1. \A d \in Chains : \A e \in Events : BlockOf(d, e) \in Nat
    BY RInvEventBlocks DEF EventBlocks
  <2>2. ASSUME NEW d \in Chains, NEW e \in Events
        PROVE  BlockOf(d, e) <= Len(blocks[d])
    <3>1. BlockOf(d, e) > 0 => At(d, BlockOf(d, e), e)
      BY RInvEventBlocks DEF EventBlocks
    <3>2. DOMAIN blocks[d] = 1..Len(blocks[d])
      BY BlockTypes DEF RInv
    <3> QED BY <1>2, <2>1, <3>1, <3>2 DEF At
  <2> QED BY <2>1, <2>2 DEF Chains, Source, Dest, Events
<1>4. \A d \in Chains : \A i \in Nat : \A e \in Events :
        At(d, i, e)' <=> At(d, i, e) \/ (d = c /\ e = event /\ i = Len(blocks[c]) + 1)
  BY AddedBlock DEF RInv
<1>5. \A d \in Chains : \A e \in Events : Happened(d, e) <=> \E i \in Nat : At(d, i, e)
  BY HappenedAt DEF RInv, ChainsOK
<1>6. IndexedInStep'
  BY <1>1, <1>2 DEF IndexedInStep
<1>7. \A d \in Chains : \A e \in Events :
        /\ BlockOf(d, e) \in 1..indexed[d] <=> BlockOf(d, e) > 0
        /\ BlockOf(d, e)' \in 1..indexed[d] <=> BlockOf(d, e) \in 1..indexed[d]
  <2> SUFFICES ASSUME NEW d \in Chains, NEW e \in Events
               PROVE  /\ BlockOf(d, e) \in 1..indexed[d] <=> BlockOf(d, e) > 0
                      /\ BlockOf(d, e)' \in 1..indexed[d] <=> BlockOf(d, e) \in 1..indexed[d]
    OBVIOUS
  <2>1. /\ BlockOf(d, e) \in Nat /\ BlockOf(d, e) <= Len(blocks[d])
        /\ indexed[d] = Len(blocks[d]) /\ Len(blocks[d]) \in Nat
    BY <1>2, <1>3
  <2>2. CASE d = c /\ e = event
    <3>1. BlockOf(d, e)' = indexed[d] + 1 /\ ~(BlockOf(d, e) > 0)
      BY <1>1, <1>3, <2>1, <2>2 DEF Happened
    <3> QED BY <2>1, <3>1
  <2>3. CASE ~(d = c /\ e = event)
    <3>1. BlockOf(d, e)' = BlockOf(d, e)
      BY <1>1, <2>3
    <3> QED BY <2>1, <3>1
  <2> QED BY <2>2, <2>3
<1>8. RequestIndexed' <=> RequestIndexed
  <2>1. PICK d \in Chains : d = Source /\ d = Source'
    BY <1>1, <1>3
  <2>2. BlockOf(Source, "Request")' = BlockOf(d, "Request")'
    BY <2>1 DEF BlockOf
  <2> QED BY <1>1, <1>3, <1>7, <2>1, <2>2 DEF RequestIndexed
<1>9. OnHyperbridge = BlockOf("hyperbridge", IF route = "fromHyperbridge" THEN "Request" ELSE "Handled")
      /\ OnHyperbridge' = BlockOf("hyperbridge", IF route = "fromHyperbridge" THEN "Request" ELSE "Handled")'
  BY <1>1 DEF OnHyperbridge, BlockOf
<1>10. /\ DeliveryIndexed' <=> DeliveryIndexed
       /\ OnHyperbridge > 0 => DeliveryIndexed
  <2>1. PICK e \in Events : e = IF route = "fromHyperbridge" THEN "Request" ELSE "Handled"
    BY <1>3
  <2>2. OnHyperbridge = BlockOf("hyperbridge", e) /\ OnHyperbridge' = BlockOf("hyperbridge", e)'
    BY <1>1, <2>1 DEF OnHyperbridge, BlockOf
  <2> QED BY <1>1, <1>3, <1>7, <2>2 DEF DeliveryIndexed
<1>11. OnHyperbridge > 0 \/ Happened("source", "Request") => RequestIndexed
  <2>1. Happened("source", "Request") => RequestIndexed
    <3>1. Happened("source", "Request") => Source = "source"
      BY <1>3, <1>5 DEF RInv, ChainsOK, EventsPlaced
    <3> QED BY <1>3, <1>7, <3>1 DEF Happened, RequestIndexed
  <2>2. CASE route = "fromHyperbridge" /\ OnHyperbridge > 0
    <3>1. Source = "hyperbridge"
      BY <2>2 DEF Source
    <3> QED BY <1>3, <1>7, <1>9, <2>2, <3>1 DEF RequestIndexed
  <2>3. CASE route # "fromHyperbridge" /\ OnHyperbridge > 0
    <3>1. \E i \in Nat : At("hyperbridge", i, "Handled")
      BY <1>3, <1>5, <1>9, <2>3 DEF Happened
    <3> QED BY <1>3, <3>1 DEF PunctualInv, RequestFirst
  <2> QED BY <2>1, <2>2, <2>3
<1>12. EventsRecorded'
  <2> SUFFICES ASSUME NEW s \in Statuses, TrueBlock(s)' \in 1..indexed[StatusChain(s)]
               PROVE  statuses[s] = TrueBlock(s)'
    <3>1. \A s \in Statuses : StatusChain(s)' = StatusChain(s)
      BY <1>1 DEF StatusChain
    <3> QED BY <1>1, <3>1 DEF EventsRecorded
  <2>1. PICK d \in Chains, e \in Events : d = StatusChain(s) /\ e = StatusEvent(s)
    BY TrueBlockOf DEF RInv
  <2>2. TrueBlock(s) = IF s \in {"HYPERBRIDGE_DELIVERED", "HYPERBRIDGE_TIMED_OUT"} /\ route # "relayed"
                       THEN 0 ELSE BlockOf(d, e)
    BY <2>1, TrueBlockOf DEF RInv
  <2>3. TrueBlock(s)' = IF s \in {"HYPERBRIDGE_DELIVERED", "HYPERBRIDGE_TIMED_OUT"} /\ route # "relayed"
                        THEN 0 ELSE BlockOf(d, e)'
    <3>1. s \in {"SOURCE", "HYPERBRIDGE_DELIVERED", "DESTINATION", "HYPERBRIDGE_TIMED_OUT", "TIMED_OUT"}
      BY StatusNames
    <3>3. CASE s \in {"SOURCE", "TIMED_OUT"}
      <4>1. d = Source /\ d = Source' /\ e = (IF s = "SOURCE" THEN "Request" ELSE "TimeoutHandled")
        BY <1>1, <2>1, <3>3 DEF StatusChain, StatusEvent
      <4>2. BlockOf(d, e)' = IF s = "SOURCE" THEN BlockOf(Source, "Request")'
                             ELSE BlockOf(Source, "TimeoutHandled")'
        BY <4>1 DEF BlockOf
      <4> QED BY <3>3, <4>2 DEF TrueBlock
    <3>4. CASE s = "DESTINATION"
      <4>1. d = Dest /\ d = Dest' /\ e = "Handled"
        BY <1>1, <2>1, <3>4 DEF StatusChain, StatusEvent
      <4>2. BlockOf(d, e)' = BlockOf(Dest, "Handled")'
        BY <4>1 DEF BlockOf
      <4> QED BY <3>4, <4>2 DEF TrueBlock
    <3>5. CASE s = "HYPERBRIDGE_DELIVERED"
      <4>1. d = "hyperbridge" /\ e = "Handled"
        BY <2>1, <3>5 DEF StatusChain, StatusEvent
      <4> QED BY <1>1, <1>9, <3>5, <4>1 DEF TrueBlock
    <3>6. CASE s = "HYPERBRIDGE_TIMED_OUT"
      <4>1. d = "hyperbridge" /\ e = "TimeoutHandled"
        BY <2>1, <3>6 DEF StatusChain, StatusEvent
      <4> QED BY <1>1, <3>6, <4>1 DEF TrueBlock
    <3> QED BY <3>1, <3>3, <3>4, <3>5, <3>6
  <2>4. TrueBlock(s)' = BlockOf(d, e)' /\ TrueBlock(s) = BlockOf(d, e)
        /\ BlockOf(d, e)' \in 1..indexed[d]
    BY <1>2, <2>1, <2>2, <2>3
  <2>5. BlockOf(d, e)' = BlockOf(d, e)
    BY <1>1, <1>2, <2>4
  <2> QED BY <2>1, <2>4, <2>5 DEF PunctualInv, EventsRecorded
<1>13. RequestFirst'
  <2>1. ASSUME NEW d \in Chains, NEW i \in Nat, At(d, i, "Handled")' \/ At(d, i, "TimeoutHandled")'
        PROVE  RequestIndexed
    <3>1. CASE At(d, i, "Handled") \/ At(d, i, "TimeoutHandled")
      BY <3>1 DEF PunctualInv, RequestFirst
    <3>2. CASE event \in {"Handled", "TimeoutHandled"}
      BY <1>11, <3>2 DEF MayHappen
    <3> QED BY <1>3, <1>4, <2>1, <3>1, <3>2
  <2>2. \A d \in Chains : reading[d] = "idle"
    <3>1. \A d \in Chains : reading[d] # "idle" => indexed[d] < Len(blocks[d])
      BY DEF RInv, ReadingInOrder
    <3> QED BY <1>2, <3>1
  <2>3. record = IF RequestIndexed THEN "full" ELSE "absent"
    BY DEF PunctualInv, RequestFirst
  <2> QED BY <1>1, <1>8, <2>1, <2>2, <2>3 DEF RequestFirst
<1>14. DeliveryFirst'
  <2> SUFFICES ASSUME NEW i \in Nat
               PROVE  /\ At("dest", i, "Handled")' => DeliveryIndexed
                      /\ At("hyperbridge", i, "TimeoutHandled")' => DeliveryIndexed
                      /\ At("source", i, "TimeoutHandled")' =>
                            expired /\ (OnHyperbridge' > 0 => DeliveryIndexed /\ route = "relayed")
    BY <1>1, <1>10 DEF DeliveryFirst
  <2>1. /\ At("dest", i, "Handled") => DeliveryIndexed
        /\ At("hyperbridge", i, "TimeoutHandled") => DeliveryIndexed
        /\ At("source", i, "TimeoutHandled") =>
            expired /\ (OnHyperbridge > 0 => DeliveryIndexed /\ route = "relayed")
    BY DEF PunctualInv, DeliveryFirst
  <2>2. At("dest", i, "Handled")' => DeliveryIndexed
    <3>1. CASE c = "dest" /\ event = "Handled"
      BY <1>10, <3>1 DEF MayHappen
    <3> QED BY <1>3, <1>4, <2>1, <3>1
  <2>3. At("hyperbridge", i, "TimeoutHandled")' => DeliveryIndexed
    <3>1. CASE c = "hyperbridge" /\ event = "TimeoutHandled"
      BY <1>10, <3>1 DEF MayHappen
    <3> QED BY <1>3, <1>4, <2>1, <3>1
  <2>4. ASSUME At("source", i, "TimeoutHandled")
        PROVE  expired /\ (OnHyperbridge' > 0 => DeliveryIndexed /\ route = "relayed")
    <3>1. expired /\ (OnHyperbridge > 0 => DeliveryIndexed /\ route = "relayed")
      BY <2>1, <2>4
    <3>2. route # "fromHyperbridge"
      BY <1>3, <2>4 DEF RInv, ChainsOK, EventsPlaced
    <3>3. event # "Handled"
      BY <3>1 DEF MayHappen
    <3>4. OnHyperbridge' = OnHyperbridge
      BY <1>1, <1>3, <1>9, <3>2, <3>3
    <3> QED BY <3>1, <3>4
  <2>5. ASSUME c = "source", event = "TimeoutHandled"
        PROVE  expired /\ (OnHyperbridge' > 0 => DeliveryIndexed /\ route = "relayed")
    <3>1. /\ expired /\ route # "fromHyperbridge"
          /\ ~Happened("hyperbridge", "Handled") \/ Happened("hyperbridge", "TimeoutHandled")
      BY <2>5 DEF MayHappen
    <3>2. OnHyperbridge' = OnHyperbridge /\ OnHyperbridge = BlockOf("hyperbridge", "Handled")
      BY <1>1, <1>3, <1>9, <2>5, <3>1
    <3>3. OnHyperbridge > 0 => Happened("hyperbridge", "TimeoutHandled")
      BY <3>1, <3>2 DEF Happened
    <3>4. Happened("hyperbridge", "TimeoutHandled") => route # "toHyperbridge"
      <4>1. Happened("hyperbridge", "TimeoutHandled") =>
                \E j \in Nat : At("hyperbridge", j, "TimeoutHandled")
        BY <1>3, <1>5
      <4> QED BY <1>3, <4>1 DEF RInv, ChainsOK, EventsPlaced
    <3>5. route \in AllRoutes
      BY DEF RInv, RecordTypeOK
    <3> QED BY <1>10, <3>1, <3>2, <3>3, <3>4, <3>5 DEF AllRoutes
  <2> QED BY <1>3, <1>4, <2>2, <2>3, <2>4, <2>5
<1> QED BY <1>6, <1>12, <1>13, <1>14 DEF PunctualInv

(* What makes no block changes nothing that is said of the indexers. *)
LEMMA NoBlockKeepsPunctualInv ==
    ASSUME PunctualInv, UNCHANGED <<setting, blocks, indexers>>, expired => expired'
    PROVE  PunctualInv'
<1>1. UNCHANGED <<route, blocks, indexed, reading, record, statuses>>
  BY DEF setting, indexers, database
<1>2. /\ \A c, e : BlockOf(c, e)' = BlockOf(c, e)
      /\ \A c, i, e : At(c, i, e)' <=> At(c, i, e)
      /\ \A c : NextEvent(c)' = NextEvent(c)
  BY <1>1 DEF BlockOf, At, NextEvent
<1>3. Source' = Source /\ Dest' = Dest
  BY <1>1 DEF Source, Dest
<1>4. /\ OnHyperbridge' = OnHyperbridge
      /\ RequestIndexed' <=> RequestIndexed
  BY <1>1, <1>3 DEF OnHyperbridge, RequestIndexed, BlockOf
<1>5. DeliveryIndexed' <=> DeliveryIndexed
  BY <1>1, <1>4 DEF DeliveryIndexed
<1>6. \A s \in Statuses : TrueBlock(s)' = TrueBlock(s) /\ StatusChain(s)' = StatusChain(s)
  BY <1>1, <1>3, ChainsStay DEF StatusChain
<1>7. IndexedInStep'
  BY <1>1 DEF PunctualInv, IndexedInStep
<1>8. EventsRecorded'
  BY <1>1, <1>6 DEF PunctualInv, EventsRecorded
<1>9. RequestFirst'
  BY <1>1, <1>2, <1>4 DEF PunctualInv, RequestFirst
<1>10. DeliveryFirst'
  BY <1>1, <1>2, <1>4, <1>5 DEF PunctualInv, DeliveryFirst
<1> QED BY <1>7, <1>8, <1>9, <1>10 DEF PunctualInv

(* When the block that was not indexed is, all are. *)
LEMMA BlockIndexed ==
    ASSUME RInv, PunctualInv, NEW c \in Chains, indexed[c] < Len(blocks[c]),
           indexed' = [indexed EXCEPT ![c] = @ + 1], UNCHANGED <<setting, chains>>
    PROVE  /\ IndexedInStep' /\ DeliveryFirst'
           /\ RequestIndexed => RequestIndexed'
           /\ RequestIndexed' => RequestIndexed \/ (c = Source /\ NextEvent(c) = "Request")
           /\ \A s \in Statuses :
                /\ TrueBlock(s)' = TrueBlock(s) /\ StatusChain(s)' = StatusChain(s)
                /\ TrueBlock(s) \in 1..indexed'[StatusChain(s)] =>
                    \/ TrueBlock(s) \in 1..indexed[StatusChain(s)]
                    \/ StatusChain(s) = c /\ StatusEvent(s) = NextEvent(c)
<1>1. UNCHANGED <<route, blocks, known, expired>>
  BY DEF setting, chains
<1>2. /\ \A d \in Chains : indexed[d] \in Nat /\ Len(blocks[d]) \in Nat
      /\ indexed'[c] = indexed[c] + 1
      /\ \A d \in Chains \ {c} : indexed'[d] = indexed[d]
      /\ "source" \in Chains /\ "hyperbridge" \in Chains /\ "dest" \in Chains
      /\ Source \in Chains /\ "Request" \in Events
  BY BlockTypes DEF RInv, RecordTypeOK, Chains, Source, Events
<1>3. \A d \in Chains : \A n \in Nat : n \in 1..indexed[d] => n \in 1..indexed'[d]
  <2> SUFFICES ASSUME NEW d \in Chains, NEW n \in Nat, n \in 1..indexed[d]
               PROVE  n \in 1..indexed'[d]
    OBVIOUS
  <2>1. CASE d = c
    BY <1>2, <2>1
  <2>2. CASE d # c
    BY <1>2, <2>2
  <2> QED BY <2>1, <2>2
<1>4. /\ \A d, e : BlockOf(d, e)' = BlockOf(d, e)
      /\ \A d, i, e : At(d, i, e)' <=> At(d, i, e)
  BY <1>1 DEF BlockOf, At
<1>5. Source' = Source /\ Dest' = Dest
  BY <1>1 DEF Source, Dest
<1>6. /\ OnHyperbridge' = OnHyperbridge
      /\ BlockOf(Source, "Request")' = BlockOf(Source, "Request")
  BY <1>1, <1>5 DEF OnHyperbridge, BlockOf
<1>7. IndexedInStep'
  <2>1. indexed[c] + 1 = Len(blocks[c]) /\ \A d \in Chains \ {c} : indexed[d] = Len(blocks[d])
    BY DEF PunctualInv, IndexedInStep
  <2>2. \A d \in Chains : indexed'[d] = Len(blocks[d])
    BY <1>2, <2>1
  <2>3. \A d \in Chains : ~(indexed'[d] < Len(blocks[d]))
    BY <1>2, <2>2
  <2> QED BY <1>1, <2>3 DEF IndexedInStep
<1>8. DeliveryIndexed => DeliveryIndexed'
  <2>1. DeliveryIndexed => OnHyperbridge \in Nat
    BY DEF DeliveryIndexed
  <2> QED BY <1>2, <1>3, <1>6, <2>1 DEF DeliveryIndexed
<1>9. DeliveryFirst'
  BY <1>1, <1>4, <1>6, <1>8 DEF PunctualInv, DeliveryFirst
<1>10. ASSUME NEW d \in Chains, NEW e \in Events, BlockOf(d, e) \in 1..indexed'[d],
              BlockOf(d, e) \notin 1..indexed[d]
       PROVE  d = c /\ NextEvent(c) = e
  <2>1. d = c
    BY <1>2, <1>10
  <2>2. BlockOf(d, e) = indexed[c] + 1
    BY <1>2, <1>10, <2>1
  <2>3. At(d, BlockOf(d, e), e)
    BY <1>2, <1>10, RInvEventBlocks DEF EventBlocks
  <2> QED BY <2>1, <2>2, <2>3 DEF At, NextEvent
<1>11. RequestIndexed => RequestIndexed'
  <2>1. BlockOf(Source, "Request") \in Nat
    BY <1>2, RInvEventBlocks DEF EventBlocks
  <2> QED BY <1>2, <1>3, <1>5, <1>6, <2>1 DEF RequestIndexed
<1>12. RequestIndexed' => RequestIndexed \/ (c = Source /\ NextEvent(c) = "Request")
  BY <1>2, <1>5, <1>6, <1>10 DEF RequestIndexed
<1>13. ASSUME NEW s \in Statuses
       PROVE  /\ TrueBlock(s)' = TrueBlock(s) /\ StatusChain(s)' = StatusChain(s)
              /\ TrueBlock(s) \in 1..indexed'[StatusChain(s)] =>
                    \/ TrueBlock(s) \in 1..indexed[StatusChain(s)]
                    \/ StatusChain(s) = c /\ StatusEvent(s) = NextEvent(c)
  <2>1. TrueBlock(s)' = TrueBlock(s) /\ StatusChain(s)' = StatusChain(s)
    BY <1>1, <1>5, ChainsStay DEF StatusChain
  <2>2. ASSUME TrueBlock(s) \in 1..indexed'[StatusChain(s)]
        PROVE  \/ TrueBlock(s) \in 1..indexed[StatusChain(s)]
               \/ StatusChain(s) = c /\ StatusEvent(s) = NextEvent(c)
    <3>1. TrueBlock(s) > 0
      BY <2>2
    <3>2. /\ TrueBlock(s) = BlockOf(StatusChain(s), StatusEvent(s))
          /\ StatusChain(s) \in Chains /\ StatusEvent(s) \in Events
      BY <3>1, TrueBlockAt
    <3> QED BY <1>10, <2>2, <3>2
  <2> QED BY <2>1, <2>2
<1> QED BY <1>7, <1>9, <1>11, <1>12, <1>13

LEMMA ReadKeepsPunctualInv ==
    ASSUME RInv, PunctualInv, NEW c \in Chains, ReadRequest(c)
    PROVE  PunctualInv'
<1>1. /\ indexed[c] < Len(blocks[c]) /\ reading[c] = "idle"
      /\ UNCHANGED <<setting, chains, record, statuses>>
      /\ UNCHANGED <<route, blocks, expired>>
  BY DEF ReadRequest, setting, chains, database
<1>2. /\ DOMAIN blocks[c] = 1..Len(blocks[c]) /\ indexed[c] \in Nat /\ Len(blocks[c]) \in Nat
      /\ blocks[c] \in Seq(Events \cup {"none"})
      /\ reading \in [Chains -> {"idle", "absent", "placeholder", "full"}]
      /\ "none" \notin Events
  BY BlockTypes DEF RInv, RecordTypeOK, Events
<1>3. CASE NextEvent(c) = "none"
  <2>1. indexed' = [indexed EXCEPT ![c] = @ + 1] /\ reading' = reading
    BY <1>3 DEF ReadRequest
  <2>2. \A d \in Chains : reading[d] # "idle" => NextEvent(d)' = NextEvent(d)
    <3>1. \A d \in Chains : reading[d] # "idle" => indexed'[d] = indexed[d]
      BY <1>1, <2>1 DEF RInv, RecordTypeOK
    <3> QED BY <1>1, <3>1 DEF NextEvent
  <2>3. \A s \in Statuses : StatusEvent(s) # NextEvent(c)
    BY <1>2, <1>3, TrueBlockOf DEF RInv
  <2>4. EventsRecorded'
    BY <1>1, <2>1, <2>3, BlockIndexed DEF PunctualInv, EventsRecorded
  <2>5. RequestIndexed' <=> RequestIndexed
    BY <1>1, <1>3, <2>1, BlockIndexed
  <2>6. RequestFirst'
    BY <1>1, <2>1, <2>2, <2>5 DEF PunctualInv, RequestFirst, At
  <2> QED BY <1>1, <2>1, <2>4, <2>6, BlockIndexed DEF PunctualInv
<1>4. CASE NextEvent(c) # "none"
  <2>1. reading' = [reading EXCEPT ![c] = record] /\ indexed' = indexed
    BY <1>4 DEF ReadRequest
  <2>2. NextEvent(c) \in Events /\ At(c, indexed[c] + 1, NextEvent(c)) /\ indexed[c] + 1 \in Nat
    <3>1. indexed[c] + 1 \in DOMAIN blocks[c]
      BY <1>1, <1>2
    <3> QED BY <1>2, <1>4, <3>1 DEF NextEvent, At
  <2>3. /\ Source' = Source
        /\ \A d : NextEvent(d)' = NextEvent(d)
        /\ \A d, i, e : At(d, i, e)' <=> At(d, i, e)
    BY <1>1, <2>1 DEF Source, NextEvent, At
  <2>4. /\ OnHyperbridge' = OnHyperbridge
        /\ RequestIndexed' <=> RequestIndexed
    BY <1>1, <2>1, <2>3 DEF OnHyperbridge, RequestIndexed, BlockOf
  <2>5. DeliveryIndexed' <=> DeliveryIndexed
    BY <2>1, <2>4 DEF DeliveryIndexed
  <2>6. NextEvent(c) # "Request" => record = "full"
    BY <2>2 DEF PunctualInv, RequestFirst, Events
  <2>7. ASSUME NEW d \in Chains, reading'[d] # "idle", NextEvent(d) # "Request"
        PROVE  reading'[d] = "full"
    <3>1. CASE d = c
      BY <1>2, <2>1, <2>6, <2>7, <3>1
    <3>2. CASE d # c
      BY <1>2, <2>1, <2>7, <3>2 DEF PunctualInv, RequestFirst
    <3> QED BY <3>1, <3>2
  <2>8. RequestFirst'
    BY <1>1, <2>3, <2>4, <2>7 DEF PunctualInv, RequestFirst
  <2>9. \A s \in Statuses : TrueBlock(s)' = TrueBlock(s) /\ StatusChain(s)' = StatusChain(s)
    <3>1. Dest' = Dest
      BY <1>1 DEF Dest
    <3> QED BY <1>1, <2>3, <3>1, ChainsStay DEF StatusChain
  <2>10. EventsRecorded'
    BY <1>1, <2>1, <2>9 DEF PunctualInv, EventsRecorded
  <2>11. IndexedInStep' /\ DeliveryFirst'
    <3>1. IndexedInStep'
      BY <1>1, <2>1 DEF PunctualInv, IndexedInStep
    <3> QED BY <1>1, <2>3, <2>4, <2>5, <3>1 DEF PunctualInv, DeliveryFirst
  <2> QED BY <2>8, <2>10, <2>11 DEF PunctualInv
<1> QED BY <1>3, <1>4

(* A handler that ends: the status it has saved is the one of its event. *)
LEMMA DoneKeepsPunctualInv ==
    ASSUME RInv, PunctualInv, NEW c \in Chains, NEW s \in Statuses, reading[c] # "idle",
           Save(c, s), Done(c), TrueBlock(s) = indexed[c] + 1, StatusChain(s) = c,
           StatusEvent(s) = NextEvent(c),
           record' = IF RequestIndexed' THEN "full" ELSE "absent"
    PROVE  PunctualInv'
<1>1. /\ UNCHANGED <<setting, chains>> /\ UNCHANGED <<route, blocks>>
      /\ indexed' = [indexed EXCEPT ![c] = @ + 1]
      /\ reading' = [reading EXCEPT ![c] = "idle"]
      /\ statuses' = [statuses EXCEPT ![s] = indexed[c] + 1]
  BY DEF Done, Save, setting, chains
<1>2. /\ indexed[c] < Len(blocks[c]) /\ indexed[c] + 1 > 0
      /\ reading \in [Chains -> {"idle", "absent", "placeholder", "full"}]
      /\ indexed \in [Chains -> 0..MaxHeight] /\ statuses \in [Statuses -> 0..MaxHeight]
  <2>1. indexed[c] \in Nat
    BY BlockTypes DEF RInv
  <2> QED BY <2>1 DEF RInv, ReadingInOrder, RecordTypeOK
<1>3. \A d \in Chains : reading'[d] # "idle" =>
            reading'[d] = reading[d] /\ NextEvent(d)' = NextEvent(d)
  <2>1. \A d \in Chains : reading'[d] # "idle" => reading'[d] = reading[d] /\ indexed'[d] = indexed[d]
    BY <1>1, <1>2
  <2> QED BY <1>1, <2>1 DEF NextEvent
<1>4. RequestFirst'
  <2>1. RequestIndexed => RequestIndexed'
    BY <1>1, <1>2, BlockIndexed
  <2>2. \A d \in Chains : reading'[d] # "idle" /\ NextEvent(d)' # "Request" => reading'[d] = "full"
    BY <1>3 DEF PunctualInv, RequestFirst
  <2>3. \A d \in Chains : \A i \in Nat :
            At(d, i, "Handled")' \/ At(d, i, "TimeoutHandled")' => RequestIndexed'
    BY <1>1, <2>1 DEF PunctualInv, RequestFirst, At
  <2> QED BY <2>2, <2>3 DEF RequestFirst
<1>5. EventsRecorded'
  <2> SUFFICES ASSUME NEW r \in Statuses, TrueBlock(r) \in 1..indexed'[StatusChain(r)]
               PROVE  statuses'[r] = TrueBlock(r)
    BY <1>1, <1>2, BlockIndexed DEF EventsRecorded
  <2>1. CASE r = s
    BY <1>1, <1>2, <2>1
  <2>2. CASE r # s
    <3>1. ~(StatusChain(r) = c /\ StatusEvent(r) = NextEvent(c))
      <4>1. TrueBlock(r) > 0 /\ TrueBlock(s) > 0
        BY <1>2
      <4> QED BY <2>2, <4>1, StatusOfEvent
    <3>2. TrueBlock(r) \in 1..indexed[StatusChain(r)]
      BY <1>1, <1>2, <3>1, BlockIndexed
    <3> QED BY <1>1, <1>2, <2>2, <3>2 DEF PunctualInv, EventsRecorded
  <2> QED BY <2>1, <2>2
<1> QED BY <1>1, <1>2, <1>4, <1>5, BlockIndexed DEF PunctualInv

LEMMA SaveRequestKeepsPunctualInv ==
    ASSUME RInv, PunctualInv, NEW c \in Chains, SaveRequest(c)
    PROVE  PunctualInv'
<1>1. /\ reading[c] # "idle" /\ NextEvent(c) = "Request" /\ record' = "full"
      /\ Save(c, "SOURCE") /\ Done(c)
  BY DEF SaveRequest
<1>2. /\ At(c, indexed[c] + 1, "Request") /\ BlockOf(c, "Request") = indexed[c] + 1
      /\ indexed[c] \in Nat
  BY <1>1, HandlerAt, BlockTypes DEF RInv
<1>3. c = Source
  BY <1>2 DEF RInv, ChainsOK, EventsPlaced
<1>4. /\ "SOURCE" \in Statuses /\ TrueBlock("SOURCE") = indexed[c] + 1
      /\ StatusChain("SOURCE") = c /\ StatusEvent("SOURCE") = "Request"
  BY <1>2, <1>3, StatusNames DEF TrueBlock, StatusChain, StatusEvent
<1>5. RequestIndexed'
  <2>1. UNCHANGED <<route, blocks>> /\ indexed' = [indexed EXCEPT ![c] = @ + 1]
    BY <1>1 DEF Done, setting, chains
  <2>2. indexed'[c] = indexed[c] + 1
    BY <2>1 DEF RInv, RecordTypeOK
  <2>3. Source' = c
    BY <1>3, <2>1 DEF Source
  <2>4. BlockOf(Source, "Request")' = BlockOf(c, "Request")
    BY <2>1, <2>3 DEF BlockOf
  <2> QED BY <1>2, <2>2, <2>3, <2>4 DEF RequestIndexed
<1> QED BY <1>1, <1>4, <1>5, DoneKeepsPunctualInv

(* A handler that has the details decides for the chain it runs on. *)
LEMMA DecidedChain ==
    ASSUME RInv, NEW c \in Chains, reading[c] = "full", NextEvent(c) # "Request",
           NEW s, s = IF NextEvent(c) = "Handled" THEN HandledStatus(c) ELSE TimeoutStatus(c)
    PROVE  StatusChain(s) = c /\ StatusEvent(s) = NextEvent(c)
<1>1. NextEvent(c) \in Events /\ At(c, indexed[c] + 1, NextEvent(c)) /\ indexed[c] + 1 \in Nat
  BY HandlerAt
<1>2. route \in AllRoutes /\ EventsPlaced
  BY DEF RInv, RecordTypeOK, ChainsOK
<1>3. CASE NextEvent(c) = "Handled"
  <2>1. \/ c = "dest" /\ Dest = "dest"
        \/ c = "hyperbridge"
    BY <1>1, <1>2, <1>3 DEF EventsPlaced, Dest
  <2>2. s = IF Dest = c THEN "DESTINATION" ELSE "HYPERBRIDGE_DELIVERED"
    BY <1>3, <2>1 DEF HandledStatus, EvmHandler
  <2> QED BY <1>3, <2>1, <2>2 DEF StatusChain, StatusEvent
<1>4. CASE NextEvent(c) = "TimeoutHandled"
  <2>1. \/ c = "source" /\ Source = "source"
        \/ c = "hyperbridge"
    BY <1>1, <1>2, <1>4 DEF EventsPlaced, Source
  <2>2. s = IF Source = c THEN "TIMED_OUT" ELSE "HYPERBRIDGE_TIMED_OUT"
    BY <1>4, <2>1 DEF TimeoutStatus, EvmHandler
  <2> QED BY <1>4, <2>1, <2>2 DEF StatusChain, StatusEvent
<1> QED BY <1>1, <1>3, <1>4 DEF Events

LEMMA SaveStatusKeepsPunctualInv ==
    ASSUME RInv, PunctualInv, NEW c \in Chains, SaveStatus(c)
    PROVE  PunctualInv'
<1> DEFINE s == IF NextEvent(c) = "Handled" THEN HandledStatus(c) ELSE TimeoutStatus(c)
<1>1. /\ reading[c] # "idle" /\ NextEvent(c) # "Request"
      /\ record' = IF reading[c] = "absent" THEN "placeholder" ELSE record
      /\ Save(c, s) /\ Done(c)
  BY DEF SaveStatus
<1>2. reading[c] = "full" /\ record' = record
  BY <1>1 DEF PunctualInv, RequestFirst
<1>3. s \in Statuses /\ TrueBlock(s) = indexed[c] + 1
  BY <1>1, <1>2, DecidedStatus
<1>4. StatusChain(s) = c /\ StatusEvent(s) = NextEvent(c)
  BY <1>1, <1>2, DecidedChain
<1>5. RequestIndexed' <=> RequestIndexed
  <2>1. /\ indexed[c] < Len(blocks[c]) /\ indexed' = [indexed EXCEPT ![c] = @ + 1]
        /\ UNCHANGED <<setting, chains>>
    BY <1>1 DEF Done, RInv, ReadingInOrder
  <2> QED BY <1>1, <2>1, BlockIndexed
<1>6. record' = IF RequestIndexed' THEN "full" ELSE "absent"
  BY <1>2, <1>5 DEF PunctualInv, RequestFirst
<1> HIDE DEF s
<1> QED BY <1>1, <1>3, <1>4, <1>6, DoneKeepsPunctualInv

(* And none is skipped: what is handled was found with its details. *)
LEMMA IndexerStepKeepsPunctualInv ==
    ASSUME RInv, PunctualInv, IndexerStep
    PROVE  PunctualInv'
<1>1. ASSUME NEW c \in Chains, SkipEvent(c)
      PROVE  FALSE
  BY <1>1 DEF SkipEvent, PunctualInv, RequestFirst
<1> QED BY <1>1, ReadKeepsPunctualInv, SaveRequestKeepsPunctualInv, SaveStatusKeepsPunctualInv
     DEF IndexerStep

-----------------------------------------------------------------------------
(* The list of statuses a query returns, entry by entry. *)
StatusEntry == [status : Statuses, block : 1..MaxHeight]
EntryOf(s) == [status |-> s, block |-> statuses[s]]
Count(s) == IF statuses[s] > 0 THEN 1 ELSE 0

LEMMA EntryList ==
    ASSUME RecordTypeOK, NEW s \in Statuses
    PROVE  /\ Entry(s) \in Seq(StatusEntry) /\ Len(Entry(s)) = Count(s)
           /\ statuses[s] > 0 => Entry(s)[1] = EntryOf(s)
<1>1. statuses[s] \in 0..MaxHeight /\ MaxHeight \in Nat
  BY RecordAssumption DEF RecordTypeOK
<1>2. CASE statuses[s] > 0
  <2>1. Entry(s) = <<EntryOf(s)>> /\ EntryOf(s) \in StatusEntry
    BY <1>1, <1>2 DEF Entry, EntryOf, StatusEntry
  <2> QED BY <1>2, <2>1 DEF Count
<1>3. CASE ~(statuses[s] > 0)
  <2>1. Entry(s) = << >>
    BY <1>3 DEF Entry
  <2> QED BY <1>3, <2>1 DEF Count
<1> QED BY <1>2, <1>3

LEMMA WithEntry ==
    ASSUME RecordTypeOK, NEW list \in Seq(StatusEntry), NEW s \in Statuses
    PROVE  /\ list \o Entry(s) \in Seq(StatusEntry)
           /\ Len(list \o Entry(s)) = Len(list) + Count(s)
           /\ \A i \in 1..Len(list) : (list \o Entry(s))[i] = list[i]
           /\ statuses[s] > 0 => (list \o Entry(s))[Len(list) + 1] = EntryOf(s)
<1>1. /\ Entry(s) \in Seq(StatusEntry) /\ Len(Entry(s)) = Count(s)
      /\ statuses[s] > 0 => Entry(s)[1] = EntryOf(s)
  BY EntryList
<1>2. Len(list) \in Nat
  OBVIOUS
<1> QED BY <1>1, <1>2, ConcatProperties DEF Count

LEMMA QueriedList ==
    ASSUME RecordTypeOK
    PROVE  /\ Queried = [details |-> record = "full", statuses |-> Queried.statuses]
           /\ Queried.statuses \in Seq(StatusEntry)
           /\ Len(Queried.statuses) = Count("SOURCE") + Count("HYPERBRIDGE_DELIVERED")
                    + Count("DESTINATION") + Count("HYPERBRIDGE_TIMED_OUT") + Count("TIMED_OUT")
           /\ statuses["SOURCE"] > 0 => Queried.statuses[1] = EntryOf("SOURCE")
           /\ statuses["HYPERBRIDGE_DELIVERED"] > 0 =>
                Queried.statuses[Count("SOURCE") + 1] = EntryOf("HYPERBRIDGE_DELIVERED")
           /\ statuses["DESTINATION"] > 0 =>
                Queried.statuses[Count("SOURCE") + Count("HYPERBRIDGE_DELIVERED") + 1]
                    = EntryOf("DESTINATION")
<1>1. /\ {"SOURCE", "HYPERBRIDGE_DELIVERED", "DESTINATION", "HYPERBRIDGE_TIMED_OUT", "TIMED_OUT"}
            \subseteq Statuses
      /\ \A s : Count(s) \in {0, 1}
  BY StatusNames DEF Count
<1> DEFINE l1 == Entry("SOURCE")
           l2 == l1 \o Entry("HYPERBRIDGE_DELIVERED")
           l3 == l2 \o Entry("DESTINATION")
           l4 == l3 \o Entry("HYPERBRIDGE_TIMED_OUT")
           l5 == l4 \o Entry("TIMED_OUT")
<1>2. /\ l1 \in Seq(StatusEntry) /\ Len(l1) = Count("SOURCE")
      /\ statuses["SOURCE"] > 0 => l1[1] = EntryOf("SOURCE")
  BY <1>1, EntryList
<1>3. Queried = [details |-> record = "full", statuses |-> l5] /\ Queried.statuses = l5
  BY DEF Queried, ByWeight
<1> HIDE DEF l1
<1>4. /\ l2 \in Seq(StatusEntry) /\ Len(l2) = Len(l1) + Count("HYPERBRIDGE_DELIVERED")
      /\ \A i \in 1..Len(l1) : l2[i] = l1[i]
      /\ statuses["HYPERBRIDGE_DELIVERED"] > 0 => l2[Len(l1) + 1] = EntryOf("HYPERBRIDGE_DELIVERED")
  BY <1>1, <1>2, WithEntry
<1> HIDE DEF l2
<1>5. /\ l3 \in Seq(StatusEntry) /\ Len(l3) = Len(l2) + Count("DESTINATION")
      /\ \A i \in 1..Len(l2) : l3[i] = l2[i]
      /\ statuses["DESTINATION"] > 0 => l3[Len(l2) + 1] = EntryOf("DESTINATION")
  BY <1>1, <1>4, WithEntry
<1> HIDE DEF l3
<1>6. /\ l4 \in Seq(StatusEntry) /\ Len(l4) = Len(l3) + Count("HYPERBRIDGE_TIMED_OUT")
      /\ \A i \in 1..Len(l3) : l4[i] = l3[i]
  BY <1>1, <1>5, WithEntry
<1> HIDE DEF l4
<1>7. /\ l5 \in Seq(StatusEntry) /\ Len(l5) = Len(l4) + Count("TIMED_OUT")
      /\ \A i \in 1..Len(l4) : l5[i] = l4[i]
  BY <1>1, <1>6, WithEntry
<1> HIDE DEF l5
<1>8. Len(l5) = Count("SOURCE") + Count("HYPERBRIDGE_DELIVERED")
                    + Count("DESTINATION") + Count("HYPERBRIDGE_TIMED_OUT") + Count("TIMED_OUT")
  BY <1>1, <1>2, <1>4, <1>5, <1>6, <1>7
<1>9. /\ Len(l1) \in Nat /\ Len(l2) \in Nat /\ Len(l3) \in Nat /\ Len(l4) \in Nat
      /\ Len(l1) <= Len(l2) /\ Len(l2) <= Len(l3) /\ Len(l3) <= Len(l4)
  BY <1>1, <1>2, <1>4, <1>5, <1>6
<1>10. \A i \in 1..Len(l3) : l5[i] = l3[i]
  BY <1>6, <1>7, <1>9
<1>11. \A i \in 1..Len(l2) : l5[i] = l2[i]
  BY <1>5, <1>9, <1>10
<1>12. \A i \in 1..Len(l1) : l5[i] = l1[i]
  BY <1>4, <1>9, <1>11
<1>13. statuses["SOURCE"] > 0 => l5[1] = EntryOf("SOURCE")
  BY <1>2, <1>12 DEF Count
<1>14. statuses["HYPERBRIDGE_DELIVERED"] > 0 =>
            l5[Count("SOURCE") + 1] = EntryOf("HYPERBRIDGE_DELIVERED")
  <2> SUFFICES ASSUME statuses["HYPERBRIDGE_DELIVERED"] > 0
               PROVE  l5[Count("SOURCE") + 1] = EntryOf("HYPERBRIDGE_DELIVERED")
    OBVIOUS
  <2>1. Len(l2) = Count("SOURCE") + 1 /\ l2[Len(l2)] = EntryOf("HYPERBRIDGE_DELIVERED")
    BY <1>2, <1>4 DEF Count
  <2>2. Len(l2) \in 1..Len(l2)
    BY <1>1, <1>9, <2>1
  <2> QED BY <1>11, <2>1, <2>2
<1>15. statuses["DESTINATION"] > 0 =>
            l5[Count("SOURCE") + Count("HYPERBRIDGE_DELIVERED") + 1] = EntryOf("DESTINATION")
  <2> SUFFICES ASSUME statuses["DESTINATION"] > 0
               PROVE  l5[Count("SOURCE") + Count("HYPERBRIDGE_DELIVERED") + 1] = EntryOf("DESTINATION")
    OBVIOUS
  <2>1. Len(l3) = Len(l2) + 1 /\ l3[Len(l3)] = EntryOf("DESTINATION")
    BY <1>5 DEF Count
  <2>2. Len(l3) = Count("SOURCE") + Count("HYPERBRIDGE_DELIVERED") + 1
    BY <1>1, <1>2, <1>4, <2>1
  <2>3. Len(l3) \in 1..Len(l3)
    BY <1>9, <2>1
  <2> QED BY <1>10, <2>1, <2>2, <2>3
<1> QED BY <1>3, <1>7, <1>8, <1>13, <1>14, <1>15

(* What of a request is recorded, while the indexers keep up. *)
LEMMA PunctualStatuses ==
    ASSUME RInv, PunctualInv, record # "absent"
    PROVE  /\ record = "full" /\ RequestIndexed
           /\ statuses["SOURCE"] = BlockOf(Source, "Request") /\ statuses["SOURCE"] > 0
           /\ statuses["DESTINATION"] > 0 => statuses["DESTINATION"] = BlockOf(Dest, "Handled")
           /\ statuses["HYPERBRIDGE_DELIVERED"] > 0 =>
                statuses["HYPERBRIDGE_DELIVERED"] = OnHyperbridge /\ route = "relayed"
           /\ statuses["HYPERBRIDGE_TIMED_OUT"] > 0 => route = "relayed"
           /\ (/\ route = "relayed"
               /\ \/ statuses["DESTINATION"] > 0 \/ statuses["HYPERBRIDGE_TIMED_OUT"] > 0
                  \/ statuses["TIMED_OUT"] > 0 /\ ~TimedOutUndelivered)
                => statuses["HYPERBRIDGE_DELIVERED"] > 0
           /\ statuses["TIMED_OUT"] > 0 /\ ~TimedOutUndelivered => route # "toHyperbridge"
<1>1. {"SOURCE", "HYPERBRIDGE_DELIVERED", "DESTINATION", "HYPERBRIDGE_TIMED_OUT", "TIMED_OUT"}
        \subseteq Statuses
  BY StatusNames
<1>2. /\ \A s \in Statuses : statuses[s] > 0 => statuses[s] = TrueBlock(s)
      /\ \A s \in Statuses : statuses[s] \in Nat
  BY TrueBlocks, RecordAssumption DEF RInv, RecordTypeOK
<1>3. record = "full" /\ RequestIndexed
  BY DEF PunctualInv, RequestFirst
<1>4. statuses["SOURCE"] = BlockOf(Source, "Request") /\ statuses["SOURCE"] > 0
  <2>1. TrueBlock("SOURCE") = BlockOf(Source, "Request") /\ StatusChain("SOURCE") = Source
    BY DEF TrueBlock, StatusChain
  <2>2. statuses["SOURCE"] = BlockOf(Source, "Request")
    BY <1>1, <1>3, <2>1 DEF PunctualInv, EventsRecorded, RequestIndexed
  <2> QED BY <1>3, <2>2 DEF RequestIndexed
<1>5. statuses["DESTINATION"] > 0 => statuses["DESTINATION"] = BlockOf(Dest, "Handled")
  BY <1>1, <1>2 DEF TrueBlock
<1>6. /\ statuses["HYPERBRIDGE_DELIVERED"] > 0 =>
            statuses["HYPERBRIDGE_DELIVERED"] = OnHyperbridge /\ route = "relayed"
      /\ statuses["HYPERBRIDGE_TIMED_OUT"] > 0 => route = "relayed"
  <2>1. /\ TrueBlock("HYPERBRIDGE_DELIVERED") = IF route = "relayed" THEN OnHyperbridge ELSE 0
        /\ TrueBlock("HYPERBRIDGE_TIMED_OUT") =
                IF route = "relayed" THEN BlockOf("hyperbridge", "TimeoutHandled") ELSE 0
    BY DEF TrueBlock
  <2>2. statuses["HYPERBRIDGE_DELIVERED"] > 0 =>
            statuses["HYPERBRIDGE_DELIVERED"] = TrueBlock("HYPERBRIDGE_DELIVERED")
    BY <1>1, <1>2
  <2>3. statuses["HYPERBRIDGE_TIMED_OUT"] > 0 =>
            statuses["HYPERBRIDGE_TIMED_OUT"] = TrueBlock("HYPERBRIDGE_TIMED_OUT")
    BY <1>1, <1>2
  <2> QED BY <2>1, <2>2, <2>3
<1>7. route = "relayed" /\ DeliveryIndexed => statuses["HYPERBRIDGE_DELIVERED"] > 0
  <2> SUFFICES ASSUME route = "relayed", DeliveryIndexed
               PROVE  statuses["HYPERBRIDGE_DELIVERED"] > 0
    OBVIOUS
  <2>1. /\ TrueBlock("HYPERBRIDGE_DELIVERED") = OnHyperbridge
        /\ StatusChain("HYPERBRIDGE_DELIVERED") = "hyperbridge"
    BY DEF TrueBlock, StatusChain
  <2>2. statuses["HYPERBRIDGE_DELIVERED"] = OnHyperbridge
    BY <1>1, <2>1 DEF PunctualInv, EventsRecorded, DeliveryIndexed
  <2> QED BY <2>2 DEF DeliveryIndexed
<1>8. ASSUME NEW s \in Statuses, statuses[s] > 0
      PROVE  \E i \in Nat : At(StatusChain(s), i, StatusEvent(s))
  <2>1. TrueBlock(s) > 0
    BY <1>2, <1>8
  <2> QED BY <2>1, TrueBlockAt
<1>9. statuses["TIMED_OUT"] > 0 /\ ~TimedOutUndelivered => OnHyperbridge > 0
  <2>1. statuses["TIMED_OUT"] > 0 => BlockOf(Source, "TimeoutHandled") > 0
    BY <1>1, <1>2 DEF TrueBlock
  <2> QED BY <2>1 DEF TimedOutUndelivered, Happened
<1>10. statuses["TIMED_OUT"] > 0 /\ ~TimedOutUndelivered /\ route # "fromHyperbridge" =>
            DeliveryIndexed /\ route = "relayed"
  <2>1. /\ statuses["TIMED_OUT"] > 0 => \E i \in Nat : At(Source, i, "TimeoutHandled")
        /\ route # "fromHyperbridge" => Source = "source"
    BY <1>1, <1>8 DEF StatusChain, StatusEvent, Source
  <2> QED BY <1>9, <2>1 DEF PunctualInv, DeliveryFirst
<1>11. route = "relayed" /\ statuses["DESTINATION"] > 0 => DeliveryIndexed
  <2>1. /\ statuses["DESTINATION"] > 0 => \E i \in Nat : At(Dest, i, "Handled")
        /\ route = "relayed" => Dest = "dest"
    BY <1>1, <1>8 DEF StatusChain, StatusEvent, Dest
  <2> QED BY <2>1 DEF PunctualInv, DeliveryFirst
<1>12. statuses["HYPERBRIDGE_TIMED_OUT"] > 0 => DeliveryIndexed
  <2>1. statuses["HYPERBRIDGE_TIMED_OUT"] > 0 => \E i \in Nat : At("hyperbridge", i, "TimeoutHandled")
    BY <1>1, <1>8 DEF StatusChain, StatusEvent
  <2> QED BY <2>1 DEF PunctualInv, DeliveryFirst
<1> QED BY <1>3, <1>4, <1>5, <1>6, <1>7, <1>10, <1>11, <1>12

-----------------------------------------------------------------------------
(* The stream. *)

(* The stream has opened on a record there is, and there is a status with it. *)
StreamTyped ==
    /\ at \in Statuses \cup Yields \cup {"unopened", "thrown"}
    /\ request \in [details : BOOLEAN, statuses : Seq(StatusEntry)]
    /\ yielded \in Seq([status : Yields, block : 1..MaxHeight])
    /\ at = "SOURCE" => Len(request.statuses) > 0
    /\ at # "unopened" => record # "absent"
    /\ record # "absent" => \E s \in Statuses : statuses[s] > 0

(* What was yielded is in the block it was yielded with, or before. *)
TrueYield(y) ==
    /\ y.status = "SOURCE_FINALIZED" =>
        BlockOf("source", "Request") > 0 /\ y.block >= BlockOf("source", "Request")
    /\ y.status = "HYPERBRIDGE_FINALIZED" => OnHyperbridge > 0 /\ y.block >= OnHyperbridge
    /\ y.status = "HYPERBRIDGE_DELIVERED" => OnHyperbridge > 0 /\ y.block = OnHyperbridge
    /\ y.status = "DESTINATION" =>
        BlockOf(Dest, "Handled") > 0 /\ y.block = BlockOf(Dest, "Handled")

YieldsTrue == \A i \in DOMAIN yielded : TrueYield(yielded[i])

(* Why positions are right: the loop is where the route goes. *)
StreamPunctual ==
    /\ at \in {"SOURCE", "SOURCE_FINALIZED"} => Source = "source"
    /\ at = "SOURCE" => request.statuses[1].block = BlockOf(Source, "Request")
    /\ at = "HYPERBRIDGE_FINALIZED" => route # "toHyperbridge"
    /\ ~TimedOutUndelivered => YieldsTrue

StreamInv ==
    /\ RInv
    /\ StreamTyped
    /\ punctual => PunctualInv /\ StreamPunctual

LEMMA InitStreamInv == Init => StreamInv
<1> SUFFICES ASSUME Init
             PROVE  StreamInv
  OBVIOUS
<1>1. /\ RecordInit /\ at = "unopened" /\ yielded = << >> /\ record = "absent"
      /\ request = [details |-> FALSE, statuses |-> << >>]
  BY DEF Init, RecordInit
<1>2. RInv /\ PunctualInv
  BY <1>1, InitRInv, InitPunctualInv
<1>3. StreamTyped
  BY <1>1 DEF StreamTyped
<1>4. StreamPunctual
  BY <1>1 DEF StreamPunctual, YieldsTrue
<1> QED BY <1>2, <1>3, <1>4 DEF StreamInv

-----------------------------------------------------------------------------
(* Steps of the chains and of the indexers. *)

(* What is true of a request stays true: its events stay where they are, and  *)
(* Hyperbridge does not deliver what the source has timed out.                *)
LEMMA WorldKeepsYields ==
    ASSUME StreamPunctual, StreamTyped, UNCHANGED <<at, request, yielded, route>>,
           \A d \in Chains : \A e \in Events : BlockOf(d, e) > 0 => BlockOf(d, e)' = BlockOf(d, e),
           TimedOutUndelivered => TimedOutUndelivered'
    PROVE  StreamPunctual'
<1>1. Source' = Source /\ Dest' = Dest
  BY DEF Source, Dest
<1>2. PICK s \in Chains, d \in Chains, e \in Events :
        /\ s = Source /\ d = Dest
        /\ e = IF route = "fromHyperbridge" THEN "Request" ELSE "Handled"
  BY DEF Chains, Events, Source, Dest
<1>3. /\ OnHyperbridge = BlockOf("hyperbridge", e) /\ OnHyperbridge' = BlockOf("hyperbridge", e)'
      /\ BlockOf(Source, "Request")' = BlockOf(s, "Request")'
      /\ BlockOf(Dest, "Handled")' = BlockOf(d, "Handled")'
  BY <1>1, <1>2 DEF OnHyperbridge, BlockOf
<1>4. /\ "source" \in Chains /\ "hyperbridge" \in Chains
      /\ "Request" \in Events /\ "Handled" \in Events
  BY DEF Chains, Events
<1>5. ASSUME NEW y, TrueYield(y)
      PROVE  TrueYield(y)'
  <2>1. y.status = "SOURCE_FINALIZED" =>
            BlockOf("source", "Request")' > 0 /\ y.block >= BlockOf("source", "Request")'
    BY <1>4, <1>5 DEF TrueYield
  <2>2. /\ y.status = "HYPERBRIDGE_FINALIZED" => OnHyperbridge' > 0 /\ y.block >= OnHyperbridge'
        /\ y.status = "HYPERBRIDGE_DELIVERED" => OnHyperbridge' > 0 /\ y.block = OnHyperbridge'
    BY <1>3, <1>4, <1>5 DEF TrueYield
  <2>3. y.status = "DESTINATION" =>
            BlockOf(Dest, "Handled")' > 0 /\ y.block = BlockOf(Dest, "Handled")'
    BY <1>2, <1>3, <1>4, <1>5 DEF TrueYield
  <2> QED BY <2>1, <2>2, <2>3 DEF TrueYield
<1>6. YieldsTrue => YieldsTrue'
  <2> SUFFICES ASSUME YieldsTrue, NEW i \in DOMAIN yielded
               PROVE  TrueYield(yielded[i])'
    BY DEF YieldsTrue
  <2>1. PICK y : y = yielded[i] /\ y = yielded'[i]
    OBVIOUS
  <2>2. TrueYield(y)'
    BY <1>5, <2>1 DEF YieldsTrue
  <2> QED BY <2>1, <2>2 DEF TrueYield
<1>7. at = "SOURCE" => request.statuses[1].block = BlockOf(Source, "Request")'
  <2> SUFFICES ASSUME at = "SOURCE"
               PROVE  request.statuses[1].block = BlockOf(s, "Request")'
    BY <1>3
  <2>1. request.statuses[1] \in StatusEntry
    <3>1. request.statuses \in Seq(StatusEntry) /\ Len(request.statuses) > 0
      BY DEF StreamTyped
    <3> QED BY <3>1
  <2>2. request.statuses[1].block > 0
    BY <2>1, RecordAssumption DEF StatusEntry
  <2> QED BY <1>2, <1>4, <2>2 DEF StreamPunctual
<1> QED BY <1>1, <1>6, <1>7 DEF StreamPunctual

LEMMA BlockKeepsStreamInv ==
    ASSUME StreamInv, RInv', NEW c \in Chains, NEW event \in Events \cup {"none"},
           AddBlock(c, event), event # "none" => ~Happened(c, event), MayHappen(c, event),
           UNCHANGED streamVars
    PROVE  StreamInv'
<1>1. /\ \A d \in Chains : \A e \in Events :
            BlockOf(d, e)' = IF d = c /\ e = event THEN Len(blocks[c]) + 1 ELSE BlockOf(d, e)
      /\ UNCHANGED <<setting, indexers, Source, Dest>>
  BY BlockAdded DEF StreamInv
<1>2. UNCHANGED <<route, punctual, record, statuses, at, request, yielded>>
  BY <1>1 DEF setting, indexers, database, streamVars
<1>3. StreamTyped'
  BY <1>2 DEF StreamInv, StreamTyped
<1>4. \A d \in Chains : \A e \in Events : BlockOf(d, e) > 0 => BlockOf(d, e)' = BlockOf(d, e)
  BY <1>1 DEF Happened, Events
<1>5. ASSUME punctual, TimedOutUndelivered
      PROVE  TimedOutUndelivered'
  <2>1. /\ {"source", "hyperbridge", "dest"} \subseteq Chains
        /\ {"Request", "Handled", "TimeoutHandled"} \subseteq Events
        /\ PunctualInv /\ RInv
    BY <1>5 DEF Chains, Events, StreamInv
  <2>2. PICK s \in Chains : s = Source /\ s = Source'
    BY <1>1, <2>1 DEF Source
  <2>3. BlockOf(s, "TimeoutHandled") > 0 /\ ~(OnHyperbridge > 0)
    BY <1>5, <2>2 DEF TimedOutUndelivered, Happened
  <2>4. BlockOf(s, "TimeoutHandled")' > 0
    BY <1>4, <2>1, <2>3
  <2>5. At(s, BlockOf(s, "TimeoutHandled"), "TimeoutHandled") /\ BlockOf(s, "TimeoutHandled") \in Nat
    BY <2>1, <2>3, RInvEventBlocks DEF EventBlocks
  <2>6. s = "source"
    <3>1. s # "hyperbridge"
      <4>1. s = "hyperbridge" => DeliveryIndexed
        BY <2>1, <2>5 DEF PunctualInv, DeliveryFirst
      <4> QED BY <2>3, <4>1 DEF DeliveryIndexed
    <3> QED BY <2>2, <3>1 DEF Source
  <2>7. expired /\ route # "fromHyperbridge"
    BY <2>1, <2>2, <2>5, <2>6 DEF PunctualInv, DeliveryFirst, Source
  <2>8. event # "Handled"
    BY <2>7 DEF MayHappen
  <2>9. OnHyperbridge' = OnHyperbridge
    <3>1. /\ OnHyperbridge = BlockOf("hyperbridge", "Handled")
          /\ OnHyperbridge' = BlockOf("hyperbridge", "Handled")'
      BY <1>2, <2>7 DEF OnHyperbridge, BlockOf
    <3> QED BY <1>1, <2>1, <2>8, <3>1
  <2>10. Happened(Source, "TimeoutHandled")'
    BY <2>2, <2>4 DEF Happened, BlockOf
  <2> QED BY <2>3, <2>9, <2>10 DEF TimedOutUndelivered
<1>6. punctual => PunctualInv'
  BY BlockKeepsPunctualInv DEF StreamInv
<1>7. punctual => StreamPunctual'
  BY <1>2, <1>4, <1>5, WorldKeepsYields DEF StreamInv
<1> QED BY <1>2, <1>3, <1>6, <1>7 DEF StreamInv

LEMMA NoBlockKeepsStreamInv ==
    ASSUME StreamInv, RInv', UNCHANGED <<setting, blocks, at, request, yielded>>,
           record # "absent" => record' # "absent",
           record' # "absent" => \E s \in Statuses : statuses'[s] > 0,
           punctual => PunctualInv'
    PROVE  StreamInv'
<1>1. UNCHANGED <<route, punctual>>
  BY DEF setting
<1>2. StreamTyped'
  BY DEF StreamInv, StreamTyped
<1>3. \A d \in Chains : \A e \in Events : BlockOf(d, e)' = BlockOf(d, e)
  BY DEF BlockOf
<1>4. TimedOutUndelivered => TimedOutUndelivered'
  BY <1>1 DEF TimedOutUndelivered, Happened, BlockOf, OnHyperbridge, Source
<1>5. punctual => StreamPunctual'
  BY <1>1, <1>3, <1>4, WorldKeepsYields DEF StreamInv
<1> QED BY <1>1, <1>2, <1>5 DEF StreamInv

LEMMA IndexerKeepsStreamInv ==
    ASSUME StreamInv, IndexerStep, UNCHANGED streamVars
    PROVE  StreamInv'
<1>1. RInv'
  BY IndexerStepKeepsRInv DEF StreamInv
<1>2. punctual => PunctualInv'
  BY IndexerStepKeepsPunctualInv DEF StreamInv
<1>3. UNCHANGED <<setting, chains>> /\ UNCHANGED <<blocks, at, request, yielded>>
  <2>1. UNCHANGED <<setting, chains>>
    BY DEF IndexerStep, ReadRequest, SaveRequest, SaveStatus, SkipEvent, Done
  <2> QED BY <2>1 DEF chains, streamVars
<1>4. /\ record # "absent" => record' # "absent"
      /\ record' # "absent" => \E s \in Statuses : statuses'[s] > 0
  <2>1. PICK c \in Chains : ReadRequest(c) \/ SaveRequest(c) \/ SaveStatus(c) \/ SkipEvent(c)
    BY DEF IndexerStep
  <2>2. CASE UNCHANGED database
    BY <2>2 DEF database, StreamInv, StreamTyped
  <2>3. ASSUME NEW s \in Statuses, Save(c, s)
        PROVE  statuses'[s] > 0
    <3>1. statuses' = [statuses EXCEPT ![s] = indexed[c] + 1] /\ statuses \in [Statuses -> 0..MaxHeight]
      BY <2>3 DEF Save, StreamInv, RInv, RecordTypeOK
    <3>2. indexed[c] \in Nat
      BY BlockTypes DEF StreamInv, RInv
    <3> QED BY <3>1, <3>2
  <2>4. CASE SaveRequest(c)
    <3>1. Save(c, "SOURCE") /\ record' = "full" /\ "SOURCE" \in Statuses
      BY <2>4, StatusNames DEF SaveRequest
    <3> QED BY <2>3, <3>1
  <2>5. CASE SaveStatus(c)
    <3> DEFINE s == IF NextEvent(c) = "Handled" THEN HandledStatus(c) ELSE TimeoutStatus(c)
    <3>1. /\ Save(c, s) /\ record' = IF reading[c] = "absent" THEN "placeholder" ELSE record
          /\ reading[c] # "idle" /\ NextEvent(c) # "Request"
          /\ reading[c] # "absent" \/ EvmHandler(c)
      BY <2>5 DEF SaveStatus
    <3>2. s \in Statuses
      BY <3>1, DecidedStatus DEF StreamInv
    <3> HIDE DEF s
    <3> QED BY <2>3, <3>1, <3>2
  <2> QED BY <2>1, <2>2, <2>4, <2>5 DEF ReadRequest, SkipEvent
<1> QED BY <1>1, <1>2, <1>3, <1>4, NoBlockKeepsStreamInv

LEMMA ChainKeepsStreamInv ==
    ASSUME StreamInv, ChainStep(Chains, DeliveryUpdates), UNCHANGED streamVars
    PROVE  StreamInv'
<1>1. DeliveryUpdates \in SUBSET (Chains \X Chains) /\ Chains \in SUBSET Chains
  BY DEF DeliveryUpdates, Chains
<1>2. RInv /\ RInv'
  BY <1>1, ChainStepKeepsRInv DEF StreamInv
<1>3. ASSUME UNCHANGED <<setting, blocks, indexers>>, expired => expired'
      PROVE  StreamInv'
  <2>1. UNCHANGED <<blocks, record, statuses, at, request, yielded>>
    BY <1>3 DEF indexers, database, streamVars
  <2>2. punctual => PunctualInv'
    BY <1>3, NoBlockKeepsPunctualInv DEF StreamInv
  <2>3. record' # "absent" => \E s \in Statuses : statuses'[s] > 0
    BY <2>1 DEF StreamInv, StreamTyped
  <2> QED BY <1>2, <1>3, <2>1, <2>2, <2>3, NoBlockKeepsStreamInv
<1>4. ASSUME NEW c \in Chains, NEW event \in Events \cup {"none"}, AddBlock(c, event),
             event # "none" => ~Happened(c, event), MayHappen(c, event)
      PROVE  StreamInv'
  BY <1>2, <1>4, BlockKeepsStreamInv
<1> QED BY <1>1, <1>2, <1>3, <1>4, ChainStepCases

-----------------------------------------------------------------------------
(* Steps of the stream: they leave the chains and the record alone. *)
LEMMA StreamStepFrame ==
    ASSUME StreamInv, UNCHANGED recordVars
    PROVE  /\ RInv' /\ (punctual => PunctualInv') /\ punctual' = punctual
           /\ (TimedOutUndelivered' <=> TimedOutUndelivered)
           /\ \A y : TrueYield(y)' <=> TrueYield(y)
           /\ UNCHANGED <<route, record, statuses, known, blocks>>
           /\ Source' = Source /\ BlockOf(Source, "Request")' = BlockOf(Source, "Request")
<1>1. /\ UNCHANGED <<setting, chains, indexers>>
      /\ UNCHANGED <<route, punctual, record, statuses, known, blocks, expired>>
  BY DEF recordVars, setting, chains, indexers, database
<1>2. RInv'
  BY RecordStays DEF StreamInv
<1>3. punctual => PunctualInv'
  BY <1>1, NoBlockKeepsPunctualInv DEF StreamInv
<1>4. Source' = Source /\ Dest' = Dest
  BY <1>1 DEF Source, Dest
<1>5. /\ \A c, e : BlockOf(c, e)' = BlockOf(c, e)
      /\ BlockOf(Source, "Request")' = BlockOf(Source, "Request")
      /\ BlockOf(Source, "TimeoutHandled")' = BlockOf(Source, "TimeoutHandled")
      /\ BlockOf(Dest, "Handled")' = BlockOf(Dest, "Handled")
      /\ OnHyperbridge' = OnHyperbridge
  BY <1>1, <1>4 DEF BlockOf, OnHyperbridge
<1>6. TimedOutUndelivered' <=> TimedOutUndelivered
  BY <1>5 DEF TimedOutUndelivered, Happened
<1>7. \A y : TrueYield(y)' <=> TrueYield(y)
  BY <1>5 DEF TrueYield
<1> QED BY <1>1, <1>2, <1>3, <1>4, <1>5, <1>6, <1>7

(* A stream that yields nothing, and one that yields what is true. *)
LEMMA YieldKeepsYields ==
    ASSUME StreamInv, UNCHANGED recordVars, NEW status \in Yields, NEW block \in 1..MaxHeight,
           Yield(status, block),
           punctual /\ ~TimedOutUndelivered => TrueYield([status |-> status, block |-> block])
    PROVE  /\ yielded' \in Seq([status : Yields, block : 1..MaxHeight])
           /\ punctual /\ ~TimedOutUndelivered => YieldsTrue'
<1> DEFINE y == [status |-> status, block |-> block]
<1>1. /\ yielded' = Append(yielded, y) /\ y \in [status : Yields, block : 1..MaxHeight]
      /\ yielded \in Seq([status : Yields, block : 1..MaxHeight])
  BY DEF Yield, StreamInv, StreamTyped
<1>2. /\ yielded' \in Seq([status : Yields, block : 1..MaxHeight])
      /\ Len(yielded') = Len(yielded) + 1 /\ yielded'[Len(yielded) + 1] = y
      /\ \A i \in 1..Len(yielded) : yielded'[i] = yielded[i]
      /\ DOMAIN yielded = 1..Len(yielded) /\ DOMAIN yielded' = 1..Len(yielded') /\ Len(yielded) \in Nat
  <2> HIDE DEF y
  <2> QED BY <1>1, AppendProperties
<1>3. ASSUME punctual, ~TimedOutUndelivered
      PROVE  YieldsTrue'
  <2> SUFFICES ASSUME NEW i \in 1..(Len(yielded) + 1)
               PROVE  TrueYield(yielded[i])'
    BY <1>2 DEF YieldsTrue
  <2>1. PICK z : z = yielded'[i]
    OBVIOUS
  <2>2. CASE i = Len(yielded) + 1
    BY <1>2, <1>3, <2>1, <2>2, StreamStepFrame DEF TrueYield
  <2>3. CASE i # Len(yielded) + 1
    <3>1. i \in DOMAIN yielded /\ z = yielded[i]
      BY <1>2, <2>1, <2>3
    <3>2. TrueYield(z)
      BY <1>3, <3>1 DEF StreamInv, StreamPunctual, YieldsTrue
    <3>3. TrueYield(z)'
      BY <3>2, StreamStepFrame
    <3> QED BY <2>1, <3>3 DEF TrueYield
  <2> QED BY <2>2, <2>3
<1> QED BY <1>2, <1>3

LEMMA NoYieldKeepsYields ==
    ASSUME StreamInv, UNCHANGED recordVars, UNCHANGED yielded
    PROVE  /\ yielded' \in Seq([status : Yields, block : 1..MaxHeight])
           /\ punctual /\ ~TimedOutUndelivered => YieldsTrue'
<1>1. yielded' \in Seq([status : Yields, block : 1..MaxHeight])
  BY DEF StreamInv, StreamTyped
<1>2. ASSUME punctual, ~TimedOutUndelivered
      PROVE  YieldsTrue'
  <2>1. ASSUME NEW i \in DOMAIN yielded
        PROVE  TrueYield(yielded[i])'
    <3>1. PICK z : z = yielded[i] /\ z = yielded'[i]
      OBVIOUS
    <3>2. TrueYield(z)'
      BY <1>2, <2>1, <3>1, StreamStepFrame DEF StreamInv, StreamPunctual, YieldsTrue
    <3> QED BY <3>1, <3>2 DEF TrueYield
  <2> QED BY <2>1 DEF YieldsTrue
<1> QED BY <1>1, <1>2

(* A status in the list is recorded. *)
LEMMA ListedIsRecorded ==
    ASSUME RecordTypeOK, NEW i \in DOMAIN Queried.statuses
    PROVE  statuses[Queried.statuses[i].status] > 0
<1> DEFINE listed == [status : {s \in Statuses : statuses[s] > 0}, block : 1..MaxHeight]
<1>1. ASSUME NEW s \in Statuses
      PROVE  Entry(s) \in Seq(listed)
  <2>1. statuses[s] \in 0..MaxHeight /\ MaxHeight \in Nat
    BY RecordAssumption DEF RecordTypeOK
  <2>2. CASE statuses[s] > 0
    <3>1. Entry(s) = <<EntryOf(s)>> /\ EntryOf(s) \in listed
      BY <2>1, <2>2 DEF Entry, EntryOf
    <3> QED BY <3>1
  <2>3. CASE ~(statuses[s] > 0)
    BY <2>3 DEF Entry
  <2> QED BY <2>2, <2>3
<1>2. {"SOURCE", "HYPERBRIDGE_DELIVERED", "DESTINATION", "HYPERBRIDGE_TIMED_OUT", "TIMED_OUT"}
        \subseteq Statuses
  BY StatusNames
<1> HIDE DEF listed
<1>3. Entry("SOURCE") \o Entry("HYPERBRIDGE_DELIVERED") \in Seq(listed)
  BY <1>1, <1>2
<1>4. Entry("SOURCE") \o Entry("HYPERBRIDGE_DELIVERED") \o Entry("DESTINATION") \in Seq(listed)
  BY <1>1, <1>2, <1>3
<1>5. Entry("SOURCE") \o Entry("HYPERBRIDGE_DELIVERED") \o Entry("DESTINATION")
        \o Entry("HYPERBRIDGE_TIMED_OUT") \in Seq(listed)
  BY <1>1, <1>2, <1>4
<1>6. Entry("SOURCE") \o Entry("HYPERBRIDGE_DELIVERED") \o Entry("DESTINATION")
        \o Entry("HYPERBRIDGE_TIMED_OUT") \o Entry("TIMED_OUT") \in Seq(listed)
  BY <1>1, <1>2, <1>5
<1>7. Queried.statuses \in Seq(listed)
  BY <1>6 DEF Queried, ByWeight
<1>8. Queried.statuses[i] \in listed
  BY <1>7
<1> QED BY <1>8 DEF listed

LEMMA QueriedTypes ==
    ASSUME StreamInv
    PROVE  /\ Queried \in [details : BOOLEAN, statuses : Seq(StatusEntry)]
           /\ \A i \in 1..Len(Queried.statuses) : Queried.statuses[i] \in StatusEntry
           /\ record # "absent" => Len(Queried.statuses) > 0
           /\ Queried.details <=> record = "full"
<1>1. /\ Queried = [details |-> record = "full", statuses |-> Queried.statuses]
      /\ Queried.statuses \in Seq(StatusEntry)
      /\ Len(Queried.statuses) = Count("SOURCE") + Count("HYPERBRIDGE_DELIVERED")
            + Count("DESTINATION") + Count("HYPERBRIDGE_TIMED_OUT") + Count("TIMED_OUT")
  BY QueriedList DEF StreamInv, RInv
<1>2. /\ \A s : Count(s) \in {0, 1} /\ (statuses[s] > 0 => Count(s) = 1)
      /\ Statuses = {"SOURCE", "HYPERBRIDGE_DELIVERED", "DESTINATION",
                     "HYPERBRIDGE_TIMED_OUT", "TIMED_OUT"}
  BY StatusNames DEF Count
<1>3. record # "absent" => Len(Queried.statuses) > 0
  <2> SUFFICES ASSUME record # "absent"
               PROVE  Len(Queried.statuses) > 0
    OBVIOUS
  <2>1. PICK s \in Statuses : statuses[s] > 0
    BY DEF StreamInv, StreamTyped
  <2>2. Count(s) = 1
    BY <1>2, <2>1
  <2> QED BY <1>1, <1>2, <2>2
<1>4. \A i \in 1..Len(Queried.statuses) : Queried.statuses[i] \in StatusEntry
  BY <1>1
<1>5. Queried.details <=> record = "full"
  BY DEF Queried
<1>6. Queried \in [details : BOOLEAN, statuses : Seq(StatusEntry)]
  <2>1. PICK d \in BOOLEAN, l \in Seq(StatusEntry) : Queried = [details |-> d, statuses |-> l]
    <3>1. (record = "full") \in BOOLEAN
      OBVIOUS
    <3> QED BY <1>1, <3>1
  <2> QED BY <2>1
<1> QED BY <1>3, <1>4, <1>5, <1>6

-----------------------------------------------------------------------------
LEMMA OpenKeepsStreamInv ==
    ASSUME StreamInv, Open
    PROVE  StreamInv'
<1> DEFINE latest == Queried.statuses[Len(Queried.statuses)].status
<1>1. /\ record # "absent" /\ request' = Queried /\ UNCHANGED <<recordVars, yielded>>
      /\ at' = IF latest = "SOURCE" /\ FromHyperbridge(Queried) THEN "HYPERBRIDGE_DELIVERED"
               ELSE latest
  BY DEF Open
<1>2. UNCHANGED recordVars
  BY <1>1
<1>3. /\ Queried \in [details : BOOLEAN, statuses : Seq(StatusEntry)] /\ Len(Queried.statuses) > 0
      /\ (Queried.details <=> record = "full") /\ latest \in Statuses
  <2>1. Len(Queried.statuses) \in 1..Len(Queried.statuses)
    BY <1>1, QueriedTypes
  <2> QED BY <1>1, <2>1, QueriedTypes DEF StatusEntry
<1> HIDE DEF latest
<1>4. at' \in Statuses
  BY <1>1, <1>3, StatusNames
<1>5. /\ yielded' \in Seq([status : Yields, block : 1..MaxHeight])
      /\ punctual /\ ~TimedOutUndelivered => YieldsTrue'
  BY <1>1, NoYieldKeepsYields
<1>6. /\ RInv' /\ (punctual => PunctualInv') /\ punctual' = punctual
      /\ (TimedOutUndelivered' <=> TimedOutUndelivered)
      /\ UNCHANGED <<route, record, statuses, known, blocks>>
      /\ Source' = Source /\ BlockOf(Source, "Request")' = BlockOf(Source, "Request")
  BY <1>2, StreamStepFrame
<1>7. StreamTyped'
  BY <1>1, <1>3, <1>4, <1>5, <1>6 DEF StreamInv, StreamTyped
<1>8. ASSUME punctual
      PROVE  StreamPunctual'
  <2>1. /\ record = "full" /\ statuses["SOURCE"] = BlockOf(Source, "Request")
        /\ statuses["SOURCE"] > 0
    BY <1>1, <1>8, PunctualStatuses DEF StreamInv
  <2>2. Queried.statuses[1] = EntryOf("SOURCE")
    BY <2>1, QueriedList DEF StreamInv, RInv
  <2>3. at' \notin {"SOURCE_FINALIZED", "HYPERBRIDGE_FINALIZED"}
    BY <1>4, StatusNames
  <2>4. at' = "SOURCE" => Source = "source"
    BY <1>1, <1>3, <2>1 DEF FromHyperbridge, Source
  <2> QED BY <1>1, <1>5, <1>6, <1>8, <2>1, <2>2, <2>3, <2>4 DEF StreamPunctual, EntryOf
<1> QED BY <1>6, <1>7, <1>8 DEF StreamInv

LEMMA SourceFinalizedKeepsStreamInv ==
    ASSUME StreamInv, SourceFinalized
    PROVE  StreamInv'
<1> DEFINE height == known[<<"hyperbridge", "source">>]
<1>1. /\ at = "SOURCE" /\ height >= request.statuses[1].block
      /\ Yield("SOURCE_FINALIZED", height) /\ request' = request /\ UNCHANGED recordVars
      /\ at' = "SOURCE_FINALIZED"
  BY DEF SourceFinalized, Yield
<1>2. request.statuses[1].block \in 1..MaxHeight
  <2>1. request.statuses \in Seq(StatusEntry) /\ Len(request.statuses) > 0
    BY <1>1 DEF StreamInv, StreamTyped
  <2>2. request.statuses[1] \in StatusEntry
    BY <2>1
  <2> QED BY <2>2 DEF StatusEntry
<1>3. height \in 1..MaxHeight
  <2>1. <<"hyperbridge", "source">> \in Chains \X Chains
    BY DEF Chains
  <2>2. height \in 0..MaxHeight
    BY <2>1 DEF StreamInv, RInv, RecordTypeOK
  <2> QED BY <1>1, <1>2, <2>2, RecordAssumption
<1> HIDE DEF height
<1>4. /\ RInv' /\ (punctual => PunctualInv') /\ punctual' = punctual
      /\ (TimedOutUndelivered' <=> TimedOutUndelivered)
      /\ UNCHANGED <<route, record, statuses, known, blocks>>
      /\ Source' = Source /\ BlockOf(Source, "Request")' = BlockOf(Source, "Request")
  BY <1>1, StreamStepFrame
<1>5. ASSUME punctual
      PROVE  TrueYield([status |-> "SOURCE_FINALIZED", block |-> height]) /\ Source = "source"
  <2>1. Source = "source" /\ request.statuses[1].block = BlockOf(Source, "Request")
    BY <1>1, <1>5 DEF StreamInv, StreamPunctual
  <2>2. BlockOf("source", "Request") > 0 /\ height >= BlockOf("source", "Request")
    BY <1>1, <1>2, <2>1, RecordAssumption
  <2> QED BY <2>1, <2>2 DEF TrueYield
<1>6. /\ yielded' \in Seq([status : Yields, block : 1..MaxHeight])
      /\ punctual /\ ~TimedOutUndelivered => YieldsTrue'
  <2>1. "SOURCE_FINALIZED" \in Yields
    BY DEF Yields
  <2> QED BY <1>1, <1>3, <1>5, <2>1, YieldKeepsYields
<1>7. StreamTyped'
  BY <1>1, <1>4, <1>6 DEF StreamInv, StreamTyped, Yields
<1>8. punctual => StreamPunctual'
  BY <1>1, <1>4, <1>5, <1>6 DEF StreamPunctual
<1> QED BY <1>4, <1>7, <1>8 DEF StreamInv

(* The second status is the delivery: nothing else is recorded before it. *)
LEMMA DeliveredKeepsStreamInv ==
    ASSUME StreamInv, HyperbridgeDelivered
    PROVE  StreamInv'
<1> DEFINE status == IF ToHyperbridge(Queried) THEN "DESTINATION" ELSE "HYPERBRIDGE_DELIVERED"
           block == Queried.statuses[2].block
<1>1. /\ at = "SOURCE_FINALIZED" /\ Len(Queried.statuses) >= 2 /\ request' = Queried
      /\ Yield(status, block) /\ UNCHANGED recordVars /\ at' = status
  BY DEF HyperbridgeDelivered, DeliveryAwaited, Yield
<1>2. /\ status \in Yields /\ status \in {"DESTINATION", "HYPERBRIDGE_DELIVERED"}
      /\ block \in 1..MaxHeight /\ record # "absent"
      /\ Queried \in [details : BOOLEAN, statuses : Seq(StatusEntry)]
  <2>1. Len(Queried.statuses) \in Nat /\ Queried \in [details : BOOLEAN, statuses : Seq(StatusEntry)]
    BY QueriedTypes
  <2>2. Queried.statuses[2] \in StatusEntry
    BY <1>1, <2>1, QueriedTypes
  <2> QED BY <1>1, <2>1, <2>2 DEF Yields, StatusEntry, StreamInv, StreamTyped
<1>3. /\ RInv' /\ (punctual => PunctualInv') /\ punctual' = punctual
      /\ (TimedOutUndelivered' <=> TimedOutUndelivered)
      /\ UNCHANGED <<route, record, statuses, known, blocks>>
  BY <1>1, StreamStepFrame
<1>4. ASSUME punctual, ~TimedOutUndelivered
      PROVE  TrueYield([status |-> status, block |-> block])
  <2>1. /\ record = "full" /\ statuses["SOURCE"] > 0
        /\ statuses["DESTINATION"] > 0 => statuses["DESTINATION"] = BlockOf(Dest, "Handled")
        /\ statuses["HYPERBRIDGE_DELIVERED"] > 0 =>
                statuses["HYPERBRIDGE_DELIVERED"] = OnHyperbridge /\ route = "relayed"
        /\ statuses["HYPERBRIDGE_TIMED_OUT"] > 0 => route = "relayed"
        /\ (/\ route = "relayed"
            /\ \/ statuses["DESTINATION"] > 0 \/ statuses["HYPERBRIDGE_TIMED_OUT"] > 0
               \/ statuses["TIMED_OUT"] > 0)
                => statuses["HYPERBRIDGE_DELIVERED"] > 0
        /\ statuses["TIMED_OUT"] > 0 => route # "toHyperbridge"
    BY <1>2, <1>4, PunctualStatuses DEF StreamInv
  <2>2. /\ Len(Queried.statuses) = Count("SOURCE") + Count("HYPERBRIDGE_DELIVERED")
                + Count("DESTINATION") + Count("HYPERBRIDGE_TIMED_OUT") + Count("TIMED_OUT")
        /\ statuses["HYPERBRIDGE_DELIVERED"] > 0 =>
                Queried.statuses[Count("SOURCE") + 1] = EntryOf("HYPERBRIDGE_DELIVERED")
        /\ statuses["DESTINATION"] > 0 =>
                Queried.statuses[Count("SOURCE") + Count("HYPERBRIDGE_DELIVERED") + 1]
                    = EntryOf("DESTINATION")
    BY QueriedList DEF StreamInv, RInv
  <2>3. Count("SOURCE") = 1
    BY <2>1 DEF Count
  <2>4. Source = "source" /\ route \in AllRoutes
    BY <1>1, <1>4 DEF StreamInv, StreamPunctual, RInv, RecordTypeOK
  <2>5. ToHyperbridge(Queried) <=> route = "toHyperbridge"
    BY <2>1, QueriedTypes DEF ToHyperbridge, Dest
  <2>6. CASE route = "toHyperbridge"
    <3>1. /\ Count("HYPERBRIDGE_DELIVERED") = 0 /\ Count("HYPERBRIDGE_TIMED_OUT") = 0
          /\ Count("TIMED_OUT") = 0
      BY <2>1, <2>6 DEF Count
    <3>2. statuses["DESTINATION"] > 0
      BY <1>1, <2>2, <2>3, <3>1 DEF Count
    <3>3. Queried.statuses[2] = EntryOf("DESTINATION")
      BY <2>2, <2>3, <3>1, <3>2
    <3>4. block = BlockOf(Dest, "Handled") /\ BlockOf(Dest, "Handled") > 0
      BY <2>1, <3>2, <3>3 DEF EntryOf
    <3> QED BY <2>5, <2>6, <3>4 DEF TrueYield
  <2>7. CASE route = "relayed"
    <3>1. statuses["HYPERBRIDGE_DELIVERED"] > 0
      <4>1. CASE statuses["HYPERBRIDGE_DELIVERED"] > 0
        BY <4>1
      <4>2. CASE ~(statuses["HYPERBRIDGE_DELIVERED"] > 0)
        <5>1. /\ Count("HYPERBRIDGE_DELIVERED") = 0 /\ Count("HYPERBRIDGE_TIMED_OUT") = 0
              /\ Count("TIMED_OUT") = 0 /\ Count("DESTINATION") = 0
          BY <2>1, <2>7, <4>2 DEF Count
        <5> QED BY <1>1, <2>2, <2>3, <5>1
      <4> QED BY <4>1, <4>2
    <3>2. Queried.statuses[2] = EntryOf("HYPERBRIDGE_DELIVERED")
      BY <2>2, <2>3, <3>1
    <3>3. block = OnHyperbridge /\ OnHyperbridge > 0
      BY <2>1, <3>1, <3>2 DEF EntryOf
    <3> QED BY <2>5, <2>7, <3>3 DEF TrueYield
  <2>8. route # "fromHyperbridge"
    BY <2>4 DEF Source
  <2> QED BY <2>4, <2>6, <2>7, <2>8 DEF AllRoutes
<1> HIDE DEF status, block
<1>5. /\ yielded' \in Seq([status : Yields, block : 1..MaxHeight])
      /\ punctual /\ ~TimedOutUndelivered => YieldsTrue'
  BY <1>1, <1>2, <1>4, YieldKeepsYields
<1>6. StreamTyped'
  BY <1>1, <1>2, <1>3, <1>5 DEF StreamInv, StreamTyped
<1>7. punctual => StreamPunctual'
  BY <1>1, <1>2, <1>3, <1>5 DEF StreamPunctual
<1> QED BY <1>3, <1>6, <1>7 DEF StreamInv

LEMMA HyperbridgeFinalizedKeepsStreamInv ==
    ASSUME StreamInv, HyperbridgeFinalized
    PROVE  StreamInv'
<1> DEFINE height == known[<<"dest", "hyperbridge">>]
<1>1. /\ at = "HYPERBRIDGE_DELIVERED" /\ Dest # "hyperbridge"
      /\ request' = request /\ UNCHANGED recordVars
      /\ \/ OnHyperbridge \in 1..height /\ Yield("HYPERBRIDGE_FINALIZED", height)
         \/ at' = "thrown" /\ UNCHANGED yielded
  BY DEF HyperbridgeFinalized, Throw
<1>2. height \in 0..MaxHeight /\ MaxHeight \in Nat
  <2>1. <<"dest", "hyperbridge">> \in Chains \X Chains
    BY DEF Chains
  <2> QED BY <2>1, RecordAssumption DEF StreamInv, RInv, RecordTypeOK
<1> HIDE DEF height
<1>3. /\ RInv' /\ (punctual => PunctualInv') /\ punctual' = punctual
      /\ (TimedOutUndelivered' <=> TimedOutUndelivered)
      /\ UNCHANGED <<route, record, statuses, known, blocks>>
  BY <1>1, StreamStepFrame
<1>4. /\ yielded' \in Seq([status : Yields, block : 1..MaxHeight])
      /\ punctual /\ ~TimedOutUndelivered => YieldsTrue'
      /\ at' \in {"HYPERBRIDGE_FINALIZED", "thrown"}
  <2>1. CASE OnHyperbridge \in 1..height /\ Yield("HYPERBRIDGE_FINALIZED", height)
    <3>1. height \in 1..MaxHeight /\ OnHyperbridge > 0 /\ height >= OnHyperbridge
      BY <1>2, <2>1
    <3>2. TrueYield([status |-> "HYPERBRIDGE_FINALIZED", block |-> height])
      BY <3>1 DEF TrueYield
    <3>3. "HYPERBRIDGE_FINALIZED" \in Yields
      BY DEF Yields
    <3> QED BY <1>1, <2>1, <3>1, <3>2, <3>3, YieldKeepsYields DEF Yield
  <2>2. CASE at' = "thrown" /\ UNCHANGED yielded
    BY <1>1, <2>2, NoYieldKeepsYields
  <2> QED BY <1>1, <2>1, <2>2
<1>5. StreamTyped'
  BY <1>1, <1>3, <1>4 DEF StreamInv, StreamTyped, Yields
<1>6. punctual => StreamPunctual'
  <2>1. route # "toHyperbridge"
    BY <1>1 DEF Dest
  <2> QED BY <1>1, <1>3, <1>4, <2>1 DEF StreamPunctual
<1> QED BY <1>3, <1>5, <1>6 DEF StreamInv

(* The destination comes after the delivery, or second where none is recorded. *)
LEMMA DestinationKeepsStreamInv ==
    ASSUME StreamInv, DestinationReached
    PROVE  StreamInv'
<1> DEFINE position == DestinationPosition(Queried)
           block == Queried.statuses[position].block
<1>1. /\ at = "HYPERBRIDGE_FINALIZED" /\ "DESTINATION" \in Recorded(Queried)
      /\ request' = Queried /\ UNCHANGED recordVars
      /\ \/ position \in DOMAIN Queried.statuses /\ Yield("DESTINATION", block)
         \/ at' = "thrown" /\ UNCHANGED yielded
  BY DEF DestinationReached, Throw
<1>2. Queried \in [details : BOOLEAN, statuses : Seq(StatusEntry)] /\ record # "absent"
  BY <1>1, QueriedTypes DEF StreamInv, StreamTyped
<1>3. /\ RInv' /\ (punctual => PunctualInv') /\ punctual' = punctual
      /\ (TimedOutUndelivered' <=> TimedOutUndelivered)
      /\ UNCHANGED <<route, record, statuses, known, blocks>>
  BY <1>1, StreamStepFrame
<1>4. ASSUME position \in DOMAIN Queried.statuses, punctual, ~TimedOutUndelivered
      PROVE  TrueYield([status |-> "DESTINATION", block |-> block])
  <2>1. /\ record = "full" /\ statuses["SOURCE"] > 0
        /\ statuses["DESTINATION"] > 0 => statuses["DESTINATION"] = BlockOf(Dest, "Handled")
        /\ statuses["HYPERBRIDGE_DELIVERED"] > 0 => route = "relayed"
        /\ route = "relayed" /\ statuses["DESTINATION"] > 0 => statuses["HYPERBRIDGE_DELIVERED"] > 0
    BY <1>2, <1>4, PunctualStatuses DEF StreamInv
  <2>2. statuses["DESTINATION"] > 0 => Queried.statuses[Count("SOURCE") + Count("HYPERBRIDGE_DELIVERED") + 1]
                = EntryOf("DESTINATION")
    BY QueriedList DEF StreamInv, RInv
  <2>3. statuses["DESTINATION"] > 0
    <3>1. PICK i \in DOMAIN Queried.statuses : Queried.statuses[i].status = "DESTINATION"
      BY <1>1 DEF Recorded
    <3> QED BY <3>1, ListedIsRecorded DEF StreamInv, RInv
  <2>4. route # "toHyperbridge" /\ route \in AllRoutes
    BY <1>1, <1>4 DEF StreamInv, StreamPunctual, RInv, RecordTypeOK
  <2>5. position = Count("SOURCE") + Count("HYPERBRIDGE_DELIVERED") + 1
    <3>1. FromHyperbridge(Queried) <=> route = "fromHyperbridge"
      BY <2>1, QueriedTypes DEF FromHyperbridge, Source
    <3> QED BY <2>1, <2>3, <2>4, <3>1 DEF DestinationPosition, Count, AllRoutes
  <2>6. block = BlockOf(Dest, "Handled") /\ BlockOf(Dest, "Handled") > 0
    BY <2>1, <2>2, <2>3, <2>5 DEF EntryOf
  <2> QED BY <2>6 DEF TrueYield
<1>5. position \in DOMAIN Queried.statuses => block \in 1..MaxHeight
  <2>1. DOMAIN Queried.statuses = 1..Len(Queried.statuses)
    BY <1>2
  <2> QED BY <2>1, QueriedTypes DEF StatusEntry
<1> HIDE DEF position, block
<1>6. /\ yielded' \in Seq([status : Yields, block : 1..MaxHeight])
      /\ punctual /\ ~TimedOutUndelivered => YieldsTrue'
      /\ at' \in {"DESTINATION", "thrown"}
  <2>1. CASE position \in DOMAIN Queried.statuses /\ Yield("DESTINATION", block)
    <3>1. "DESTINATION" \in Yields
      BY DEF Yields
    <3> QED BY <1>1, <1>4, <1>5, <2>1, <3>1, YieldKeepsYields DEF Yield
  <2>2. CASE at' = "thrown" /\ UNCHANGED yielded
    BY <1>1, <2>2, NoYieldKeepsYields
  <2> QED BY <1>1, <2>1, <2>2
<1>7. StreamTyped'
  BY <1>1, <1>2, <1>3, <1>6 DEF StreamInv, StreamTyped, Yields
<1>8. punctual => StreamPunctual'
  BY <1>1, <1>3, <1>6 DEF StreamPunctual
<1> QED BY <1>3, <1>7, <1>8 DEF StreamInv

LEMMA StepKeepsStreamInv == StreamInv /\ [Next]_vars => StreamInv'
<1> SUFFICES ASSUME StreamInv, [Next]_vars
             PROVE  StreamInv'
  OBVIOUS
<1>1. CASE ChainStep(Chains, DeliveryUpdates) /\ UNCHANGED streamVars
  BY <1>1, ChainKeepsStreamInv
<1>2. CASE IndexerStep /\ UNCHANGED streamVars
  BY <1>2, IndexerKeepsStreamInv
<1>3. CASE StreamStep
  BY <1>3, OpenKeepsStreamInv, SourceFinalizedKeepsStreamInv, DeliveredKeepsStreamInv,
     HyperbridgeFinalizedKeepsStreamInv, DestinationKeepsStreamInv DEF StreamStep
<1>4. CASE UNCHANGED vars
  <2>1. UNCHANGED recordVars /\ UNCHANGED <<at, request, yielded>>
    BY <1>4 DEF vars, streamVars
  <2>2. /\ RInv' /\ (punctual => PunctualInv') /\ punctual' = punctual
        /\ (TimedOutUndelivered' <=> TimedOutUndelivered)
        /\ UNCHANGED <<route, record, statuses, known, blocks>>
        /\ Source' = Source /\ BlockOf(Source, "Request")' = BlockOf(Source, "Request")
        /\ punctual /\ ~TimedOutUndelivered => YieldsTrue'
    BY <2>1, StreamStepFrame, NoYieldKeepsYields
  <2>3. StreamTyped'
    BY <2>1, <2>2 DEF StreamInv, StreamTyped
  <2>4. punctual => StreamPunctual'
    BY <2>1, <2>2 DEF StreamInv, StreamPunctual
  <2> QED BY <2>2, <2>3, <2>4 DEF StreamInv
<1> QED BY <1>1, <1>2, <1>3, <1>4 DEF Next

-----------------------------------------------------------------------------
(* The record is true whatever order the indexers run in, and while they keep *)
(* up the loop is where the route goes and what it has yielded is true.       *)
THEOREM StreamInvariantHolds == Spec => []StreamInv
BY InitStreamInv, StepKeepsStreamInv, PTL DEF Spec

(* Whatever order the indexers run in, a status in the database is true. *)
THEOREM StatusesHold == Spec => []StatusesAreTrue
<1>1. StreamInv => StatusesAreTrue
  BY DEF StreamInv, RInv
<1> QED BY <1>1, StreamInvariantHolds, PTL

(* The state of the status stream has its type, and with it every block that  *)
(* is yielded is one: no status is read past the end of the list.             *)
THEOREM TypeCorrect == Spec => []TypeOK
<1>1. StreamInv => TypeOK
  <2> SUFFICES ASSUME StreamInv
               PROVE  TypeOK
    OBVIOUS
  <2>1. Recorded(request) \subseteq Statuses
    <3>1. request.statuses \in Seq(StatusEntry)
      BY DEF StreamInv, StreamTyped
    <3>2. \A i \in DOMAIN request.statuses : request.statuses[i] \in StatusEntry
      BY <3>1
    <3> QED BY <3>2 DEF Recorded, StatusEntry
  <2> QED BY <2>1 DEF TypeOK, StreamInv, StreamTyped, RInv
<1> QED BY <1>1, StreamInvariantHolds, PTL

(* With punctual indexers the statuses the stream reads by position are those *)
(* it takes them for, for every route and any number of blocks.               *)
THEOREM YieldedBlocksHold == Spec => []YieldedBlocksMatch
<1>1. StreamInv => YieldedBlocksMatch
  <2> SUFFICES ASSUME StreamInv, punctual, Happened(Source, "TimeoutHandled") => OnHyperbridge > 0,
                      NEW i \in DOMAIN yielded
               PROVE  LET y == yielded[i] IN
                      CASE y.status = "SOURCE_FINALIZED" -> y.block >= BlockOf("source", "Request")
                        [] y.status = "HYPERBRIDGE_FINALIZED" -> y.block >= OnHyperbridge
                        [] y.status = "HYPERBRIDGE_DELIVERED" -> y.block = OnHyperbridge
                        [] y.status = "DESTINATION" -> y.block = BlockOf(Dest, "Handled")
    BY DEF YieldedBlocksMatch
  <2>1. TrueYield(yielded[i])
    BY DEF StreamInv, StreamPunctual, YieldsTrue, TimedOutUndelivered
  <2>2. yielded[i].status \in Yields
    <3>1. yielded \in Seq([status : Yields, block : 1..MaxHeight])
      BY DEF StreamInv, StreamTyped
    <3>2. i \in 1..Len(yielded)
      BY <3>1
    <3>3. yielded[i] \in [status : Yields, block : 1..MaxHeight]
      BY <3>1, <3>2, ElementOfSeq
    <3> QED BY <3>3
  <2>3. PICK y : y = yielded[i]
    OBVIOUS
  <2>4. y.status \in {"SOURCE_FINALIZED", "HYPERBRIDGE_DELIVERED", "HYPERBRIDGE_FINALIZED", "DESTINATION"}
    BY <2>2, <2>3 DEF Yields
  <2>5. /\ y.status = "SOURCE_FINALIZED" => y.block >= BlockOf("source", "Request")
        /\ y.status = "HYPERBRIDGE_FINALIZED" => y.block >= OnHyperbridge
        /\ y.status = "HYPERBRIDGE_DELIVERED" => y.block = OnHyperbridge
        /\ y.status = "DESTINATION" => y.block = BlockOf(Dest, "Handled")
    BY <2>1, <2>3 DEF TrueYield
  <2> QED BY <2>3, <2>4, <2>5
<1> QED BY <1>1, StreamInvariantHolds, PTL
=============================================================================
