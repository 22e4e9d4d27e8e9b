--------------------------- MODULE OrderExecution ---------------------------
(***************************************************************************)
(* The life of an intent order as its user drives it                       *)
(* (sdk/src/protocols/intentsV2): OrderPlacer.placeOrder stores a session  *)
(* key and has the order placed; OrderExecutor.executeIntentOrder polls    *)
(* Hyperbridge for bids, has BidManager.selectBid submit the operation of  *)
(* one of them, and adds up partial fills until the order is filled or     *)
(* nothing more can be done.                                               *)
(*                                                                         *)
(* A step is the code between two awaits that matter. A crash, or an       *)
(* application that abandons the generator, loses everything but the       *)
(* session key and the set of used operations.                             *)
(***************************************************************************)
EXTENDS Naturals, FiniteSets

CONSTANTS
    Ops,        \* user operations solvers may bid with
    Offer,      \* the amount each of them fills
    Target,     \* the amount the order asks for
    MinBids,    \* options.minBids
    Deadline,   \* block of the destination after which nothing fills
    MaxLives    \* bound: executions started for the order

ASSUME ExecutionAssumption ==
    /\ Offer \in [Ops -> Nat \ {0}]
    /\ Target \in Nat \ {0}
    /\ MinBids \in Nat /\ Deadline \in Nat /\ MaxLives \in Nat

VARIABLES
    sameChain,  \* source and destination are one chain
    key,        \* the session key is stored
    order,      \* "none", "signing" or "placed"
    block,      \* height of the destination chain
    bids,       \* operations with a bid on Hyperbridge
    pooled,     \* operations in the bundler's pool
    executed,   \* "no", "full", "partial" or "reverted", for each operation
    filled,     \* amount filled on the destination chain
    stored,     \* usedUserOpsStorage
    lives,      \* executions started
    pc,         \* where executeIntentOrder is
    used,       \* usedUserOps
    fetched,    \* bids of the last answer to a poll
    op,         \* the submitted operation, or NoOp
    total,      \* totalFilledAmount
    status      \* the last status yielded

placement == <<sameChain, key, order>>
chain == <<block, bids, pooled, executed, filled>>
generator == <<pc, used, fetched, op, total, status>>
vars == <<placement, chain, stored, lives, generator>>

NoOp == "none"

Running == {"top", "polling", "collected", "selecting", "receipt", "selected"}

Init ==
    /\ sameChain \in BOOLEAN /\ key = FALSE /\ order = "none"
    /\ block = 0 /\ bids = {} /\ pooled = {}
    /\ executed = [o \in Ops |-> "no"] /\ filled = 0
    /\ stored = {} /\ lives = 0
    /\ pc = "off" /\ used = {} /\ fetched = {} /\ op = NoOp /\ total = 0
    /\ status = "none"

-----------------------------------------------------------------------------
(* Hyperbridge, the bundler and the destination chain. *)

NewBlock ==
    /\ block < Deadline
    /\ block' = block + 1
    /\ UNCHANGED <<placement, bids, pooled, executed, filled, stored, lives, generator>>

PlaceBid(o) ==
    /\ order = "placed" /\ o \notin bids
    /\ bids' = bids \cup {o}
    /\ UNCHANGED <<placement, block, pooled, executed, filled, stored, lives, generator>>

RetractBid(o) ==
    /\ o \in bids
    /\ bids' = bids \ {o}
    /\ UNCHANGED <<placement, block, pooled, executed, filled, stored, lives, generator>>

(* fillOrder succeeds: simulated before a submission, decided when mined. *)
Fillable == block < Deadline /\ filled < Target

Mine(o) ==
    /\ o \in pooled
    /\ pooled' = pooled \ {o}
    /\ \/ /\ executed' = [executed EXCEPT ![o] = "reverted"]
          /\ UNCHANGED filled
       \/ /\ Fillable /\ filled + Offer[o] >= Target
          /\ executed' = [executed EXCEPT ![o] = "full"]
          /\ filled' = Target
       \/ /\ Fillable /\ filled + Offer[o] < Target
          /\ executed' = [executed EXCEPT ![o] = "partial"]
          /\ filled' = filled + Offer[o]
    /\ UNCHANGED <<placement, block, bids, stored, lives, generator>>

DropOp(o) ==
    /\ o \in pooled
    /\ pooled' = pooled \ {o}
    /\ UNCHANGED <<placement, block, bids, executed, filled, stored, lives, generator>>

-----------------------------------------------------------------------------
(* OrderPlacer.placeOrder *)

(* The session key is stored before the transaction is handed out. *)
BeginPlacement ==
    /\ order = "none"
    /\ key' = TRUE
    /\ order' = "signing"
    /\ UNCHANGED <<sameChain, chain, stored, lives, generator>>

(* broadcastTransaction, and its receipt has OrderPlaced or has not. The key  *)
(* is then stored again with the commitment, which nothing reads.             *)
PlaceOrder ==
    /\ order = "signing"
    /\ order' \in {"placed", "none"}
    /\ UNCHANGED <<sameChain, key, chain, stored, lives, generator>>

-----------------------------------------------------------------------------
(* OrderExecutor.executeIntentOrder *)

(* Fault: the persisted operations are not loaded. *)
StartAfresh ==
    /\ order = "placed" /\ pc \in {"off", "over"} /\ lives < MaxLives
    /\ lives' = lives + 1
    /\ pc' = "top" /\ used' = {} /\ total' = 0 /\ status' = "none"
    /\ op' = NoOp /\ fetched' = {}
    /\ UNCHANGED <<placement, chain, stored>>

Start ==
    /\ order = "placed" /\ pc \in {"off", "over"} /\ lives < MaxLives
    /\ lives' = lives + 1
    /\ pc' = "top" /\ used' = stored /\ total' = 0 /\ status' = "none"
    /\ op' = NoOp /\ fetched' = {}
    /\ UNCHANGED <<placement, chain, stored>>

(* The last yield of an execution that cannot go on. *)
GiveUp ==
    /\ status' = IF total > 0 THEN "PARTIAL_FILL_EXHAUSTED" ELSE "FAILED"
    /\ pc' = "over"
    /\ UNCHANGED <<placement, chain, stored, lives, used, fetched, op, total>>

DeadlineReached == pc = "top" /\ block >= Deadline /\ GiveUp

AwaitBids ==
    /\ pc = "top" /\ block < Deadline
    /\ pc' = "polling" /\ fetched' = {} /\ status' = "AWAITING_BIDS"
    /\ UNCHANGED <<placement, chain, stored, lives, used, op, total>>

(* getBidsForOrder answers; an answer with too few bids is kept. *)
Poll ==
    /\ pc = "polling"
    /\ fetched' = bids
    /\ pc' = IF Cardinality(bids) >= MinBids THEN "collected" ELSE "polling"
    /\ UNCHANGED <<placement, chain, stored, lives, used, op, total, status>>

(* Fault: with some bids in hand the poll goes on until there are enough. *)
WaitForEnough ==
    /\ pc = "polling" /\ fetched = {}
    /\ pc' = "collected"
    /\ UNCHANGED <<placement, chain, stored, lives, used, fetched, op, total, status>>

(* bidTimeoutMs have passed. *)
PollTimeout ==
    /\ pc = "polling"
    /\ pc' = "collected"
    /\ UNCHANGED <<placement, chain, stored, lives, used, fetched, op, total, status>>

Fresh == fetched \ used

NoFreshBids == pc = "collected" /\ Fresh = {} /\ GiveUp

BidsReceived ==
    /\ pc = "collected" /\ Fresh # {}
    /\ pc' = "selecting" /\ status' = "BIDS_RECEIVED"
    /\ UNCHANGED <<placement, chain, stored, lives, used, fetched, op, total>>

(* selectBid: the first bid, in their order of value, whose simulation passes *)
(* is submitted; a simulation may fail for reasons of the node, so this may   *)
(* be any fresh one. The simulation calls fillOrder from the solver's account *)
(* and does not see that the operation's nonce is used; the bundler does.     *)
Submit(o) ==
    /\ pc = "selecting" /\ key
    /\ o \in Fresh /\ Fillable /\ executed[o] = "no"
    /\ pooled' = pooled \cup {o}
    /\ op' = o /\ pc' = "receipt"
    /\ UNCHANGED <<placement, block, bids, executed, filled, stored, lives,
                   used, fetched, total, status>>

(* selectBid throws: no key, nothing to decode, no simulation passes, the     *)
(* bundler refuses, or the receipt is not there after five retries.           *)
SelectionFails ==
    /\ pc \in {"selecting", "receipt"}
    /\ pc' = "over" /\ status' = "FAILED"
    /\ UNCHANGED <<placement, chain, stored, lives, used, fetched, op, total>>

ReceiptFound ==
    /\ pc = "receipt" /\ executed[op] # "no"
    /\ pc' = "selected"
    /\ UNCHANGED <<placement, chain, stored, lives, used, fetched, op, total, status>>

(* Fault: a receipt without an event counts as a partial fill. *)
FillByReceipt(o) == IF executed[o] = "reverted" THEN "partial" ELSE executed[o]

(* fillStatus, from the event of the order in the receipt. *)
FillStatus(o) == executed[o]

(* Faults: only a full fill is counted; a full fill is added up like others.  *)
CreditFullOnly == IF FillStatus(op) = "full" THEN Target ELSE total

CreditOffer == IF FillStatus(op) = "reverted" THEN total ELSE total + Offer[op]

Smaller(a, b) == IF a <= b THEN a ELSE b

Credited ==
    CASE FillStatus(op) = "full" -> Target
      [] FillStatus(op) = "partial" -> Smaller(total + Offer[op], Target)
      [] OTHER -> total

(* The operation is added to the used ones and the set persisted, after the   *)
(* submission; BID_SELECTED and USEROP_SUBMITTED are yielded. A cross-chain   *)
(* order ends here; otherwise the fill is added up.                           *)
RecordFill ==
    /\ pc = "selected"
    /\ used' = used \cup {op}
    /\ stored' = used \cup {op}
    /\ IF ~sameChain
       THEN status' = "SUBMITTED" /\ pc' = "over" /\ UNCHANGED total
       ELSE /\ total' = Credited
            /\ status' = CASE Credited = Target -> "FILLED"
                           [] Credited < Target /\ FillStatus(op) = "partial" -> "PARTIAL_FILL"
                           [] OTHER -> "SUBMITTED"
            /\ pc' = IF Credited = Target THEN "over" ELSE "top"
    /\ UNCHANGED <<placement, chain, lives, fetched, op>>

Crash ==
    /\ pc \in Running
    /\ pc' = "off" /\ used' = {} /\ fetched' = {} /\ op' = NoOp /\ total' = 0
    /\ status' = "none"
    /\ UNCHANGED <<placement, chain, stored, lives>>

ExecutorStep ==
    \/ DeadlineReached \/ AwaitBids \/ Poll \/ PollTimeout
    \/ NoFreshBids \/ BidsReceived
    \/ \E o \in Ops : Submit(o)
    \/ SelectionFails \/ ReceiptFound \/ RecordFill

Next ==
    \/ NewBlock
    \/ \E o \in Ops : PlaceBid(o) \/ RetractBid(o) \/ Mine(o) \/ DropOp(o)
    \/ BeginPlacement \/ PlaceOrder
    \/ Start \/ ExecutorStep \/ Crash

(* The event loop runs the generator: every wait of it ends by a timer. *)
Fairness ==
    /\ WF_vars(DeadlineReached \/ AwaitBids \/ NoFreshBids \/ BidsReceived)
    /\ WF_vars(PollTimeout)
    /\ WF_vars(SelectionFails)
    /\ WF_vars(RecordFill)

Spec == Init /\ [][Next]_vars /\ Fairness

-----------------------------------------------------------------------------
TypeOK ==
    /\ sameChain \in BOOLEAN /\ key \in BOOLEAN
    /\ order \in {"none", "signing", "placed"}
    /\ block \in 0..Deadline
    /\ bids \subseteq Ops /\ pooled \subseteq Ops
    /\ executed \in [Ops -> {"no", "full", "partial", "reverted"}]
    /\ filled \in 0..Target
    /\ stored \subseteq Ops /\ lives \in 0..MaxLives
    /\ pc \in Running \cup {"off", "over"}
    /\ used \subseteq Ops /\ fetched \subseteq Ops
    /\ op \in Ops \cup {NoOp}
    /\ total \in 0..Target
    /\ status \in {"none", "AWAITING_BIDS", "BIDS_RECEIVED", "SUBMITTED", "PARTIAL_FILL",
                   "FILLED", "PARTIAL_FILL_EXHAUSTED", "FAILED"}

(* No execution is offered an operation an earlier one, or an earlier pass,   *)
(* has recorded: its nonce is used, the simulation does not see that, and its *)
(* refusal by the bundler would end the execution.                            *)
RecordedOpsNotRetried == pc = "selecting" => Fresh \cap stored = {}

(* While an execution is the first of its order, it knows of every fill when  *)
(* it asks for bids: what it reports as remaining is what remains.            *)
TotalsComplete ==
    (sameChain /\ lives = 1 /\ pc \in {"top", "polling", "collected", "selecting"})
        => total = filled

(* Whatever crashes, resubmissions and lost receipts do, the reports are      *)
(* those of OrderReport.                                                      *)
Told == INSTANCE OrderReport WITH
    filled <- filled,
    claimed <- total,
    verdict <- IF pc = "over" THEN status ELSE "open"

ReportsAreTrue == Told!Spec

(* Every execution ends: it fills the order, runs out of bids or reaches the  *)
(* deadline, for no pass of its loop uses an operation again.                 *)
ExecutionEnds == (pc \in Running) ~> (pc \in {"off", "over"})
=============================================================================
