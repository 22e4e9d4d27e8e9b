------------------------- MODULE OrderExecutionProofs -------------------------
(***************************************************************************)
(* Proofs about OrderExecution, for any operations and offers, any target, *)
(* deadline and number of lives.                                           *)
(***************************************************************************)
EXTENDS OrderExecution, TLAPS

Submitted == {"receipt", "selected"}

(* What is persisted is also known to the execution under way. *)
UsedKnown == pc \in Running => stored \subseteq used

(* The submitted operation, and that no pooled one was executed. *)
OpsKnown ==
    /\ pc \in Submitted => op \in Ops
    /\ pc = "selected" => executed[op] # "no"
    /\ \A o \in pooled : executed[o] = "no"

(* What is credited is on the chain, and an execution goes on only while      *)
(* something is missing.                                                      *)
AmountsBacked ==
    /\ total <= filled
    /\ ~sameChain => total = 0
    /\ pc \in Running => total < Target
    /\ \A o \in Ops : executed[o] = "full" => filled = Target
    /\ pc \in Submitted /\ executed[op] = "partial" => total + Offer[op] <= filled

(* In the first life nothing is filled but by the operation submitted last.   *)
FirstLife ==
    /\ lives = 0 => pc = "off" /\ pooled = {} /\ filled = 0
    /\ lives = 1 /\ pc \in Running \ Submitted => pooled = {} /\ filled = total
    /\ lives = 1 /\ pc \in Submitted =>
        /\ pooled \subseteq {op}
        /\ executed[op] # "no" => pooled = {}
        /\ executed[op] \in {"no", "reverted"} => filled = total
        /\ executed[op] = "partial" => filled = total + Offer[op]

IInv == TypeOK /\ UsedKnown /\ OpsKnown /\ AmountsBacked /\ FirstLife

-----------------------------------------------------------------------------
LEMMA Types ==
    ASSUME TypeOK
    PROVE  /\ Target \in Nat /\ Target > 0 /\ MaxLives \in Nat /\ Deadline \in Nat
           /\ \A o \in Ops : Offer[o] \in Nat /\ Offer[o] > 0
           /\ filled \in Nat /\ filled <= Target /\ total \in Nat /\ total <= Target
           /\ lives \in Nat /\ block \in Nat
BY ExecutionAssumption DEF TypeOK

(* What a mined operation does to the order. *)
LEMMA MineOutcome ==
    ASSUME TypeOK, NEW o \in Ops, Mine(o)
    PROVE  \E e \in {"full", "partial", "reverted"} :
             /\ executed' = [executed EXCEPT ![o] = e]
             /\ e = "reverted" => filled' = filled
             /\ e # "reverted" => filled < Target
             /\ e = "full" => filled' = Target
             /\ e = "partial" => filled' = filled + Offer[o] /\ filled' < Target
<1>1. CASE executed' = [executed EXCEPT ![o] = "reverted"] /\ filled' = filled
  BY <1>1
<1>2. CASE /\ Fillable /\ filled + Offer[o] >= Target
           /\ executed' = [executed EXCEPT ![o] = "full"] /\ filled' = Target
  BY <1>2 DEF Fillable
<1>3. CASE /\ Fillable /\ filled + Offer[o] < Target
           /\ executed' = [executed EXCEPT ![o] = "partial"]
           /\ filled' = filled + Offer[o]
  BY <1>3 DEF Fillable
<1> QED BY <1>1, <1>2, <1>3 DEF Mine

(* What is credited for an operation that was mined. *)
LEMMA CreditIsBacked ==
    ASSUME IInv, RecordFill
    PROVE  /\ Credited \in Nat /\ Credited <= filled
           /\ FillStatus(op) \in {"full", "partial", "reverted"}
           /\ FillStatus(op) = "reverted" => Credited = total
           /\ FillStatus(op) # "reverted" => Credited > 0
           /\ lives = 1 => Credited = filled
<1>1. op \in Ops /\ executed[op] \in {"full", "partial", "reverted"} /\ pc \in Submitted
  BY DEF IInv, TypeOK, OpsKnown, RecordFill, Submitted
<1>2. /\ Target \in Nat /\ Target > 0 /\ Offer[op] \in Nat /\ Offer[op] > 0
      /\ filled \in Nat /\ filled <= Target /\ total \in Nat
  BY <1>1, Types DEF IInv
<1>3. CASE executed[op] = "full"
  <2>1. Credited = Target /\ filled = Target
    BY <1>1, <1>3 DEF Credited, FillStatus, IInv, AmountsBacked
  <2> QED BY <1>2, <1>3, <2>1 DEF FillStatus
<1>4. CASE executed[op] = "partial"
  <2>1. total + Offer[op] <= filled
    BY <1>1, <1>4 DEF IInv, AmountsBacked
  <2>2. Credited = total + Offer[op]
    BY <1>2, <1>4, <2>1 DEF Credited, FillStatus, Smaller
  <2>3. lives = 1 => filled = total + Offer[op]
    BY <1>1, <1>4 DEF IInv, FirstLife
  <2> QED BY <1>2, <1>4, <2>1, <2>2, <2>3 DEF FillStatus
<1>5. CASE executed[op] = "reverted"
  <2>1. Credited = total
    BY <1>5 DEF Credited, FillStatus
  <2>2. total <= filled /\ (lives = 1 => filled = total)
    BY <1>1, <1>5 DEF IInv, AmountsBacked, FirstLife
  <2> QED BY <1>2, <1>5, <2>1, <2>2 DEF FillStatus
<1> QED BY <1>1, <1>3, <1>4, <1>5

-----------------------------------------------------------------------------
LEMMA InitIInv == Init => IInv
<1> SUFFICES ASSUME Init PROVE IInv
  OBVIOUS
<1>1. TypeOK
  <2>1. 0 \in 0..Deadline /\ 0 \in 0..Target /\ 0 \in 0..MaxLives
    BY ExecutionAssumption
  <2>2. executed \in [Ops -> {"no", "full", "partial", "reverted"}]
    BY DEF Init
  <2>3. /\ key \in BOOLEAN /\ order \in {"none", "signing", "placed"} /\ bids \subseteq Ops
        /\ pooled \subseteq Ops /\ stored \subseteq Ops /\ used \subseteq Ops
        /\ fetched \subseteq Ops /\ pc \in Running \cup {"off", "over"}
        /\ op \in Ops \cup {NoOp}
    BY DEF Init
  <2> QED BY <2>1, <2>2, <2>3 DEF Init, TypeOK
<1>2. UsedKnown /\ OpsKnown /\ FirstLife
  BY DEF Init, UsedKnown, OpsKnown, FirstLife, Running, Submitted
<1>3. AmountsBacked
  BY ExecutionAssumption DEF Init, AmountsBacked, Running, Submitted
<1> QED BY <1>1, <1>2, <1>3 DEF IInv

(* Blocks, bids, placement and a dropped operation. *)
LEMMA ChainKeepsIInv ==
    ASSUME IInv,
           \/ NewBlock
           \/ \E o \in Ops : PlaceBid(o) \/ RetractBid(o) \/ DropOp(o)
           \/ BeginPlacement \/ PlaceOrder
    PROVE  IInv'
<1>1. /\ UNCHANGED <<sameChain, executed, filled, stored, lives>>
      /\ UNCHANGED <<pc, used, fetched, op, total, status>>
      /\ pooled' \subseteq pooled
  BY DEF NewBlock, PlaceBid, RetractBid, DropOp, BeginPlacement, PlaceOrder, placement,
         chain, generator
<1>2. block' \in 0..Deadline
  <2>1. block \in Nat /\ Deadline \in Nat /\ block <= Deadline
    BY ExecutionAssumption DEF IInv, TypeOK
  <2>2. block' = block \/ (block < Deadline /\ block' = block + 1)
    BY DEF NewBlock, PlaceBid, RetractBid, DropOp, BeginPlacement, PlaceOrder, chain
  <2> QED BY <2>1, <2>2
<1>3. bids' \subseteq Ops
  BY DEF IInv, TypeOK, NewBlock, PlaceBid, RetractBid, DropOp, BeginPlacement, PlaceOrder,
     chain
<1>4. order' \in {"none", "signing", "placed"}
  BY DEF IInv, TypeOK, NewBlock, PlaceBid, RetractBid, DropOp, BeginPlacement, PlaceOrder,
     placement
<1>5. key' = key \/ key' = TRUE
  BY DEF NewBlock, PlaceBid, RetractBid, DropOp, BeginPlacement, PlaceOrder, placement
<1>6. key' \in BOOLEAN
  BY <1>5 DEF IInv, TypeOK
<1>7. TypeOK'
  BY <1>1, <1>2, <1>3, <1>4, <1>6 DEF IInv, TypeOK
<1>8. UsedKnown' /\ OpsKnown' /\ AmountsBacked' /\ FirstLife'
  BY <1>1 DEF IInv, UsedKnown, OpsKnown, AmountsBacked, FirstLife
<1> QED BY <1>7, <1>8 DEF IInv

LEMMA MineKeepsIInv ==
    ASSUME IInv, NEW o \in Ops, Mine(o)
    PROVE  IInv'
<1>1. PICK e \in {"full", "partial", "reverted"} :
        /\ executed' = [executed EXCEPT ![o] = e]
        /\ e = "reverted" => filled' = filled
        /\ e # "reverted" => filled < Target
        /\ e = "full" => filled' = Target
        /\ e = "partial" => filled' = filled + Offer[o] /\ filled' < Target
  BY MineOutcome DEF IInv
<1>2. /\ o \in pooled /\ pooled' = pooled \ {o} /\ executed[o] = "no"
      /\ UNCHANGED <<placement, block, bids, stored, lives, generator>>
  BY DEF Mine, IInv, OpsKnown
<1>3. UNCHANGED <<sameChain, key, order, pc, used, fetched, op, total, status>>
  BY <1>2 DEF placement, generator
<1>4. \A p \in Ops : executed'[p] = IF p = o THEN e ELSE executed[p]
  BY <1>1 DEF IInv, TypeOK
<1>5. /\ Target \in Nat /\ Offer[o] \in Nat /\ Offer[o] > 0
      /\ filled \in Nat /\ filled <= Target /\ total \in Nat
  BY Types DEF IInv
<1>6. filled' \in 0..Target /\ filled <= filled'
  BY <1>1, <1>5
<1>7. TypeOK'
  BY <1>1, <1>2, <1>3, <1>6 DEF IInv, TypeOK
<1>8. UsedKnown' /\ OpsKnown'
  <2>1. UsedKnown'
    BY <1>2, <1>3 DEF IInv, UsedKnown
  <2>2. OpsKnown'
    BY <1>2, <1>3, <1>4 DEF IInv, TypeOK, OpsKnown, Submitted
  <2> QED BY <2>1, <2>2
<1>9. AmountsBacked'
  <2>1. total <= filled
    BY DEF IInv, AmountsBacked
  <2>2. \A p \in Ops : executed'[p] = "full" => filled' = Target
    BY <1>1, <1>4, <1>5 DEF IInv, AmountsBacked
  <2>3. ASSUME pc \in Submitted, executed'[op] = "partial"
        PROVE  total + Offer[op] <= filled'
    <3>1. op \in Ops /\ Offer[op] \in Nat
      BY <2>3, Types DEF IInv, OpsKnown
    <3>2. CASE op = o
      BY <1>1, <1>4, <1>5, <2>1, <2>3, <3>1, <3>2
    <3>3. CASE op # o
      BY <1>4, <1>5, <1>6, <2>3, <3>1, <3>3 DEF IInv, AmountsBacked
    <3> QED BY <3>2, <3>3
  <2>4. total <= filled'
    BY <1>5, <1>6, <2>1
  <2> QED BY <1>3, <2>2, <2>3, <2>4 DEF IInv, AmountsBacked
<1>10. FirstLife'
  <2>1. lives # 0
    BY <1>2 DEF IInv, FirstLife
  <2>2. lives = 1 => pc \notin Running \ Submitted
    BY <1>2 DEF IInv, FirstLife
  <2>3. ASSUME lives = 1, pc \in Submitted
        PROVE  /\ op = o /\ pooled' = {} /\ filled = total
    BY <1>2, <2>3 DEF IInv, FirstLife
  <2>4. lives' = lives
    BY <1>2
  <2> QED BY <1>1, <1>3, <1>4, <2>1, <2>2, <2>3, <2>4 DEF FirstLife
<1> QED BY <1>7, <1>8, <1>9, <1>10 DEF IInv

LEMMA StartKeepsIInv ==
    ASSUME IInv, Start
    PROVE  IInv'
<1>1. /\ lives' = lives + 1 /\ lives < MaxLives /\ pc' = "top" /\ used' = stored /\ total' = 0
      /\ status' = "none" /\ op' = NoOp /\ fetched' = {}
      /\ UNCHANGED <<sameChain, key, order, block, bids, pooled, executed, filled, stored>>
  BY DEF Start, placement, chain
<1>2. Target \in Nat /\ Target > 0 /\ MaxLives \in Nat /\ lives \in Nat /\ filled \in Nat
  BY Types DEF IInv
<1>3. TypeOK'
  BY <1>1, <1>2 DEF IInv, TypeOK, Running
<1>4. UsedKnown' /\ OpsKnown'
  BY <1>1 DEF IInv, UsedKnown, OpsKnown, Submitted
<1>5. AmountsBacked'
  BY <1>1, <1>2 DEF IInv, AmountsBacked, Submitted
<1>6. FirstLife'
  BY <1>1, <1>2 DEF IInv, FirstLife, Submitted
<1> QED BY <1>3, <1>4, <1>5, <1>6 DEF IInv

(* The steps of an execution that leave the order and its total alone. *)
LEMMA WaitingKeepsIInv ==
    ASSUME IInv, DeadlineReached \/ AwaitBids \/ Poll \/ PollTimeout \/ NoFreshBids
                 \/ BidsReceived \/ SelectionFails \/ ReceiptFound
    PROVE  IInv'
<1>1. /\ UNCHANGED <<sameChain, key, order, block, bids, pooled, executed, filled>>
      /\ UNCHANGED <<stored, lives, used, op, total>>
  BY DEF DeadlineReached, AwaitBids, Poll, PollTimeout, NoFreshBids, BidsReceived,
         SelectionFails, ReceiptFound, GiveUp, placement, chain
<1>2. /\ fetched' \subseteq Ops
      /\ status' \in {"none", "AWAITING_BIDS", "BIDS_RECEIVED", "SUBMITTED", "PARTIAL_FILL",
                      "FILLED", "PARTIAL_FILL_EXHAUSTED", "FAILED"}
  BY DEF IInv, TypeOK, DeadlineReached, AwaitBids, Poll, PollTimeout, NoFreshBids,
         BidsReceived, SelectionFails, ReceiptFound, GiveUp
<1>3. \/ pc' = "over"
      \/ pc \in Running \ Submitted /\ pc' \in Running \ Submitted
      \/ pc = "receipt" /\ pc' = "selected" /\ executed[op] # "no"
  BY DEF DeadlineReached, AwaitBids, Poll, PollTimeout, NoFreshBids, BidsReceived,
         SelectionFails, ReceiptFound, GiveUp, Running, Submitted
<1>4. pc # "off"
  BY DEF DeadlineReached, AwaitBids, Poll, PollTimeout, NoFreshBids, BidsReceived,
         SelectionFails, ReceiptFound
<1>5. TypeOK'
  BY <1>1, <1>2, <1>3 DEF IInv, TypeOK, Running
<1>6. UsedKnown' /\ OpsKnown' /\ AmountsBacked' /\ FirstLife'
  BY <1>1, <1>3, <1>4 DEF IInv, UsedKnown, OpsKnown, AmountsBacked, FirstLife, Running,
     Submitted
<1> QED BY <1>5, <1>6 DEF IInv

LEMMA SubmitKeepsIInv ==
    ASSUME IInv, NEW o \in Ops, Submit(o)
    PROVE  IInv'
<1>1. /\ pc = "selecting" /\ pc' = "receipt" /\ op' = o /\ executed[o] = "no"
      /\ pooled' = pooled \cup {o}
      /\ UNCHANGED <<sameChain, key, order, block, bids, executed, filled, stored, lives>>
      /\ UNCHANGED <<used, fetched, total, status>>
  BY DEF Submit, placement
<1>2. TypeOK'
  BY <1>1 DEF IInv, TypeOK, Running
<1>3. UsedKnown' /\ OpsKnown' /\ AmountsBacked' /\ FirstLife'
  BY <1>1 DEF IInv, UsedKnown, OpsKnown, AmountsBacked, FirstLife, Running, Submitted
<1> QED BY <1>2, <1>3 DEF IInv

LEMMA RecordKeepsIInv ==
    ASSUME IInv, RecordFill
    PROVE  IInv'
<1>1. /\ used' = used \cup {op} /\ stored' = used \cup {op}
      /\ UNCHANGED <<sameChain, key, order, block, bids, pooled, executed, filled>>
      /\ UNCHANGED <<lives, fetched, op>>
  BY DEF RecordFill, placement, chain
<1>2. pc = "selected" /\ op \in Ops
  BY DEF RecordFill, IInv, OpsKnown, Submitted
<1>3. Target \in Nat /\ filled \in Nat /\ filled <= Target /\ total \in Nat /\ total <= Target
  BY Types DEF IInv
<1>4. /\ Credited \in Nat /\ Credited <= filled
      /\ lives = 1 => Credited = filled
  BY CreditIsBacked
<1>5. \/ ~sameChain /\ pc' = "over" /\ total' = total
      \/ sameChain /\ total' = Credited /\ pc' = (IF Credited = Target THEN "over" ELSE "top")
  BY DEF RecordFill
<1>6. status' \in {"none", "AWAITING_BIDS", "BIDS_RECEIVED", "SUBMITTED", "PARTIAL_FILL",
                   "FILLED", "PARTIAL_FILL_EXHAUSTED", "FAILED"}
  BY DEF RecordFill
<1>7. TypeOK'
  BY <1>1, <1>2, <1>3, <1>4, <1>5, <1>6 DEF IInv, TypeOK, Running
<1>8. UsedKnown' /\ OpsKnown'
  BY <1>1, <1>5 DEF IInv, UsedKnown, OpsKnown, Submitted
<1>9. AmountsBacked'
  BY <1>1, <1>3, <1>4, <1>5 DEF IInv, AmountsBacked, Running, Submitted
<1>10. FirstLife'
  <2>1. lives # 0 /\ lives' = lives
    BY <1>1, <1>2 DEF IInv, FirstLife
  <2>2. lives = 1 => pooled = {}
    BY <1>2 DEF IInv, FirstLife, OpsKnown, Submitted
  <2>3. pc' \notin Submitted
    BY <1>5 DEF Submitted
  <2>4. pc' \in Running => total' = Credited
    BY <1>5 DEF Running
  <2> QED BY <1>1, <1>4, <2>1, <2>2, <2>3, <2>4 DEF FirstLife
<1> QED BY <1>7, <1>8, <1>9, <1>10 DEF IInv

LEMMA CrashKeepsIInv ==
    ASSUME IInv, Crash
    PROVE  IInv'
<1>1. /\ pc' = "off" /\ used' = {} /\ fetched' = {} /\ op' = NoOp /\ total' = 0
      /\ status' = "none" /\ pc \in Running
      /\ UNCHANGED <<sameChain, key, order, block, bids, pooled, executed, filled>>
      /\ UNCHANGED <<stored, lives>>
  BY DEF Crash, placement, chain
<1>2. Target \in Nat /\ filled \in Nat
  BY Types DEF IInv
<1>3. TypeOK'
  BY <1>1, <1>2 DEF IInv, TypeOK
<1>4. UsedKnown' /\ OpsKnown' /\ AmountsBacked' /\ FirstLife'
  BY <1>1, <1>2 DEF IInv, UsedKnown, OpsKnown, AmountsBacked, FirstLife, Running, Submitted
<1> QED BY <1>3, <1>4 DEF IInv

LEMMA StepKeepsIInv == IInv /\ [Next]_vars => IInv'
<1> SUFFICES ASSUME IInv, [Next]_vars PROVE IInv'
  OBVIOUS
<1>1. CASE UNCHANGED vars
  BY <1>1 DEF vars, placement, chain, generator, IInv, TypeOK, UsedKnown, OpsKnown,
     AmountsBacked, FirstLife
<1>2. CASE ExecutorStep
  BY <1>2, WaitingKeepsIInv, SubmitKeepsIInv, RecordKeepsIInv DEF ExecutorStep
<1> QED BY <1>1, <1>2, ChainKeepsIInv, MineKeepsIInv, StartKeepsIInv, CrashKeepsIInv
        DEF Next

(* The invariant holds in every reachable state. *)
THEOREM InvariantHolds == Spec => []IInv
<1>1. IInv /\ [Next]_vars => IInv'
  BY StepKeepsIInv
<1> QED BY <1>1, InitIInv, PTL DEF Spec

(* The execution's state has its types. *)
THEOREM TypeCorrect == Spec => []TypeOK
<1>1. IInv => TypeOK
  BY DEF IInv
<1> QED BY <1>1, InvariantHolds, PTL

(* No recorded operation is offered again, in this life or a later one. *)
THEOREM RecordedOpsStayUsed == Spec => []RecordedOpsNotRetried
<1>1. IInv => RecordedOpsNotRetried
  BY DEF IInv, UsedKnown, RecordedOpsNotRetried, Fresh, Running
<1> QED BY <1>1, InvariantHolds, PTL

(* The first execution of an order knows of every fill when it asks for bids. *)
THEOREM FirstLifeKnowsFills == Spec => []TotalsComplete
<1>1. IInv => TotalsComplete
  BY DEF IInv, FirstLife, TotalsComplete, Running, Submitted
<1> QED BY <1>1, InvariantHolds, PTL

-----------------------------------------------------------------------------
(* What the application has been told when the execution is over. *)
ToldVerdict == IF pc = "over" THEN status ELSE "open"

(* A step of the executor tells the truth. *)
LEMMA ExecutorTells ==
    ASSUME IInv, ExecutorStep
    PROVE  Told!Tell
<1>1. /\ Target \in Nat /\ Target > 0 /\ filled \in Nat /\ filled <= Target
      /\ total \in Nat /\ total <= filled
  BY Types DEF IInv, AmountsBacked
<1>2. filled' = filled
  BY DEF ExecutorStep, DeadlineReached, AwaitBids, Poll, PollTimeout, NoFreshBids,
         BidsReceived, Submit, SelectionFails, ReceiptFound, RecordFill, GiveUp, chain
<1> SUFFICES /\ total' \in 0..filled /\ ToldVerdict' \in Told!Verdicts
             /\ ToldVerdict' = "FILLED" => total' = Target
             /\ ToldVerdict' = "PARTIAL_FILL_EXHAUSTED" => total' \in 1..(Target - 1)
  BY <1>2 DEF Told!Tell, ToldVerdict
<1>3. CASE DeadlineReached \/ NoFreshBids
  <2>1. /\ total' = total /\ pc' = "over" /\ total < Target
        /\ status' = IF total > 0 THEN "PARTIAL_FILL_EXHAUSTED" ELSE "FAILED"
    BY <1>3 DEF DeadlineReached, NoFreshBids, GiveUp, IInv, AmountsBacked, Running
  <2> QED BY <1>1, <2>1 DEF ToldVerdict, Told!Verdicts
<1>4. CASE SelectionFails
  <2>1. total' = total /\ ToldVerdict' = "FAILED"
    BY <1>4 DEF SelectionFails, ToldVerdict
  <2> QED BY <1>1, <2>1 DEF Told!Verdicts
<1>5. CASE RecordFill
  <2>1. Credited \in Nat /\ Credited <= filled
    BY <1>5, CreditIsBacked
  <2>2. CASE ~sameChain
    <3>1. total' = total /\ ToldVerdict' = "SUBMITTED"
      BY <1>5, <2>2 DEF RecordFill, ToldVerdict
    <3> QED BY <1>1, <3>1 DEF Told!Verdicts
  <2>3. CASE sameChain /\ Credited = Target
    <3>1. total' = Target /\ ToldVerdict' = "FILLED"
      BY <1>1, <1>5, <2>3 DEF RecordFill, ToldVerdict
    <3> QED BY <1>1, <2>1, <2>3, <3>1 DEF Told!Verdicts
  <2>4. CASE sameChain /\ Credited # Target
    <3>1. total' = Credited /\ ToldVerdict' = "open"
      BY <1>5, <2>4 DEF RecordFill, ToldVerdict
    <3> QED BY <2>1, <3>1, <1>1 DEF Told!Verdicts
  <2> QED BY <2>2, <2>3, <2>4
<1>6. CASE AwaitBids \/ Poll \/ PollTimeout \/ BidsReceived \/ ReceiptFound
           \/ \E o \in Ops : Submit(o)
  <2>1. total' = total /\ ToldVerdict' = "open"
    BY <1>6 DEF AwaitBids, Poll, PollTimeout, BidsReceived, ReceiptFound, Submit, ToldVerdict
  <2> QED BY <1>1, <2>1 DEF Told!Verdicts
<1> QED BY <1>3, <1>4, <1>5, <1>6 DEF ExecutorStep

LEMMA StepReports ==
    ASSUME IInv, [Next]_vars
    PROVE  [Told!Next]_(Told!reportVars)
<1> USE DEF Told!reportVars, ToldVerdict
<1>1. CASE ExecutorStep
  BY <1>1, ExecutorTells DEF Told!Next
<1>2. ASSUME NEW o \in Ops, Mine(o)
      PROVE  [Told!Next]_(Told!reportVars)
  <2>1. PICK e \in {"full", "partial", "reverted"} :
          /\ e = "reverted" => filled' = filled
          /\ e # "reverted" => filled < Target
          /\ e = "full" => filled' = Target
          /\ e = "partial" => filled' = filled + Offer[o] /\ filled' < Target
    BY <1>2, MineOutcome DEF IInv
  <2>2. UNCHANGED <<pc, total, status>>
    BY <1>2 DEF Mine, generator
  <2>3. /\ Target \in Nat /\ filled \in Nat /\ filled <= Target
        /\ Offer[o] \in Nat /\ Offer[o] > 0
    BY Types DEF IInv
  <2>4. CASE e = "reverted"
    BY <2>1, <2>2, <2>4
  <2>5. CASE e # "reverted"
    <3>1. filled' \in (filled + 1)..Target
      BY <2>1, <2>3, <2>5
    <3> QED BY <2>2, <3>1 DEF Told!Next, Told!Fill
  <2> QED BY <2>4, <2>5
<1>3. CASE Start \/ Crash
  <2>1. total' = 0 /\ pc' # "over" /\ filled' = filled
    BY <1>3 DEF Start, Crash, chain
  <2>2. filled \in Nat /\ Target \in Nat
    BY Types DEF IInv
  <2>3. Told!Tell
    BY <2>1, <2>2 DEF Told!Tell, Told!Verdicts
  <2> QED BY <2>3 DEF Told!Next
<1>4. CASE \/ NewBlock \/ BeginPlacement \/ PlaceOrder \/ UNCHANGED vars
           \/ \E o \in Ops : PlaceBid(o) \/ RetractBid(o) \/ DropOp(o)
  <2>1. UNCHANGED <<filled, total, pc, status>>
    BY <1>4 DEF NewBlock, BeginPlacement, PlaceOrder, PlaceBid, RetractBid, DropOp, vars,
       chain, generator
  <2> QED BY <2>1
<1> QED BY <1>1, <1>2, <1>3, <1>4 DEF Next

(* Whatever crashes, is lost or submitted again, the executor implements      *)
(* OrderReport: what it reports as filled is on the chain.                    *)
THEOREM ReportsAreBacked == Spec => ReportsAreTrue
<1>1. Init => Told!Init
  BY DEF Init, Told!Init
<1>2. IInv /\ [Next]_vars => [Told!Next]_(Told!reportVars)
  BY StepReports
<1> QED BY <1>1, <1>2, InvariantHolds, PTL DEF Spec, ReportsAreTrue, Told!Spec
=============================================================================
