----------------------------- MODULE Rebalancing -----------------------------
(***************************************************************************)
(* Rebalancing of the filler's stablecoins (simplex/src/services:          *)
(* RebalancingService and its rebalancers, driven by a timer of            *)
(* core/filler). A check reads the balances of all chains for what is      *)
(* lacking, reads them again for what can be spared, plans transfers and   *)
(* runs them in parallel, over CCTP, USDT0 or the exchange. The timer does *)
(* not wait for the check before: checks overlap, and all of them work on  *)
(* the wallet that fills orders meanwhile.                                 *)
(*                                                                         *)
(* Amounts are units of account, of which CentUnits make a cent. The two   *)
(* balances of one chain are read in one step. Fees are left out.          *)
(***************************************************************************)
EXTENDS Integers, Sequences, FiniteSets, Functions

CONSTANTS
    ChainIds,       \* ids of the configured chains, in the order of the configuration
    Assets,         \* of "USDC" and "USDT"
    Base,           \* base balance, of the pairs of chain and asset that have one
    Starts,         \* balances the filler may start with
    TriggerPercent, \* triggerPercentage
    CentUnits,      \* units of account in a cent
    Slots,          \* bound: checks that overlap
    Orders,         \* bound: orders the wallet fills, each from its own balance on
                    \* a chain, repaid on another: triples with the asset
    MaxFaults,      \* bound: failed reads and transfers, and crashes
    MaxDisturbances \* bound: checks begun and orders filled during a check

(* A chain is its place in the configuration. *)
Chains == DOMAIN ChainIds

Pairs == Chains \X Assets

ASSUME RebalancingAssumption ==
    /\ ChainIds \in Seq(Nat) /\ ChainIds # << >>
    /\ Assets \subseteq {"USDC", "USDT"}
    /\ DOMAIN Base \subseteq Pairs /\ \A p \in DOMAIN Base : Base[p] \in Nat
    /\ Starts \subseteq [Pairs -> Nat]
    /\ TriggerPercent \in 0..100 /\ CentUnits \in Nat \ {0}
    /\ IsFiniteSet(Slots)
    /\ Orders \subseteq Chains \X Chains \X Assets
    /\ MaxFaults \in Nat /\ MaxDisturbances \in Nat

VARIABLES
    balance,    \* of the wallet, for each pair
    check,      \* the check in each slot
    late,       \* under way to a pair, with nobody waiting for it
    stranded,   \* amount that no step of the program moves again
    orders,     \* orders filled
    faults,     \* faults so far
    disturbances \* checks that began, and orders that were filled, during a
                \* check or while money was under way

vars == <<balance, check, late, stranded, orders, faults, disturbances>>

Idle == [stage |-> "idle", next |-> 0, lack |-> {}, spare |-> {}, moves |-> {}]

Init ==
    /\ balance \in Starts
    /\ check = [s \in Slots |-> Idle]
    /\ late = [p \in Pairs |-> 0]
    /\ stranded = 0 /\ orders = {} /\ faults = 0 /\ disturbances = 0

-----------------------------------------------------------------------------
(* Planning, on sets of records of a chain, an asset and an amount. *)

CctpChains == {1, 42161, 8453, 137, 130}
Usdt0Chains == {1, 42161, 8453, 137}
BinanceChains == {1, 56, 137, 42161, 8453}

(* selectRoute *)
Route(asset, from, to) ==
    LET ids == {ChainIds[from], ChainIds[to]} IN
    IF asset = "USDC" /\ ids \subseteq CctpChains THEN "cctp"
    ELSE IF asset = "USDT" /\ ids \subseteq Usdt0Chains THEN "usdt0"
    ELSE IF ids \subseteq BinanceChains THEN "cex"
    ELSE "none"

(* The balance triggers: it is at the threshold or below. *)
Threshold(p) == (Base[p] * (100 - TriggerPercent)) \div 100

Low(p) == p \in DOMAIN Base /\ balance[p] <= Threshold(p)

(* Fault: what is above the threshold can be spared only beyond twice the base. *)
SpareOfDouble(p) == p \in DOMAIN Base /\ balance[p] > 2 * Base[p]

Spare(p) == p \in DOMAIN Base /\ balance[p] > Base[p]

Amount(c, a, n) == [chain |-> c, asset |-> a, amount |-> n]

(* What a look at a chain finds lacking, and what can be spared of some assets.*)
LowAt(c) ==
    {Amount(c, a, Base[<<c, a>>] - balance[<<c, a>>]) : a \in {a \in Assets : Low(<<c, a>>)}}

SpareAt(c, assets) ==
    {Amount(c, a, balance[<<c, a>>] - Base[<<c, a>>]) : a \in {a \in assets : Spare(<<c, a>>)}}

(* sort((a, b) => b - a) is stable: of equal amounts the first chain is first. *)
Before(x, y) == x.amount > y.amount \/ (x.amount = y.amount /\ x.chain < y.chain)

Greater(S, x) == {y \in S : Before(y, x)}

Total(S) == SumFunction([x \in S |-> x.amount])

(* toFixed(2) *)
ToCents(n) == ((n + CentUnits \div 2) \div CentUnits) * CentUnits

Smaller(a, b) == IF a <= b THEN a ELSE b

(* Fault: a surplus that is given away is not reduced. *)
MatchAndKeep(lack, spare) ==
    LET given[p \in lack \X spare] ==
            IF p[1].chain = p[2].chain THEN 0
            ELSE Smaller(p[1].amount - SumFunction([t \in Greater(spare, p[2]) |-> given[<<p[1], t>>]]),
                         p[2].amount)
    IN given

(* Fault: a deficit that is met in part is still asked for in full.           *)
MatchInFull(lack, spare) ==
    LET given[p \in lack \X spare] ==
            IF p[1].chain = p[2].chain THEN 0
            ELSE Smaller(p[1].amount,
                         p[2].amount - SumFunction([e \in Greater(lack, p[1]) |-> given[<<e, p[2]>>]]))
    IN given

(* The greedy matching: what a deficit gets from a surplus is what the former *)
(* still needs, after the greater surpluses, or what the latter has left,     *)
(* after the greater deficits; and nothing if they are of one chain.          *)
Match(lack, spare) ==
    LET given[p \in lack \X spare] ==
            IF p[1].chain = p[2].chain THEN 0
            ELSE Smaller(p[1].amount - SumFunction([t \in Greater(spare, p[2]) |-> given[<<p[1], t>>]]),
                         p[2].amount - SumFunction([e \in Greater(lack, p[1]) |-> given[<<e, p[2]>>]]))
    IN given

(* planTransfersForAsset; ok is FALSE where it throws. *)
PlanTransfersForAsset(lack, spare) ==
    LET given == Match(lack, spare)
        used == {p \in DOMAIN given : given[p] > 0}
    IN
    [ok |-> /\ Total(spare) >= Total(lack)
            /\ \A d \in lack : SumFunction([s \in spare |-> given[<<d, s>>]]) >= d.amount,
     moves |-> {[asset |-> p[1].asset, from |-> p[2].chain, to |-> p[1].chain,
                 amount |-> ToCents(given[p]), at |-> "planned"] : p \in used}]

(* planPortfolioRebalancing: what throws for one asset throws for all. *)
PlanPortfolioRebalancing(lack, spare) ==
    LET Of(S, a) == {x \in S : x.asset = a}
        plan == [a \in {x.asset : x \in lack} |-> PlanTransfersForAsset(Of(lack, a), Of(spare, a))]
    IN IF \A a \in DOMAIN plan : plan[a].ok
       THEN UNION {plan[a].moves : a \in DOMAIN plan} ELSE {}

-----------------------------------------------------------------------------
(* rebalancePortfolio, one check in a slot. *)

Busy == (\E s \in Slots : check[s].stage # "idle") \/ (\E p \in Pairs : late[p] > 0)

Disturb ==
    /\ Busy => disturbances < MaxDisturbances
    /\ disturbances' = disturbances + (IF Busy THEN 1 ELSE 0)

(* The timer. *)
StartCheck(s) ==
    /\ check[s].stage = "idle"
    /\ check' = [check EXCEPT ![s] = [Idle EXCEPT !.stage = "triggers", !.next = 1]]
    /\ Disturb
    /\ UNCHANGED <<balance, late, stranded, orders, faults>>

(* getCurrentBalance answers, or has failed and the chain is passed over. *)
Answers(ok) == IF ok THEN faults' = faults ELSE faults < MaxFaults /\ faults' = faults + 1

(* checkRebalanceTriggers, one chain of it. *)
Look(s) ==
    LET k == check[s] IN
    /\ k.stage = "triggers"
    /\ \E ok \in BOOLEAN :
        LET lack == IF ok THEN k.lack \cup LowAt(k.next) ELSE k.lack IN
        /\ Answers(ok)
        /\ check' = [check EXCEPT ![s] =
            IF k.next < Len(ChainIds) THEN [k EXCEPT !.next = @ + 1, !.lack = lack]
            ELSE IF lack = {} THEN Idle
            ELSE [Idle EXCEPT !.stage = "plan", !.next = 1, !.lack = lack]]
    /\ UNCHANGED <<balance, late, stranded, orders, disturbances>>

(* planPortfolioRebalancing: the balances are read again, one chain each. *)
LookAgain(s) ==
    LET k == check[s] IN
    /\ k.stage = "plan"
    /\ \E ok \in BOOLEAN :
        /\ Answers(ok)
        /\ \E spare \in {IF ok THEN k.spare \cup SpareAt(k.next, {x.asset : x \in k.lack}) ELSE k.spare} :
            IF k.next < Len(ChainIds)
            THEN check' = [check EXCEPT ![s].next = @ + 1, ![s].spare = spare]
            ELSE \E moves \in {PlanPortfolioRebalancing(k.lack, spare)} :
                    check' = [check EXCEPT ![s] =
                        IF moves = {} THEN Idle ELSE [Idle EXCEPT !.stage = "executing", !.moves = moves]]
    /\ UNCHANGED <<balance, late, stranded, orders, disturbances>>

-----------------------------------------------------------------------------
(* executePortfolioRebalancing: the transfers of a check, in parallel. *)

RouteOf(m) == Route(m.asset, m.from, m.to)

(* Fault: a check with its last transfer is not over. *)
SettleOnly(s, m) == check' = [check EXCEPT ![s].moves = @ \ {m}]

(* The transfer m of slot s is over; with the last one the check is. *)
Settle(s, m) ==
    LET left == check[s].moves \ {m} IN
    check' = [check EXCEPT ![s] = IF left = {} THEN Idle ELSE [check[s] EXCEPT !.moves = left]]

Proceed(s, m, at) ==
    check' = [check EXCEPT ![s].moves = (@ \ {m}) \cup {[m EXCEPT !.at = at]}]

Fault == faults < MaxFaults /\ faults' = faults + 1

(* The transaction on the source: burn, OFT send, or deposit to the exchange. *)
Debit(s, m) ==
    /\ m.at = "planned" /\ RouteOf(m) # "none" /\ balance[<<m.from, m.asset>>] >= m.amount
    /\ balance' = [balance EXCEPT ![<<m.from, m.asset>>] = @ - m.amount]
    /\ Proceed(s, m, "sent")
    /\ UNCHANGED <<late, stranded, orders, faults, disturbances>>

(* No route or no funds, or the rebalancer fails before the transaction.      *)
Refuse(s, m) ==
    /\ m.at = "planned"
    /\ IF RouteOf(m) = "none" \/ balance[<<m.from, m.asset>>] < m.amount
       THEN UNCHANGED faults ELSE Fault
    /\ Settle(s, m)
    /\ UNCHANGED <<balance, late, stranded, orders, disturbances>>

(* waitForDepositCredit, and the withdrawal is requested. *)
Withdraw(s, m) ==
    /\ m.at = "sent" /\ RouteOf(m) = "cex"
    /\ Proceed(s, m, "withdrawing")
    /\ UNCHANGED <<balance, late, stranded, orders, faults, disturbances>>

OnItsWay(m) == m.at = "withdrawing" \/ (m.at = "sent" /\ RouteOf(m) # "cex")

Arrive(s, m) ==
    /\ OnItsWay(m)
    /\ balance' = [balance EXCEPT ![<<m.to, m.asset>>] = @ + m.amount]
    /\ Settle(s, m)
    /\ UNCHANGED <<late, stranded, orders, faults, disturbances>>

(* LayerZero or the exchange takes too long: the call throws, the transfer    *)
(* goes on.                                                                   *)
GiveUpWaiting(s, m) ==
    /\ OnItsWay(m) /\ RouteOf(m) # "cctp"
    /\ late' = [late EXCEPT ![<<m.to, m.asset>>] = @ + m.amount]
    /\ Settle(s, m) /\ Fault
    /\ UNCHANGED <<balance, stranded, orders, disturbances>>

(* CCTP returns a result with the state "error" after the burn, which nothing *)
(* retries; the deposit or the withdrawal fails and the money is left on the  *)
(* exchange.                                                                  *)
Strand(s, m) ==
    /\ m.at # "planned" /\ RouteOf(m) # "usdt0"
    /\ stranded' = stranded + m.amount
    /\ Settle(s, m) /\ Fault
    /\ UNCHANGED <<balance, late, orders, disturbances>>

LateArrives(p) ==
    /\ late[p] > 0
    /\ balance' = [balance EXCEPT ![p] = @ + late[p]]
    /\ late' = [late EXCEPT ![p] = 0]
    /\ UNCHANGED <<check, stranded, orders, faults, disturbances>>

(* The wallet fills an order on one chain and is repaid on another. *)
FillOrder(o) ==
    LET from == <<o[1], o[3]>>
        to == <<o[2], o[3]>>
    IN
    /\ o \notin orders /\ balance[from] > 0
    /\ balance' = [balance EXCEPT ![from] = @ - 1, ![to] = @ + 1]
    /\ orders' = orders \cup {o}
    /\ Disturb
    /\ UNCHANGED <<check, late, stranded, faults>>

(* Nothing is persisted: what another party delivers arrives, the rest stays. *)
Crash ==
    LET under == {x \in Slots \X UNION {check[s].moves : s \in Slots} :
                    x[2] \in check[x[1]].moves /\ x[2].at # "planned"}
        delivered == {x \in under : x[2].at = "withdrawing" \/ RouteOf(x[2]) = "usdt0"}
        Sum(S) == SumFunction([x \in S |-> x[2].amount])
    IN
    /\ Fault /\ \E s \in Slots : check[s].stage # "idle"
    /\ late' = [p \in Pairs |->
                late[p] + Sum({x \in delivered : <<x[2].to, x[2].asset>> = p})]
    /\ stranded' = stranded + Sum(under \ delivered)
    /\ check' = [s \in Slots |-> Idle]
    /\ UNCHANGED <<balance, orders, disturbances>>

Transfer(s, m) ==
    \/ Debit(s, m) \/ Refuse(s, m) \/ Withdraw(s, m) \/ Arrive(s, m)
    \/ GiveUpWaiting(s, m) \/ Strand(s, m)

Work(s) ==
    \/ StartCheck(s) \/ Look(s) \/ LookAgain(s)
    \/ \E m \in check[s].moves : Transfer(s, m)

Next ==
    \/ \E s \in Slots : Work(s)
    \/ \E p \in Pairs : LateArrives(p)
    \/ \E o \in Orders : FillOrder(o)
    \/ Crash

(* Timers fire, reads and transfers that do not fail come to an end. *)
Fairness ==
    /\ \A s \in Slots : WF_vars(Work(s))
    /\ WF_vars(\E p \in Pairs : LateArrives(p))

Spec == Init /\ [][Next]_vars /\ Fairness

-----------------------------------------------------------------------------
(* What a check records of a chain, and what it moves. *)
Reading == [chain : Chains, asset : Assets, amount : Nat]

Move == [asset : Assets, from : Chains, to : Chains, amount : Nat,
         at : {"planned", "sent", "withdrawing"}]

(* The types, and what the stage of a check says of the rest of it: it reads  *)
(* the chains in the first two stages, and executes while it has transfers.   *)
TypeOK ==
    /\ balance \in [Pairs -> Nat] /\ late \in [Pairs -> Nat]
    /\ check \in [Slots -> [stage : {"idle", "triggers", "plan", "executing"},
                            next : 0..Len(ChainIds), lack : SUBSET Reading,
                            spare : SUBSET Reading, moves : SUBSET Move]]
    /\ \A s \in Slots :
        /\ check[s].stage = "executing" <=> check[s].moves # {}
        /\ check[s].stage \in {"triggers", "plan"} <=> check[s].next \in Chains
        /\ \A m \in check[s].moves : m.from # m.to
    /\ stranded \in Nat /\ orders \subseteq Orders /\ faults \in 0..MaxFaults
    /\ disturbances \in 0..MaxDisturbances

(* planTransfersForAsset throws only if the surplus does not suffice; else    *)
(* each deficit is met, each source gives what it has to spare at most, to    *)
(* within the rounding of each transfer, and there are fewer transfers than   *)
(* chains involved. It is less than the algorithm of Rules.md:92-100, which   *)
(* takes "the current largest remaining surplus" at each transfer: the code   *)
(* sorts the surpluses once, and makes three transfers for deficits 2, 2 and  *)
(* surpluses 3, 2, where two would do. Plans are tried for all small inputs,  *)
(* while nothing has happened yet.                                            *)
Near(a, b, moves) == 2 * (a - b) \in (-(CentUnits * moves))..(CentUnits * moves)

PlanMeets(lack, spare) ==
    LET plan == PlanTransfersForAsset(lack, spare)
        Into(d) == {m \in plan.moves : m.to = d.chain}
        OutOf(s) == {m \in plan.moves : m.from = s.chain}
    IN
    /\ plan.ok <=> Total(spare) >= Total(lack)
    /\ plan.ok =>
        /\ \A d \in lack : Near(Total(Into(d)), d.amount, Cardinality(Into(d)))
        /\ \A s \in spare : 2 * (Total(OutOf(s)) - s.amount) <= CentUnits * Cardinality(OutOf(s))
        /\ plan.moves = {} \/ Cardinality(plan.moves) < Cardinality(lack) + Cardinality(spare)

PlanInputs == 0..3      \* bound: amounts of the plans that are tried
PlanChains == 1..5      \* bound: chains of the plans that are tried

GreedyIsExact ==
    (balance \in Starts /\ orders = {} /\ faults = 0 /\ ~Busy) =>
    \A lacking \in SUBSET PlanChains :
        \A n \in [PlanChains -> PlanInputs] :
            LET Take(S) == {Amount(c, "USDC", n[c]) : c \in S} IN
            PlanMeets(Take(lacking), {x \in Take(PlanChains \ lacking) : x.amount > 0})

(* Rules.md:40 "After transfers, C'[c,a] >= B[c,a] must hold for all sources" *)
(* and no deficit is filled beyond the base, to within the rounding, unless a *)
(* check or an order came between: the timer does not wait for the check      *)
(* before, and the wallet is not locked while a plan is carried out.          *)
Slack == (CentUnits \div 2) * (Len(ChainIds) - 1)

UndisturbedKeepsBase ==
    [][(disturbances' = 0 /\ orders' = orders) =>
        \A p \in DOMAIN Base :
            /\ balance'[p] < balance[p] => balance'[p] + Slack >= Base[p]
            /\ balance'[p] > balance[p] => balance'[p] <= Base[p] + Slack]_vars

(* While nothing of the bases is missing for good, a balance that triggers is *)
(* refilled, once checks no longer overlap and nothing fails. A lack of one   *)
(* asset is lack enough for the other not to be refilled either; and checks   *)
(* that always overlap may move the same money to and fro for ever.           *)
Owned(a) ==
    SumFunction([c \in Chains |-> balance[<<c, a>>] + late[<<c, a>>]])
    + SumFunction([s \in Slots |-> Total({m \in check[s].moves : m.asset = a /\ m.at # "planned"})])

Ample ==
    \A a \in Assets :
        Owned(a) >= SumFunctionOnSet(Base, {p \in DOMAIN Base : p[2] = a})

Refilled ==
    \A c \in Chains, a \in Assets : Low(<<c, a>>) ~> (~Low(<<c, a>>) \/ ~Ample)
=============================================================================
