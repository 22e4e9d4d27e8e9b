---------------------------- MODULE IntentFiller ----------------------------
(***************************************************************************)
(* The order pipeline of the simplex filler (core/filler.ts): orders found *)
(* by the event monitor are analysed in a global queue, executed in a      *)
(* queue per destination chain, recorded in the bids table, and their      *)
(* Hyperbridge deposits are reclaimed through a retraction queue, after a  *)
(* fill or after the bid's time to live.                                   *)
(*                                                                         *)
(* A deposit is money: the filler's only memory of it is the bids table.   *)
(* The process may crash anywhere and be restarted; what is in SQLite and  *)
(* on the chains survives, everything else is lost.                        *)
(*                                                                         *)
(* submitBid and retractBid are used through what ExtrinsicSubmission      *)
(* promises of them: an extrinsic takes effect at some point after it is   *)
(* sent, success is reported only after inclusion, and a call reported as  *)
(* failed may already be included or be included later.                    *)
(***************************************************************************)
EXTENDS Naturals, FiniteSets, SequencesExt

CONSTANTS
    Orders,               \* the orders placed on the source chains
    Chains,               \* the destination chains with a queue
    Dest,                 \* the destination chain of each order
    SolverSelection,      \* chains in solver-selection mode: orders are bid for
    WatchOnly,            \* chains the operator only watches
    Strategies,           \* the configured strategies
    Pricing,              \* those with the optional getOrderUsdValue
    Policies,             \* those with the optional confirmationPolicy
    MaxConcurrentOrders,  \* concurrency of the global queue
    MaxCrashes,           \* bound: crashes and exits of the process
    MaxRows,              \* bound: rows the bids table may grow to
    MaxRetractions,       \* bound: retractions queued by fills and the sweep
    CanStop               \* whether the operator may stop the process

ASSUME FillerAssumption ==
    /\ Dest \in [Orders -> Chains]
    /\ SolverSelection \subseteq Chains
    /\ WatchOnly \subseteq Chains
    /\ Pricing \subseteq Strategies
    /\ Policies \subseteq Strategies
    /\ MaxConcurrentOrders \in Nat \ {0}
    /\ MaxCrashes \in Nat
    /\ MaxRows \in Nat
    /\ MaxRetractions \in Nat
    /\ CanStop \in BOOLEAN

VARIABLES
    phase,          \* "running", "draining" (stop called), "stopped", "down"
    scan,           \* block scanner: "on", "last" (a scan outlives stop), "off"
    idleSeen,       \* queues whose onIdle promise has resolved since stop()
    detected,       \* orders the monitor has emitted in this life
    globalQueue,    \* orders waiting for a slot of globalQueue
    conf,           \* waitForConfirmations of each order under analysis
    eval,           \* evaluateOrder of each order under analysis
    confirmed,      \* orders as deep in their source chain as policies ask
    chainQueues,    \* chainQueues; the head of a queue is running
    pending,        \* pendingRetractions
    retractions,    \* retractionQueue; the head is running
    sending,        \* calls outstanding and not known to be included
    landed,         \* calls included and not yet reported, in block order
    pool,           \* calls given up or lost that may still be included
    deposit,        \* orders with a bid and deposit of ours on Hyperbridge
    published,      \* orders whose bid was ever on Hyperbridge
    fill,           \* our last OrderFilled or PartialFill log of the order:
                    \* "open" (none yet), "logged", "handled", "missed"
    rows,           \* the bids table
    lostTrack,      \* history: placements whose outcome never got a true row
    crashes         \* crashes and exits so far

process  == <<phase, scan, idleSeen, crashes>>
pipeline == <<detected, globalQueue, conf, eval, confirmed>>
calls    == <<sending, landed, pool>>
ledger   == <<deposit, published, fill>>
books    == <<rows, lostTrack>>
vars == <<process, pipeline, chainQueues, pending, retractions, calls, ledger, books>>

Calls == {"place", "retract", "fill"} \X Orders

Row == [id : Nat, commitment : Orders, success : BOOLEAN,
        retracted : BOOLEAN, expired : BOOLEAN]

InFlight(call) == call \in sending \/ call \in ToSet(landed)

Analysing == {o \in Orders : conf[o] # "none"}

(* The order running on a destination chain's queue. *)
Executing(o) ==
    /\ phase # "down"
    /\ chainQueues[Dest[o]] # << >>
    /\ Head(chainQueues[Dest[o]]) = o

-----------------------------------------------------------------------------
(* BidStorageService: one row per finished execution. *)

RowsOf(o) == {r \in rows : r.commitment = o}

(* getBidByCommitment: the row created last. *)
LatestRow(o) == CHOOSE r \in RowsOf(o) : \A q \in RowsOf(o) : q.id <= r.id

(* Fault: ids are one less than the rows there are. *)
NewRowBelow(o, success) ==
    [id |-> Cardinality(rows) - 1, commitment |-> o, success |-> success,
     retracted |-> FALSE, expired |-> FALSE]

NewRow(o, success) ==
    [id |-> Cardinality(rows), commitment |-> o, success |-> success,
     retracted |-> FALSE, expired |-> FALSE]

(* Fault: the update is lost. *)
MarkNothing(o) == rows

(* markBidAsRetracted: every row of the commitment. *)
MarkRetracted(o) ==
    {IF r.commitment = o THEN [r EXCEPT !.retracted = TRUE] ELSE r : r \in rows}

(* getExpiredUnretractedBids, as any sequence of the rows in creation order. *)
ExpiredRows == {r \in rows : r.success /\ ~r.retracted /\ r.expired}

InCreationOrder(S) ==
    {s \in [1..Cardinality(S) -> S] :
        \A i, j \in 1..Cardinality(S) : i < j => s[i].id < s[j].id}

(* A deposit the sweep will find: a successful row that is not retracted. *)
Tracked(o) == \E r \in rows : r.commitment = o /\ r.success /\ ~r.retracted

-----------------------------------------------------------------------------
Init ==
    /\ phase = "running" /\ scan = "on" /\ idleSeen = {} /\ crashes = 0
    /\ detected = {} /\ globalQueue = << >>
    /\ conf = [o \in Orders |-> "none"]
    /\ eval = [o \in Orders |-> "none"]
    /\ confirmed = {}
    /\ chainQueues = [c \in Chains |-> << >>]
    /\ pending = {} /\ retractions = << >>
    /\ sending = {} /\ landed = << >> /\ pool = {}
    /\ deposit = {} /\ published = {}
    /\ fill = [o \in Orders |-> "open"]
    /\ rows = {} /\ lostTrack = {}

-----------------------------------------------------------------------------
(* Analysis: handleNewOrder and evaluateOrder. *)

(* The monitor emits "newOrder": the order joins the global queue. *)
DetectOrder(o) ==
    /\ phase # "down" /\ scan # "off"
    /\ o \notin detected
    /\ detected' = detected \cup {o}
    /\ globalQueue' = Append(globalQueue, o)
    /\ UNCHANGED <<phase, scan, crashes, conf, eval, confirmed, chainQueues,
                   pending, retractions, calls, ledger, books>>

(* A slot is free: confirmations and evaluation start in parallel. Required   *)
(* are the most that a policy of a matched strategy asks for, and only        *)
(* strategies that can price the order are matched (canFillCache, up to the   *)
(* first that does price it); without any, none: one count is read and there  *)
(* is no wait.                                                                *)
StartAnalysis ==
    /\ globalQueue # << >>
    /\ Cardinality(Analysing) < MaxConcurrentOrders
    /\ \E o \in {Head(globalQueue)}, matched \in SUBSET Pricing :
        /\ conf' = [conf EXCEPT ![o] = IF matched \cap Policies = {}
                                       THEN "counting" ELSE "waiting"]
        /\ eval' = [eval EXCEPT ![o] = "running"]
    /\ globalQueue' = Tail(globalQueue)
    /\ UNCHANGED <<phase, scan, crashes, detected, confirmed, chainQueues,
                   pending, retractions, calls, ledger, books>>

(* A count of the confirmations reaches what is required. *)
Confirm(o) ==
    /\ conf[o] = "counting" \/ (conf[o] = "waiting" /\ o \in confirmed)
    /\ conf' = [conf EXCEPT ![o] = "enough"]
    /\ UNCHANGED <<phase, scan, crashes, detected, globalQueue, eval, confirmed,
                   chainQueues, pending, retractions, calls, ledger, books>>

(* The wait loop sees the abort signal and returns without confirmations. *)
StopWaiting(o) ==
    /\ conf[o] = "waiting" /\ eval[o] = "rejected"
    /\ conf' = [conf EXCEPT ![o] = "aborted"]
    /\ UNCHANGED <<phase, scan, crashes, detected, globalQueue, eval, confirmed,
                   chainQueues, pending, retractions, calls, ledger, books>>

(* Fault: the watch-only configuration is not consulted. *)
EvaluateAll(o) ==
    /\ eval[o] = "running"
    /\ \E verdict \in {"profitable", "rejected"} : eval' = [eval EXCEPT ![o] = verdict]
    /\ UNCHANGED <<phase, scan, crashes, detected, globalQueue, conf, confirmed,
                   chainQueues, pending, retractions, calls, ledger, books>>

(* The best profitable strategy, or none; a watch-only chain yields none. *)
Evaluate(o) ==
    /\ eval[o] = "running"
    /\ \E verdict \in {"profitable", "rejected"} :
        /\ Dest[o] \in WatchOnly => verdict = "rejected"
        /\ eval' = [eval EXCEPT ![o] = verdict]
    /\ UNCHANGED <<phase, scan, crashes, detected, globalQueue, conf, confirmed,
                   chainQueues, pending, retractions, calls, ledger, books>>

(* Promise.all: both halves are over and the order is executed or dropped. *)
FinishAnalysis(o) ==
    /\ conf[o] \in {"enough", "aborted"}
    /\ eval[o] \in {"profitable", "rejected"}
    /\ conf' = [conf EXCEPT ![o] = "none"]
    /\ eval' = [eval EXCEPT ![o] = "none"]
    /\ chainQueues' = IF eval[o] = "profitable"
                      THEN [chainQueues EXCEPT ![Dest[o]] = Append(@, o)]
                      ELSE chainQueues
    /\ UNCHANGED <<phase, scan, crashes, detected, globalQueue, confirmed,
                   pending, retractions, calls, ledger, books>>

(* An early return or an error of any step of the analysis drops the order. *)
DropOrder(o) ==
    /\ conf[o] # "none"
    /\ conf' = [conf EXCEPT ![o] = "none"]
    /\ eval' = [eval EXCEPT ![o] = "none"]
    /\ UNCHANGED <<phase, scan, crashes, detected, globalQueue, confirmed,
                   chainQueues, pending, retractions, calls, ledger, books>>

-----------------------------------------------------------------------------
(* Execution: the task of a chain queue and the strategy's executeOrder. *)

PopChain(o) == chainQueues' = [chainQueues EXCEPT ![Dest[o]] = Tail(@)]

Idle(o) == ~InFlight(<<"place", o>>) /\ <<"fill", o>> \notin sending

(* The strategy sends the bid, or the fill when no solver is selected. *)
Submit(o) ==
    /\ Executing(o) /\ Idle(o)
    /\ Cardinality(rows) < MaxRows
    /\ sending' = sending \cup
            {<<IF Dest[o] \in SolverSelection THEN "place" ELSE "fill", o>>}
    /\ UNCHANGED <<phase, scan, crashes, pipeline, chainQueues, pending,
                   retractions, landed, pool, ledger, books>>

(* The strategy fails before it has a commitment (no cached outputs, gas     *)
(* estimate or entry point): nothing is stored.                              *)
PrepareFails(o) ==
    /\ Executing(o) /\ Idle(o)
    /\ PopChain(o)
    /\ UNCHANGED <<phase, scan, crashes, pipeline, pending, retractions,
                   calls, ledger, books>>

(* Fault: the deferred retraction is enqueued and stays deferred. *)
StoreKeepsPending(o, success) ==
    /\ rows' = rows \cup {NewRow(o, success)}
    /\ UNCHANGED pending
    /\ retractions' = IF o \in pending THEN Append(retractions, o) ELSE retractions
    /\ PopChain(o)

(* storeBid, the deferred retraction, and the end of the queue's task. *)
StoreOutcome(o, success) ==
    /\ rows' = rows \cup {NewRow(o, success)}
    /\ pending' = pending \ {o}
    /\ retractions' = IF o \in pending THEN Append(retractions, o) ELSE retractions
    /\ PopChain(o)

(* The bid is reported in a block. *)
BidSucceeds(o) ==
    /\ Executing(o)
    /\ landed # << >> /\ Head(landed) = <<"place", o>>
    /\ landed' = Tail(landed)
    /\ StoreOutcome(o, TRUE)
    /\ UNCHANGED <<phase, scan, crashes, pipeline, sending, pool, ledger, lostTrack>>

(* Every attempt timed out or was refused; the last may be left in the pool. *)
BidFails(o) ==
    /\ Executing(o)
    /\ <<"place", o>> \in sending
    /\ sending' = sending \ {<<"place", o>>}
    /\ \E leftInPool \in BOOLEAN :
        /\ pool' = IF leftInPool THEN pool \cup {<<"place", o>>} ELSE pool
        /\ lostTrack' = IF leftInPool \/ o \in deposit
                        THEN lostTrack \cup {o} ELSE lostTrack
    /\ StoreOutcome(o, FALSE)
    /\ UNCHANGED <<phase, scan, crashes, pipeline, landed, ledger>>

(* The receipt of a direct fill, or its error: no commitment, no row. *)
FillReturns(o) ==
    /\ Executing(o)
    /\ <<"fill", o>> \in sending
    /\ sending' = sending \ {<<"fill", o>>}
    /\ \E leftInPool \in BOOLEAN :
        pool' = IF leftInPool /\ fill[o] = "open"
                THEN pool \cup {<<"fill", o>>} ELSE pool
    /\ PopChain(o)
    /\ UNCHANGED <<phase, scan, crashes, pipeline, pending, retractions, landed,
                   ledger, books>>

-----------------------------------------------------------------------------
(* Retraction: handleOrderFilledOnChain, the sweep and the retraction queue. *)

(* Fault: the retraction is enqueued whether or not the bid is stored. *)
RetractAtOnce(o) ==
    /\ phase # "down" /\ scan # "off"
    /\ fill[o] = "logged" /\ Len(retractions) < MaxRetractions
    /\ fill' = [fill EXCEPT ![o] = "handled"]
    /\ retractions' = Append(retractions, o)
    /\ UNCHANGED <<phase, scan, crashes, pipeline, chainQueues, calls, pending,
                   deposit, published, books>>

(* The monitor emits "orderFilledOnChain" for a fill by this filler. *)
OrderFilledOnChain(o) ==
    /\ phase # "down" /\ scan # "off"
    /\ fill[o] = "logged" /\ Len(retractions) < MaxRetractions
    /\ fill' = [fill EXCEPT ![o] = "handled"]
    /\ IF RowsOf(o) = {}
       THEN pending' = pending \cup {o} /\ UNCHANGED retractions
       ELSE /\ UNCHANGED pending
            /\ retractions' = IF LatestRow(o).retracted THEN retractions
                              ELSE Append(retractions, o)
    /\ UNCHANGED <<phase, scan, crashes, pipeline, chainQueues, calls,
                   deposit, published, books>>

(* sweepExpiredBids, every five minutes: what it enqueues may already be     *)
(* queued.                                                                   *)
Sweep ==
    /\ phase = "running"
    /\ ExpiredRows # {}
    /\ Len(retractions) + Cardinality(ExpiredRows) <= MaxRetractions
    /\ \E s \in InCreationOrder(ExpiredRows) :
        retractions' = retractions \o [i \in 1..Cardinality(ExpiredRows) |-> s[i].commitment]
    /\ UNCHANGED <<phase, scan, crashes, pipeline, chainQueues, pending, calls,
                   ledger, books>>

Retracting(o) == phase # "down" /\ retractions # << >> /\ Head(retractions) = o

(* The retraction queue's task sends the extrinsic. *)
SubmitRetraction(o) ==
    /\ Retracting(o)
    /\ ~InFlight(<<"retract", o>>)
    /\ sending' = sending \cup {<<"retract", o>>}
    /\ UNCHANGED <<phase, scan, crashes, pipeline, chainQueues, pending,
                   retractions, landed, pool, ledger, books>>

(* The retraction is reported in a block: the rows are marked. *)
RetractionSucceeds(o) ==
    /\ Retracting(o)
    /\ landed # << >> /\ Head(landed) = <<"retract", o>>
    /\ landed' = Tail(landed)
    /\ rows' = MarkRetracted(o)
    /\ retractions' = Tail(retractions)
    /\ UNCHANGED <<phase, scan, crashes, pipeline, chainQueues, pending, sending,
                   pool, ledger, lostTrack>>

(* Fault: the rows are marked whatever became of the retraction. *)
FailureMarks(o) ==
    /\ Retracting(o)
    /\ <<"retract", o>> \in sending
    /\ sending' = sending \ {<<"retract", o>>}
    /\ rows' = MarkRetracted(o)
    /\ retractions' = Tail(retractions)
    /\ UNCHANGED <<phase, scan, crashes, pipeline, chainQueues, pending, landed,
                   pool, ledger, lostTrack>>

(* The retraction failed: it is logged and forgotten until the next sweep. *)
RetractionFails(o) ==
    /\ Retracting(o)
    /\ <<"retract", o>> \in sending
    /\ sending' = sending \ {<<"retract", o>>}
    /\ \E leftInPool \in BOOLEAN :
        pool' = IF leftInPool THEN pool \cup {<<"retract", o>>} ELSE pool
    /\ retractions' = Tail(retractions)
    /\ UNCHANGED <<phase, scan, crashes, pipeline, chainQueues, pending, landed,
                   ledger, books>>

-----------------------------------------------------------------------------
(* The source chains, Hyperbridge and the destination chains. *)

(* Blocks are added to the source chain of an order: it is as deep as the     *)
(* strategies' policies ask for its value.                                    *)
SourceConfirms(o) ==
    /\ o \in detected \ confirmed
    /\ confirmed' = confirmed \cup {o}
    /\ UNCHANGED <<phase, scan, crashes, detected, globalQueue, conf, eval,
                   chainQueues, pending, retractions, calls, ledger, books>>

(* What an included extrinsic does; placing may be refused on dispatch, for  *)
(* want of balance for the deposit.                                          *)
Effect(call) ==
    LET o == call[2] IN
    \/ call[1] = "place" /\ deposit' = deposit \cup {o}
                         /\ published' = published \cup {o} /\ UNCHANGED fill
    \/ call[1] = "place" /\ UNCHANGED ledger
    \/ call[1] = "retract" /\ deposit' = deposit \ {o} /\ UNCHANGED <<published, fill>>

(* An extrinsic some call is waiting for is included. *)
Include(call) ==
    /\ call \in sending /\ call[1] # "fill"
    /\ sending' = sending \ {call}
    /\ landed' = Append(landed, call)
    /\ Effect(call)
    /\ UNCHANGED <<phase, scan, crashes, pipeline, chainQueues, pending,
                   retractions, pool, books>>

(* The attempt times out before its inclusion is reported: the next attempt  *)
(* sends the extrinsic again.                                                *)
MissInclusion(i) ==
    /\ i \in DOMAIN landed
    /\ sending' = sending \cup {landed[i]}
    /\ landed' = RemoveAt(landed, i)
    /\ UNCHANGED <<phase, scan, crashes, pipeline, chainQueues, pending,
                   retractions, pool, ledger, books>>

(* A direct fill is mined: the gateway logs OrderFilled. *)
FillMined(o) ==
    /\ <<"fill", o>> \in sending \cup pool
    /\ fill[o] = "open"
    /\ fill' = [fill EXCEPT ![o] = "logged"]
    /\ pool' = pool \ {<<"fill", o>>}
    /\ UNCHANGED <<phase, scan, crashes, pipeline, chainQueues, pending,
                   retractions, sending, landed, deposit, published, books>>

(* An extrinsic nobody waits for any more is included, or dropped. *)
PoolInclude(call) ==
    /\ call \in pool /\ call[1] # "fill"
    /\ pool' = pool \ {call}
    /\ Effect(call)
    /\ UNCHANGED <<phase, scan, crashes, pipeline, chainQueues, pending,
                   retractions, sending, landed, books>>

PoolDrop(call) ==
    /\ call \in pool
    /\ pool' = pool \ {call}
    /\ UNCHANGED <<phase, scan, crashes, pipeline, chainQueues, pending,
                   retractions, sending, landed, ledger, books>>

(* A user selects our bid and it is executed, for all or a part of the order: *)
(* a bid can be used after it is retracted, a signed operation cannot be      *)
(* recalled, and an order bid for again can be filled by us again.            *)
BidSelected(o) ==
    /\ o \in published /\ fill[o] # "logged"
    /\ fill' = [fill EXCEPT ![o] = "logged"]
    /\ UNCHANGED <<phase, scan, crashes, pipeline, chainQueues, pending,
                   retractions, calls, deposit, published, books>>

(* Time passes: a row reaches the age at which the sweep takes it. *)
Expire(r) ==
    /\ ~r.expired
    /\ rows' = (rows \ {r}) \cup {[r EXCEPT !.expired = TRUE]}
    /\ UNCHANGED <<phase, scan, crashes, pipeline, chainQueues, pending,
                   retractions, calls, ledger, lostTrack>>

-----------------------------------------------------------------------------
(* The process: stop(), crash and restart. *)

Queues == Chains \cup {"globalQueue", "retractionQueue"}

QueueIdle(q) ==
    CASE q \in Chains -> chainQueues[q] = << >>
      [] q = "globalQueue" -> globalQueue = << >> /\ Analysing = {}
      [] q = "retractionQueue" -> retractions = << >>

(* stop(): timers are cleared and an onIdle promise is taken of each queue;  *)
(* stopListening is not awaited, so a scan under way runs to its end.        *)
Stop ==
    /\ CanStop /\ phase = "running"
    /\ phase' = "draining"
    /\ scan' \in {"last", "off"}
    /\ UNCHANGED <<crashes, pipeline, chainQueues, pending, retractions, calls,
                   ledger, books>>

ScanEnds ==
    /\ scan = "last"
    /\ scan' = "off"
    /\ UNCHANGED <<phase, crashes, pipeline, chainQueues, pending, retractions,
                   calls, ledger, books>>

(* Promise.all of the onIdle promises resolves: "All orders processed". *)
StopCompletes ==
    /\ phase = "draining" /\ idleSeen = Queues
    /\ phase' = "stopped"
    /\ UNCHANGED <<scan, crashes, pipeline, chainQueues, pending, retractions,
                   calls, ledger, books>>

(* The process ends, by exit after stop() or by a crash: an error while      *)
(* storing a bid is one, its promise is never handled.                       *)
Crash ==
    /\ phase # "down" /\ crashes < MaxCrashes
    /\ phase' = "down" /\ scan' = "off" /\ crashes' = crashes + 1
    /\ detected' = {} /\ globalQueue' = << >>
    /\ conf' = [o \in Orders |-> "none"]
    /\ eval' = [o \in Orders |-> "none"]
    /\ chainQueues' = [c \in Chains |-> << >>]
    /\ pending' = {} /\ retractions' = << >>
    /\ sending' = {} /\ landed' = << >>
    /\ pool' = pool \cup sending
    /\ lostTrack' = lostTrack \cup {o \in Orders : InFlight(<<"place", o>>)}
    /\ UNCHANGED <<confirmed, ledger, rows>>

(* The scanner starts at the current block: logs of the time before it are   *)
(* never seen, except those of that block.                                   *)
Restart ==
    /\ phase = "down"
    /\ phase' = "running" /\ scan' = "on"
    /\ \E missed \in SUBSET {o \in Orders : fill[o] = "logged"} :
        fill' = [o \in Orders |-> IF o \in missed THEN "missed" ELSE fill[o]]
    /\ UNCHANGED <<crashes, pipeline, chainQueues, pending, retractions, calls,
                   deposit, published, books>>

-----------------------------------------------------------------------------
(* An onIdle promise resolves at the first moment its queue is idle. *)
LatchIdle ==
    idleSeen' = IF phase' = "draining"
                THEN idleSeen \cup {q \in Queues : QueueIdle(q)'}
                ELSE IF phase' = "stopped" THEN idleSeen ELSE {}

Analysis ==
    \/ StartAnalysis
    \/ \E o \in Orders :
        \/ DetectOrder(o)
        \/ Confirm(o)
        \/ StopWaiting(o)
        \/ Evaluate(o)
        \/ FinishAnalysis(o)
        \/ DropOrder(o)

Execution ==
    \E o \in Orders :
        \/ Submit(o)
        \/ PrepareFails(o)
        \/ BidSucceeds(o)
        \/ BidFails(o)
        \/ FillReturns(o)

Retraction ==
    \/ Sweep
    \/ \E o \in Orders :
        \/ OrderFilledOnChain(o)
        \/ SubmitRetraction(o)
        \/ RetractionSucceeds(o)
        \/ RetractionFails(o)

Networks ==
    \/ \E call \in Calls :
        \/ Include(call)
        \/ PoolInclude(call)
        \/ PoolDrop(call)
    \/ \E i \in DOMAIN landed : MissInclusion(i)
    \/ \E o \in Orders : SourceConfirms(o) \/ FillMined(o) \/ BidSelected(o)
    \/ \E r \in rows : Expire(r)

Process ==
    \/ Stop
    \/ ScanEnds
    \/ StopCompletes
    \/ Crash
    \/ Restart

(* Nothing of the process moves after stop() has returned: exit follows. *)
Alive == phase \in {"running", "draining"}

Next ==
    /\ \/ Alive /\ (Analysis \/ Execution \/ Retraction)
       \/ Networks
       \/ Process
    /\ LatchIdle

Spec == Init /\ [][Next]_vars

(* Orders that only a bid can fill, where the filler makes any. *)
BidFor == {o \in Orders : Dest[o] \in SolverSelection \ WatchOnly}

(* A crashed filler is restarted; queues run their tasks; timers fire; rows   *)
(* age; and a call that is retried for ever is at last included and reported: *)
(* none is overtaken by finality, which leaves a call without an answer       *)
(* (Finalize of SignAndSend) and its queue at a standstill until a restart.   *)
Fairness ==
    /\ WF_vars(Restart /\ LatchIdle)
    /\ SF_vars(Sweep /\ LatchIdle)
    /\ WF_vars((\E r \in rows : Expire(r)) /\ LatchIdle)
    /\ \A o \in BidFor :
        /\ WF_vars(SubmitRetraction(o) /\ LatchIdle)
        /\ SF_vars(Include(<<"retract", o>>) /\ LatchIdle)
        /\ SF_vars(RetractionSucceeds(o) /\ LatchIdle)
        /\ SF_vars(BidSucceeds(o) /\ LatchIdle)

FairSpec == Spec /\ Fairness

-----------------------------------------------------------------------------
(* Type invariant. *)
TypeOK ==
    /\ phase \in {"running", "draining", "stopped", "down"}
    /\ scan \in {"on", "last", "off"}
    /\ idleSeen \subseteq Queues
    /\ crashes \in Nat
    /\ detected \subseteq Orders /\ globalQueue \in Seq(Orders)
    /\ conf \in [Orders -> {"none", "counting", "waiting", "enough", "aborted"}]
    /\ eval \in [Orders -> {"none", "running", "profitable", "rejected"}]
    /\ confirmed \subseteq Orders
    /\ chainQueues \in [Chains -> Seq(Orders)]
    /\ pending \subseteq Orders /\ retractions \in Seq(Orders)
    /\ sending \subseteq Calls /\ landed \in Seq(Calls) /\ pool \subseteq Calls
    /\ deposit \subseteq Orders /\ published \subseteq Orders
    /\ fill \in [Orders -> {"open", "logged", "handled", "missed"}]
    /\ rows \subseteq Row /\ IsFiniteSet(rows) /\ lostTrack \subseteq Orders

(* Every deposit on Hyperbridge is accounted for: its placement is still in   *)
(* flight, or the bids table has a successful row the sweep will find, or the *)
(* placement is one whose outcome could not be known (a crash before storeBid *)
(* of filler.ts:490, a timed-out extrinsic that was or may yet be included).  *)
(* No interleaving of executions, fills, sweeps, retractions marking rows and *)
(* restarts that bid again for the same order loses any other deposit.        *)
DepositsAccountedFor ==
    \A o \in deposit : InFlight(<<"place", o>>) \/ Tracked(o) \/ o \in lostTrack

(* A deferred retraction has a wake-up: an order in pendingRetractions is     *)
(* being placed, so that filler.ts:497 will find it, or is a direct fill or a *)
(* placement the books lost.                                                  *)
PendingHasExecution ==
    \A o \in pending :
        InFlight(<<"place", o>>) \/ o \in lostTrack \/ Dest[o] \notin SolverSelection

(* Only recorded bids are retracted: whatever is in the retraction queue has  *)
(* a row, so that markBidAsRetracted of filler.ts:543 has a row to mark.      *)
QueuedRetractionsRecorded ==
    \A o \in ToSet(retractions) : RowsOf(o) # {}

(* strategies/base.ts:23-24, of confirmationPolicy: "Optional confirmation     *)
(* policy for this strategy. If absent, no confirmation waiting is required": *)
(* when every strategy has one, an order is queued for execution only as deep *)
(* in its source chain as the policies ask (filler.ts:319-376).               *)
QueuedOrdersConfirmed ==
    Strategies = Policies =>
        \A c \in Chains : ToSet(chainQueues[c]) \subseteq confirmed

(* A watch-only chain never has a bid or a fill of this filler. *)
WatchOnlyNeverFilled ==
    \A o \in Orders : Dest[o] \in WatchOnly => o \notin published /\ fill[o] = "open"

(* filler.ts:238 "Wait for all queues to complete" and :257 "All orders       *)
(* processed, filler stopped": when stop() returns no queue holds work.       *)
StoppedMeansDrained ==
    phase = "stopped" => \A q \in Queues : QueueIdle(q)

-----------------------------------------------------------------------------
(* The inductive invariant of the three properties about deposits.            *)

(* A retraction that is in a block but not yet reported found the deposit and *)
(* took it: if there is one again, it was placed after that block.            *)
RetractionTookDeposit ==
    \A i \in DOMAIN landed : landed[i][1] = "retract" =>
        \/ landed[i][2] \notin deposit
        \/ landed[i][2] \in lostTrack
        \/ <<"place", landed[i][2]>> \in sending
        \/ \E j \in DOMAIN landed : j > i /\ landed[j] = <<"place", landed[i][2]>>

(* What nobody waits for any more is known to be lost. *)
PooledPlacementsLost ==
    \A o \in Orders : <<"place", o>> \in pool => o \in lostTrack

(* A published bid is in flight, recorded or lost. *)
PublishedAccountedFor ==
    \A o \in published :
        InFlight(<<"place", o>>) \/ RowsOf(o) # {} \/ o \in lostTrack

(* A fill of this filler comes from a published bid or from a direct fill. *)
FillsHaveSource ==
    \A o \in Orders :
        /\ fill[o] # "open" => o \in published \/ Dest[o] \notin SolverSelection
        /\ <<"fill", o>> \in sending \cup ToSet(landed) \cup pool
             => Dest[o] \notin SolverSelection

(* The conjunction is preserved by every step. *)
IInv ==
    /\ TypeOK
    /\ DepositsAccountedFor
    /\ PendingHasExecution
    /\ QueuedRetractionsRecorded
    /\ RetractionTookDeposit
    /\ PooledPlacementsLost
    /\ PublishedAccountedFor
    /\ FillsHaveSource

(* The sweep recovers every recorded deposit: a successful row is eventually  *)
(* retracted, through crashes, failed retractions and duplicate queue entries.*)
BidsEventuallyRetracted ==
    \A o \in BidFor : Tracked(o) ~> ~Tracked(o)
=============================================================================
