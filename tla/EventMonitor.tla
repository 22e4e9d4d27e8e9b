---------------------------- MODULE EventMonitor ----------------------------
(***************************************************************************)
(* The block scanner of the simplex filler (core/event-monitor.ts): every  *)
(* second, for each chain, the blocks after lastScannedBlock are fetched   *)
(* and their OrderPlaced and OrderFilled logs emitted. A timer tick that   *)
(* finds the chain's mutex locked does nothing; an error before the logs   *)
(* are fetched leaves the range for the next tick; an error while decoding *)
(* one log drops that log.                                                 *)
(***************************************************************************)
EXTENDS Integers, Sequences

CONSTANTS
    Chains,
    LogKinds,       \* what a block may hold: one log of these kinds, or none
    MaxHeight,      \* bound: height of a chain
    MaxBlockRange,  \* maxBlockRange of scanBlocks
    StartHeights,   \* heights a chain may have when the monitor is started
    MaxStops        \* bound: calls of stopListening

ASSUME MonitorAssumption ==
    /\ LogKinds \subseteq {"placed", "filled", "otherFill", "unreadable"}
    /\ MaxHeight \in Nat
    /\ MaxBlockRange \in Nat
    /\ StartHeights \subseteq 0..MaxHeight
    /\ MaxStops \in Nat

VARIABLES
    blocks,       \* the log of each block of each chain, or "none"
    listening,    \* the flag of startListening
    starting,     \* chains startListening has still to set up
    interval,     \* chains with a scan timer
    mutexes,      \* chains with a mutex in scanningMutexes
    lastScanned,  \* lastScannedBlock; Unset when the map has no entry
    scan,         \* the scan under way on each chain, or Idle
    stops,        \* calls of stopListening so far
    stopping,     \* stopListening waits for the mutexes
    waiting,      \* chains whose mutex stopListening has still to acquire
    startBlock,   \* history: the first block the monitor is to scan
    emitted       \* history: times each log was emitted

vars == <<blocks, listening, starting, interval, mutexes, lastScanned, scan,
          stops, stopping, waiting, startBlock, emitted>>

Unset == -2
Idle == [step |-> "idle", from |-> 0, to |-> 0, todo |-> {}, fills |-> {}]

Height(c) == Len(blocks[c])
Block(c, n) == IF n = 0 THEN "none" ELSE blocks[c][n]

Init ==
    /\ blocks \in [Chains -> UNION {[1..n -> LogKinds \cup {"none"}] : n \in StartHeights}]
    /\ listening = FALSE /\ starting = {} /\ interval = {} /\ mutexes = Chains
    /\ lastScanned = [c \in Chains |-> Unset]
    /\ scan = [c \in Chains |-> Idle]
    /\ stops = 0 /\ stopping = FALSE /\ waiting = {}
    /\ startBlock = [c \in Chains |-> Unset]
    /\ emitted = [c \in Chains |-> [n \in 1..MaxHeight |-> 0]]

NewBlock(c) ==
    /\ Height(c) < MaxHeight
    /\ \E log \in LogKinds \cup {"none"} :
        blocks' = [blocks EXCEPT ![c] = Append(@, log)]
    /\ UNCHANGED <<listening, starting, interval, mutexes, lastScanned, scan,
                   stops, stopping, waiting, startBlock, emitted>>

-----------------------------------------------------------------------------
(* Callers wait for earlier calls of start and stop to be over. *)
StartListening ==
    /\ ~listening /\ ~stopping /\ starting = {}
    /\ listening' = TRUE
    /\ starting' = Chains
    /\ UNCHANGED <<blocks, interval, mutexes, lastScanned, scan, stops,
                   stopping, waiting, startBlock, emitted>>

(* One turn of the loop over the chains: the start block is read and the      *)
(* timer is set; stopListening may have been called in between.               *)
SetUpChain(c) ==
    /\ c \in starting
    /\ starting' = starting \ {c}
    /\ lastScanned' = [lastScanned EXCEPT ![c] = Height(c) - 1]
    /\ startBlock' = [startBlock EXCEPT ![c] = Height(c)]
    /\ interval' = interval \cup {c}
    /\ UNCHANGED <<blocks, listening, mutexes, scan, stops, stopping, waiting, emitted>>

(* The start block cannot be read: this chain is left out, for good. *)
SetUpFails(c) ==
    /\ c \in starting
    /\ starting' = starting \ {c}
    /\ UNCHANGED <<blocks, listening, interval, mutexes, lastScanned, scan,
                   stops, stopping, waiting, startBlock, emitted>>

-----------------------------------------------------------------------------
(* `if (!lastScanned) return`: no entry, and also block number zero. *)
Falsy(n) == n = Unset \/ n = 0

LastBlock(from, current) ==
    IF from + MaxBlockRange > current THEN current ELSE from + MaxBlockRange

(* Fault: the timer does not look at the mutex. *)
ScanWhileScanning(c) ==
    /\ c \in interval /\ c \in mutexes
    /\ ~Falsy(lastScanned[c])
    /\ \E current \in 0..Height(c) :
        /\ current > lastScanned[c]
        /\ scan' = [scan EXCEPT ![c] =
                [Idle EXCEPT !.step = "fetching", !.from = lastScanned[c] + 1,
                             !.to = LastBlock(lastScanned[c] + 1, current)]]
    /\ UNCHANGED <<blocks, listening, starting, interval, mutexes, lastScanned,
                   stops, stopping, waiting, startBlock, emitted>>

(* The timer fires, the mutex is free, and the node's current block is new. *)
StartScan(c) ==
    /\ c \in interval /\ c \in mutexes
    /\ scan[c] = Idle
    /\ ~Falsy(lastScanned[c])
    /\ \E current \in 0..Height(c) :
        /\ current > lastScanned[c]
        /\ scan' = [scan EXCEPT ![c] =
                [Idle EXCEPT !.step = "fetching", !.from = lastScanned[c] + 1,
                             !.to = LastBlock(lastScanned[c] + 1, current)]]
    /\ UNCHANGED <<blocks, listening, starting, interval, mutexes, lastScanned,
                   stops, stopping, waiting, startBlock, emitted>>

Numbers(c, kinds) ==
    {n \in scan[c].from .. scan[c].to : Block(c, n) \in kinds}

(* getLogs answers: placed logs are decoded one by one, fills afterwards. *)
LogsFetched(c) ==
    /\ scan[c].step = "fetching"
    /\ scan' = [scan EXCEPT ![c].step = "emitting",
                            ![c].todo = Numbers(c, {"placed", "unreadable"}),
                            ![c].fills = Numbers(c, {"filled"})]
    /\ UNCHANGED <<blocks, listening, starting, interval, mutexes, lastScanned,
                   stops, stopping, waiting, startBlock, emitted>>

(* Fault: a range that cannot be fetched is taken as scanned. *)
SkipRange(c) ==
    /\ scan[c].step = "fetching"
    /\ scan' = [scan EXCEPT ![c] = Idle]
    /\ waiting' = waiting \ {c}
    /\ lastScanned' = [lastScanned EXCEPT ![c] = scan[c].to]
    /\ UNCHANGED <<blocks, listening, starting, interval, mutexes,
                   stops, stopping, startBlock, emitted>>

(* The retries are used up: the mutex is released, nothing was emitted. *)
FetchFails(c) ==
    /\ scan[c].step = "fetching"
    /\ scan' = [scan EXCEPT ![c] = Idle]
    /\ waiting' = waiting \ {c}
    /\ UNCHANGED <<blocks, listening, starting, interval, mutexes, lastScanned,
                   stops, stopping, startBlock, emitted>>

(* The next OrderPlaced log: "newOrder" is emitted, unless its calldata       *)
(* cannot be fetched and decoded.                                             *)
EmitPlaced(c) ==
    /\ scan[c].step = "emitting"
    /\ \E n \in scan[c].todo :
        /\ \A m \in scan[c].todo : n <= m
        /\ emitted' = IF Block(c, n) = "placed"
                      THEN [emitted EXCEPT ![c][n] = @ + 1] ELSE emitted
        /\ scan' = [scan EXCEPT ![c].todo = @ \ {n}]
    /\ UNCHANGED <<blocks, listening, starting, interval, mutexes, lastScanned,
                   stops, stopping, waiting, startBlock>>

(* The fills of this filler are emitted together and the range is done. *)
FinishScan(c) ==
    /\ scan[c].step = "emitting" /\ scan[c].todo = {}
    /\ emitted' = [emitted EXCEPT ![c] =
            [n \in 1..MaxHeight |-> IF n \in scan[c].fills THEN @[n] + 1 ELSE @[n]]]
    /\ lastScanned' = [lastScanned EXCEPT ![c] = scan[c].to]
    /\ scan' = [scan EXCEPT ![c] = Idle]
    /\ waiting' = waiting \ {c}
    /\ UNCHANGED <<blocks, listening, starting, interval, mutexes, stops,
                   stopping, startBlock>>

-----------------------------------------------------------------------------
(* stopListening up to its await: the timers that exist are cleared, and a    *)
(* mutex that is free is acquired and released at once. One that is locked    *)
(* is acquired when its scan ends.                                            *)
StopListening ==
    /\ stops < MaxStops /\ ~stopping /\ listening
    /\ stops' = stops + 1
    /\ listening' = FALSE
    /\ interval' = {}
    /\ stopping' = TRUE
    /\ waiting' = {c \in mutexes : scan[c] # Idle}
    /\ UNCHANGED <<blocks, starting, mutexes, lastScanned, scan, startBlock, emitted>>

(* Fault: the mutexes are not awaited. *)
StopAtOnce ==
    /\ stopping
    /\ stopping' = FALSE
    /\ mutexes' = {}
    /\ lastScanned' = [c \in Chains |-> Unset]
    /\ UNCHANGED <<blocks, listening, starting, interval, scan, stops, waiting,
                   startBlock, emitted>>

(* Every mutex has been free once: the maps are cleared. *)
StopCompletes ==
    /\ stopping /\ waiting = {}
    /\ stopping' = FALSE
    /\ mutexes' = {}
    /\ lastScanned' = [c \in Chains |-> Unset]
    /\ UNCHANGED <<blocks, listening, starting, interval, scan, stops, waiting,
                   startBlock, emitted>>

ChainStep(c) ==
    \/ StartScan(c)
    \/ LogsFetched(c)
    \/ EmitPlaced(c)
    \/ FinishScan(c)

Next ==
    \/ \E c \in Chains :
        \/ NewBlock(c)
        \/ SetUpChain(c)
        \/ SetUpFails(c)
        \/ ChainStep(c)
        \/ FetchFails(c)
    \/ StartListening
    \/ StopListening
    \/ StopCompletes

(* The monitor is started, timers keep firing, nodes answer in the end. *)
Fairness ==
    /\ WF_vars(StartListening)
    /\ WF_vars(StopCompletes)
    /\ \A c \in Chains :
        /\ WF_vars(SetUpChain(c) \/ SetUpFails(c))
        /\ SF_vars(StartScan(c) /\ scan'[c].to = LastBlock(scan'[c].from, Height(c)))
        /\ SF_vars(LogsFetched(c))
        /\ WF_vars(EmitPlaced(c) \/ FinishScan(c))

Spec == Init /\ [][Next]_vars /\ Fairness

-----------------------------------------------------------------------------
TypeOK ==
    /\ blocks \in [Chains -> Seq(LogKinds \cup {"none"})]
    /\ listening \in BOOLEAN /\ stopping \in BOOLEAN /\ waiting \subseteq mutexes
    /\ starting \subseteq Chains /\ interval \subseteq Chains /\ mutexes \subseteq Chains
    /\ lastScanned \in [Chains -> Int]
    /\ \A c \in Chains : scan[c].step \in {"idle", "fetching", "emitting"}
    /\ emitted \in [Chains -> [1..MaxHeight -> Nat]]

Ours == {"placed", "filled"}

(* Nothing is skipped: every log of this filler's interest in a block at or   *)
(* below lastScannedBlock has been emitted, through ranges cut at             *)
(* maxBlockRange, failing fetches and lagging block numbers.                  *)
ScannedLogsEmitted ==
    \A c \in Chains : \A n \in 1..Height(c) :
        (lastScanned[c] # Unset /\ startBlock[c] <= n /\ n <= lastScanned[c]
            /\ Block(c, n) \in Ours) => emitted[c][n] > 0

(* Nothing is emitted twice, so no order is analysed or bid for twice in one  *)
(* life of the process, and no fill of another filler is taken for ours.      *)
EmittedOnce ==
    \A c \in Chains : \A n \in 1..MaxHeight :
        emitted[c][n] <= (IF n <= Height(c) /\ Block(c, n) \in Ours THEN 1 ELSE 0)

(* Every log of this filler's interest is emitted once, if the chain's start  *)
(* block could be read and the monitor is not stopped.                        *)
LogsEventuallyEmitted ==
    \A c \in Chains : \A n \in 1..MaxHeight :
        (c \in interval /\ startBlock[c] <= n /\ n <= Height(c) /\ Block(c, n) \in Ours)
            ~> (emitted[c][n] = 1 \/ c \notin interval \cap mutexes)
=============================================================================
