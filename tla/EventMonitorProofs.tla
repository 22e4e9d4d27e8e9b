-------------------------- MODULE EventMonitorProofs --------------------------
(***************************************************************************)
(* Proofs about EventMonitor, for any chains, heights, lengths of a range, *)
(* start heights and numbers of stops.                                     *)
(***************************************************************************)
EXTENDS EventMonitor, TLAPS

Scans == [step : {"idle", "fetching", "emitting"}, from : Int, to : Int,
          todo : SUBSET Int, fills : SUBSET Int]

Logs == LogKinds \cup {"none"}

(* What the types of the specification leave open. *)
Typed ==
    /\ TypeOK
    /\ scan \in [Chains -> Scans]
    /\ startBlock \in [Chains -> Int]

InBounds(c) ==
    /\ Height(c) <= MaxHeight
    /\ Unset <= lastScanned[c] /\ lastScanned[c] <= Height(c)
    /\ scan[c].step = "idle" => scan[c] = Idle

(* Nothing has happened to a chain that was never set up. *)
Unstarted(c) ==
    startBlock[c] = Unset =>
        /\ lastScanned[c] = Unset
        /\ scan[c] = Idle
        /\ c \notin interval
        /\ \A n \in 1..MaxHeight : emitted[c][n] = 0

(* No log but ours, and none twice. *)
Once(c) ==
    \A n \in 1..MaxHeight :
        emitted[c][n] <= (IF n <= Height(c) /\ Block(c, n) \in Ours THEN 1 ELSE 0)

(* A scan takes up where the last one ended, and stays on the chain. *)
InRange(c) ==
    scan[c].step # "idle" =>
        /\ 0 <= scan[c].from /\ scan[c].from <= scan[c].to /\ scan[c].to <= Height(c)
        /\ c \in mutexes => scan[c].from = lastScanned[c] + 1
        /\ startBlock[c] # Unset

(* Of its range a scan has emitted what it has taken off its list. *)
Pending(c) ==
    \A n \in 1..MaxHeight :
        (scan[c].step # "idle" /\ scan[c].from <= n /\ n <= scan[c].to) =>
            /\ scan[c].step = "fetching" => emitted[c][n] = 0
            /\ scan[c].step = "emitting" =>
                emitted[c][n] = (IF Block(c, n) = "placed" /\ n \notin scan[c].todo
                                 THEN 1 ELSE 0)

Listed(c) ==
    scan[c].step = "emitting" =>
        /\ scan[c].todo \subseteq Numbers(c, {"placed", "unreadable"})
        /\ scan[c].fills = Numbers(c, {"filled"})

(* Nothing is emitted beyond what is scanned or being scanned, while another  *)
(* scan may still begin.                                                      *)
NotAhead(c) ==
    c \in mutexes => \A n \in 1..MaxHeight :
        emitted[c][n] > 0 =>
            n <= (IF scan[c].step = "idle" THEN lastScanned[c] ELSE scan[c].to)

(* Nothing is left behind. *)
NotBehind(c) ==
    \A n \in 1..MaxHeight :
        (/\ startBlock[c] <= n /\ n <= Height(c) /\ Block(c, n) \in Ours
         /\ n <= lastScanned[c] \/ (scan[c].step # "idle" /\ n < scan[c].from))
            => emitted[c][n] > 0

ChainInv(c) ==
    /\ InBounds(c) /\ Unstarted(c) /\ Once(c) /\ InRange(c)
    /\ Pending(c) /\ Listed(c) /\ NotAhead(c) /\ NotBehind(c)

(* A chain whose mutex is there is set up at most once. *)
SetUpOnce ==
    \A c \in mutexes :
        /\ c \in starting => listening \/ stopping
        /\ c \in starting \/ (~listening /\ ~stopping) => startBlock[c] = Unset

IInv ==
    /\ Typed
    /\ SetUpOnce
    /\ \A c \in Chains : ChainInv(c)

-----------------------------------------------------------------------------
(* What a step leaves alone of a chain keeps its invariant. *)
LEMMA UntouchedChain ==
    ASSUME NEW c \in Chains, ChainInv(c),
           blocks'[c] = blocks[c], scan'[c] = scan[c], emitted'[c] = emitted[c],
           lastScanned'[c] = lastScanned[c], startBlock'[c] = startBlock[c],
           c \in mutexes' => c \in mutexes, c \in interval' => c \in interval
    PROVE  ChainInv(c)'
<1>1. Height(c)' = Height(c) /\ \A n : Block(c, n)' = Block(c, n)
  BY DEF Height, Block
<1>2. \A kinds : Numbers(c, kinds)' = Numbers(c, kinds)
  BY <1>1 DEF Numbers
<1>3. InBounds(c)' /\ Unstarted(c)' /\ Once(c)' /\ InRange(c)'
  BY <1>1 DEF ChainInv, InBounds, Unstarted, Once, InRange
<1>4. Pending(c)' /\ Listed(c)' /\ NotAhead(c)' /\ NotBehind(c)'
  BY <1>1, <1>2 DEF ChainInv, Pending, Listed, NotAhead, NotBehind
<1> QED BY <1>3, <1>4 DEF ChainInv

(* The heights and the blocks of a chain. *)
LEMMA ChainTypes ==
    ASSUME Typed, NEW c \in Chains
    PROVE  /\ blocks[c] \in Seq(Logs) /\ Height(c) \in Nat
           /\ lastScanned[c] \in Int /\ startBlock[c] \in Int
           /\ scan[c] \in Scans /\ emitted[c] \in [1..MaxHeight -> Nat]
           /\ MaxHeight \in Nat /\ MaxBlockRange \in Nat
BY MonitorAssumption DEF Typed, TypeOK, Height, Logs

(* The blocks a scan lists are numbers of its range. *)
LEMMA NumbersInRange ==
    ASSUME NEW c \in Chains, NEW kinds, "none" \notin kinds,
           scan[c].from \in Int, scan[c].to \in Int, 0 <= scan[c].from
    PROVE  /\ Numbers(c, kinds) \subseteq scan[c].from .. scan[c].to
           /\ \A n \in Numbers(c, kinds) : n >= 1
BY DEF Numbers, Block

-----------------------------------------------------------------------------
LEMMA InitIInv == Init => IInv
<1> SUFFICES ASSUME Init PROVE IInv
  OBVIOUS
<1>1. ASSUME NEW c \in Chains
      PROVE  blocks[c] \in Seq(Logs) /\ Height(c) \in 0..MaxHeight
  <2>1. PICK n \in StartHeights : blocks[c] \in [1..n -> Logs]
    BY DEF Init, Logs
  <2>2. n \in 0..MaxHeight /\ MaxHeight \in Nat
    BY <2>1, MonitorAssumption
  <2> QED BY <2>1, <2>2 DEF Height
<1>2. blocks \in [Chains -> Seq(Logs)]
  BY <1>1 DEF Init
<1>3. Idle \in Scans
  BY DEF Idle, Scans
<1>4. Typed
  <2>1. scan \in [Chains -> Scans] /\ \A c \in Chains : scan[c].step = "idle"
    BY <1>3 DEF Init, Idle
  <2>2. startBlock \in [Chains -> Int] /\ lastScanned \in [Chains -> Int]
    BY DEF Init, Unset
  <2>3. emitted \in [Chains -> [1..MaxHeight -> Nat]]
    BY DEF Init
  <2>4. /\ listening \in BOOLEAN /\ stopping \in BOOLEAN /\ waiting \subseteq mutexes
        /\ starting \subseteq Chains /\ interval \subseteq Chains /\ mutexes \subseteq Chains
    BY DEF Init
  <2> QED BY <1>2, <2>1, <2>2, <2>3, <2>4 DEF Typed, TypeOK, Logs
<1>5. SetUpOnce
  BY DEF Init, SetUpOnce
<1>6. ASSUME NEW c \in Chains
      PROVE  ChainInv(c)
  <2>1. /\ lastScanned[c] = Unset /\ startBlock[c] = Unset /\ scan[c] = Idle
        /\ c \notin interval /\ \A n \in 1..MaxHeight : emitted[c][n] = 0
    BY DEF Init
  <2>2. Height(c) \in Nat /\ Height(c) <= MaxHeight /\ MaxHeight \in Nat
    BY <1>1, MonitorAssumption
  <2> QED BY <2>1, <2>2 DEF ChainInv, InBounds, Unstarted, Once, InRange, Pending,
             Listed, NotAhead, NotBehind, Idle, Unset
<1> QED BY <1>4, <1>5, <1>6 DEF IInv

(* A new block changes nothing at or below the old height. *)
LEMMA NewBlockKeepsIInv ==
    ASSUME IInv, NEW c \in Chains, NewBlock(c)
    PROVE  IInv'
<1>1. Typed /\ ChainInv(c)
  BY DEF IInv
<1>2. PICK log \in Logs : blocks' = [blocks EXCEPT ![c] = Append(@, log)]
  BY DEF NewBlock, Logs
<1>3. /\ blocks' \in [Chains -> Seq(Logs)]
      /\ \A d \in Chains \ {c} : blocks'[d] = blocks[d]
      /\ blocks'[c] = Append(blocks[c], log)
  BY <1>1, <1>2, ChainTypes DEF Typed, TypeOK, Logs
<1>4. Typed' /\ SetUpOnce'
  BY <1>1, <1>3 DEF NewBlock, Typed, TypeOK, SetUpOnce, IInv, Logs
<1>5. /\ Height(c)' = Height(c) + 1 /\ Height(c) < MaxHeight
      /\ \A n \in 0..Height(c) : Block(c, n)' = Block(c, n)
  BY <1>1, <1>3, ChainTypes DEF Height, Block, NewBlock
<1>6. ChainInv(c)'
  <2>1. Height(c) \in Nat /\ MaxHeight \in Nat /\ lastScanned[c] \in Int /\ scan[c] \in Scans
        /\ emitted[c] \in [1..MaxHeight -> Nat]
    BY <1>1, ChainTypes
  <2>2. scan[c].from \in Int /\ scan[c].to \in Int
    BY <2>1 DEF Scans
  <2>3. UNCHANGED <<scan, emitted, lastScanned, startBlock, mutexes, interval>>
    BY DEF NewBlock
  <2>4. InBounds(c)' /\ Unstarted(c)' /\ InRange(c)' /\ NotAhead(c)'
    BY <1>1, <1>5, <2>1, <2>2, <2>3 DEF ChainInv, InBounds, Unstarted, InRange, NotAhead
  <2>5. Once(c)'
    BY <1>1, <1>5, <2>1, <2>3 DEF ChainInv, Once
  <2>6. scan[c].step # "idle" =>
            \A n \in scan[c].from .. scan[c].to : Block(c, n)' = Block(c, n)
    BY <1>1, <1>5, <2>1, <2>2 DEF ChainInv, InRange
  <2>7. Pending(c)'
    BY <1>1, <2>2, <2>3, <2>6 DEF ChainInv, Pending
  <2>8. Listed(c)'
    BY <1>1, <2>2, <2>3, <2>6 DEF ChainInv, Listed, Numbers
  <2>9. NotBehind(c)'
    <3> SUFFICES ASSUME NEW n \in 1..MaxHeight, startBlock[c] <= n, (Block(c, n) \in Ours)',
                        \/ n <= lastScanned[c]
                        \/ scan[c].step # "idle" /\ n < scan[c].from
                 PROVE  emitted[c][n] > 0
      BY <2>3 DEF NotBehind
    <3>1. n <= Height(c)
      BY <1>1, <2>1, <2>2 DEF ChainInv, InBounds, InRange
    <3>2. Block(c, n)' = Block(c, n)
      BY <1>5, <2>1, <3>1
    <3> QED BY <1>1, <3>1, <3>2 DEF ChainInv, NotBehind, Ours
  <2> QED BY <2>4, <2>5, <2>7, <2>8, <2>9 DEF ChainInv
<1>7. \A d \in Chains \ {c} : ChainInv(d)'
  BY <1>3, UntouchedChain DEF IInv, NewBlock
<1> QED BY <1>4, <1>6, <1>7 DEF IInv

(* Setting a chain up is its first time, or comes too late for any scan. *)
LEMMA SetUpKeepsIInv ==
    ASSUME IInv, NEW c \in Chains, SetUpChain(c)
    PROVE  IInv'
<1>1. Typed /\ ChainInv(c) /\ c \in starting
  BY DEF IInv, SetUpChain
<1>2. /\ Height(c) \in Nat /\ MaxHeight \in Nat /\ scan[c] \in Scans
      /\ emitted[c] \in [1..MaxHeight -> Nat]
  BY <1>1, ChainTypes
<1>3. /\ lastScanned'[c] = Height(c) - 1 /\ startBlock'[c] = Height(c)
      /\ UNCHANGED <<blocks, emitted, scan, mutexes, listening, stopping, waiting>>
      /\ \A d \in Chains \ {c} :
            lastScanned'[d] = lastScanned[d] /\ startBlock'[d] = startBlock[d]
      /\ \A d \in Chains \ {c} : d \in interval' => d \in interval
      /\ starting' = starting \ {c}
  BY <1>1 DEF SetUpChain, Typed, TypeOK
<1>4. Typed'
  BY <1>1, <1>2 DEF SetUpChain, Typed, TypeOK
<1>5. SetUpOnce'
  <2>1. ASSUME NEW d \in mutexes, d \in starting \ {c}
        PROVE  (listening \/ stopping) /\ startBlock'[d] = Unset
    BY <1>1, <1>3, <2>1 DEF SetUpOnce, IInv, Typed, TypeOK
  <2>2. ASSUME NEW d \in mutexes, ~listening /\ ~stopping
        PROVE  startBlock'[d] = Unset
    <3>1. d # c
      BY <1>1, <2>2 DEF SetUpOnce, IInv
    <3> QED BY <1>1, <1>3, <2>2, <3>1 DEF SetUpOnce, IInv, Typed, TypeOK
  <2>3. mutexes' = mutexes /\ starting' = starting \ {c}
    BY <1>3
  <2>4. (listening' <=> listening) /\ (stopping' <=> stopping)
    BY <1>3
  <2> QED BY <2>1, <2>2, <2>3, <2>4 DEF SetUpOnce
<1>6. Height(c)' = Height(c) /\ \A n : Block(c, n)' = Block(c, n)
  BY <1>3 DEF Height, Block
<1>7. ChainInv(c)'
  <2>1. scan[c].from \in Int /\ scan[c].to \in Int
    BY <1>2 DEF Scans
  <2>2. c \in mutexes => scan[c] = Idle /\ \A n \in 1..MaxHeight : emitted[c][n] = 0
    BY <1>1 DEF IInv, SetUpOnce, ChainInv, Unstarted
  <2>3. InBounds(c)' /\ Unstarted(c)' /\ Once(c)'
    BY <1>1, <1>2, <1>3, <1>6 DEF ChainInv, InBounds, Unstarted, Once, Unset
  <2>4. InRange(c)'
    BY <1>1, <1>2, <1>3, <1>6, <2>2 DEF ChainInv, InRange, Idle, Unset
  <2>5. Pending(c)' /\ Listed(c)'
    BY <1>1, <1>3, <1>6 DEF ChainInv, Pending, Listed, Numbers
  <2>6. NotAhead(c)'
    BY <1>2, <1>3, <2>2 DEF NotAhead
  <2>7. NotBehind(c)'
    BY <1>1, <1>2, <1>3, <1>6, <2>1 DEF ChainInv, NotBehind, InRange
  <2> QED BY <2>3, <2>4, <2>5, <2>6, <2>7 DEF ChainInv
<1>8. \A d \in Chains \ {c} : ChainInv(d)'
  BY <1>3, UntouchedChain DEF IInv
<1> QED BY <1>4, <1>5, <1>7, <1>8 DEF IInv

(* A scan begins after the last block scanned and ends on the chain. *)
LEMMA StartScanKeepsIInv ==
    ASSUME IInv, NEW c \in Chains, StartScan(c)
    PROVE  IInv'
<1>1. Typed /\ ChainInv(c) /\ scan[c] = Idle /\ c \in mutexes /\ c \in interval
  BY DEF IInv, StartScan
<1>2. /\ Height(c) \in Nat /\ MaxHeight \in Nat /\ MaxBlockRange \in Nat
      /\ lastScanned[c] \in Int /\ emitted[c] \in [1..MaxHeight -> Nat]
      /\ startBlock[c] \in Int
  BY <1>1, ChainTypes
<1> DEFINE from == lastScanned[c] + 1
<1>3. PICK current \in 0..Height(c) :
        /\ current > lastScanned[c]
        /\ scan' = [scan EXCEPT ![c] =
                [Idle EXCEPT !.step = "fetching", !.from = from,
                             !.to = LastBlock(from, current)]]
  BY DEF StartScan
<1> DEFINE to == LastBlock(from, current)
<1>4. from \in Int /\ to \in Int /\ from <= to /\ to <= Height(c)
  BY <1>2, <1>3 DEF LastBlock
<1>5. 0 <= from
  BY <1>1, <1>2 DEF StartScan, Falsy, ChainInv, InBounds, Unset
<1>6. /\ scan'[c].step = "fetching" /\ scan'[c].from = from /\ scan'[c].to = to
      /\ scan'[c] \in Scans
      /\ \A d \in Chains \ {c} : scan'[d] = scan[d]
  BY <1>1, <1>3, <1>4 DEF Typed, Idle, Scans
<1>7. UNCHANGED <<blocks, listening, starting, interval, mutexes, lastScanned,
                  stops, stopping, waiting, startBlock, emitted>>
  BY DEF StartScan
<1>8. Typed' /\ SetUpOnce'
  <2>1. scan' \in [Chains -> Scans]
    BY <1>1, <1>3, <1>6 DEF Typed
  <2>2. \A d \in Chains : scan'[d].step \in {"idle", "fetching", "emitting"}
    BY <2>1 DEF Scans
  <2> QED BY <1>1, <1>7, <2>1, <2>2 DEF Typed, TypeOK, SetUpOnce, IInv
<1>9. Height(c)' = Height(c) /\ \A n : Block(c, n)' = Block(c, n)
  BY <1>7 DEF Height, Block
<1>10. startBlock[c] # Unset
  BY <1>1 DEF ChainInv, Unstarted
<1>11. \A n \in 1..MaxHeight : emitted[c][n] > 0 => n <= lastScanned[c]
  BY <1>1 DEF ChainInv, NotAhead, Idle
<1>12. ChainInv(c)'
  <2>1. InBounds(c)' /\ Unstarted(c)' /\ Once(c)' /\ InRange(c)' /\ Listed(c)'
    BY <1>1, <1>4, <1>5, <1>6, <1>7, <1>9, <1>10
       DEF ChainInv, InBounds, Unstarted, Once, InRange, Listed
  <2>2. Pending(c)'
    BY <1>2, <1>6, <1>7, <1>11 DEF Pending
  <2>3. NotAhead(c)'
    BY <1>2, <1>4, <1>6, <1>7, <1>11 DEF NotAhead
  <2>4. NotBehind(c)'
    BY <1>1, <1>2, <1>6, <1>7, <1>9 DEF ChainInv, NotBehind
  <2> QED BY <2>1, <2>2, <2>3, <2>4 DEF ChainInv
<1>13. \A d \in Chains \ {c} : ChainInv(d)'
  BY <1>6, <1>7, UntouchedChain DEF IInv
<1> QED BY <1>8, <1>12, <1>13 DEF IInv

(* The lists are those of the range. *)
LEMMA LogsFetchedKeepsIInv ==
    ASSUME IInv, NEW c \in Chains, LogsFetched(c)
    PROVE  IInv'
<1>1. Typed /\ ChainInv(c) /\ scan[c].step = "fetching"
  BY DEF IInv, LogsFetched
<1>2. /\ scan[c] \in Scans /\ emitted[c] \in [1..MaxHeight -> Nat]
      /\ Height(c) \in Nat /\ MaxHeight \in Nat
  BY <1>1, ChainTypes
<1>3. /\ scan'[c].step = "emitting"
      /\ scan'[c].from = scan[c].from /\ scan'[c].to = scan[c].to
      /\ scan'[c].todo = Numbers(c, {"placed", "unreadable"})
      /\ scan'[c].fills = Numbers(c, {"filled"})
      /\ \A d \in Chains \ {c} : scan'[d] = scan[d]
  BY <1>1, <1>2 DEF LogsFetched, Typed, Scans
<1>4. scan[c].from \in Int /\ scan[c].to \in Int
  BY <1>2 DEF Scans
<1>5. scan' \in [Chains -> Scans]
  <2>1. \A kinds : Numbers(c, kinds) \in SUBSET Int
    BY <1>4 DEF Numbers
  <2> QED BY <1>1, <1>2, <2>1 DEF LogsFetched, Typed, Scans
<1>6. UNCHANGED <<blocks, listening, starting, interval, mutexes, lastScanned,
                  stops, stopping, waiting, startBlock, emitted>>
  BY DEF LogsFetched
<1>7. Typed' /\ SetUpOnce'
  <2>1. \A d \in Chains : scan'[d].step \in {"idle", "fetching", "emitting"}
    BY <1>5 DEF Scans
  <2> QED BY <1>1, <1>5, <1>6, <2>1 DEF Typed, TypeOK, SetUpOnce, IInv
<1>8. Height(c)' = Height(c) /\ \A n : Block(c, n)' = Block(c, n)
  BY <1>6 DEF Height, Block
<1>9. \A kinds : Numbers(c, kinds)' = Numbers(c, kinds)
  BY <1>3, <1>8 DEF Numbers
<1>10. ChainInv(c)'
  <2>1. InBounds(c)' /\ Unstarted(c)' /\ Once(c)' /\ InRange(c)'
    BY <1>1, <1>3, <1>6, <1>8 DEF ChainInv, InBounds, Unstarted, Once, InRange, Idle
  <2>2. Listed(c)'
    BY <1>3, <1>9 DEF Listed
  <2>3. Pending(c)'
    BY <1>1, <1>3, <1>4, <1>6, <1>8 DEF ChainInv, Pending, Numbers
  <2>4. NotAhead(c)' /\ NotBehind(c)'
    BY <1>1, <1>3, <1>6, <1>8 DEF ChainInv, NotAhead, NotBehind
  <2> QED BY <2>1, <2>2, <2>3, <2>4 DEF ChainInv
<1>11. \A d \in Chains \ {c} : ChainInv(d)'
  BY <1>3, <1>6, UntouchedChain DEF IInv
<1> QED BY <1>7, <1>10, <1>11 DEF IInv

(* A failing fetch leaves nothing behind and takes nothing as scanned. *)
LEMMA FetchFailsKeepsIInv ==
    ASSUME IInv, NEW c \in Chains, FetchFails(c)
    PROVE  IInv'
<1>1. Typed /\ ChainInv(c) /\ scan[c].step = "fetching"
  BY DEF IInv, FetchFails
<1>2. /\ scan[c] \in Scans /\ emitted[c] \in [1..MaxHeight -> Nat]
      /\ Height(c) \in Nat /\ MaxHeight \in Nat /\ lastScanned[c] \in Int
  BY <1>1, ChainTypes
<1>3. scan'[c] = Idle /\ \A d \in Chains \ {c} : scan'[d] = scan[d]
  BY <1>1 DEF FetchFails, Typed
<1>4. scan' \in [Chains -> Scans]
  BY <1>1 DEF FetchFails, Typed, Scans, Idle
<1>5. /\ UNCHANGED <<blocks, listening, starting, interval, mutexes, lastScanned,
                     stops, stopping, startBlock, emitted>>
      /\ waiting' = waiting \ {c}
  BY DEF FetchFails
<1>6. Typed' /\ SetUpOnce'
  <2>1. \A d \in Chains : scan'[d].step \in {"idle", "fetching", "emitting"}
    BY <1>4 DEF Scans
  <2> QED BY <1>1, <1>4, <1>5, <2>1 DEF Typed, TypeOK, SetUpOnce, IInv
<1>7. Height(c)' = Height(c) /\ \A n : Block(c, n)' = Block(c, n)
  BY <1>5 DEF Height, Block
<1>8. scan[c].from \in Int /\ scan[c].to \in Int
  BY <1>2 DEF Scans
<1>9. ChainInv(c)'
  <2>1. InBounds(c)' /\ Unstarted(c)' /\ Once(c)' /\ InRange(c)' /\ Pending(c)' /\ Listed(c)'
    BY <1>1, <1>3, <1>5, <1>7
       DEF ChainInv, InBounds, Unstarted, Once, InRange, Pending, Listed, Idle
  <2>2. NotAhead(c)'
    BY <1>1, <1>2, <1>3, <1>5, <1>8 DEF ChainInv, NotAhead, InRange, Pending, Idle
  <2>3. NotBehind(c)'
    BY <1>1, <1>3, <1>5, <1>7 DEF ChainInv, NotBehind, Idle
  <2> QED BY <2>1, <2>2, <2>3 DEF ChainInv
<1>10. \A d \in Chains \ {c} : ChainInv(d)'
  BY <1>3, <1>5, UntouchedChain DEF IInv
<1> QED BY <1>6, <1>9, <1>10 DEF IInv

(* What is taken off the list is emitted, unless it cannot be read. *)
LEMMA EmitPlacedKeepsIInv ==
    ASSUME IInv, NEW c \in Chains, EmitPlaced(c)
    PROVE  IInv'
<1>1. Typed /\ ChainInv(c) /\ scan[c].step = "emitting"
  BY DEF IInv, EmitPlaced
<1>2. /\ scan[c] \in Scans /\ emitted[c] \in [1..MaxHeight -> Nat]
      /\ Height(c) \in Nat /\ MaxHeight \in Nat /\ lastScanned[c] \in Int
  BY <1>1, ChainTypes
<1>3. PICK n \in scan[c].todo :
        /\ emitted' = IF Block(c, n) = "placed"
                      THEN [emitted EXCEPT ![c][n] = @ + 1] ELSE emitted
        /\ scan' = [scan EXCEPT ![c].todo = @ \ {n}]
  BY DEF EmitPlaced
<1>4. scan[c].from \in Int /\ scan[c].to \in Int
  BY <1>2 DEF Scans
<1>5. /\ 0 <= scan[c].from /\ scan[c].from <= scan[c].to /\ scan[c].to <= Height(c)
      /\ Height(c) <= MaxHeight
  BY <1>1 DEF ChainInv, InRange, InBounds
<1>6. n \in Numbers(c, {"placed", "unreadable"})
  BY <1>1, <1>3 DEF ChainInv, Listed
<1>7. n \in 1..MaxHeight /\ scan[c].from <= n /\ n <= scan[c].to /\ n <= Height(c)
  BY <1>2, <1>4, <1>5, <1>6, NumbersInRange
<1>8. emitted[c][n] = 0
  BY <1>1, <1>3, <1>7 DEF ChainInv, Pending
<1>9. /\ emitted' \in [Chains -> [1..MaxHeight -> Nat]]
      /\ \A m \in 1..MaxHeight :
            emitted'[c][m] = IF m = n /\ Block(c, n) = "placed" THEN 1 ELSE emitted[c][m]
      /\ \A d \in Chains \ {c} : emitted'[d] = emitted[d]
  BY <1>1, <1>2, <1>3, <1>7, <1>8 DEF Typed, TypeOK
<1>10. /\ scan'[c].step = "emitting"
       /\ scan'[c].from = scan[c].from /\ scan'[c].to = scan[c].to
       /\ scan'[c].fills = scan[c].fills /\ scan'[c].todo = scan[c].todo \ {n}
       /\ \A d \in Chains \ {c} : scan'[d] = scan[d]
  BY <1>1, <1>2, <1>3 DEF Typed, Scans
<1>11. scan' \in [Chains -> Scans]
  BY <1>1, <1>2, <1>3 DEF Typed, Scans
<1>12. UNCHANGED <<blocks, listening, starting, interval, mutexes, lastScanned,
                   stops, stopping, waiting, startBlock>>
  BY DEF EmitPlaced
<1>13. Typed' /\ SetUpOnce'
  <2>1. \A d \in Chains : scan'[d].step \in {"idle", "fetching", "emitting"}
    BY <1>11 DEF Scans
  <2> QED BY <1>1, <1>9, <1>11, <1>12, <2>1 DEF Typed, TypeOK, SetUpOnce, IInv
<1>14. Height(c)' = Height(c) /\ \A m : Block(c, m)' = Block(c, m)
  BY <1>12 DEF Height, Block
<1>15. \A kinds : Numbers(c, kinds)' = Numbers(c, kinds)
  BY <1>10, <1>14 DEF Numbers
<1>16. ChainInv(c)'
  <2>1. InBounds(c)' /\ InRange(c)'
    BY <1>1, <1>10, <1>12, <1>14 DEF ChainInv, InBounds, InRange
  <2>2. Unstarted(c)'
    BY <1>1, <1>12 DEF ChainInv, InRange, Unstarted
  <2>3. Once(c)'
    BY <1>1, <1>7, <1>9, <1>14 DEF ChainInv, Once, Ours
  <2>4. Pending(c)'
    <3> SUFFICES ASSUME NEW m \in 1..MaxHeight, scan[c].from <= m, m <= scan[c].to
                 PROVE  emitted'[c][m] = IF Block(c, m) = "placed" /\ m \notin scan'[c].todo
                                         THEN 1 ELSE 0
      BY <1>10, <1>14 DEF Pending
    <3>1. emitted[c][m] = IF Block(c, m) = "placed" /\ m \notin scan[c].todo THEN 1 ELSE 0
      BY <1>1 DEF ChainInv, Pending
    <3> QED BY <3>1, <1>9, <1>10
  <2>5. Listed(c)'
    BY <1>1, <1>10, <1>15 DEF ChainInv, Listed
  <2>6. NotAhead(c)'
    BY <1>1, <1>7, <1>9, <1>10, <1>12 DEF ChainInv, NotAhead
  <2>7. NotBehind(c)'
    BY <1>1, <1>9, <1>10, <1>12, <1>14 DEF ChainInv, NotBehind
  <2> QED BY <2>1, <2>2, <2>3, <2>4, <2>5, <2>6, <2>7 DEF ChainInv
<1>17. \A d \in Chains \ {c} : ChainInv(d)'
  BY <1>9, <1>10, <1>12, UntouchedChain DEF IInv
<1> QED BY <1>13, <1>16, <1>17 DEF IInv

(* A finished scan has emitted all that is ours of its range. *)
LEMMA FinishScanKeepsIInv ==
    ASSUME IInv, NEW c \in Chains, FinishScan(c)
    PROVE  IInv'
<1>1. Typed /\ ChainInv(c) /\ scan[c].step = "emitting" /\ scan[c].todo = {}
  BY DEF IInv, FinishScan
<1>2. /\ scan[c] \in Scans /\ emitted[c] \in [1..MaxHeight -> Nat]
      /\ Height(c) \in Nat /\ MaxHeight \in Nat /\ lastScanned[c] \in Int
      /\ startBlock[c] \in Int
  BY <1>1, ChainTypes
<1>3. scan[c].from \in Int /\ scan[c].to \in Int
  BY <1>2 DEF Scans
<1>4. /\ 0 <= scan[c].from /\ scan[c].from <= scan[c].to /\ scan[c].to <= Height(c)
      /\ Height(c) <= MaxHeight /\ startBlock[c] # Unset
      /\ c \in mutexes => scan[c].from = lastScanned[c] + 1
  BY <1>1 DEF ChainInv, InRange, InBounds
<1>5. \A n \in 1..MaxHeight :
        n \in scan[c].fills <=>
            scan[c].from <= n /\ n <= scan[c].to /\ Block(c, n) = "filled"
  BY <1>1, <1>3 DEF ChainInv, Listed, Numbers
<1>6. /\ scan'[c] = Idle /\ lastScanned'[c] = scan[c].to
      /\ \A d \in Chains \ {c} : scan'[d] = scan[d] /\ lastScanned'[d] = lastScanned[d]
      /\ scan' \in [Chains -> Scans]
  BY <1>1 DEF FinishScan, Typed, TypeOK, Scans, Idle
<1>7. /\ \A n \in 1..MaxHeight :
            emitted'[c][n] = IF n \in scan[c].fills THEN emitted[c][n] + 1 ELSE emitted[c][n]
      /\ \A d \in Chains \ {c} : emitted'[d] = emitted[d]
      /\ emitted' \in [Chains -> [1..MaxHeight -> Nat]]
  BY <1>1, <1>2 DEF FinishScan, Typed, TypeOK
<1>8. /\ UNCHANGED <<blocks, listening, starting, interval, mutexes, stops,
                     stopping, startBlock>>
      /\ waiting' = waiting \ {c}
  BY DEF FinishScan
<1>9. Typed' /\ SetUpOnce'
  <2>1. \A d \in Chains : scan'[d].step \in {"idle", "fetching", "emitting"}
    BY <1>6 DEF Scans
  <2>2. lastScanned' \in [Chains -> Int]
    BY <1>1, <1>3 DEF FinishScan, Typed, TypeOK
  <2> QED BY <1>1, <1>6, <1>7, <1>8, <2>1, <2>2 DEF Typed, TypeOK, SetUpOnce, IInv
<1>10. Height(c)' = Height(c) /\ \A n : Block(c, n)' = Block(c, n)
  BY <1>8 DEF Height, Block
<1>11. \A n \in 1..MaxHeight :
         scan[c].from <= n /\ n <= scan[c].to =>
            emitted'[c][n] = IF Block(c, n) \in Ours THEN 1 ELSE 0
  <2> SUFFICES ASSUME NEW n \in 1..MaxHeight, scan[c].from <= n, n <= scan[c].to
               PROVE  emitted'[c][n] = IF Block(c, n) \in Ours THEN 1 ELSE 0
    OBVIOUS
  <2>1. emitted[c][n] = IF Block(c, n) = "placed" THEN 1 ELSE 0
    BY <1>1 DEF ChainInv, Pending
  <2> QED BY <2>1, <1>5, <1>7 DEF Ours
<1>12. \A n \in 1..MaxHeight :
         ~(scan[c].from <= n /\ n <= scan[c].to) => emitted'[c][n] = emitted[c][n]
  BY <1>5, <1>7
<1>13. ChainInv(c)'
  <2>1. InBounds(c)' /\ Unstarted(c)' /\ InRange(c)' /\ Pending(c)' /\ Listed(c)'
    BY <1>2, <1>3, <1>4, <1>6, <1>8, <1>10
       DEF InBounds, Unstarted, InRange, Pending, Listed, Idle, Unset
  <2>2. Once(c)'
    <3>1. Once(c)
      BY <1>1 DEF ChainInv
    <3> SUFFICES ASSUME NEW n \in 1..MaxHeight
                 PROVE  emitted'[c][n] <= IF n <= Height(c) /\ Block(c, n) \in Ours
                                          THEN 1 ELSE 0
      BY <1>10 DEF Once, Ours
    <3> QED BY <3>1, <1>2, <1>3, <1>4, <1>11, <1>12 DEF Once
  <2>3. NotAhead(c)'
    <3>1. NotAhead(c)
      BY <1>1 DEF ChainInv
    <3> SUFFICES ASSUME c \in mutexes, NEW n \in 1..MaxHeight, emitted'[c][n] > 0
                 PROVE  n <= scan[c].to
      BY <1>6, <1>8 DEF NotAhead, Idle
    <3>2. CASE scan[c].from <= n /\ n <= scan[c].to
      BY <3>2
    <3>3. CASE ~(scan[c].from <= n /\ n <= scan[c].to)
      BY <3>1, <3>3, <1>1, <1>12 DEF NotAhead
    <3> QED BY <3>2, <3>3
  <2>4. NotBehind(c)'
    <3>1. NotBehind(c)
      BY <1>1 DEF ChainInv
    <3> SUFFICES ASSUME NEW n \in 1..MaxHeight, startBlock[c] <= n, n <= Height(c),
                        Block(c, n) \in Ours, n <= scan[c].to
                 PROVE  emitted'[c][n] > 0
      BY <1>6, <1>8, <1>10 DEF NotBehind, Idle, Ours
    <3>2. CASE scan[c].from <= n
      BY <3>2, <1>11
    <3>3. CASE n < scan[c].from
      BY <3>1, <3>3, <1>1, <1>3, <1>12 DEF NotBehind
    <3> QED BY <3>2, <3>3, <1>3
  <2> QED BY <2>1, <2>2, <2>3, <2>4 DEF ChainInv
<1>14. \A d \in Chains \ {c} : ChainInv(d)'
  BY <1>6, <1>7, <1>8, UntouchedChain DEF IInv
<1> QED BY <1>9, <1>13, <1>14 DEF IInv

-----------------------------------------------------------------------------
LEMMA StepKeepsIInv == IInv /\ [Next]_vars => IInv'
<1> SUFFICES ASSUME IInv, [Next]_vars PROVE IInv'
  OBVIOUS
<1>1. ASSUME NEW c \in Chains, NewBlock(c) \/ SetUpChain(c) \/ ChainStep(c) \/ FetchFails(c)
      PROVE  IInv'
  BY <1>1, NewBlockKeepsIInv, SetUpKeepsIInv, StartScanKeepsIInv, LogsFetchedKeepsIInv,
     FetchFailsKeepsIInv, EmitPlacedKeepsIInv, FinishScanKeepsIInv DEF ChainStep
<1>2. ASSUME NEW c \in Chains, SetUpFails(c)
      PROVE  IInv'
  <2>1. Typed' /\ SetUpOnce'
    BY <1>2 DEF SetUpFails, IInv, Typed, TypeOK, SetUpOnce
  <2>2. \A d \in Chains : ChainInv(d)'
    BY <1>2, UntouchedChain DEF SetUpFails, IInv
  <2> QED BY <2>1, <2>2 DEF IInv
<1>3. CASE StartListening
  <2>1. Typed' /\ SetUpOnce'
    BY <1>3 DEF StartListening, IInv, Typed, TypeOK, SetUpOnce
  <2>2. \A d \in Chains : ChainInv(d)'
    BY <1>3, UntouchedChain DEF StartListening, IInv
  <2> QED BY <2>1, <2>2 DEF IInv
<1>4. CASE StopListening
  <2>1. Typed' /\ SetUpOnce'
    BY <1>4 DEF StopListening, IInv, Typed, TypeOK, SetUpOnce
  <2>2. \A d \in Chains : ChainInv(d)'
    BY <1>4, UntouchedChain DEF StopListening, IInv
  <2> QED BY <2>1, <2>2 DEF IInv
<1>5. CASE StopCompletes
  <2>1. Typed' /\ SetUpOnce'
    <3>1. lastScanned' \in [Chains -> Int] /\ mutexes' = {} /\ waiting' = {}
      BY <1>5 DEF StopCompletes, Unset
    <3>2. stopping' \in BOOLEAN
      BY <1>5 DEF StopCompletes
    <3>3. UNCHANGED <<blocks, listening, starting, interval, scan, startBlock, emitted>>
      BY <1>5 DEF StopCompletes
    <3> QED BY <3>1, <3>2, <3>3 DEF IInv, Typed, TypeOK, SetUpOnce
  <2>2. ASSUME NEW d \in Chains
        PROVE  ChainInv(d)'
    <3>1. Typed /\ ChainInv(d)
      BY DEF IInv
    <3>2. /\ Height(d) \in Nat /\ MaxHeight \in Nat /\ scan[d] \in Scans
          /\ emitted[d] \in [1..MaxHeight -> Nat]
      BY <3>1, ChainTypes
    <3>3. /\ mutexes' = {} /\ lastScanned'[d] = Unset
          /\ UNCHANGED <<blocks, scan, startBlock, emitted, interval>>
      BY <1>5 DEF StopCompletes
    <3>4. Height(d)' = Height(d) /\ \A n : Block(d, n)' = Block(d, n)
      BY <3>3 DEF Height, Block
    <3>5. InBounds(d)' /\ Unstarted(d)' /\ Once(d)' /\ InRange(d)'
      BY <3>1, <3>2, <3>3, <3>4 DEF ChainInv, InBounds, Unstarted, Once, InRange, Unset
    <3>6. Pending(d)' /\ Listed(d)' /\ NotAhead(d)'
      BY <3>1, <3>3, <3>4 DEF ChainInv, Pending, Listed, Numbers, NotAhead
    <3>7. NotBehind(d)'
      BY <3>1, <3>3, <3>4 DEF ChainInv, NotBehind, Unset
    <3> QED BY <3>5, <3>6, <3>7 DEF ChainInv
  <2> QED BY <2>1, <2>2 DEF IInv
<1>6. CASE UNCHANGED vars
  <2>1. Typed' /\ SetUpOnce'
    BY <1>6 DEF vars, IInv, Typed, TypeOK, SetUpOnce
  <2>2. \A d \in Chains : ChainInv(d)'
    BY <1>6, UntouchedChain DEF vars, IInv
  <2> QED BY <2>1, <2>2 DEF IInv
<1> QED BY <1>1, <1>2, <1>3, <1>4, <1>5, <1>6 DEF Next

(* The invariant holds in every reachable state. *)
THEOREM InvariantHolds == Spec => []IInv
<1>1. IInv /\ [Next]_vars => IInv'
  BY StepKeepsIInv
<1> QED BY <1>1, InitIInv, PTL DEF Spec

(* The maps of the monitor have their types. *)
THEOREM TypeCorrect == Spec => []TypeOK
<1>1. IInv => TypeOK
  BY DEF IInv, Typed
<1> QED BY <1>1, InvariantHolds, PTL

(* No log at or below lastScannedBlock was skipped. *)
THEOREM NothingSkipped == Spec => []ScannedLogsEmitted
<1>1. ASSUME IInv, NEW c \in Chains, NEW n \in 1..Height(c), lastScanned[c] # Unset,
             startBlock[c] <= n, n <= lastScanned[c], Block(c, n) \in Ours
      PROVE  emitted[c][n] > 0
  <2>1. Height(c) \in Nat /\ MaxHeight \in Nat /\ Height(c) <= MaxHeight /\ NotBehind(c)
    BY <1>1, ChainTypes DEF IInv, ChainInv, InBounds
  <2>2. n \in 1..MaxHeight /\ n <= Height(c)
    BY <2>1
  <2> QED BY <1>1, <2>1, <2>2 DEF NotBehind
<1>2. IInv => ScannedLogsEmitted
  BY <1>1 DEF ScannedLogsEmitted
<1> QED BY <1>2, InvariantHolds, PTL

(* No log is emitted twice, and none that is not this filler's. *)
THEOREM NothingTwice == Spec => []EmittedOnce
<1>1. IInv => EmittedOnce
  BY DEF IInv, ChainInv, Once, EmittedOnce
<1> QED BY <1>1, InvariantHolds, PTL
=============================================================================
