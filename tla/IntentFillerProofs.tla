-------------------------- MODULE IntentFillerProofs --------------------------
(***************************************************************************)
(* Proofs about IntentFiller, for every set of orders and chains, every    *)
(* concurrency and any number of crashes: the type invariant and the       *)
(* inductive invariant from which the deposit properties follow.           *)
(***************************************************************************)
EXTENDS IntentFiller, SequencesExt, SequenceTheorems, FiniteSetTheorems, TLAPS

-----------------------------------------------------------------------------
(* The queues: what ToSet, Append, Tail and RemoveAt do to the elements of a *)
(* sequence and to their order.                                              *)

(* The elements of a sequence are what its indices map to. *)
LEMMA ElemsOfSeq ==
    ASSUME NEW S, NEW s \in Seq(S)
    PROVE  /\ DOMAIN s = 1..Len(s) /\ Len(s) \in Nat
           /\ ToSet(s) \subseteq S
           /\ \A i \in 1..Len(s) : s[i] \in ToSet(s) /\ s[i] \in S
BY DEF ToSet

(* A function on an initial segment of the naturals is a sequence. *)
LEMMA SeqOfFunction ==
    ASSUME NEW S, NEW n \in Nat, NEW f \in [1..n -> S]
    PROVE  f \in Seq(S) /\ Len(f) = n
<1>1. f \in Seq(S)
  BY SeqDef
<1>2. DOMAIN f = 1..n /\ DOMAIN f = 1..Len(f) /\ Len(f) \in Nat
  BY <1>1, LenProperties
<1>3. Len(f) = n
  BY <1>2
<1> QED BY <1>1, <1>3

(* Appending adds one element at the end. *)
LEMMA AppendElems ==
    ASSUME NEW S, NEW s \in Seq(S), NEW e \in S
    PROVE  /\ Append(s, e) \in Seq(S)
           /\ Len(Append(s, e)) = Len(s) + 1
           /\ \A i \in 1..Len(s) : Append(s, e)[i] = s[i]
           /\ Append(s, e)[Len(s) + 1] = e
           /\ ToSet(Append(s, e)) = ToSet(s) \cup {e}
<1>1. /\ Append(s, e) \in Seq(S)
      /\ Len(Append(s, e)) = Len(s) + 1
      /\ \A i \in 1..Len(s) : Append(s, e)[i] = s[i]
      /\ Append(s, e)[Len(s) + 1] = e
  OBVIOUS
<1>2. DOMAIN Append(s, e) = 1..(Len(s) + 1) /\ DOMAIN s = 1..Len(s) /\ Len(s) \in Nat
  BY <1>1
<1>3. ToSet(Append(s, e)) = ToSet(s) \cup {e}
  BY <1>1, <1>2 DEF ToSet
<1> QED BY <1>1, <1>3

(* Concatenation unites the elements. *)
LEMMA ConcatElems ==
    ASSUME NEW S, NEW s \in Seq(S), NEW t \in Seq(S)
    PROVE  s \o t \in Seq(S) /\ ToSet(s \o t) = ToSet(s) \cup ToSet(t)
<1>1. /\ s \o t \in Seq(S) /\ Len(s \o t) = Len(s) + Len(t)
      /\ \A i \in 1..(Len(s) + Len(t)) :
            (s \o t)[i] = IF i <= Len(s) THEN s[i] ELSE t[i - Len(s)]
  BY ConcatProperties
<1>2. /\ DOMAIN s = 1..Len(s) /\ DOMAIN t = 1..Len(t)
      /\ DOMAIN (s \o t) = 1..(Len(s) + Len(t))
      /\ Len(s) \in Nat /\ Len(t) \in Nat
  BY <1>1
<1>3. ASSUME NEW i \in 1..(Len(s) + Len(t))
      PROVE  (s \o t)[i] \in ToSet(s) \cup ToSet(t)
  <2>1. CASE i <= Len(s)
    BY <2>1, <1>1, <1>2 DEF ToSet
  <2>2. CASE ~(i <= Len(s))
    <3>1. i - Len(s) \in 1..Len(t)
      BY <2>2, <1>2
    <3> QED BY <3>1, <2>2, <1>1, <1>2 DEF ToSet
  <2> QED BY <2>1, <2>2
<1>4. ASSUME NEW i \in 1..Len(s) PROVE s[i] \in ToSet(s \o t)
  BY <1>1, <1>2 DEF ToSet
<1>5. ASSUME NEW i \in 1..Len(t) PROVE t[i] \in ToSet(s \o t)
  <2>1. /\ Len(s) + i \in 1..(Len(s) + Len(t)) /\ ~(Len(s) + i <= Len(s))
        /\ (Len(s) + i) - Len(s) = i
    BY <1>2
  <2>2. (s \o t)[Len(s) + i] = t[i]
    BY <2>1, <1>1
  <2> QED BY <2>1, <2>2, <1>2 DEF ToSet
<1>6. ToSet(s \o t) \subseteq ToSet(s) \cup ToSet(t)
  BY <1>2, <1>3 DEF ToSet
<1>7. ToSet(s) \cup ToSet(t) \subseteq ToSet(s \o t)
  BY <1>2, <1>4, <1>5 DEF ToSet
<1> QED BY <1>1, <1>6, <1>7

(* Taking the head leaves the others, each one place earlier. *)
LEMMA TailElems ==
    ASSUME NEW S, NEW s \in Seq(S), s # << >>
    PROVE  /\ Head(s) \in S /\ Head(s) = s[1]
           /\ Tail(s) \in Seq(S)
           /\ Len(s) \in Nat \ {0} /\ Len(Tail(s)) = Len(s) - 1
           /\ \A i \in 1..(Len(s) - 1) : Tail(s)[i] = s[i + 1]
           /\ ToSet(s) = ToSet(Tail(s)) \cup {Head(s)}
<1>1. /\ Head(s) \in S /\ Head(s) = s[1]
      /\ Tail(s) \in Seq(S)
      /\ Len(s) \in Nat \ {0} /\ Len(Tail(s)) = Len(s) - 1
      /\ \A i \in 1..(Len(s) - 1) : Tail(s)[i] = s[i + 1]
  BY HeadTailProperties, EmptySeq
<1>2. DOMAIN s = 1..Len(s) /\ DOMAIN Tail(s) = 1..(Len(s) - 1)
  BY <1>1
<1>3. ToSet(Tail(s)) \cup {Head(s)} \subseteq ToSet(s)
  BY <1>1, <1>2 DEF ToSet
<1>4. ASSUME NEW i \in 1..Len(s) PROVE s[i] \in ToSet(Tail(s)) \cup {Head(s)}
  <2>1. CASE i = 1
    BY <2>1, <1>1
  <2>2. CASE i # 1
    <3>1. i - 1 \in 1..(Len(s) - 1) /\ s[i] = Tail(s)[i - 1]
      BY <2>2, <1>1
    <3> QED BY <3>1, <1>2 DEF ToSet
  <2> QED BY <2>1, <2>2
<1>5. ToSet(s) \subseteq ToSet(Tail(s)) \cup {Head(s)}
  BY <1>2, <1>4 DEF ToSet
<1> QED BY <1>1, <1>3, <1>5

(* Removing the element at one index keeps the order of the others. *)
LEMMA RemoveAtElems ==
    ASSUME NEW S, NEW s \in Seq(S), NEW i \in 1..Len(s)
    PROVE  /\ RemoveAt(s, i) \in Seq(S)
           /\ Len(RemoveAt(s, i)) = Len(s) - 1
           /\ \A j \in 1..(Len(s) - 1) :
                RemoveAt(s, i)[j] = IF j < i THEN s[j] ELSE s[j + 1]
           /\ ToSet(s) = ToSet(RemoveAt(s, i)) \cup {s[i]}
<1> DEFINE front == SubSeq(s, 1, i - 1)
           back  == SubSeq(s, i + 1, Len(s))
<1>0. Len(s) \in Nat /\ i \in Nat /\ i >= 1 /\ i <= Len(s)
  BY LenProperties
<1>1. \A j \in 1..Len(s) : s[j] \in S
  BY ElementOfSeq
<1>2. /\ front \in Seq(S) /\ Len(front) = i - 1
      /\ \A j \in 1..(i - 1) : front[j] = s[j]
  <2>1. \A j \in 1..(i - 1) : s[j] \in S
    BY <1>0, <1>1
  <2> QED BY <2>1, <1>0
<1>3. /\ back \in Seq(S) /\ Len(back) = Len(s) - i
      /\ \A j \in 1..(Len(s) - i) : back[j] = s[i + j]
  <2>1. \A j \in (i + 1)..Len(s) : s[j] \in S
    BY <1>0, <1>1
  <2> QED BY <2>1, <1>0
<1> HIDE DEF front, back
<1>4. RemoveAt(s, i) = front \o back
  BY DEF RemoveAt, front, back
<1>5. /\ RemoveAt(s, i) \in Seq(S)
      /\ Len(RemoveAt(s, i)) = Len(s) - 1
      /\ \A j \in 1..(Len(s) - 1) : RemoveAt(s, i)[j] =
            IF j <= i - 1 THEN front[j] ELSE back[j - (i - 1)]
  <2>1. /\ front \o back \in Seq(S)
        /\ Len(front \o back) = Len(front) + Len(back)
        /\ \A j \in 1..(Len(front) + Len(back)) : (front \o back)[j] =
              IF j <= Len(front) THEN front[j] ELSE back[j - Len(front)]
    BY <1>2, <1>3, ConcatProperties
  <2>2. Len(front) + Len(back) = Len(s) - 1
    BY <1>0, <1>2, <1>3
  <2>3. \A j \in 1..(Len(s) - 1) : (front \o back)[j] =
            IF j <= i - 1 THEN front[j] ELSE back[j - (i - 1)]
    BY <2>1, <2>2, <1>2
  <2> QED BY <2>1, <2>2, <2>3, <1>4
<1>6. ASSUME NEW j \in 1..(Len(s) - 1)
      PROVE  RemoveAt(s, i)[j] = IF j < i THEN s[j] ELSE s[j + 1]
  <2>1. CASE j < i
    BY <2>1, <1>0, <1>2, <1>5
  <2>2. CASE ~(j < i)
    <3>1. j - (i - 1) \in 1..(Len(s) - i) /\ i + (j - (i - 1)) = j + 1
      BY <2>2, <1>0
    <3>2. RemoveAt(s, i)[j] = back[j - (i - 1)]
      <4>1. ~(j <= i - 1)
        BY <2>2, <1>0
      <4> QED BY <4>1, <1>5
    <3> QED BY <3>1, <3>2, <2>2, <1>3
  <2> QED BY <2>1, <2>2
<1>7. DOMAIN RemoveAt(s, i) = 1..(Len(s) - 1) /\ DOMAIN s = 1..Len(s)
  BY <1>5, <1>0
<1>8. ToSet(RemoveAt(s, i)) \cup {s[i]} \subseteq ToSet(s)
  <2>1. \A j \in 1..(Len(s) - 1) : RemoveAt(s, i)[j] \in ToSet(s)
    BY <1>6, <1>7, <1>0 DEF ToSet
  <2> QED BY <2>1, <1>7 DEF ToSet
<1>9. ASSUME NEW k \in 1..Len(s)
      PROVE  s[k] \in ToSet(RemoveAt(s, i)) \cup {s[i]}
  <2>1. CASE k < i
    <3>1. k \in 1..(Len(s) - 1) /\ RemoveAt(s, i)[k] = s[k]
      BY <2>1, <1>0, <1>6
    <3> QED BY <3>1, <1>7 DEF ToSet
  <2>2. CASE k > i
    <3>1. k - 1 \in 1..(Len(s) - 1) /\ RemoveAt(s, i)[k - 1] = s[k]
      <4>1. k - 1 \in 1..(Len(s) - 1) /\ ~(k - 1 < i) /\ (k - 1) + 1 = k
        BY <2>2, <1>0
      <4> QED BY <4>1, <1>6
    <3> QED BY <3>1, <1>7 DEF ToSet
  <2>3. CASE k = i
    BY <2>3
  <2> QED BY <2>1, <2>2, <2>3, <1>0
<1>10. ToSet(s) \subseteq ToSet(RemoveAt(s, i)) \cup {s[i]}
  BY <1>9, <1>7 DEF ToSet
<1> QED BY <1>5, <1>6, <1>8, <1>10

-----------------------------------------------------------------------------
(* The bids table. *)

(* Marking a commitment keeps the table finite and well typed. *)
LEMMA MarkRetractedType ==
    ASSUME rows \subseteq Row, IsFiniteSet(rows), NEW o \in Orders
    PROVE  MarkRetracted(o) \subseteq Row /\ IsFiniteSet(MarkRetracted(o))
<1> DEFINE marked(r) == IF r.commitment = o THEN [r EXCEPT !.retracted = TRUE] ELSE r
           f == [r \in rows |-> marked(r)]
<1>1. f \in Surjection(rows, MarkRetracted(o))
  BY DEF Surjection, MarkRetracted
<1>2. IsFiniteSet(MarkRetracted(o))
  BY <1>1, FS_Surjection
<1>3. MarkRetracted(o) \subseteq Row
  BY DEF MarkRetracted, Row
<1> QED BY <1>2, <1>3

(* Marking a commitment changes no row of another, and removes no row. *)
LEMMA MarkRetractedRows ==
    ASSUME rows \subseteq Row, NEW o \in Orders, NEW p \in Orders
    PROVE  /\ RowsOf(p) # {} => \E r \in MarkRetracted(o) : r.commitment = p
           /\ p # o /\ Tracked(p) =>
                \E r \in MarkRetracted(o) : r.commitment = p /\ r.success /\ ~r.retracted
<1>1. ASSUME NEW r \in rows, r.commitment = p
      PROVE  \E q \in MarkRetracted(o) : q.commitment = p
  <2>1. CASE p = o
    <3>1. [r EXCEPT !.retracted = TRUE] \in MarkRetracted(o)
      BY <1>1, <2>1 DEF MarkRetracted
    <3>2. [r EXCEPT !.retracted = TRUE].commitment = p
      BY <1>1 DEF Row
    <3> QED BY <3>1, <3>2
  <2>2. CASE p # o
    BY <1>1, <2>2 DEF MarkRetracted
  <2> QED BY <2>1, <2>2
<1>2. ASSUME p # o, NEW r \in rows, r.commitment = p
      PROVE  r \in MarkRetracted(o)
  BY <1>2 DEF MarkRetracted
<1> QED BY <1>1, <1>2 DEF RowsOf, Tracked

(* A new row is well typed and keeps the table finite. *)
LEMMA NewRowType ==
    ASSUME rows \subseteq Row, IsFiniteSet(rows), NEW o \in Orders, NEW b \in BOOLEAN
    PROVE  /\ NewRow(o, b) \in Row /\ NewRow(o, b).commitment = o
           /\ NewRow(o, b).success = b /\ NewRow(o, b).retracted = FALSE
           /\ IsFiniteSet(rows \cup {NewRow(o, b)})
<1>1. Cardinality(rows) \in Nat
  BY FS_CardinalityType
<1> QED BY <1>1, FS_AddElement DEF NewRow, Row

(* What the sweep enqueues is the commitment of an expired row. *)
LEMMA ExpiredIsQueued ==
    ASSUME rows \subseteq Row, NEW s \in InCreationOrder(ExpiredRows),
           NEW i \in 1..Cardinality(ExpiredRows)
    PROVE  s[i] \in rows /\ s[i].commitment \in Orders
<1>1. s \in [1..Cardinality(ExpiredRows) -> ExpiredRows]
  BY DEF InCreationOrder
<1>2. s[i] \in ExpiredRows
  BY <1>1
<1>3. s[i] \in rows
  BY <1>2 DEF ExpiredRows
<1>4. s[i] \in Row
  BY <1>3
<1> QED BY <1>3, <1>4 DEF Row

-----------------------------------------------------------------------------
(* Type correctness, one step per action. *)

LEMMA TypeInit == Init => TypeOK
<1> SUFFICES ASSUME Init PROVE TypeOK
  OBVIOUS
<1>1. IsFiniteSet(rows)
  BY FS_EmptySet DEF Init
<1> QED BY <1>1 DEF Init, TypeOK

LEMMA TypeNext == TypeOK /\ [Next]_vars => TypeOK'
<1> USE FillerAssumption
<1> SUFFICES ASSUME TypeOK, [Next]_vars PROVE TypeOK'
  OBVIOUS
<1> USE DEF TypeOK, process, pipeline, calls, ledger, books
<1>0. CASE UNCHANGED vars
  BY <1>0 DEF vars, Queues
<1>l. ASSUME LatchIdle PROVE idleSeen' \subseteq Queues
  BY <1>l DEF LatchIdle
<1>1. ASSUME NEW o \in Orders, DetectOrder(o), LatchIdle PROVE TypeOK'
  BY <1>1, <1>l DEF DetectOrder
<1>2. ASSUME StartAnalysis, LatchIdle PROVE TypeOK'
  <2>1. Head(globalQueue) \in Orders /\ Tail(globalQueue) \in Seq(Orders)
    BY <1>2, TailElems DEF StartAnalysis
  <2> QED BY <1>2, <2>1, <1>l DEF StartAnalysis
<1>3. ASSUME NEW o \in Orders, Confirm(o) \/ StopWaiting(o), LatchIdle PROVE TypeOK'
  BY <1>3, <1>l DEF Confirm, StopWaiting
<1>4. ASSUME NEW o \in Orders, Evaluate(o), LatchIdle PROVE TypeOK'
  BY <1>4, <1>l DEF Evaluate
<1>5. ASSUME NEW o \in Orders, FinishAnalysis(o), LatchIdle PROVE TypeOK'
  <2>1. Dest[o] \in Chains
    OBVIOUS
  <2>2. chainQueues' \in [Chains -> Seq(Orders)]
    BY <1>5, <2>1 DEF FinishAnalysis
  <2> QED BY <1>5, <2>2, <1>l DEF FinishAnalysis
<1>6. ASSUME NEW o \in Orders, DropOrder(o), LatchIdle PROVE TypeOK'
  BY <1>6, <1>l DEF DropOrder
<1>7. ASSUME NEW o \in Orders, Submit(o), LatchIdle PROVE TypeOK'
  BY <1>7, <1>l DEF Submit, Calls
<1>p. ASSUME NEW o \in Orders, Executing(o), PopChain(o)
      PROVE  chainQueues' \in [Chains -> Seq(Orders)]
  <2>1. Dest[o] \in Chains /\ chainQueues[Dest[o]] \in Seq(Orders)
    OBVIOUS
  <2>2. Tail(chainQueues[Dest[o]]) \in Seq(Orders)
    BY <2>1, <1>p, TailElems DEF Executing
  <2> QED BY <2>2, <1>p DEF PopChain
<1>8. ASSUME NEW o \in Orders, PrepareFails(o), LatchIdle PROVE TypeOK'
  BY <1>8, <1>p, <1>l DEF PrepareFails
<1>s. ASSUME NEW o \in Orders, NEW b \in BOOLEAN, Executing(o), StoreOutcome(o, b)
      PROVE  /\ rows' \subseteq Row /\ IsFiniteSet(rows')
             /\ pending' \subseteq Orders /\ retractions' \in Seq(Orders)
             /\ chainQueues' \in [Chains -> Seq(Orders)]
  <2>1. rows' \subseteq Row /\ IsFiniteSet(rows')
    BY <1>s, NewRowType DEF StoreOutcome
  <2>2. Append(retractions, o) \in Seq(Orders)
    BY AppendElems
  <2>3. pending' \subseteq Orders /\ retractions' \in Seq(Orders)
    BY <1>s, <2>2 DEF StoreOutcome
  <2>4. chainQueues' \in [Chains -> Seq(Orders)]
    BY <1>s, <1>p DEF StoreOutcome
  <2> QED BY <2>1, <2>3, <2>4
<1>9. ASSUME NEW o \in Orders, BidSucceeds(o), LatchIdle PROVE TypeOK'
  <2>1. Tail(landed) \in Seq(Calls)
    BY <1>9, TailElems DEF BidSucceeds
  <2> QED BY <1>9, <2>1, <1>s, <1>l DEF BidSucceeds
<1>10. ASSUME NEW o \in Orders, BidFails(o), LatchIdle PROVE TypeOK'
  BY <1>10, <1>s, <1>l DEF BidFails, Calls
<1>11. ASSUME NEW o \in Orders, FillReturns(o), LatchIdle PROVE TypeOK'
  BY <1>11, <1>p, <1>l DEF FillReturns, Calls
<1>12. ASSUME NEW o \in Orders, OrderFilledOnChain(o), LatchIdle PROVE TypeOK'
  <2>1. Append(retractions, o) \in Seq(Orders)
    BY AppendElems
  <2>2. pending' \subseteq Orders /\ retractions' \in Seq(Orders)
    BY <1>12, <2>1 DEF OrderFilledOnChain
  <2>3. fill' \in [Orders -> {"open", "logged", "handled", "missed"}]
    BY <1>12 DEF OrderFilledOnChain
  <2> QED BY <1>12, <2>2, <2>3, <1>l DEF OrderFilledOnChain
<1>13. ASSUME Sweep, LatchIdle PROVE TypeOK'
  <2>1. IsFiniteSet(ExpiredRows) /\ ExpiredRows \subseteq Row
    BY FS_Subset DEF ExpiredRows
  <2>2. Cardinality(ExpiredRows) \in Nat
    BY <2>1, FS_CardinalityType
  <2>3. PICK s \in InCreationOrder(ExpiredRows) :
          retractions' = retractions \o [i \in 1..Cardinality(ExpiredRows) |-> s[i].commitment]
    BY <1>13 DEF Sweep
  <2>4. \A i \in 1..Cardinality(ExpiredRows) : s[i].commitment \in Orders
    BY <2>1, ExpiredIsQueued
  <2> DEFINE found == [i \in 1..Cardinality(ExpiredRows) |-> s[i].commitment]
  <2>a. found \in [1..Cardinality(ExpiredRows) -> Orders]
    BY <2>4
  <2>b. retractions' = retractions \o found
    BY <2>3
  <2> HIDE DEF found
  <2>5. found \in Seq(Orders)
    BY <2>2, <2>a, SeqOfFunction
  <2>6. retractions' \in Seq(Orders)
    BY <2>b, <2>5, ConcatProperties
  <2> QED BY <1>13, <2>6, <1>l DEF Sweep
<1>14. ASSUME NEW o \in Orders, SubmitRetraction(o), LatchIdle PROVE TypeOK'
  BY <1>14, <1>l DEF SubmitRetraction, Calls
<1>15. ASSUME NEW o \in Orders, RetractionSucceeds(o), LatchIdle PROVE TypeOK'
  <2>1. Tail(landed) \in Seq(Calls) /\ Tail(retractions) \in Seq(Orders)
    BY <1>15, TailElems DEF RetractionSucceeds, Retracting
  <2>2. rows' \subseteq Row /\ IsFiniteSet(rows')
    BY <1>15, MarkRetractedType DEF RetractionSucceeds
  <2> QED BY <1>15, <2>1, <2>2, <1>l DEF RetractionSucceeds
<1>16. ASSUME NEW o \in Orders, RetractionFails(o), LatchIdle PROVE TypeOK'
  <2>1. Tail(retractions) \in Seq(Orders)
    BY <1>16, TailElems DEF RetractionFails, Retracting
  <2> QED BY <1>16, <2>1, <1>l DEF RetractionFails, Calls
<1>e. ASSUME NEW call \in Calls, Effect(call)
      PROVE  /\ deposit' \subseteq Orders /\ published' \subseteq Orders
             /\ fill' = fill
  BY <1>e DEF Effect, Calls
<1>17. ASSUME NEW call \in Calls, Include(call), LatchIdle PROVE TypeOK'
  BY <1>17, <1>e, <1>l, AppendElems DEF Include
<1>18. ASSUME NEW i \in DOMAIN landed, MissInclusion(i), LatchIdle PROVE TypeOK'
  <2>1. i \in 1..Len(landed)
    OBVIOUS
  <2>2. landed[i] \in Calls /\ RemoveAt(landed, i) \in Seq(Calls)
    BY <2>1, RemoveAtElems, ElemsOfSeq
  <2> QED BY <1>18, <2>2, <1>l DEF MissInclusion
<1>19. ASSUME NEW call \in Calls, PoolInclude(call) \/ PoolDrop(call), LatchIdle
       PROVE TypeOK'
  BY <1>19, <1>e, <1>l DEF PoolInclude, PoolDrop
<1>20. ASSUME NEW o \in Orders, SourceConfirms(o) \/ FillMined(o) \/ BidSelected(o), LatchIdle
       PROVE  TypeOK'
  BY <1>20, <1>l DEF SourceConfirms, FillMined, BidSelected
<1>21. ASSUME NEW r \in rows, Expire(r), LatchIdle PROVE TypeOK'
  <2>1. rows' \subseteq Row
    BY <1>21 DEF Expire, Row
  <2>2. IsFiniteSet(rows')
    BY <1>21, FS_RemoveElement, FS_AddElement DEF Expire
  <2> QED BY <1>21, <2>1, <2>2, <1>l DEF Expire
<1>22. ASSUME Stop \/ ScanEnds \/ StopCompletes, LatchIdle PROVE TypeOK'
  BY <1>22, <1>l DEF Stop, ScanEnds, StopCompletes
<1>23. ASSUME Crash, LatchIdle PROVE TypeOK'
  BY <1>23, <1>l DEF Crash
<1>24. ASSUME Restart, LatchIdle PROVE TypeOK'
  BY <1>24, <1>l DEF Restart
<1> QED BY <1>0, <1>1, <1>2, <1>3, <1>4, <1>5, <1>6, <1>7, <1>8, <1>9, <1>10,
           <1>11, <1>12, <1>13, <1>14, <1>15, <1>16, <1>17, <1>18, <1>19,
           <1>20, <1>21, <1>22, <1>23, <1>24
        DEF Next, Analysis, Execution, Retraction, Networks, Process

(* The state always has its type. *)
THEOREM TypeCorrect == Spec => []TypeOK
BY TypeInit, TypeNext, PTL DEF Spec

-----------------------------------------------------------------------------
(* The inductive invariant: lemmas shared by the actions. *)

(* The state the invariant is about, the type aside. *)
relevant == <<pending, retractions, calls, ledger, books>>

(* No placement stops being in flight. *)
PlacementsKept ==
    \A p \in Orders : InFlight(<<"place", p>>) => InFlight(<<"place", p>>)'

(* No commitment loses its rows, or the row the sweep will find. *)
BooksKept ==
    \A p \in Orders : /\ RowsOf(p) # {} => (RowsOf(p) # {})'
                      /\ Tracked(p) => Tracked(p)'

(* A step that forgets no call, row or loss keeps what it does not extend. *)
LEMMA NothingForgotten ==
    ASSUME IInv,
           PlacementsKept /\ BooksKept,
           lostTrack \subseteq lostTrack'
    PROVE  /\ deposit' \subseteq deposit => DepositsAccountedFor'
           /\ pending' \subseteq pending => PendingHasExecution'
           /\ ToSet(retractions)' \subseteq ToSet(retractions) => QueuedRetractionsRecorded'
           /\ published' \subseteq published => PublishedAccountedFor'
<1>t. /\ deposit \subseteq Orders /\ pending \subseteq Orders /\ published \subseteq Orders
      /\ ToSet(retractions) \subseteq Orders
  BY ElemsOfSeq DEF IInv, TypeOK
<1>1. deposit' \subseteq deposit => DepositsAccountedFor'
  BY <1>t DEF IInv, DepositsAccountedFor, PlacementsKept, BooksKept
<1>2. pending' \subseteq pending => PendingHasExecution'
  BY <1>t DEF IInv, PendingHasExecution, PlacementsKept
<1>3. ToSet(retractions)' \subseteq ToSet(retractions) => QueuedRetractionsRecorded'
  BY <1>t DEF IInv, QueuedRetractionsRecorded, BooksKept
<1>4. published' \subseteq published => PublishedAccountedFor'
  BY <1>t DEF IInv, PublishedAccountedFor, PlacementsKept, BooksKept
<1> QED BY <1>1, <1>2, <1>3, <1>4

(* The blocks reported so far stand: a retraction in one still has no deposit *)
(* but a later or a lost one.                                                 *)
LEMMA LandedUnchanged ==
    ASSUME IInv, landed' = landed, lostTrack \subseteq lostTrack',
           \A p \in Orders :
             /\ p \in deposit' => p \in deposit \/ p \in lostTrack'
             /\ <<"place", p>> \in sending =>
                  <<"place", p>> \in sending' \/ p \notin deposit' \/ p \in lostTrack'
    PROVE  RetractionTookDeposit'
<1> SUFFICES ASSUME NEW i \in DOMAIN landed, landed[i][1] = "retract"
             PROVE  \/ landed[i][2] \notin deposit'
                    \/ landed[i][2] \in lostTrack'
                    \/ <<"place", landed[i][2]>> \in sending'
                    \/ \E j \in DOMAIN landed : j > i /\ landed[j] = <<"place", landed[i][2]>>
  BY DEF RetractionTookDeposit
<1>1. landed[i] \in Calls
  BY ElemsOfSeq DEF IInv, TypeOK
<1>2. landed[i][2] \in Orders
  BY <1>1 DEF Calls
<1> QED BY <1>2 DEF IInv, RetractionTookDeposit

(* Reporting the first block of landed moves the others one place forward. *)
LEMMA LandedTail ==
    ASSUME IInv, landed # << >>, landed' = Tail(landed),
           deposit' = deposit, sending' = sending, lostTrack' = lostTrack
    PROVE  RetractionTookDeposit'
<1>1. landed \in Seq(Calls)
  BY DEF IInv, TypeOK
<1>2. /\ Tail(landed) \in Seq(Calls) /\ Len(landed) \in Nat \ {0}
      /\ DOMAIN landed = 1..Len(landed)
      /\ DOMAIN Tail(landed) = 1..(Len(landed) - 1)
      /\ \A i \in 1..(Len(landed) - 1) : Tail(landed)[i] = landed[i + 1]
  BY <1>1, TailElems, ElemsOfSeq
<1>3. \A i \in 1..(Len(landed) - 1) : i + 1 \in DOMAIN landed
  BY <1>2
<1>4. ASSUME NEW i \in DOMAIN landed', landed'[i][1] = "retract"
      PROVE  \/ landed'[i][2] \notin deposit
             \/ landed'[i][2] \in lostTrack
             \/ <<"place", landed'[i][2]>> \in sending
             \/ \E j \in DOMAIN landed' : j > i /\ landed'[j] = <<"place", landed'[i][2]>>
  <2>1. i \in 1..(Len(landed) - 1) /\ landed'[i] = landed[i + 1]
    BY <1>2
  <2>2. ASSUME NEW k \in DOMAIN landed, k > i + 1, landed[k] = <<"place", landed[i + 1][2]>>
        PROVE  \E j \in DOMAIN landed' : j > i /\ landed'[j] = <<"place", landed'[i][2]>>
    <3>1. k - 1 \in 1..(Len(landed) - 1) /\ k - 1 > i /\ (k - 1) + 1 = k
      BY <1>2, <2>1, <2>2
    <3>2. landed'[k - 1] = landed[k]
      BY <3>1, <1>2
    <3> QED BY <3>1, <3>2, <2>1, <2>2, <1>2
  <2>3. i + 1 \in DOMAIN landed /\ landed[i + 1][1] = "retract"
    BY <2>1, <1>3, <1>4
  <2> QED BY <2>1, <2>2, <2>3 DEF IInv, RetractionTookDeposit
<1> QED BY <1>4 DEF RetractionTookDeposit

-----------------------------------------------------------------------------
(* The inductive invariant: one lemma per group of actions. *)

(* The analysis, a failed preparation and the process's own steps. *)
LEMMA QuietStep == ASSUME IInv, TypeOK', UNCHANGED relevant PROVE IInv'
<1> USE DEF relevant, calls, ledger, books
<1>1. PlacementsKept /\ BooksKept
  BY DEF PlacementsKept, BooksKept, InFlight, RowsOf, Tracked
<1>2. /\ DepositsAccountedFor' /\ PendingHasExecution'
      /\ QueuedRetractionsRecorded' /\ PublishedAccountedFor'
  BY <1>1, NothingForgotten
<1>3. RetractionTookDeposit'
  BY LandedUnchanged
<1>4. PooledPlacementsLost' /\ FillsHaveSource'
  BY DEF IInv, PooledPlacementsLost, FillsHaveSource
<1> QED BY <1>2, <1>3, <1>4 DEF IInv

(* Sending a bid, a fill or a retraction. *)
LEMMA SendStep ==
    ASSUME IInv, TypeOK', NEW o \in Orders, Submit(o) \/ SubmitRetraction(o)
    PROVE  IInv'
<1> USE DEF calls, ledger, books, Submit, SubmitRetraction
<1>1. PlacementsKept /\ BooksKept
  BY DEF PlacementsKept, BooksKept, InFlight, RowsOf, Tracked
<1>2. /\ DepositsAccountedFor' /\ PendingHasExecution'
      /\ QueuedRetractionsRecorded' /\ PublishedAccountedFor'
  BY <1>1, NothingForgotten
<1>3. RetractionTookDeposit'
  BY LandedUnchanged
<1>4. PooledPlacementsLost'
  BY DEF IInv, PooledPlacementsLost
<1>5. FillsHaveSource'
  <2>1. ASSUME NEW p \in Orders, <<"fill", p>> \in sending'
        PROVE  <<"fill", p>> \in sending \/ Dest[p] \notin SolverSelection
    BY <2>1
  <2> QED BY <2>1 DEF IInv, FillsHaveSource
<1> QED BY <1>2, <1>3, <1>4, <1>5 DEF IInv

(* What storing an outcome does to the books and the retraction queue. *)
LEMMA StoreOutcomeBooks ==
    ASSUME TypeOK, QueuedRetractionsRecorded, NEW o \in Orders, NEW b \in BOOLEAN,
           StoreOutcome(o, b)
    PROVE  /\ BooksKept
           /\ (RowsOf(o) # {})' /\ (b => Tracked(o)')
           /\ pending' = pending \ {o}
           /\ QueuedRetractionsRecorded'
<1> USE DEF TypeOK
<1>1. /\ NewRow(o, b).commitment = o /\ NewRow(o, b).success = b
      /\ NewRow(o, b).retracted = FALSE
  BY NewRowType
<1>2. rows' = rows \cup {NewRow(o, b)} /\ pending' = pending \ {o}
  BY DEF StoreOutcome
<1>3. /\ BooksKept
      /\ (RowsOf(o) # {})' /\ (b => Tracked(o)')
  BY <1>1, <1>2 DEF RowsOf, Tracked, BooksKept
<1>4. ToSet(retractions)' \subseteq ToSet(retractions) \cup {o}
  <2>1. ToSet(Append(retractions, o)) = ToSet(retractions) \cup {o}
    BY AppendElems
  <2> QED BY <2>1 DEF StoreOutcome
<1>5. ToSet(retractions) \subseteq Orders
  BY ElemsOfSeq
<1>6. QueuedRetractionsRecorded'
  BY <1>3, <1>4, <1>5 DEF QueuedRetractionsRecorded, BooksKept
<1> QED BY <1>2, <1>3, <1>6

(* The head of landed is reported: the others stay in flight. *)
LEMMA ReportedHead ==
    ASSUME TypeOK, landed # << >>, landed' = Tail(landed), sending' = sending
    PROVE  /\ Head(landed) \in Calls
           /\ \A call : InFlight(call) /\ call # Head(landed) => InFlight(call)'
           /\ ToSet(landed)' \subseteq ToSet(landed)
<1>1. Head(landed) \in Calls /\ ToSet(landed) = ToSet(Tail(landed)) \cup {Head(landed)}
  BY TailElems DEF TypeOK
<1> QED BY <1>1 DEF InFlight

LEMMA BidSucceedsStep ==
    ASSUME IInv, TypeOK', NEW o \in Orders, BidSucceeds(o)
    PROVE  IInv'
<1> USE DEF ledger, BidSucceeds
<1>1. /\ \A call : InFlight(call) /\ call # <<"place", o>> => InFlight(call)'
      /\ ToSet(landed)' \subseteq ToSet(landed)
  BY ReportedHead DEF IInv
<1>2. /\ BooksKept
      /\ (RowsOf(o) # {})' /\ Tracked(o)'
      /\ pending' = pending \ {o} /\ QueuedRetractionsRecorded'
  BY StoreOutcomeBooks DEF IInv
<1>t. deposit \subseteq Orders /\ pending \subseteq Orders /\ published \subseteq Orders
  BY DEF IInv, TypeOK
<1>3. DepositsAccountedFor'
  BY <1>1, <1>2, <1>t DEF IInv, DepositsAccountedFor, PlacementsKept, BooksKept
<1>4. PendingHasExecution'
  BY <1>1, <1>2, <1>t DEF IInv, PendingHasExecution, PlacementsKept
<1>5. PublishedAccountedFor'
  BY <1>1, <1>2, <1>t DEF IInv, PublishedAccountedFor, PlacementsKept, BooksKept
<1>6. RetractionTookDeposit'
  BY LandedTail
<1>7. PooledPlacementsLost' /\ FillsHaveSource'
  BY <1>1 DEF IInv, PooledPlacementsLost, FillsHaveSource
<1> QED BY <1>2, <1>3, <1>4, <1>5, <1>6, <1>7 DEF IInv

LEMMA BidFailsStep ==
    ASSUME IInv, TypeOK', NEW o \in Orders, BidFails(o)
    PROVE  IInv'
<1> USE DEF ledger, BidFails
<1>1. \A call : InFlight(call) /\ call # <<"place", o>> => InFlight(call)'
  BY DEF InFlight
<1>2. /\ BooksKept
      /\ (RowsOf(o) # {})'
      /\ pending' = pending \ {o} /\ QueuedRetractionsRecorded'
  BY StoreOutcomeBooks DEF IInv
<1>3. /\ lostTrack \subseteq lostTrack' /\ (o \in deposit => o \in lostTrack')
      /\ pool' \subseteq pool \cup {<<"place", o>>}
      /\ (<<"place", o>> \in pool' => o \in lostTrack' \/ <<"place", o>> \in pool)
  OBVIOUS
<1>t. deposit \subseteq Orders /\ pending \subseteq Orders /\ published \subseteq Orders
  BY DEF IInv, TypeOK
<1>4. DepositsAccountedFor'
  BY <1>1, <1>2, <1>3, <1>t DEF IInv, DepositsAccountedFor, PlacementsKept, BooksKept
<1>5. PendingHasExecution'
  BY <1>1, <1>2, <1>3, <1>t DEF IInv, PendingHasExecution, PlacementsKept
<1>6. PublishedAccountedFor'
  BY <1>1, <1>2, <1>3, <1>t DEF IInv, PublishedAccountedFor, PlacementsKept, BooksKept
<1>7. RetractionTookDeposit'
  BY <1>3, LandedUnchanged
<1>8. PooledPlacementsLost'
  BY <1>3 DEF IInv, PooledPlacementsLost
<1>9. FillsHaveSource'
  BY <1>3 DEF IInv, FillsHaveSource
<1> QED BY <1>2, <1>4, <1>5, <1>6, <1>7, <1>8, <1>9 DEF IInv

(* A fill or a retraction is given up, or the end of a call nobody waits for. *)
LEMMA GiveUpStep ==
    ASSUME IInv, TypeOK', NEW o \in Orders, FillReturns(o) \/ RetractionFails(o)
    PROVE  IInv'
<1> USE DEF ledger, books, FillReturns, RetractionFails
<1>1. PlacementsKept /\ BooksKept
  BY DEF PlacementsKept, BooksKept, InFlight, RowsOf, Tracked
<1>2. ToSet(retractions)' \subseteq ToSet(retractions)
  <2>1. CASE retractions' = retractions
    BY <2>1
  <2>2. CASE RetractionFails(o)
    <3>1. ToSet(retractions) = ToSet(Tail(retractions)) \cup {Head(retractions)}
      BY <2>2, TailElems DEF Retracting, IInv, TypeOK
    <3> QED BY <2>2, <3>1
  <2> QED BY <2>1, <2>2
<1>3. /\ DepositsAccountedFor' /\ PendingHasExecution'
      /\ QueuedRetractionsRecorded' /\ PublishedAccountedFor'
  BY <1>1, <1>2, NothingForgotten
<1>4. RetractionTookDeposit'
  BY LandedUnchanged
<1>5. PooledPlacementsLost'
  BY DEF IInv, PooledPlacementsLost
<1>6. FillsHaveSource'
  BY DEF IInv, FillsHaveSource
<1> QED BY <1>3, <1>4, <1>5, <1>6 DEF IInv

LEMMA OrderFilledStep ==
    ASSUME IInv, TypeOK', NEW o \in Orders, OrderFilledOnChain(o)
    PROVE  IInv'
<1> USE DEF calls, books, OrderFilledOnChain
<1>1. PlacementsKept /\ BooksKept
  BY DEF PlacementsKept, BooksKept, InFlight, RowsOf, Tracked
<1>2. DepositsAccountedFor' /\ PublishedAccountedFor'
  BY <1>1, NothingForgotten
<1>3. PendingHasExecution'
  <2>1. o \in published \/ Dest[o] \notin SolverSelection
    BY DEF IInv, FillsHaveSource
  <2>2. RowsOf(o) = {} =>
          InFlight(<<"place", o>>) \/ o \in lostTrack \/ Dest[o] \notin SolverSelection
    BY <2>1 DEF IInv, PublishedAccountedFor, PlacementsKept, BooksKept
  <2>3. pending' \subseteq pending \/ (RowsOf(o) = {} /\ pending' = pending \cup {o})
    OBVIOUS
  <2>4. pending \subseteq Orders
    BY DEF IInv, TypeOK
  <2> QED BY <1>1, <2>2, <2>3, <2>4 DEF IInv, PendingHasExecution, PlacementsKept
<1>4. QueuedRetractionsRecorded'
  <2>1. ToSet(Append(retractions, o)) = ToSet(retractions) \cup {o}
    BY AppendElems DEF IInv, TypeOK
  <2>2. ToSet(retractions)' \subseteq ToSet(retractions) \cup {p \in {o} : RowsOf(o) # {}}
    BY <2>1
  <2>3. ToSet(retractions) \subseteq Orders
    BY ElemsOfSeq DEF IInv, TypeOK
  <2> QED BY <1>1, <2>2, <2>3 DEF IInv, QueuedRetractionsRecorded, BooksKept
<1>5. RetractionTookDeposit'
  BY LandedUnchanged
<1>6. PooledPlacementsLost'
  BY DEF IInv, PooledPlacementsLost
<1>7. FillsHaveSource'
  <2>1. \A p \in Orders : fill'[p] # "open" => fill[p] # "open"
    BY DEF IInv, TypeOK
  <2> QED BY <2>1 DEF IInv, FillsHaveSource
<1> QED BY <1>2, <1>3, <1>4, <1>5, <1>6, <1>7 DEF IInv

LEMMA SweepStep == ASSUME IInv, TypeOK', Sweep PROVE IInv'
<1> USE DEF calls, ledger, books
<1>0. UNCHANGED <<pending, sending, landed, pool, deposit, published, fill, rows, lostTrack>>
  BY DEF Sweep
<1>1. PlacementsKept /\ BooksKept
  BY <1>0 DEF PlacementsKept, BooksKept, InFlight, RowsOf, Tracked
<1>2. DepositsAccountedFor' /\ PublishedAccountedFor' /\ PendingHasExecution'
  BY <1>0, <1>1, NothingForgotten
<1>3. QueuedRetractionsRecorded'
  <2> DEFINE n == Cardinality(ExpiredRows)
  <2>1. PICK s \in InCreationOrder(ExpiredRows) :
          retractions' = retractions \o [i \in 1..n |-> s[i].commitment]
    BY DEF Sweep
  <2> DEFINE found == [i \in 1..n |-> s[i].commitment]
  <2>t. rows \subseteq Row /\ IsFiniteSet(rows) /\ retractions \in Seq(Orders)
    BY DEF IInv, TypeOK
  <2>2. n \in Nat
    BY <2>t, FS_Subset, FS_CardinalityType DEF ExpiredRows
  <2>3. \A i \in 1..n : s[i] \in rows /\ s[i].commitment \in Orders
    BY <2>t, ExpiredIsQueued
  <2>4. found \in [1..n -> Orders] /\ \A i \in 1..n : RowsOf(found[i]) # {}
    BY <2>3 DEF RowsOf
  <2>5. retractions' = retractions \o found
    BY <2>1
  <2> HIDE DEF found, n
  <2>6. ToSet(retractions') = ToSet(retractions) \cup ToSet(found)
    BY <2>t, <2>2, <2>4, <2>5, SeqOfFunction, ConcatElems
  <2>7. \A o \in ToSet(found) : RowsOf(o) # {}
    BY <2>4 DEF ToSet
  <2>8. \A o \in ToSet(retractions') : RowsOf(o) # {}
    BY <2>6, <2>7 DEF IInv, QueuedRetractionsRecorded
  <2> QED BY <2>8, <1>0 DEF QueuedRetractionsRecorded, RowsOf
<1>4. RetractionTookDeposit'
  BY <1>0, LandedUnchanged
<1>5. PooledPlacementsLost' /\ FillsHaveSource'
  BY <1>0 DEF IInv, PooledPlacementsLost, FillsHaveSource
<1> QED BY <1>2, <1>3, <1>4, <1>5 DEF IInv

LEMMA RetractionSucceedsStep ==
    ASSUME IInv, TypeOK', NEW o \in Orders, RetractionSucceeds(o)
    PROVE  IInv'
<1> USE DEF ledger
<1>0. /\ UNCHANGED <<pending, sending, pool, deposit, published, fill, lostTrack>>
      /\ landed # << >> /\ Head(landed) = <<"retract", o>> /\ landed' = Tail(landed)
      /\ rows' = MarkRetracted(o)
      /\ retractions # << >> /\ retractions' = Tail(retractions)
  BY DEF RetractionSucceeds, Retracting
<1>t. /\ rows \subseteq Row /\ deposit \subseteq Orders /\ pending \subseteq Orders
      /\ published \subseteq Orders /\ retractions \in Seq(Orders) /\ landed \in Seq(Calls)
  BY DEF IInv, TypeOK
<1>1. /\ \A call : InFlight(call) /\ call # <<"retract", o>> => InFlight(call)'
      /\ ToSet(landed)' \subseteq ToSet(landed)
  BY <1>0, ReportedHead DEF IInv
<1>2. PlacementsKept
  BY <1>1 DEF PlacementsKept
<1>3. \A p \in Orders : /\ RowsOf(p) # {} => (RowsOf(p) # {})'
                        /\ p # o /\ Tracked(p) => Tracked(p)'
  BY <1>0, <1>t, MarkRetractedRows DEF RowsOf, Tracked
<1>4. o \in deposit => InFlight(<<"place", o>>)' \/ o \in lostTrack'
  <2>1. 1 \in DOMAIN landed /\ landed[1] = <<"retract", o>> /\ DOMAIN landed = 1..Len(landed)
    BY <1>0, <1>t, TailElems, ElemsOfSeq
  <2>2. \/ o \notin deposit \/ o \in lostTrack \/ <<"place", o>> \in sending
        \/ \E j \in DOMAIN landed : j > 1 /\ landed[j] = <<"place", o>>
    BY <2>1 DEF IInv, RetractionTookDeposit
  <2>3. ASSUME NEW j \in DOMAIN landed, landed[j] = <<"place", o>>
        PROVE  InFlight(<<"place", o>>)
    <3>1. landed[j] \in ToSet(landed)
      BY <1>t, <2>1, ElemsOfSeq
    <3> QED BY <3>1, <2>3 DEF InFlight
  <2> QED BY <2>2, <2>3, <1>0, <1>2 DEF PlacementsKept, InFlight
<1>5. DepositsAccountedFor'
  <2> SUFFICES ASSUME NEW p \in deposit
               PROVE  InFlight(<<"place", p>>)' \/ Tracked(p)' \/ p \in lostTrack'
    BY <1>0 DEF DepositsAccountedFor
  <2>1. CASE p = o
    BY <2>1, <1>4
  <2>2. CASE p # o
    BY <2>2, <1>0, <1>2, <1>3, <1>t DEF IInv, DepositsAccountedFor, PlacementsKept
  <2> QED BY <2>1, <2>2
<1>6. PendingHasExecution'
  BY <1>0, <1>2, <1>t DEF IInv, PendingHasExecution, PlacementsKept
<1>7. QueuedRetractionsRecorded'
  <2>1. ToSet(retractions)' \subseteq ToSet(retractions) /\ ToSet(retractions) \subseteq Orders
    BY <1>0, <1>t, TailElems, ElemsOfSeq
  <2> QED BY <2>1, <1>3 DEF IInv, QueuedRetractionsRecorded
<1>8. PublishedAccountedFor'
  BY <1>0, <1>2, <1>3, <1>t DEF IInv, PublishedAccountedFor, PlacementsKept
<1>9. RetractionTookDeposit'
  BY <1>0, LandedTail
<1>10. PooledPlacementsLost' /\ FillsHaveSource'
  BY <1>0, <1>1 DEF IInv, PooledPlacementsLost, FillsHaveSource
<1> QED BY <1>5, <1>6, <1>7, <1>8, <1>9, <1>10 DEF IInv

(* What an included extrinsic changes. *)
LEMMA EffectOf ==
    ASSUME NEW call \in Calls, call[1] # "fill", Effect(call)
    PROVE  /\ fill' = fill
           /\ \/ /\ call[1] = "place"
                 /\ deposit' \subseteq deposit \cup {call[2]} /\ deposit \subseteq deposit'
                 /\ published' \subseteq published \cup {call[2]} /\ published \subseteq published'
              \/ /\ call[1] = "retract" /\ deposit' = deposit \ {call[2]}
                 /\ published' = published
BY DEF Effect, ledger

LEMMA IncludeStep ==
    ASSUME IInv, TypeOK', NEW call \in Calls, Include(call)
    PROVE  IInv'
<1> DEFINE o == call[2]
<1> USE DEF books
<1>0. /\ call \in sending /\ call[1] # "fill" /\ Effect(call)
      /\ sending' = sending \ {call} /\ landed' = Append(landed, call)
      /\ UNCHANGED <<pending, retractions, pool, rows, lostTrack>>
  BY DEF Include
<1>t. /\ deposit \subseteq Orders /\ pending \subseteq Orders /\ published \subseteq Orders
      /\ landed \in Seq(Calls) /\ o \in Orders /\ call = <<call[1], o>>
      /\ call[1] \in {"place", "retract"}
  BY <1>0 DEF IInv, TypeOK, Calls
<1>s. /\ Len(landed) \in Nat /\ Len(landed') = Len(landed) + 1
      /\ DOMAIN landed = 1..Len(landed) /\ DOMAIN landed' = 1..(Len(landed) + 1)
      /\ \A i \in 1..Len(landed) : landed'[i] = landed[i]
      /\ landed'[Len(landed) + 1] = call
      /\ ToSet(landed') = ToSet(landed) \cup {call}
  <2>1. landed' \in Seq(Calls)
    BY DEF TypeOK
  <2> QED BY <2>1, <1>0, <1>t, AppendElems, ElemsOfSeq
<1>1. PlacementsKept /\ InFlight(call)'
  BY <1>0, <1>s DEF PlacementsKept, InFlight
<1>2. BooksKept
  BY <1>0 DEF BooksKept, RowsOf, Tracked
<1>3. PendingHasExecution' /\ QueuedRetractionsRecorded'
  BY <1>0, <1>1, <1>2, NothingForgotten
<1>e. /\ fill' = fill
      /\ \/ /\ call[1] = "place"
            /\ deposit' \subseteq deposit \cup {o} /\ deposit \subseteq deposit'
            /\ published' \subseteq published \cup {o} /\ published \subseteq published'
         \/ /\ call[1] = "retract" /\ deposit' = deposit \ {o} /\ published' = published
  BY <1>0, EffectOf
<1>4. DepositsAccountedFor' /\ PublishedAccountedFor'
  <2>1. CASE call[1] = "place"
    <3>1. InFlight(<<"place", o>>)'
      BY <2>1, <1>t, <1>1
    <3>2. DepositsAccountedFor'
      BY <3>1, <2>1, <1>0, <1>1, <1>2, <1>e, <1>t
         DEF IInv, DepositsAccountedFor, PlacementsKept, BooksKept
    <3>3. PublishedAccountedFor'
      BY <3>1, <2>1, <1>0, <1>1, <1>2, <1>e, <1>t
         DEF IInv, PublishedAccountedFor, PlacementsKept, BooksKept
    <3> QED BY <3>2, <3>3
  <2>2. CASE call[1] = "retract"
    BY <2>2, <1>0, <1>1, <1>2, <1>e, NothingForgotten
  <2> QED BY <2>1, <2>2, <1>t
<1>5. RetractionTookDeposit'
  <2> SUFFICES ASSUME NEW i \in 1..(Len(landed) + 1), landed'[i][1] = "retract"
               PROVE  \/ landed'[i][2] \notin deposit'
                      \/ landed'[i][2] \in lostTrack'
                      \/ <<"place", landed'[i][2]>> \in sending'
                      \/ \E j \in 1..(Len(landed) + 1) :
                            j > i /\ landed'[j] = <<"place", landed'[i][2]>>
    BY <1>s DEF RetractionTookDeposit
  <2>1. CASE i = Len(landed) + 1
    BY <2>1, <1>s, <1>e
  <2>2. CASE i \in 1..Len(landed)
    <3> DEFINE p == landed[i][2]
    <3>1. landed'[i] = landed[i] /\ landed[i][1] = "retract" /\ i \in DOMAIN landed
      BY <2>2, <1>s
    <3>2. \/ p \notin deposit \/ p \in lostTrack \/ <<"place", p>> \in sending
          \/ \E j \in DOMAIN landed : j > i /\ landed[j] = <<"place", p>>
      BY <3>1 DEF IInv, RetractionTookDeposit
    <3>3. CASE call = <<"place", p>>
      <4>1. Len(landed) + 1 \in 1..(Len(landed) + 1) /\ Len(landed) + 1 > i
        BY <2>2, <1>s
      <4> QED BY <4>1, <3>1, <3>3, <1>s
    <3>4. CASE call # <<"place", p>>
      <4>1. p \notin deposit => p \notin deposit'
        BY <3>4, <1>e, <1>t
      <4>2. <<"place", p>> \in sending => <<"place", p>> \in sending'
        BY <3>4, <1>0
      <4>3. ASSUME NEW j \in DOMAIN landed, j > i, landed[j] = <<"place", p>>
            PROVE  j \in 1..(Len(landed) + 1) /\ landed'[j] = <<"place", p>>
        BY <4>3, <1>s
      <4> QED BY <4>1, <4>2, <4>3, <3>1, <3>2, <1>0
    <3> QED BY <3>3, <3>4
  <2> QED BY <2>1, <2>2, <1>s
<1>6. PooledPlacementsLost'
  BY <1>0 DEF IInv, PooledPlacementsLost
<1>7. FillsHaveSource'
  BY <1>0, <1>s, <1>e, <1>t DEF IInv, FillsHaveSource
<1> QED BY <1>3, <1>4, <1>5, <1>6, <1>7 DEF IInv

LEMMA MissInclusionStep ==
    ASSUME IInv, TypeOK', NEW k \in DOMAIN landed, MissInclusion(k)
    PROVE  IInv'
<1> USE DEF ledger, books
<1>0. /\ sending' = sending \cup {landed[k]} /\ landed' = RemoveAt(landed, k)
      /\ UNCHANGED <<pending, retractions, pool, deposit, published, fill, rows, lostTrack>>
  BY DEF MissInclusion
<1>s. /\ Len(landed) \in Nat /\ DOMAIN landed = 1..Len(landed)
      /\ DOMAIN landed' = 1..(Len(landed) - 1)
      /\ \A i \in 1..(Len(landed) - 1) : landed'[i] = IF i < k THEN landed[i] ELSE landed[i + 1]
      /\ ToSet(landed) = ToSet(landed') \cup {landed[k]}
  <2>1. landed \in Seq(Calls) /\ landed' \in Seq(Calls)
    BY DEF IInv, TypeOK
  <2>2. DOMAIN landed = 1..Len(landed) /\ Len(landed) \in Nat
    BY <2>1, ElemsOfSeq
  <2>3. /\ Len(RemoveAt(landed, k)) = Len(landed) - 1
        /\ \A j \in 1..(Len(landed) - 1) :
              RemoveAt(landed, k)[j] = IF j < k THEN landed[j] ELSE landed[j + 1]
        /\ ToSet(landed) = ToSet(RemoveAt(landed, k)) \cup {landed[k]}
    <3>1. k \in 1..Len(landed)
      BY <2>2
    <3>2. Len(RemoveAt(landed, k)) = Len(landed) - 1
      BY <2>1, <3>1, RemoveAtElems
    <3>3. ASSUME NEW j \in 1..(Len(landed) - 1)
          PROVE  RemoveAt(landed, k)[j] = IF j < k THEN landed[j] ELSE landed[j + 1]
      BY <2>1, <3>1, RemoveAtElems
    <3>4. ToSet(landed) = ToSet(RemoveAt(landed, k)) \cup {landed[k]}
      BY <2>1, <3>1, RemoveAtElems
    <3> QED BY <3>2, <3>3, <3>4
  <2>4. DOMAIN landed' = 1..Len(landed')
    BY <2>1, ElemsOfSeq
  <2> QED BY <2>2, <2>3, <2>4, <1>0
<1>1. PlacementsKept /\ BooksKept
  BY <1>0, <1>s DEF PlacementsKept, BooksKept, InFlight, RowsOf, Tracked
<1>2. /\ DepositsAccountedFor' /\ PendingHasExecution'
      /\ QueuedRetractionsRecorded' /\ PublishedAccountedFor'
  BY <1>0, <1>1, NothingForgotten
<1>3. RetractionTookDeposit'
  <2> SUFFICES ASSUME NEW i \in 1..(Len(landed) - 1), landed'[i][1] = "retract"
               PROVE  \/ landed'[i][2] \notin deposit
                      \/ landed'[i][2] \in lostTrack
                      \/ <<"place", landed'[i][2]>> \in sending'
                      \/ \E j \in 1..(Len(landed) - 1) :
                            j > i /\ landed'[j] = <<"place", landed'[i][2]>>
    BY <1>0, <1>s DEF RetractionTookDeposit
  <2>1. PICK h \in DOMAIN landed : landed'[i] = landed[h] /\ h # k /\ h = (IF i < k THEN i ELSE i + 1)
    <3>1. CASE i < k
      BY <3>1, <1>s
    <3>2. CASE ~(i < k)
      BY <3>2, <1>s
    <3> QED BY <3>1, <3>2
  <2> DEFINE p == landed[h][2]
  <2>2. \/ p \notin deposit \/ p \in lostTrack \/ <<"place", p>> \in sending
        \/ \E j \in DOMAIN landed : j > h /\ landed[j] = <<"place", p>>
    BY <2>1 DEF IInv, RetractionTookDeposit
  <2>3. ASSUME NEW j \in DOMAIN landed, j > h, landed[j] = <<"place", p>>
        PROVE  \/ <<"place", p>> \in sending'
               \/ \E m \in 1..(Len(landed) - 1) : m > i /\ landed'[m] = <<"place", p>>
    <3>1. CASE j = k
      BY <3>1, <2>3, <1>0
    <3>2. CASE j < k
      <4>1. j \in 1..(Len(landed) - 1) /\ j > i
        BY <3>2, <2>1, <2>3, <1>s
      <4> QED BY <4>1, <3>2, <2>3, <1>s
    <3>3. CASE j > k
      <4>1. j - 1 \in 1..(Len(landed) - 1) /\ j - 1 > i /\ ~(j - 1 < k) /\ (j - 1) + 1 = j
        BY <3>3, <2>1, <2>3, <1>s
      <4> QED BY <4>1, <2>3, <1>s
    <3> QED BY <3>1, <3>2, <3>3, <1>s
  <2> QED BY <2>1, <2>2, <2>3, <1>0
<1>4. PooledPlacementsLost' /\ FillsHaveSource'
  BY <1>0, <1>s DEF IInv, PooledPlacementsLost, FillsHaveSource
<1> QED BY <1>2, <1>3, <1>4 DEF IInv

(* A fill of ours is logged on the destination chain. *)
LEMMA FillLoggedStep ==
    ASSUME IInv, TypeOK', NEW o \in Orders, FillMined(o) \/ BidSelected(o)
    PROVE  IInv'
<1> USE DEF calls, books, FillMined, BidSelected
<1>1. PlacementsKept /\ BooksKept
  BY DEF PlacementsKept, BooksKept, InFlight, RowsOf, Tracked
<1>2. /\ DepositsAccountedFor' /\ PendingHasExecution'
      /\ QueuedRetractionsRecorded' /\ PublishedAccountedFor'
  BY <1>1, NothingForgotten
<1>3. RetractionTookDeposit'
  BY LandedUnchanged
<1>4. PooledPlacementsLost'
  BY DEF IInv, PooledPlacementsLost
<1>5. FillsHaveSource'
  <2>1. \A p \in Orders : fill'[p] # "open" => p = o \/ fill[p] # "open"
    BY DEF IInv, TypeOK
  <2>2. o \in published \/ Dest[o] \notin SolverSelection
    BY DEF IInv, FillsHaveSource
  <2>3. pool' \subseteq pool
    OBVIOUS
  <2> QED BY <2>1, <2>2, <2>3 DEF IInv, FillsHaveSource
<1> QED BY <1>2, <1>3, <1>4, <1>5 DEF IInv

(* A late inclusion or the end of an extrinsic nobody waits for. *)
LEMMA PoolStep ==
    ASSUME IInv, TypeOK', NEW call \in Calls, PoolInclude(call) \/ PoolDrop(call)
    PROVE  IInv'
<1> DEFINE o == call[2]
<1> USE DEF books
<1>0. /\ call \in pool /\ pool' \subseteq pool
      /\ UNCHANGED <<pending, retractions, sending, landed, rows, lostTrack>>
  BY DEF PoolInclude, PoolDrop
<1>t. /\ deposit \subseteq Orders /\ published \subseteq Orders
      /\ o \in Orders /\ call = <<call[1], o>>
  BY DEF IInv, TypeOK, Calls
<1>e. /\ fill' = fill
      /\ deposit' \subseteq deposit \/ (o \in lostTrack /\ deposit' \subseteq deposit \cup {o})
      /\ published' \subseteq published \/ (o \in lostTrack /\ published' \subseteq published \cup {o})
      /\ published \subseteq published'
  <2>1. CASE PoolDrop(call)
    BY <2>1 DEF PoolDrop, ledger
  <2>2. CASE PoolInclude(call)
    <3>1. call[1] = "place" => o \in lostTrack
      BY <1>0, <1>t DEF IInv, PooledPlacementsLost
    <3> QED BY <2>2, <3>1, EffectOf DEF PoolInclude
  <2> QED BY <2>1, <2>2
<1>1. PlacementsKept /\ BooksKept
  BY <1>0 DEF PlacementsKept, BooksKept, InFlight, RowsOf, Tracked
<1>2. PendingHasExecution' /\ QueuedRetractionsRecorded'
  BY <1>0, <1>1, NothingForgotten
<1>3. DepositsAccountedFor'
  BY <1>0, <1>1, <1>e, <1>t DEF IInv, DepositsAccountedFor, PlacementsKept, BooksKept
<1>4. PublishedAccountedFor'
  BY <1>0, <1>1, <1>e, <1>t DEF IInv, PublishedAccountedFor, PlacementsKept, BooksKept
<1>5. RetractionTookDeposit'
  BY <1>0, <1>e, LandedUnchanged
<1>6. PooledPlacementsLost'
  BY <1>0 DEF IInv, PooledPlacementsLost
<1>7. FillsHaveSource'
  BY <1>0, <1>e DEF IInv, FillsHaveSource
<1> QED BY <1>2, <1>3, <1>4, <1>5, <1>6, <1>7 DEF IInv

LEMMA ExpireStep ==
    ASSUME IInv, TypeOK', NEW r \in rows, Expire(r)
    PROVE  IInv'
<1> USE DEF calls, ledger
<1>0. /\ rows' = (rows \ {r}) \cup {[r EXCEPT !.expired = TRUE]}
      /\ UNCHANGED <<pending, retractions, sending, landed, pool, deposit, published,
                     fill, lostTrack>>
  BY DEF Expire
<1>1. PlacementsKept
  BY <1>0 DEF PlacementsKept, InFlight
<1>2. BooksKept
  <2> DEFINE aged(q) == IF q = r THEN [r EXCEPT !.expired = TRUE] ELSE q
  <2>1. ASSUME NEW q \in rows
        PROVE  /\ aged(q) \in rows' /\ aged(q).commitment = q.commitment
               /\ aged(q).success = q.success /\ aged(q).retracted = q.retracted
    <3>1. q \in Row
      BY DEF IInv, TypeOK
    <3> QED BY <3>1, <1>0 DEF Row
  <2> HIDE DEF aged
  <2> QED BY <2>1 DEF BooksKept, RowsOf, Tracked
<1>3. /\ DepositsAccountedFor' /\ PendingHasExecution'
      /\ QueuedRetractionsRecorded' /\ PublishedAccountedFor'
  BY <1>0, <1>1, <1>2, NothingForgotten
<1>4. RetractionTookDeposit'
  BY <1>0, LandedUnchanged
<1>5. PooledPlacementsLost' /\ FillsHaveSource'
  BY <1>0 DEF IInv, PooledPlacementsLost, FillsHaveSource
<1> QED BY <1>3, <1>4, <1>5 DEF IInv

LEMMA CrashStep == ASSUME IInv, TypeOK', Crash PROVE IInv'
<1> USE DEF ledger
<1>0. /\ pending' = {} /\ retractions' = << >> /\ sending' = {} /\ landed' = << >>
      /\ pool' = pool \cup sending
      /\ lostTrack' = lostTrack \cup {o \in Orders : InFlight(<<"place", o>>)}
      /\ UNCHANGED <<deposit, published, fill, rows>>
  BY DEF Crash
<1>1. BooksKept
  BY <1>0 DEF BooksKept, RowsOf, Tracked
<1>2. DepositsAccountedFor' /\ PublishedAccountedFor'
  <2>1. deposit \subseteq Orders /\ published \subseteq Orders
    BY DEF IInv, TypeOK
  <2> QED BY <1>0, <1>1, <2>1 DEF IInv, DepositsAccountedFor, PublishedAccountedFor, BooksKept
<1>3. PendingHasExecution' /\ QueuedRetractionsRecorded' /\ RetractionTookDeposit'
  <2>1. ToSet(retractions)' = {} /\ DOMAIN landed' = {}
    BY <1>0 DEF ToSet
  <2> QED BY <2>1, <1>0
          DEF PendingHasExecution, QueuedRetractionsRecorded, RetractionTookDeposit
<1>4. PooledPlacementsLost'
  BY <1>0 DEF IInv, PooledPlacementsLost, InFlight
<1>5. FillsHaveSource'
  <2>1. ToSet(landed)' = {}
    BY <1>0 DEF ToSet
  <2> QED BY <2>1, <1>0 DEF IInv, FillsHaveSource
<1> QED BY <1>2, <1>3, <1>4, <1>5 DEF IInv

LEMMA RestartStep == ASSUME IInv, TypeOK', Restart PROVE IInv'
<1> USE DEF calls, books, Restart
<1>1. PlacementsKept /\ BooksKept
  BY DEF PlacementsKept, BooksKept, InFlight, RowsOf, Tracked
<1>2. /\ DepositsAccountedFor' /\ PendingHasExecution'
      /\ QueuedRetractionsRecorded' /\ PublishedAccountedFor'
  BY <1>1, NothingForgotten
<1>3. RetractionTookDeposit'
  BY LandedUnchanged
<1>4. PooledPlacementsLost'
  BY DEF IInv, PooledPlacementsLost
<1>5. FillsHaveSource'
  <2>1. \A p \in Orders : fill'[p] # "open" => fill[p] # "open"
    OBVIOUS
  <2> QED BY <2>1 DEF IInv, FillsHaveSource
<1> QED BY <1>2, <1>3, <1>4, <1>5 DEF IInv

-----------------------------------------------------------------------------
LEMMA InvInit == Init => IInv
<1> SUFFICES ASSUME Init PROVE IInv
  OBVIOUS
<1>1. TypeOK
  BY TypeInit
<1>2. /\ DepositsAccountedFor /\ PendingHasExecution /\ QueuedRetractionsRecorded
      /\ RetractionTookDeposit /\ PooledPlacementsLost /\ PublishedAccountedFor
  BY DEF Init, DepositsAccountedFor, PendingHasExecution, QueuedRetractionsRecorded, ToSet,
         RetractionTookDeposit, PooledPlacementsLost, PublishedAccountedFor
<1>3. FillsHaveSource
  BY DEF Init, FillsHaveSource, ToSet
<1> QED BY <1>1, <1>2, <1>3 DEF IInv

LEMMA InvNext == IInv /\ [Next]_vars => IInv'
<1> SUFFICES ASSUME IInv, [Next]_vars PROVE IInv'
  OBVIOUS
<1>t. TypeOK'
  BY TypeNext DEF IInv
<1>1. CASE UNCHANGED vars
  BY <1>1, <1>t, QuietStep DEF vars, relevant
<1>2. CASE Analysis
  <2>1. UNCHANGED relevant
    BY <1>2 DEF Analysis, relevant, StartAnalysis, DetectOrder, Confirm, StopWaiting,
                Evaluate, FinishAnalysis, DropOrder
  <2> QED BY <2>1, <1>t, QuietStep
<1>3. CASE Execution
  <2>1. ASSUME NEW o \in Orders, PrepareFails(o) PROVE UNCHANGED relevant
    BY <2>1 DEF PrepareFails, relevant
  <2> QED BY <1>3, <1>t, <2>1, QuietStep, SendStep, BidSucceedsStep, BidFailsStep, GiveUpStep
          DEF Execution
<1>4. CASE Retraction
  BY <1>4, <1>t, SweepStep, OrderFilledStep, SendStep, RetractionSucceedsStep, GiveUpStep
     DEF Retraction
<1>5. CASE Networks
  <2>1. ASSUME NEW o \in Orders, SourceConfirms(o) PROVE UNCHANGED relevant
    BY <2>1 DEF SourceConfirms, relevant
  <2> QED BY <1>5, <1>t, <2>1, QuietStep, IncludeStep, PoolStep, MissInclusionStep,
             FillLoggedStep, ExpireStep
          DEF Networks
<1>6. CASE Process
  <2>1. Stop \/ ScanEnds \/ StopCompletes => UNCHANGED relevant
    BY DEF Stop, ScanEnds, StopCompletes, relevant
  <2> QED BY <1>6, <1>t, <2>1, QuietStep, CrashStep, RestartStep DEF Process
<1> QED BY <1>1, <1>2, <1>3, <1>4, <1>5, <1>6 DEF Next

(* The inductive invariant holds in every reachable state. *)
THEOREM InvariantCorrect == Spec => []IInv
BY InvInit, InvNext, PTL DEF Spec

(* filler.ts:485-551: whatever the interleaving of executions, fills, sweeps, *)
(* retractions, crashes and restarts, every deposit left on Hyperbridge is    *)
(* in flight, found by a later sweep, or one whose outcome could not be known.*)
THEOREM DepositsSafe == Spec => []DepositsAccountedFor
<1>1. IInv => DepositsAccountedFor
  BY DEF IInv
<1> QED BY <1>1, InvariantCorrect, PTL

(* filler.ts:497, :522: a deferred retraction is always of an order that is   *)
(* being placed, of a direct fill, or of a placement the books lost.          *)
THEOREM DeferredRetractionsWake == Spec => []PendingHasExecution
<1>1. IInv => PendingHasExecution
  BY DEF IInv
<1> QED BY <1>1, InvariantCorrect, PTL

(* filler.ts:534-551: no retraction is sent for an order without a row.       *)
THEOREM RetractionsRecorded == Spec => []QueuedRetractionsRecorded
<1>1. IInv => QueuedRetractionsRecorded
  BY DEF IInv
<1> QED BY <1>1, InvariantCorrect, PTL

-----------------------------------------------------------------------------
(* The analysis: no order of a watched chain is found profitable or queued.   *)

(* Each half of an analysis is true to what it stands for. *)
AnalysisSound ==
    \A o \in Orders : eval[o] = "profitable" => Dest[o] \notin WatchOnly

QueuesSound ==
    \A c \in Chains : \A o \in ToSet(chainQueues[c]) : Dest[o] \notin WatchOnly

(* No bid or fill of a watched chain is on its way. *)
CallsSound ==
    \A call \in sending \cup ToSet(landed) \cup pool :
        call[1] # "retract" => Dest[call[2]] \notin WatchOnly

PipelineInv ==
    /\ TypeOK
    /\ AnalysisSound
    /\ QueuesSound
    /\ CallsSound
    /\ WatchOnlyNeverFilled

(* What runs on a chain's queue is not of a watched chain. *)
LEMMA ExecutingUnwatched ==
    ASSUME PipelineInv, NEW o \in Orders, Executing(o)
    PROVE  Dest[o] \notin WatchOnly
<1>1. Dest[o] \in Chains /\ chainQueues[Dest[o]] \in Seq(Orders)
  BY FillerAssumption DEF PipelineInv, TypeOK
<1>2. o \in ToSet(chainQueues[Dest[o]])
  BY <1>1, TailElems DEF Executing
<1> QED BY <1>1, <1>2 DEF PipelineInv, QueuesSound

(* The end of a task takes the head of a queue. *)
LEMMA PopKeepsQueues ==
    ASSUME PipelineInv, NEW o \in Orders, Executing(o), PopChain(o),
           UNCHANGED eval
    PROVE  AnalysisSound' /\ QueuesSound'
<1>1. Dest[o] \in Chains /\ chainQueues \in [Chains -> Seq(Orders)]
  BY FillerAssumption DEF PipelineInv, TypeOK
<1>2. chainQueues[Dest[o]] \in Seq(Orders) /\ chainQueues[Dest[o]] # << >>
  BY <1>1 DEF Executing
<1>3. ToSet(Tail(chainQueues[Dest[o]])) \subseteq ToSet(chainQueues[Dest[o]])
  BY <1>2, TailElems
<1>4. \A c \in Chains :
        chainQueues'[c] = IF c = Dest[o] THEN Tail(chainQueues[c]) ELSE chainQueues[c]
  BY <1>1 DEF PopChain
<1>5. \A c \in Chains : ToSet(chainQueues'[c]) \subseteq ToSet(chainQueues[c])
  BY <1>3, <1>4
<1>6. QueuesSound'
  BY <1>5 DEF PipelineInv, QueuesSound
<1>7. AnalysisSound'
  BY DEF PipelineInv, AnalysisSound
<1> QED BY <1>6, <1>7

(* A step that leaves the analysis and the queues alone. *)
LEMMA QueuesStay ==
    ASSUME PipelineInv, UNCHANGED <<eval, chainQueues>>
    PROVE  AnalysisSound' /\ QueuesSound'
BY DEF PipelineInv, AnalysisSound, QueuesSound

(* A step that sends nothing new and brings no new bid or fill of ours. *)
LEMMA CallsStay ==
    ASSUME PipelineInv,
           sending' \subseteq sending \cup ToSet(landed) \cup pool,
           ToSet(landed') \subseteq sending \cup ToSet(landed) \cup pool,
           pool' \subseteq sending \cup ToSet(landed) \cup pool,
           UNCHANGED <<published, fill>>
    PROVE  CallsSound' /\ WatchOnlyNeverFilled'
<1>1. CallsSound'
  BY DEF PipelineInv, CallsSound
<1>2. WatchOnlyNeverFilled'
  BY DEF PipelineInv, WatchOnlyNeverFilled
<1> QED BY <1>1, <1>2

LEMMA AnalysisKeepsPipeline ==
    ASSUME PipelineInv, Analysis
    PROVE  AnalysisSound' /\ QueuesSound'
<1>1. /\ eval \in [Orders -> {"none", "running", "profitable", "rejected"}]
      /\ chainQueues \in [Chains -> Seq(Orders)] /\ globalQueue \in Seq(Orders)
      /\ AnalysisSound /\ QueuesSound
  BY DEF PipelineInv, TypeOK
<1>2. CASE StartAnalysis
  <2>1. Head(globalQueue) \in Orders
    BY <1>1, <1>2, TailElems DEF StartAnalysis
  <2>2. AnalysisSound'
    BY <1>1, <1>2, <2>1 DEF StartAnalysis, AnalysisSound
  <2>3. QueuesSound'
    BY <1>1, <1>2 DEF StartAnalysis, QueuesSound
  <2> QED BY <2>2, <2>3
<1>3. ASSUME NEW o \in Orders, DetectOrder(o)
      PROVE  AnalysisSound' /\ QueuesSound'
  BY <1>3, QueuesStay DEF DetectOrder
<1>4. ASSUME NEW o \in Orders, Confirm(o) \/ StopWaiting(o) \/ Evaluate(o) \/ DropOrder(o)
      PROVE  AnalysisSound' /\ QueuesSound'
  <2>1. chainQueues' = chainQueues
    BY <1>4 DEF Confirm, StopWaiting, Evaluate, DropOrder
  <2>2. QueuesSound'
    BY <1>1, <2>1 DEF QueuesSound
  <2>3. AnalysisSound'
    <3>1. CASE Confirm(o)
      BY <1>1, <3>1 DEF Confirm, AnalysisSound
    <3>2. CASE StopWaiting(o)
      BY <1>1, <3>2 DEF StopWaiting, AnalysisSound
    <3>3. CASE Evaluate(o)
      BY <1>1, <3>3 DEF Evaluate, AnalysisSound
    <3>4. CASE DropOrder(o)
      BY <1>1, <3>4 DEF DropOrder, AnalysisSound
    <3> QED BY <1>4, <3>1, <3>2, <3>3, <3>4
  <2> QED BY <2>2, <2>3
<1>5. ASSUME NEW o \in Orders, FinishAnalysis(o)
      PROVE  AnalysisSound' /\ QueuesSound'
  <2>1. AnalysisSound'
    BY <1>1, <1>5 DEF FinishAnalysis, AnalysisSound
  <2>2. eval[o] = "profitable" => Dest[o] \notin WatchOnly
    BY <1>1, <1>5 DEF FinishAnalysis, AnalysisSound
  <2>3. Dest[o] \in Chains /\ chainQueues[Dest[o]] \in Seq(Orders)
    BY <1>1, FillerAssumption
  <2>4. ToSet(Append(chainQueues[Dest[o]], o)) = ToSet(chainQueues[Dest[o]]) \cup {o}
    BY <2>3, AppendElems
  <2>5. ASSUME NEW c \in Chains
        PROVE  ToSet(chainQueues'[c]) \subseteq
                ToSet(chainQueues[c]) \cup (IF eval[o] = "profitable" THEN {o} ELSE {})
    <3>1. chainQueues'[c] = IF eval[o] = "profitable" /\ c = Dest[o]
                            THEN Append(chainQueues[c], o) ELSE chainQueues[c]
      BY <1>1, <1>5, <2>3 DEF FinishAnalysis
    <3> QED BY <2>4, <3>1
  <2>6. QueuesSound'
    BY <1>1, <2>2, <2>5 DEF QueuesSound
  <2> QED BY <2>1, <2>6
<1> QED BY <1>2, <1>3, <1>4, <1>5 DEF Analysis

LEMMA ExecutionKeepsPipeline ==
    ASSUME PipelineInv, Execution
    PROVE  AnalysisSound' /\ QueuesSound' /\ CallsSound' /\ WatchOnlyNeverFilled'
<1>1. PICK o \in Orders : \/ Submit(o) \/ PrepareFails(o) \/ BidSucceeds(o)
                          \/ BidFails(o) \/ FillReturns(o)
  BY DEF Execution
<1>2. Executing(o) /\ Dest[o] \notin WatchOnly
  BY <1>1, ExecutingUnwatched DEF Submit, PrepareFails, BidSucceeds, BidFails, FillReturns
<1>3. CASE Submit(o)
  <2>1. AnalysisSound' /\ QueuesSound'
    BY <1>3, QueuesStay DEF Submit, pipeline
  <2>2. WatchOnlyNeverFilled'
    BY <1>3 DEF Submit, ledger, PipelineInv, WatchOnlyNeverFilled
  <2>3. CallsSound'
    BY <1>2, <1>3 DEF Submit, PipelineInv, CallsSound
  <2> QED BY <2>1, <2>2, <2>3
<1>4. ASSUME PrepareFails(o) \/ BidSucceeds(o) \/ BidFails(o) \/ FillReturns(o)
      PROVE  AnalysisSound' /\ QueuesSound' /\ CallsSound' /\ WatchOnlyNeverFilled'
  <2>1. PopChain(o) /\ UNCHANGED <<eval, published, fill>>
    BY <1>4 DEF PrepareFails, BidSucceeds, BidFails, FillReturns, StoreOutcome, pipeline, ledger
  <2>2. ToSet(landed') \subseteq ToSet(landed)
    <3>1. CASE BidSucceeds(o)
      <4>1. landed \in Seq(Calls) /\ landed # << >> /\ landed' = Tail(landed)
        BY <3>1 DEF BidSucceeds, PipelineInv, TypeOK
      <4> QED BY <4>1, TailElems
    <3>2. CASE ~BidSucceeds(o)
      BY <1>4, <3>2 DEF PrepareFails, BidFails, FillReturns, calls
    <3> QED BY <3>1, <3>2
  <2>3. sending' \subseteq sending /\ pool' \subseteq pool \cup sending
    BY <1>4 DEF PrepareFails, BidSucceeds, BidFails, FillReturns, calls
  <2>4. CallsSound' /\ WatchOnlyNeverFilled'
    BY <2>1, <2>2, <2>3, CallsStay
  <2> QED BY <1>2, <2>1, <2>4, PopKeepsQueues
<1> QED BY <1>1, <1>3, <1>4

LEMMA RetractionKeepsPipeline ==
    ASSUME PipelineInv, Retraction
    PROVE  AnalysisSound' /\ QueuesSound' /\ CallsSound' /\ WatchOnlyNeverFilled'
<1>1. AnalysisSound' /\ QueuesSound'
  BY QueuesStay DEF Retraction, Sweep, OrderFilledOnChain, SubmitRetraction,
                    RetractionSucceeds, RetractionFails, pipeline
<1>2. CASE Sweep
  BY <1>1, <1>2, CallsStay DEF Sweep, calls, ledger
<1>3. ASSUME NEW o \in Orders, OrderFilledOnChain(o)
      PROVE  CallsSound' /\ WatchOnlyNeverFilled'
  <2>1. fill \in [Orders -> {"open", "logged", "handled", "missed"}]
    BY DEF PipelineInv, TypeOK
  <2>2. fill' = [fill EXCEPT ![o] = "handled"] /\ fill[o] = "logged" /\ published' = published
        /\ UNCHANGED <<sending, landed, pool>>
    BY <1>3 DEF OrderFilledOnChain, calls
  <2>3. WatchOnlyNeverFilled'
    BY <2>1, <2>2 DEF PipelineInv, WatchOnlyNeverFilled
  <2>4. CallsSound'
    BY <2>2 DEF PipelineInv, CallsSound
  <2> QED BY <2>3, <2>4
<1>4. ASSUME NEW o \in Orders, SubmitRetraction(o)
      PROVE  CallsSound' /\ WatchOnlyNeverFilled'
  <2>1. WatchOnlyNeverFilled'
    BY <1>4 DEF SubmitRetraction, ledger, PipelineInv, WatchOnlyNeverFilled
  <2>2. CallsSound'
    BY <1>4 DEF SubmitRetraction, PipelineInv, CallsSound
  <2> QED BY <2>1, <2>2
<1>5. ASSUME NEW o \in Orders, RetractionSucceeds(o)
      PROVE  CallsSound' /\ WatchOnlyNeverFilled'
  <2>1. landed \in Seq(Calls) /\ landed # << >> /\ landed' = Tail(landed)
    BY <1>5 DEF RetractionSucceeds, PipelineInv, TypeOK
  <2>2. ToSet(landed') \subseteq ToSet(landed)
    BY <2>1, TailElems
  <2> QED BY <1>5, <2>2, CallsStay DEF RetractionSucceeds, ledger
<1>6. ASSUME NEW o \in Orders, RetractionFails(o)
      PROVE  CallsSound' /\ WatchOnlyNeverFilled'
  BY <1>6, CallsStay DEF RetractionFails, ledger
<1> QED BY <1>1, <1>2, <1>3, <1>4, <1>5, <1>6 DEF Retraction

LEMMA NetworksKeepPipeline ==
    ASSUME PipelineInv, Networks
    PROVE  AnalysisSound' /\ QueuesSound' /\ CallsSound' /\ WatchOnlyNeverFilled'
<1>1. AnalysisSound' /\ QueuesSound'
  BY QueuesStay DEF Networks, Include, PoolInclude, PoolDrop, MissInclusion,
                    SourceConfirms, FillMined, BidSelected, Expire, pipeline
<1>2. /\ landed \in Seq(Calls) /\ sending \subseteq Calls /\ pool \subseteq Calls
      /\ fill \in [Orders -> {"open", "logged", "handled", "missed"}]
      /\ CallsSound /\ WatchOnlyNeverFilled
  BY DEF PipelineInv, TypeOK
<1>3. ASSUME NEW call \in sending \cup pool, call[1] # "fill", Effect(call)
      PROVE  WatchOnlyNeverFilled'
  <2>1. fill' = fill /\ published' \subseteq published \cup {call[2]}
    BY <1>3 DEF Effect, ledger
  <2>2. call[1] = "retract" => published' = published
    BY <1>3 DEF Effect
  <2>3. call[1] # "retract" => Dest[call[2]] \notin WatchOnly
    BY <1>2, <1>3 DEF CallsSound
  <2> QED BY <1>2, <2>1, <2>2, <2>3 DEF WatchOnlyNeverFilled
<1>4. ASSUME NEW call \in Calls, Include(call)
      PROVE  CallsSound' /\ WatchOnlyNeverFilled'
  <2>1. /\ call \in sending /\ call[1] # "fill" /\ Effect(call)
        /\ sending' = sending \ {call} /\ landed' = Append(landed, call) /\ pool' = pool
    BY <1>4 DEF Include
  <2>2. ToSet(landed') = ToSet(landed) \cup {call}
    BY <1>2, <2>1, AppendElems
  <2>3. WatchOnlyNeverFilled'
    BY <1>3, <2>1
  <2>4. CallsSound'
    BY <1>2, <2>1, <2>2 DEF CallsSound
  <2> QED BY <2>3, <2>4
<1>5. ASSUME NEW call \in Calls, PoolInclude(call)
      PROVE  CallsSound' /\ WatchOnlyNeverFilled'
  <2>1. /\ call \in pool /\ call[1] # "fill" /\ Effect(call)
        /\ pool' = pool \ {call} /\ UNCHANGED <<sending, landed>>
    BY <1>5 DEF PoolInclude
  <2>2. WatchOnlyNeverFilled'
    BY <1>3, <2>1
  <2>3. CallsSound'
    BY <1>2, <2>1 DEF CallsSound
  <2> QED BY <2>2, <2>3
<1>6. ASSUME NEW call \in Calls, PoolDrop(call)
      PROVE  CallsSound' /\ WatchOnlyNeverFilled'
  BY <1>6, CallsStay DEF PoolDrop, ledger
<1>7. ASSUME NEW i \in DOMAIN landed, MissInclusion(i)
      PROVE  CallsSound' /\ WatchOnlyNeverFilled'
  <2>1. i \in 1..Len(landed)
    BY <1>2, ElemsOfSeq
  <2>2. landed[i] \in ToSet(landed) /\ ToSet(RemoveAt(landed, i)) \subseteq ToSet(landed)
    BY <1>2, <2>1, ElemsOfSeq, RemoveAtElems
  <2> QED BY <1>7, <2>2, CallsStay DEF MissInclusion, ledger
<1>8. ASSUME NEW o \in Orders, FillMined(o) \/ BidSelected(o)
      PROVE  CallsSound' /\ WatchOnlyNeverFilled'
  <2>1. Dest[o] \notin WatchOnly
    <3>1. CASE FillMined(o)
      <4>1. <<"fill", o>> \in sending \cup pool
        BY <3>1 DEF FillMined
      <4> QED BY <1>2, <4>1 DEF CallsSound
    <3>2. CASE BidSelected(o)
      BY <1>2, <3>2 DEF BidSelected, WatchOnlyNeverFilled
    <3> QED BY <1>8, <3>1, <3>2
  <2>2. /\ fill' = [fill EXCEPT ![o] = "logged"] /\ published' = published
        /\ UNCHANGED <<sending, landed>> /\ pool' \subseteq pool
    BY <1>8 DEF FillMined, BidSelected, calls
  <2>3. WatchOnlyNeverFilled'
    BY <1>2, <2>1, <2>2 DEF WatchOnlyNeverFilled
  <2>4. CallsSound'
    BY <1>2, <2>2 DEF CallsSound
  <2> QED BY <2>3, <2>4
<1>9. ASSUME NEW r \in rows, Expire(r)
      PROVE  CallsSound' /\ WatchOnlyNeverFilled'
  BY <1>9, CallsStay DEF Expire, calls, ledger
<1>10. ASSUME NEW o \in Orders, SourceConfirms(o)
       PROVE  CallsSound' /\ WatchOnlyNeverFilled'
  BY <1>10, CallsStay DEF SourceConfirms, calls, ledger
<1> QED BY <1>1, <1>4, <1>5, <1>6, <1>7, <1>8, <1>9, <1>10 DEF Networks

LEMMA ProcessKeepsPipeline ==
    ASSUME PipelineInv, Process
    PROVE  AnalysisSound' /\ QueuesSound' /\ CallsSound' /\ WatchOnlyNeverFilled'
<1>1. CASE Stop \/ ScanEnds \/ StopCompletes
  BY <1>1, QueuesStay, CallsStay DEF Stop, ScanEnds, StopCompletes, pipeline, calls, ledger
<1>2. CASE Crash
  <2>1. AnalysisSound'
    BY <1>2 DEF Crash, AnalysisSound
  <2>2. QueuesSound'
    BY <1>2 DEF Crash, QueuesSound, ToSet
  <2>3. ToSet(landed') = {}
    BY <1>2 DEF Crash, ToSet
  <2>4. CallsSound' /\ WatchOnlyNeverFilled'
    BY <1>2, <2>3, CallsStay DEF Crash, ledger
  <2> QED BY <2>1, <2>2, <2>4
<1>3. CASE Restart
  <2>1. PICK missed \in SUBSET {o \in Orders : fill[o] = "logged"} :
            fill' = [o \in Orders |-> IF o \in missed THEN "missed" ELSE fill[o]]
    BY <1>3 DEF Restart
  <2>2. \A o \in Orders : fill[o] = "open" => fill'[o] = "open"
    BY <2>1
  <2>3. WatchOnlyNeverFilled'
    BY <1>3, <2>2 DEF Restart, PipelineInv, WatchOnlyNeverFilled
  <2>4. CallsSound'
    BY <1>3 DEF Restart, calls, PipelineInv, CallsSound
  <2> QED BY <1>3, <2>3, <2>4, QueuesStay DEF Restart, pipeline
<1> QED BY <1>1, <1>2, <1>3 DEF Process

LEMMA PipelineInit == Init => PipelineInv
<1> SUFFICES ASSUME Init PROVE PipelineInv
  OBVIOUS
<1>1. TypeOK
  BY TypeInit
<1>2. AnalysisSound /\ WatchOnlyNeverFilled
  BY DEF Init, AnalysisSound, WatchOnlyNeverFilled
<1>3. QueuesSound /\ CallsSound
  BY DEF Init, QueuesSound, CallsSound, ToSet
<1> QED BY <1>1, <1>2, <1>3 DEF PipelineInv

LEMMA PipelineNext == PipelineInv /\ [Next]_vars => PipelineInv'
<1> SUFFICES ASSUME PipelineInv, [Next]_vars PROVE PipelineInv'
  OBVIOUS
<1>t. TypeOK'
  BY TypeNext DEF PipelineInv
<1>1. CASE UNCHANGED vars
  <2>1. AnalysisSound' /\ QueuesSound'
    BY <1>1, QueuesStay DEF vars, pipeline
  <2>2. CallsSound' /\ WatchOnlyNeverFilled'
    BY <1>1, CallsStay DEF vars, calls, ledger
  <2> QED BY <1>t, <2>1, <2>2 DEF PipelineInv
<1>2. CASE Analysis
  <2>1. UNCHANGED <<sending, landed, pool, published, fill>>
    BY <1>2 DEF Analysis, StartAnalysis, DetectOrder, Confirm, StopWaiting,
                Evaluate, FinishAnalysis, DropOrder, calls, ledger
  <2>2. CallsSound' /\ WatchOnlyNeverFilled'
    BY <2>1, CallsStay
  <2> QED BY <1>t, <1>2, <2>2, AnalysisKeepsPipeline DEF PipelineInv
<1>3. CASE Execution
  BY <1>t, <1>3, ExecutionKeepsPipeline DEF PipelineInv
<1>4. CASE Retraction
  BY <1>t, <1>4, RetractionKeepsPipeline DEF PipelineInv
<1>5. CASE Networks
  BY <1>t, <1>5, NetworksKeepPipeline DEF PipelineInv
<1>6. CASE Process
  BY <1>t, <1>6, ProcessKeepsPipeline DEF PipelineInv
<1> QED BY <1>1, <1>2, <1>3, <1>4, <1>5, <1>6 DEF Next

(* The invariant of the analysis, the queues and the calls. *)
THEOREM PipelineCorrect == Spec => []PipelineInv
BY PipelineInit, PipelineNext, PTL DEF Spec

(* filler.ts:406: no bid or fill of this filler reaches a watched chain,      *)
(* whatever is retried, left in the pool or restarted.                        *)
THEOREM WatchedChainsLeftAlone == Spec => []WatchOnlyNeverFilled
<1>1. PipelineInv => WatchOnlyNeverFilled
  BY DEF PipelineInv
<1> QED BY <1>1, PipelineCorrect, PTL
=============================================================================
