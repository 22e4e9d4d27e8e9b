--------------------------- MODULE BidStorageProofs ---------------------------
(***************************************************************************)
(* Proofs about BidStorage, for any length of the day, any age and any     *)
(* numbers of rows and commitments.                                        *)
(***************************************************************************)
EXTENDS BidStorage, FiniteSetTheorems, TLAPS

Row == [id : Nat, commitment : Commitments, success : BOOLEAN,
        createdAt : Nat, retracted : BOOLEAN, retractedAt : Nat]

(* Ids are given in the order of storage, timestamps do not decrease with     *)
(* them, and what is marked of a commitment is what was stored first.         *)
IInv ==
    /\ TypeOK
    /\ IsFiniteSet(rows)
    /\ \A r \in rows : r.id < Cardinality(rows) /\ r.createdAt <= now
    /\ \A r, q \in rows : r.id = q.id => r = q
    /\ \A r, q \in rows : r.id < q.id => r.createdAt <= q.createdAt
    /\ \A r, q \in rows :
        r.commitment = q.commitment /\ r.retracted /\ ~q.retracted => r.id < q.id

-----------------------------------------------------------------------------
(* A day of a later instant is no earlier day. *)
LEMMA DayIsMonotone ==
    ASSUME NEW a \in Nat, NEW b \in Nat, a <= b
    PROVE  Day(a) <= Day(b)
<1>1. TicksPerDay \in Nat /\ TicksPerDay > 0
  BY StorageAssumption
<1> QED BY <1>1 DEF Day

(* What UPDATE makes of a row. *)
Marked(c, r) ==
    IF r.commitment = c /\ ~r.retracted
    THEN [r EXCEPT !.retracted = TRUE, !.retractedAt = now] ELSE r

(* Marking keeps what identifies a row, and leaves a retracted row alone. *)
LEMMA MarkedRow ==
    ASSUME NEW c \in Commitments, NEW r \in Row, now \in Nat
    PROVE  /\ Marked(c, r) \in Row
           /\ Marked(c, r).id = r.id
           /\ Marked(c, r).commitment = r.commitment
           /\ Marked(c, r).createdAt = r.createdAt
           /\ Marked(c, r).retracted <=> r.retracted \/ r.commitment = c
           /\ r.retracted => Marked(c, r) = r
BY DEF Marked, Row

(* Marking a commitment maps the rows one to one. *)
LEMMA MarkIsBijection ==
    ASSUME NEW c \in Commitments, IInv, MarkBidAsRetracted(c)
    PROVE  /\ rows' = {Marked(c, r) : r \in rows}
           /\ IsFiniteSet(rows') /\ Cardinality(rows') = Cardinality(rows)
<1> DEFINE f == [r \in rows |-> Marked(c, r)]
<1>1. rows \subseteq Row /\ now \in Nat
  BY DEF IInv, TypeOK, Row
<1>2. rows' = {Marked(c, r) : r \in rows}
  BY DEF MarkBidAsRetracted, Marked
<1>3. ASSUME NEW r \in rows, NEW q \in rows, f[r] = f[q]
      PROVE  r = q
  <2>1. r.id = q.id
    BY <1>1, <1>3, MarkedRow
  <2> QED BY <2>1 DEF IInv
<1>4. f \in Bijection(rows, rows')
  BY <1>2, <1>3 DEF Bijection, Injection, Surjection, IsInjective
<1>5. IsFiniteSet(rows)
  BY DEF IInv
<1>6. ExistsBijection(rows, rows')
  BY <1>4 DEF ExistsBijection
<1>7. IsFiniteSet(rows') /\ Cardinality(rows') = Cardinality(rows)
  BY <1>5, <1>6, FS_Bijection
<1> QED BY <1>2, <1>7

-----------------------------------------------------------------------------
LEMMA InitIInv == Init => IInv
<1> SUFFICES ASSUME Init PROVE IInv
  OBVIOUS
<1>1. IsFiniteSet(rows) /\ Cardinality(rows) = 0
  BY FS_EmptySet DEF Init
<1> QED BY <1>1, StorageAssumption DEF Init, IInv, TypeOK

LEMMA StoreKeepsIInv ==
    ASSUME IInv, NEW c \in Commitments, NEW success \in BOOLEAN, StoreBid(c, success)
    PROVE  IInv'
<1> DEFINE new == [id |-> Cardinality(rows), commitment |-> c, success |-> success,
                   createdAt |-> now, retracted |-> FALSE, retractedAt |-> 0]
<1>1. rows' = rows \cup {new} /\ now' = now
  BY DEF StoreBid
<1>2. IsFiniteSet(rows) /\ Cardinality(rows) \in Nat
  BY FS_CardinalityType DEF IInv
<1>3. rows \subseteq Row /\ now \in Nat
  BY DEF IInv, TypeOK, Row
<1>4. new \in Row
  BY <1>2, <1>3 DEF Row
<1>5. \A r \in rows : r.id < new.id /\ r.createdAt <= new.createdAt
  BY DEF IInv
<1>6. new \notin rows
  BY <1>2, <1>5
<1>7. IsFiniteSet(rows') /\ Cardinality(rows') = Cardinality(rows) + 1
  BY <1>1, <1>2, <1>6, FS_AddElement
<1>8. TypeOK'
  BY <1>1, <1>3, <1>4 DEF TypeOK, Row
<1>9. \A r \in rows' : r.id < Cardinality(rows') /\ r.createdAt <= now'
  <2>1. \A r \in rows : r.id < Cardinality(rows) /\ r.createdAt <= now /\ r.id \in Nat
    BY <1>3 DEF IInv, Row
  <2>2. new.id < Cardinality(rows) + 1 /\ new.createdAt <= now
    BY <1>2, <1>3
  <2>3. \A r \in rows : r.id < Cardinality(rows) + 1
    BY <2>1, <1>2
  <2> QED BY <1>1, <1>7, <2>1, <2>2, <2>3
<1>10. \A r, q \in rows' : r.id = q.id => r = q
  <2>1. \A r \in rows : r.id # new.id
    BY <1>5, <1>3, <1>2 DEF Row
  <2> QED BY <1>1, <2>1 DEF IInv
<1>11. \A r, q \in rows' : r.id < q.id => r.createdAt <= q.createdAt
  <2>1. \A r \in rows : ~(new.id < r.id)
    BY <1>5, <1>3, <1>2 DEF Row
  <2>2. ~(new.id < new.id)
    BY <1>2
  <2> QED BY <1>1, <1>5, <2>1, <2>2 DEF IInv
<1>12. \A r, q \in rows' :
         r.commitment = q.commitment /\ r.retracted /\ ~q.retracted => r.id < q.id
  BY <1>1, <1>5 DEF IInv
<1> QED BY <1>7, <1>8, <1>9, <1>10, <1>11, <1>12 DEF IInv

LEMMA MarkKeepsIInv ==
    ASSUME IInv, NEW c \in Commitments, MarkBidAsRetracted(c)
    PROVE  IInv'
<1>1. rows \subseteq Row /\ now \in Nat /\ now' = now
  BY DEF IInv, TypeOK, Row, MarkBidAsRetracted
<1>2. /\ rows' = {Marked(c, r) : r \in rows}
      /\ IsFiniteSet(rows') /\ Cardinality(rows') = Cardinality(rows)
  BY MarkIsBijection
<1>3. \A r \in rows' : \E p \in rows :
        /\ r = Marked(c, p) /\ r \in Row
        /\ r.id = p.id /\ r.commitment = p.commitment /\ r.createdAt = p.createdAt
        /\ r.retracted <=> p.retracted \/ p.commitment = c
  BY <1>1, <1>2, MarkedRow
<1>4. TypeOK'
  BY <1>1, <1>3 DEF TypeOK, Row
<1>5. \A r \in rows' : r.id < Cardinality(rows') /\ r.createdAt <= now'
  BY <1>1, <1>2, <1>3 DEF IInv
<1>6. \A r, q \in rows' : r.id = q.id => r = q
  BY <1>3 DEF IInv
<1>7. \A r, q \in rows' : r.id < q.id => r.createdAt <= q.createdAt
  BY <1>3 DEF IInv
<1>8. \A r, q \in rows' :
        r.commitment = q.commitment /\ r.retracted /\ ~q.retracted => r.id < q.id
  BY <1>3 DEF IInv
<1> QED BY <1>2, <1>4, <1>5, <1>6, <1>7, <1>8 DEF IInv

LEMMA StepKeepsIInv == IInv /\ [Next]_vars => IInv'
<1> SUFFICES ASSUME IInv, [Next]_vars PROVE IInv'
  OBVIOUS
<1>1. CASE Tick
  <2>1. now \in Nat /\ rows \subseteq Row
    BY DEF IInv, TypeOK, Row
  <2>2. now' = now + 1 /\ rows' = rows
    BY <1>1 DEF Tick
  <2>3. \A r \in rows : r.createdAt <= now'
    BY <2>1, <2>2 DEF IInv, Row
  <2> QED BY <2>1, <2>2, <2>3 DEF IInv, TypeOK
<1>2. ASSUME NEW c \in Commitments, NEW success \in BOOLEAN, StoreBid(c, success)
      PROVE  IInv'
  BY <1>2, StoreKeepsIInv
<1>3. ASSUME NEW c \in Commitments, MarkBidAsRetracted(c)
      PROVE  IInv'
  BY <1>3, MarkKeepsIInv
<1>4. CASE UNCHANGED vars
  BY <1>4 DEF vars, IInv, TypeOK
<1> QED BY <1>1, <1>2, <1>3, <1>4 DEF Next

(* The invariant holds in every reachable state. *)
THEOREM InvariantHolds == Spec => []IInv
<1>1. IInv /\ [Next]_vars => IInv'
  BY StepKeepsIInv
<1> QED BY <1>1, InitIInv, PTL DEF Spec

(* Rows and the clock have their types. *)
THEOREM TypeCorrect == Spec => []TypeOK
<1>1. IInv => TypeOK
  BY DEF IInv
<1> QED BY <1>1, InvariantHolds, PTL

-----------------------------------------------------------------------------
(* No stale bid escapes the sweep, on whatever days it was stored and is      *)
(* looked for: text and instants disagree in one direction only.              *)
THEOREM NoStaleBidEscapes == Spec => []StaleBidsAreFound
<1>1. ASSUME IInv, NEW r \in UnretractedSuccessfulBids, now - r.createdAt > MaxAge
      PROVE  r \in ExpiredUnretractedBids
  <2>1. r \in rows /\ r.createdAt \in Nat /\ now \in Nat /\ MaxAge \in Nat
    BY <1>1, StorageAssumption DEF UnretractedSuccessfulBids, IInv, TypeOK
  <2>2. now - MaxAge \in Nat /\ r.createdAt <= now - MaxAge
    BY <1>1, <2>1
  <2>3. Day(r.createdAt) <= Day(now - MaxAge)
    BY <2>1, <2>2, DayIsMonotone
  <2> QED BY <1>1, <2>3 DEF ExpiredUnretractedBids, TextBefore
<1>2. IInv => StaleBidsAreFound
  BY <1>1 DEF StaleBidsAreFound
<1> QED BY <1>2, InvariantHolds, PTL

(* A commitment that is reported as retracted has no row left to recover, but *)
(* for one stored in the same instant since.                                  *)
THEOREM RetractionsAreComplete == Spec => []RetractedReportedOnce
<1>1. ASSUME IInv, NEW c \in Commitments, NEW r \in BidsByCommitment(c), r.retracted,
             NEW q \in UnretractedSuccessfulBids, q.commitment = c
      PROVE  q.id > r.id /\ q.createdAt = r.createdAt
  <2>1. /\ r \in rows /\ q \in rows /\ r.commitment = c /\ ~q.retracted
        /\ q.createdAt <= r.createdAt
    BY <1>1 DEF BidsByCommitment, UnretractedSuccessfulBids
  <2>2. r.id < q.id
    BY <1>1, <2>1 DEF IInv
  <2>3. r.createdAt <= q.createdAt
    BY <1>1, <2>1, <2>2 DEF IInv
  <2>4. r.id \in Nat /\ q.id \in Nat /\ r.createdAt \in Nat /\ q.createdAt \in Nat
    BY <1>1, <2>1 DEF IInv, TypeOK
  <2> QED BY <2>1, <2>2, <2>3, <2>4
<1>2. IInv => RetractedReportedOnce
  BY <1>1 DEF RetractedReportedOnce
<1> QED BY <1>2, InvariantHolds, PTL

(* Nothing rewrites a row that is retracted. *)
THEOREM RetractionsAreFinal == Spec => RetractionIsFinal
<1>1. ASSUME IInv, [Next]_vars, NEW r \in rows, r.retracted
      PROVE  r \in rows'
  <2>1. CASE Tick \/ UNCHANGED vars
    BY <2>1 DEF Tick, vars
  <2>2. ASSUME NEW c \in Commitments, NEW success \in BOOLEAN, StoreBid(c, success)
        PROVE  r \in rows'
    BY <2>2 DEF StoreBid
  <2>3. ASSUME NEW c \in Commitments, MarkBidAsRetracted(c)
        PROVE  r \in rows'
    <3>1. r \in Row /\ now \in Nat
      BY <1>1 DEF IInv, TypeOK, Row
    <3>2. Marked(c, r) = r
      BY <1>1, <3>1, MarkedRow
    <3>3. rows' = {Marked(c, p) : p \in rows}
      BY <1>1, <2>3, MarkIsBijection
    <3> QED BY <3>2, <3>3
  <2> QED BY <1>1, <2>1, <2>2, <2>3 DEF Next
<1>2. IInv /\ [Next]_vars => [\A r \in rows : r.retracted => r \in rows']_vars
  BY <1>1
<1> QED BY <1>2, InvariantHolds, PTL DEF Spec, RetractionIsFinal
=============================================================================
