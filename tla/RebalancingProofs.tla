------------------------- MODULE RebalancingProofs -------------------------
(* Proofs about Rebalancing: what the greedy matching gives for every set of  *)
(* deficits and surpluses, and that an undisturbed check keeps the bases.     *)
EXTENDS Rebalancing, FiniteSetTheorems, TLAPS

-----------------------------------------------------------------------------
(* Induction on the subsets of a finite set. *)

(* A family that holds a subset whenever it holds all smaller ones holds all. *)
LEMMA SubsetInduction ==
    ASSUME NEW S, IsFiniteSet(S), NEW G,
           \A T \in SUBSET S : (\A U \in SUBSET T : U # T => U \in G) => T \in G
    PROVE  \A T \in SUBSET S : T \in G
<1> DEFINE Bad == {T \in SUBSET S : T \notin G}
<1>1. SUFFICES ASSUME Bad # {} PROVE FALSE
    OBVIOUS
<1>2. IsWellFoundedOn(StrictSubsetOrdering(S), SUBSET S)
    BY FS_StrictSubsetOrderingWellFounded, FS_FiniteSubsetsOfFinite
<1>3. PICK T \in Bad : \A U \in Bad : ~(<<U, T>> \in StrictSubsetOrdering(S))
    <2>1. Bad \subseteq SUBSET S
        OBVIOUS
    <2> HIDE DEF Bad
    <2>. QED
        BY <1>1, <1>2, <2>1, WFMin
<1>4. ASSUME NEW U \in SUBSET T, U # T PROVE U \in G
    BY <1>3, <1>4 DEF StrictSubsetOrdering
<1>. QED
    BY <1>3, <1>4

(* A family that holds the empty set, and with a set also the set with one    *)
(* more element, holds all.                                                   *)
LEMMA ElementInduction ==
    ASSUME NEW S, IsFiniteSet(S), NEW G, {} \in G,
           \A T \in SUBSET S : \A x \in S \ T : T \in G => T \cup {x} \in G
    PROVE  S \in G
<1>1. ASSUME NEW T \in SUBSET S, \A U \in SUBSET T : U # T => U \in G PROVE T \in G
    <2>1. CASE T = {}
        BY <2>1
    <2>2. CASE T # {}
        <3>1. PICK x \in T : TRUE
            BY <2>2
        <3>2. T \ {x} \in G /\ T = (T \ {x}) \cup {x} /\ x \in S \ (T \ {x}) /\ T \ {x} \in SUBSET S
            BY <1>1, <3>1
        <3>. QED
            BY <3>2
    <2>. QED
        BY <2>1, <2>2
<1>. QED
    BY <1>1, SubsetInduction

(* A set of naturals with zero and the successors of its elements has all.    *)
LEMMA NaturalInduction ==
    ASSUME NEW G, 0 \in G, \A n \in Nat : n \in G => n + 1 \in G
    PROVE  \A n \in Nat : n \in G
<1> DEFINE Bad == {n \in Nat : n \notin G}
<1>1. SUFFICES ASSUME Bad # {} PROVE FALSE
    OBVIOUS
<1>2. PICK n \in Bad : \A m \in Bad : ~(<<m, n>> \in OpToRel(<, Nat))
    <2>1. Bad \subseteq Nat
        OBVIOUS
    <2> HIDE DEF Bad
    <2>. QED
        BY <1>1, <2>1, NatLessThanWellFounded, WFMin
<1>3. n \in Nat /\ n \notin G
    BY <1>2
<1>4. n # 0
    BY <1>3
<1>5. n - 1 \in Nat /\ n - 1 < n /\ (n - 1) + 1 = n
    BY <1>3, <1>4
<1>6. n - 1 \in G
    BY <1>2, <1>3, <1>5 DEF OpToRel
<1>. QED
    BY <1>3, <1>5, <1>6

-----------------------------------------------------------------------------
(* Sums of a function over a finite set. *)

Pick(s) == CHOOSE y \in s : TRUE

SumStep(f, g, s) == IF s = {} THEN 0 ELSE f[Pick(s)] + g[s \ {Pick(s)}]

SumRule(f, S, g) == \A s \in SUBSET S : g[s] = SumStep(f, g, s)

(* The sum is the value of a function that adds an element of its choice.     *)
LEMMA SumRecursion ==
    ASSUME NEW f, NEW S, IsFiniteSet(S)
    PROVE  \E g : SumRule(f, S, g) /\ SumFunctionOnSet(f, S) = g[S]
<1> DEFINE Until(n, g) == \A s \in SUBSET S : Cardinality(s) < n => g[s] = SumStep(f, g, s)
           G == {n \in Nat : \E g : Until(n, g)}
<1>1. \A s \in SUBSET S : IsFiniteSet(s) /\ Cardinality(s) \in Nat
    BY FS_Subset, FS_CardinalityType
<1>2. 0 \in G
    BY <1>1
<1>3. ASSUME NEW n \in Nat, n \in G PROVE n + 1 \in G
    <2>1. PICK g : Until(n, g)
        BY <1>3
    <2> DEFINE h == [s \in SUBSET S |-> SumStep(f, g, s)]
    <2>2. ASSUME NEW s \in SUBSET S, Cardinality(s) < n + 1 PROVE h[s] = SumStep(f, h, s)
        <3>1. CASE s = {}
            BY <3>1 DEF SumStep
        <3>2. CASE s # {}
            <4>1. Pick(s) \in s
                BY <3>2 DEF Pick
            <4>2. s \ {Pick(s)} \in SUBSET S
                OBVIOUS
            <4>3. Cardinality(s \ {Pick(s)}) < n
                BY <1>1, <2>2, <4>1, FS_RemoveElement
            <4>4. h[s \ {Pick(s)}] = g[s \ {Pick(s)}]
                BY <2>1, <4>2, <4>3
            <4>. QED
                BY <4>4 DEF SumStep
        <3>. QED
            BY <3>1, <3>2
    <2>3. Until(n + 1, h)
        BY <2>2
    <2> HIDE DEF Until, h
    <2>. QED
        BY <2>3
<1>4. Cardinality(S) + 1 \in G
    <2> HIDE DEF G
    <2>. QED
        BY <1>1, <1>2, <1>3, NaturalInduction
<1>5. PICK g : Until(Cardinality(S) + 1, g)
    BY <1>4
<1>6. \A s \in SUBSET S : g[s] = SumStep(f, g, s)
    BY <1>1, <1>5, FS_Subset
<1> DEFINE h == [s \in SUBSET S |-> g[s]]
<1>7. h = [s \in SUBSET S |-> IF s = {} THEN 0 ELSE f[Pick(s)] + h[s \ {Pick(s)}]]
    <2>1. ASSUME NEW s \in SUBSET S PROVE g[s] = IF s = {} THEN 0 ELSE f[Pick(s)] + h[s \ {Pick(s)}]
        <3>1. s \ {Pick(s)} \in SUBSET S
            OBVIOUS
        <3>. QED
            BY <1>6, <3>1 DEF SumStep
    <2>. QED
        BY <2>1
<1> DEFINE iter == CHOOSE i : i = [s \in SUBSET S |-> IF s = {} THEN 0 ELSE f[Pick(s)] + i[s \ {Pick(s)}]]
<1> HIDE DEF h
<1>8. iter = [s \in SUBSET S |-> IF s = {} THEN 0 ELSE f[Pick(s)] + iter[s \ {Pick(s)}]]
    BY <1>7
<1>9. SumFunctionOnSet(f, S) = iter[S]
    BY DEF SumFunctionOnSet, FoldFunctionOnSet, MapThenFoldSet, Pick
<1> HIDE DEF iter
<1>10. SumRule(f, S, iter)
    BY <1>8 DEF SumRule, SumStep
<1>. QED
    BY <1>9, <1>10

(* Two such functions agree on the sets on which both are defined, whenever   *)
(* the functions that are summed agree.                                       *)
LEMMA SumRuleUnique ==
    ASSUME NEW f, NEW e, NEW S, NEW T, IsFiniteSet(S), T \subseteq S,
           \A x \in T : f[x] = e[x],
           NEW g, SumRule(f, S, g), NEW h, SumRule(e, T, h)
    PROVE  \A s \in SUBSET T : g[s] = h[s]
<1> DEFINE G == {s \in SUBSET T : g[s] = h[s]}
<1>1. IsFiniteSet(T)
    BY FS_Subset
<1>2. ASSUME NEW s \in SUBSET T, \A u \in SUBSET s : u # s => u \in G PROVE s \in G
    <2>1. g[s] = SumStep(f, g, s) /\ h[s] = SumStep(e, h, s)
        BY DEF SumRule
    <2>2. CASE s = {}
        BY <2>1, <2>2 DEF SumStep
    <2>3. CASE s # {}
        <3>1. Pick(s) \in s
            BY <2>3 DEF Pick
        <3>2. s \ {Pick(s)} \in G
            BY <1>2, <3>1
        <3>. QED
            BY <2>1, <3>1, <3>2 DEF SumStep
    <2>. QED
        BY <2>2, <2>3
<1> HIDE DEF G
<1>3. \A s \in SUBSET T : s \in G
    BY <1>1, <1>2, SubsetInduction
<1>. QED
    BY <1>3 DEF G

LEMMA SumOfNone == ASSUME NEW f PROVE SumFunctionOnSet(f, {}) = 0
<1>1. PICK g : SumRule(f, {}, g) /\ SumFunctionOnSet(f, {}) = g[{}]
    BY SumRecursion, FS_EmptySet
<1>. QED
    BY <1>1 DEF SumRule, SumStep

(* The sum depends on the values on the set.                                  *)
LEMMA SumOfEqual ==
    ASSUME NEW f, NEW e, NEW S, IsFiniteSet(S), \A x \in S : f[x] = e[x]
    PROVE  SumFunctionOnSet(f, S) = SumFunctionOnSet(e, S)
<1>1. PICK g : SumRule(f, S, g) /\ SumFunctionOnSet(f, S) = g[S]
    BY SumRecursion
<1>2. PICK h : SumRule(e, S, h) /\ SumFunctionOnSet(e, S) = h[S]
    BY SumRecursion
<1>3. \A s \in SUBSET S : g[s] = h[s]
    BY <1>1, <1>2, SumRuleUnique
<1>. QED
    BY <1>1, <1>2, <1>3

LEMMA SumOfChosen ==
    ASSUME NEW f, NEW S, IsFiniteSet(S), S # {}
    PROVE  SumFunctionOnSet(f, S) = f[Pick(S)] + SumFunctionOnSet(f, S \ {Pick(S)})
<1> DEFINE T == S \ {Pick(S)}
<1>1. PICK g : SumRule(f, S, g) /\ SumFunctionOnSet(f, S) = g[S]
    BY SumRecursion
<1>2. IsFiniteSet(T) /\ T \subseteq S
    BY FS_Subset
<1>3. PICK h : SumRule(f, T, h) /\ SumFunctionOnSet(f, T) = h[T]
    BY <1>2, SumRecursion
<1>4. g[T] = h[T]
    <2> HIDE DEF T
    <2>. QED
        BY <1>1, <1>2, <1>3, SumRuleUnique
<1>5. g[S] = f[Pick(S)] + g[T]
    BY <1>1 DEF SumRule, SumStep
<1>. QED
    BY <1>1, <1>3, <1>4, <1>5

LEMMA SumIsInteger ==
    ASSUME NEW f, NEW S, IsFiniteSet(S), \A x \in S : f[x] \in Int
    PROVE  SumFunctionOnSet(f, S) \in Int
<1> DEFINE G == {T \in SUBSET S : SumFunctionOnSet(f, T) \in Int}
<1>1. ASSUME NEW T \in SUBSET S, \A U \in SUBSET T : U # T => U \in G PROVE T \in G
    <2>1. CASE T = {}
        BY <2>1, SumOfNone
    <2>2. CASE T # {}
        <3>1. Pick(T) \in T
            BY <2>2 DEF Pick
        <3>2. T \ {Pick(T)} \in G
            BY <1>1, <3>1
        <3>3. SumFunctionOnSet(f, T) = f[Pick(T)] + SumFunctionOnSet(f, T \ {Pick(T)})
            BY <2>2, SumOfChosen, FS_Subset
        <3>. QED
            BY <3>1, <3>2, <3>3
    <2>. QED
        BY <2>1, <2>2
<1> HIDE DEF G
<1>2. \A T \in SUBSET S : T \in G
    BY <1>1, SubsetInduction
<1>. QED
    BY <1>2 DEF G

(* Any element can be taken out of a sum.                                     *)
LEMMA SumWithout ==
    ASSUME NEW f, NEW S, IsFiniteSet(S), \A x \in S : f[x] \in Int
    PROVE  \A x \in S : SumFunctionOnSet(f, S) = f[x] + SumFunctionOnSet(f, S \ {x})
<1> DEFINE Sum(T) == SumFunctionOnSet(f, T)
           G == {T \in SUBSET S : \A x \in T : Sum(T) = f[x] + Sum(T \ {x})}
<1>1. \A T \in SUBSET S : IsFiniteSet(T) /\ Sum(T) \in Int
    BY SumIsInteger, FS_Subset
<1>2. \A T \in SUBSET S : T # {} => Sum(T) = f[Pick(T)] + Sum(T \ {Pick(T)})
    BY <1>1, SumOfChosen
<1>3. ASSUME NEW T \in SUBSET S, \A U \in SUBSET T : U # T => U \in G PROVE T \in G
    <2> DEFINE c == Pick(T)
    <2>1. ASSUME NEW x \in T PROVE Sum(T) = f[x] + Sum(T \ {x})
        <3>1. c \in T
            BY <2>1 DEF Pick
        <3>2. CASE x = c
            BY <1>2, <3>2
        <3>3. CASE x # c
            <4>1. T \ {c} \in G /\ T \ {x} \in G
                BY <1>3, <3>1
            <4>2. (T \ {c}) \ {x} = (T \ {x}) \ {c}
                OBVIOUS
            <4>3. Sum(T \ {c}) = f[x] + Sum((T \ {x}) \ {c})
                BY <3>3, <4>1, <4>2
            <4>4. Sum(T \ {x}) = f[c] + Sum((T \ {x}) \ {c})
                BY <3>1, <3>3, <4>1
            <4>5. Sum((T \ {x}) \ {c}) \in Int /\ f[c] \in Int /\ f[x] \in Int
                BY <1>1, <3>1
            <4>6. Sum(T) = f[c] + Sum(T \ {c})
                BY <1>2, <3>1
            <4> HIDE DEF Sum, c
            <4>. QED
                BY <4>3, <4>4, <4>5, <4>6
        <3>. QED
            BY <3>2, <3>3
    <2>. QED
        BY <2>1
<1> HIDE DEF G
<1>4. \A T \in SUBSET S : T \in G
    BY <1>3, SubsetInduction
<1>. QED
    BY <1>4 DEF G

LEMMA SumWith ==
    ASSUME NEW f, NEW S, IsFiniteSet(S), NEW x, x \notin S, \A y \in S \cup {x} : f[y] \in Int
    PROVE  SumFunctionOnSet(f, S \cup {x}) = f[x] + SumFunctionOnSet(f, S)
<1>1. IsFiniteSet(S \cup {x}) /\ (S \cup {x}) \ {x} = S
    BY FS_AddElement
<1>. QED
    BY <1>1, SumWithout

LEMMA SumIsNatural ==
    ASSUME NEW f, NEW S, IsFiniteSet(S), \A x \in S : f[x] \in Nat
    PROVE  SumFunctionOnSet(f, S) \in Nat
<1> DEFINE G == {T \in SUBSET S : SumFunctionOnSet(f, T) \in Nat}
<1>1. {} \in G
    BY SumOfNone
<1>2. ASSUME NEW T \in SUBSET S, NEW x \in S \ T, T \in G PROVE T \cup {x} \in G
    <2>1. SumFunctionOnSet(f, T \cup {x}) = f[x] + SumFunctionOnSet(f, T)
        BY SumWith, FS_Subset
    <2>. QED
        BY <1>2, <2>1
<1> HIDE DEF G
<1>3. S \in G
    BY <1>1, <1>2, ElementInduction
<1>. QED
    BY <1>3 DEF G

LEMMA SumOfSums ==
    ASSUME NEW f, NEW e, NEW g, NEW S, IsFiniteSet(S),
           \A x \in S : f[x] \in Int /\ e[x] \in Int /\ g[x] = f[x] + e[x]
    PROVE  SumFunctionOnSet(g, S) = SumFunctionOnSet(f, S) + SumFunctionOnSet(e, S)
<1> DEFINE G == {T \in SUBSET S : SumFunctionOnSet(g, T) = SumFunctionOnSet(f, T) + SumFunctionOnSet(e, T)}
<1>1. {} \in G
    BY SumOfNone
<1>2. ASSUME NEW T \in SUBSET S, NEW x \in S \ T, T \in G PROVE T \cup {x} \in G
    <2>1. IsFiniteSet(T) /\ \A y \in T \cup {x} : f[y] \in Int /\ e[y] \in Int /\ g[y] \in Int
        BY FS_Subset
    <2>2. SumFunctionOnSet(f, T \cup {x}) = f[x] + SumFunctionOnSet(f, T)
        BY <2>1, SumWith
    <2>3. SumFunctionOnSet(e, T \cup {x}) = e[x] + SumFunctionOnSet(e, T)
        BY <2>1, SumWith
    <2>4. SumFunctionOnSet(g, T \cup {x}) = g[x] + SumFunctionOnSet(g, T)
        BY <2>1, SumWith
    <2>5. SumFunctionOnSet(f, T) \in Int /\ SumFunctionOnSet(e, T) \in Int
        BY <2>1, SumIsInteger
    <2>6. SumFunctionOnSet(g, T) = SumFunctionOnSet(f, T) + SumFunctionOnSet(e, T)
        BY <1>2
    <2>7. f[x] \in Int /\ e[x] \in Int /\ g[x] = f[x] + e[x]
        BY <1>2
    <2>8. SumFunctionOnSet(g, T \cup {x}) = SumFunctionOnSet(f, T \cup {x}) + SumFunctionOnSet(e, T \cup {x})
        BY <2>2, <2>3, <2>4, <2>5, <2>6, <2>7
    <2>. QED
        BY <2>8
<1> HIDE DEF G
<1>3. S \in G
    BY <1>1, <1>2, ElementInduction
<1>. QED
    BY <1>3 DEF G

(* Sums are compared element by element, up to a difference for each.         *)
LEMMA SumAtMost ==
    ASSUME NEW f, NEW e, NEW c \in Int, NEW S, IsFiniteSet(S),
           \A x \in S : f[x] \in Int /\ e[x] \in Int /\ f[x] <= e[x] + c
    PROVE  SumFunctionOnSet(f, S) <= SumFunctionOnSet(e, S) + c * Cardinality(S)
<1> DEFINE G == {T \in SUBSET S : SumFunctionOnSet(f, T) <= SumFunctionOnSet(e, T) + c * Cardinality(T)}
<1>1. {} \in G
    <2>1. c * 0 = 0
        OBVIOUS
    <2>. QED
        BY <2>1, SumOfNone, FS_EmptySet
<1>2. ASSUME NEW T \in SUBSET S, NEW x \in S \ T, T \in G PROVE T \cup {x} \in G
    <2>1. IsFiniteSet(T) /\ \A y \in T \cup {x} : f[y] \in Int /\ e[y] \in Int
        BY FS_Subset
    <2>2. SumFunctionOnSet(f, T \cup {x}) = f[x] + SumFunctionOnSet(f, T)
        BY <2>1, SumWith
    <2>3. SumFunctionOnSet(e, T \cup {x}) = e[x] + SumFunctionOnSet(e, T)
        BY <2>1, SumWith
    <2>4. Cardinality(T) \in Nat /\ Cardinality(T \cup {x}) = Cardinality(T) + 1
        BY <2>1, FS_AddElement, FS_CardinalityType
    <2>5. SumFunctionOnSet(f, T) \in Int /\ SumFunctionOnSet(e, T) \in Int
        BY <2>1, SumIsInteger
    <2>6. SumFunctionOnSet(f, T) <= SumFunctionOnSet(e, T) + c * Cardinality(T)
        BY <1>2
    <2>7. f[x] \in Int /\ e[x] \in Int /\ f[x] <= e[x] + c
        BY <1>2
    <2>8. c * (Cardinality(T) + 1) = c * Cardinality(T) + c /\ c * Cardinality(T) \in Int
        BY <2>4
    <2>9. SumFunctionOnSet(f, T \cup {x}) <= SumFunctionOnSet(e, T \cup {x}) + c * Cardinality(T \cup {x})
        BY <2>2, <2>3, <2>4, <2>5, <2>6, <2>7, <2>8
    <2>. QED
        BY <2>9
<1> HIDE DEF G
<1>3. S \in G
    BY <1>1, <1>2, ElementInduction
<1>. QED
    BY <1>3 DEF G

LEMMA SumOfLess ==
    ASSUME NEW f, NEW e, NEW S, IsFiniteSet(S),
           \A x \in S : f[x] \in Int /\ e[x] \in Int /\ f[x] <= e[x]
    PROVE  SumFunctionOnSet(f, S) <= SumFunctionOnSet(e, S)
<1>1. \A x \in S : f[x] \in Int /\ e[x] \in Int /\ f[x] <= e[x] + 0
    OBVIOUS
<1>2. SumFunctionOnSet(f, S) <= SumFunctionOnSet(e, S) + 0 * Cardinality(S)
    BY <1>1, SumAtMost
<1>3. Cardinality(S) \in Nat /\ SumFunctionOnSet(e, S) \in Int /\ SumFunctionOnSet(f, S) \in Int
    BY SumIsInteger, FS_CardinalityType
<1>. QED
    BY <1>2, <1>3

(* A sum over two parts.                                                      *)
LEMMA SumOfParts ==
    ASSUME NEW f, NEW S, IsFiniteSet(S), NEW T, IsFiniteSet(T), S \cap T = {},
           \A x \in S \cup T : f[x] \in Int
    PROVE  SumFunctionOnSet(f, S \cup T) = SumFunctionOnSet(f, S) + SumFunctionOnSet(f, T)
<1> DEFINE G == {U \in SUBSET T : SumFunctionOnSet(f, S \cup U) = SumFunctionOnSet(f, S) + SumFunctionOnSet(f, U)}
<1>1. {} \in G
    <2>1. SumFunctionOnSet(f, S) \in Int /\ S \cup {} = S
        BY SumIsInteger
    <2>. QED
        BY <2>1, SumOfNone
<1>2. ASSUME NEW U \in SUBSET T, NEW x \in T \ U, U \in G PROVE U \cup {x} \in G
    <2>1. IsFiniteSet(U)
        BY FS_Subset
    <2>2. IsFiniteSet(S \cup U) /\ x \notin S \cup U /\ S \cup (U \cup {x}) = (S \cup U) \cup {x}
        BY <2>1, FS_Union
    <2>3. \A y \in (S \cup U) \cup {x} : f[y] \in Int
        OBVIOUS
    <2>4. SumFunctionOnSet(f, (S \cup U) \cup {x}) = f[x] + SumFunctionOnSet(f, S \cup U)
        BY <2>2, <2>3, SumWith
    <2>5. SumFunctionOnSet(f, U \cup {x}) = f[x] + SumFunctionOnSet(f, U)
        BY <2>1, <2>3, SumWith
    <2>6. SumFunctionOnSet(f, S) \in Int /\ SumFunctionOnSet(f, U) \in Int
        BY <2>1, SumIsInteger
    <2>7. SumFunctionOnSet(f, S \cup U) = SumFunctionOnSet(f, S) + SumFunctionOnSet(f, U) /\ f[x] \in Int
        BY <1>2
    <2>8. SumFunctionOnSet(f, S \cup (U \cup {x})) = SumFunctionOnSet(f, (S \cup U) \cup {x})
        BY <2>2
    <2>9. SumFunctionOnSet(f, S \cup (U \cup {x})) = SumFunctionOnSet(f, S) + SumFunctionOnSet(f, U \cup {x})
        BY <2>4, <2>5, <2>6, <2>7, <2>8
    <2>. QED
        BY <2>9
<1> HIDE DEF G
<1>3. T \in G
    BY <1>1, <1>2, ElementInduction
<1>. QED
    BY <1>3 DEF G

LEMMA SumOfPart ==
    ASSUME NEW f, NEW S, IsFiniteSet(S), NEW T, T \subseteq S, \A x \in S : f[x] \in Nat
    PROVE  SumFunctionOnSet(f, T) <= SumFunctionOnSet(f, S)
<1>1. IsFiniteSet(T) /\ IsFiniteSet(S \ T) /\ T \cap (S \ T) = {} /\ T \cup (S \ T) = S
    BY FS_Subset
<1>2. SumFunctionOnSet(f, T) \in Nat /\ SumFunctionOnSet(f, S \ T) \in Nat
    BY <1>1, SumIsNatural
<1>3. SumFunctionOnSet(f, T \cup (S \ T)) = SumFunctionOnSet(f, T) + SumFunctionOnSet(f, S \ T)
    <2>1. \A x \in T \cup (S \ T) : f[x] \in Int
        OBVIOUS
    <2>. QED
        BY <1>1, <2>1, SumOfParts
<1>4. SumFunctionOnSet(f, T \cup (S \ T)) = SumFunctionOnSet(f, S)
    BY <1>1
<1>. QED
    BY <1>2, <1>3, <1>4

LEMMA SumOfZeros ==
    ASSUME NEW f, NEW S, IsFiniteSet(S), \A x \in S : f[x] = 0
    PROVE  SumFunctionOnSet(f, S) = 0
<1> DEFINE G == {T \in SUBSET S : SumFunctionOnSet(f, T) = 0}
<1>1. {} \in G
    BY SumOfNone
<1>2. ASSUME NEW T \in SUBSET S, NEW x \in S \ T, T \in G PROVE T \cup {x} \in G
    <2>1. SumFunctionOnSet(f, T \cup {x}) = f[x] + SumFunctionOnSet(f, T)
        BY SumWith, FS_Subset
    <2>. QED
        BY <1>2, <2>1
<1> HIDE DEF G
<1>3. S \in G
    BY <1>1, <1>2, ElementInduction
<1>. QED
    BY <1>3 DEF G

(* What is zero need not be summed.                                           *)
LEMMA SumOfSupport ==
    ASSUME NEW f, NEW S, IsFiniteSet(S), NEW T, T \subseteq S,
           \A x \in S : f[x] \in Int, \A x \in S \ T : f[x] = 0
    PROVE  SumFunctionOnSet(f, T) = SumFunctionOnSet(f, S)
<1>1. IsFiniteSet(T) /\ IsFiniteSet(S \ T) /\ T \cap (S \ T) = {} /\ T \cup (S \ T) = S
    BY FS_Subset
<1>2. SumFunctionOnSet(f, T) \in Int
    BY <1>1, SumIsInteger
<1>3. SumFunctionOnSet(f, S \ T) = 0
    BY <1>1, SumOfZeros
<1>4. SumFunctionOnSet(f, T \cup (S \ T)) = SumFunctionOnSet(f, T) + SumFunctionOnSet(f, S \ T)
    <2>1. \A x \in T \cup (S \ T) : f[x] \in Int
        OBVIOUS
    <2>. QED
        BY <1>1, <2>1, SumOfParts
<1>5. SumFunctionOnSet(f, T \cup (S \ T)) = SumFunctionOnSet(f, S)
    BY <1>1
<1>. QED
    BY <1>2, <1>3, <1>4, <1>5

(* Of values that differ by half of c at most, the sums do by half of c for   *)
(* each.                                                                      *)
LEMMA SumWithin ==
    ASSUME NEW f, NEW e, NEW c \in Int, NEW S, IsFiniteSet(S),
           \A x \in S : f[x] \in Int /\ e[x] \in Int /\ 2 * (f[x] - e[x]) <= c
    PROVE  2 * (SumFunctionOnSet(f, S) - SumFunctionOnSet(e, S)) <= c * Cardinality(S)
<1> DEFINE ff == [x \in S |-> f[x] + f[x]]
           ee == [x \in S |-> e[x] + e[x]]
<1>1. \A x \in S : ff[x] = f[x] + f[x] /\ ee[x] = e[x] + e[x]
    OBVIOUS
<1>2. \A x \in S : ff[x] \in Int /\ ee[x] \in Int /\ ff[x] <= ee[x] + c
    BY <1>1
<1> HIDE DEF ff, ee
<1>3. SumFunctionOnSet(ff, S) = SumFunctionOnSet(f, S) + SumFunctionOnSet(f, S)
    BY <1>1, SumOfSums
<1>4. SumFunctionOnSet(ee, S) = SumFunctionOnSet(e, S) + SumFunctionOnSet(e, S)
    BY <1>1, SumOfSums
<1>5. SumFunctionOnSet(ff, S) <= SumFunctionOnSet(ee, S) + c * Cardinality(S)
    BY <1>2, SumAtMost
<1>6. SumFunctionOnSet(f, S) \in Int /\ SumFunctionOnSet(e, S) \in Int
    BY SumIsInteger
<1>7. Cardinality(S) \in Nat /\ c * Cardinality(S) \in Int
    BY FS_CardinalityType
<1>. QED
    BY <1>3, <1>4, <1>5, <1>6, <1>7

(* A row and a column of a function on pairs: of the matching, what a deficit *)
(* gets from the surpluses, and what a surplus gives.                         *)
Row(m, spare, d) == [s \in spare |-> m[<<d, s>>]]

Col(m, lack, s) == [d \in lack |-> m[<<d, s>>]]

(* The sum of the sums of the rows is the sum of the sums of the columns.     *)
LEMMA SumOfRows ==
    ASSUME NEW A, IsFiniteSet(A), NEW B, IsFiniteSet(B), NEW h \in [A \X B -> Int],
           NEW Z \in SUBSET A, NEW rowSums, NEW colSums,
           \A a \in A : rowSums[a] = SumFunctionOnSet(Row(h, B, a), B),
           \A b \in B : colSums[b] = SumFunctionOnSet(Col(h, A, b), Z)
    PROVE  SumFunctionOnSet(rowSums, Z) = SumFunctionOnSet(colSums, B)
<1> DEFINE rows == [a \in A |-> SumFunctionOnSet(Row(h, B, a), B)]
           Cols(C) == [b \in B |-> SumFunctionOnSet(Col(h, A, b), C)]
           G == {C \in SUBSET A : SumFunctionOnSet(rows, C) = SumFunctionOnSet(Cols(C), B)}
<1>1. \A C \in SUBSET A : IsFiniteSet(C)
    BY FS_Subset
<1>2. \A a \in A : \A b \in B : Row(h, B, a)[b] = h[<<a, b>>] /\ Row(h, B, a)[b] \in Int
    BY DEF Row
<1>3. \A b \in B : \A a \in A : Col(h, A, b)[a] = h[<<a, b>>] /\ Col(h, A, b)[a] \in Int
    BY DEF Col
<1>4. \A a \in A : rows[a] = SumFunctionOnSet(Row(h, B, a), B) /\ rows[a] \in Int
    BY <1>2, SumIsInteger
<1>5. \A C \in SUBSET A : \A b \in B : Cols(C)[b] = SumFunctionOnSet(Col(h, A, b), C) /\ Cols(C)[b] \in Int
    <2>1. SUFFICES ASSUME NEW C \in SUBSET A, NEW b \in B
                   PROVE  SumFunctionOnSet(Col(h, A, b), C) \in Int
        OBVIOUS
    <2>2. \A a \in C : Col(h, A, b)[a] \in Int
        BY <1>3
    <2>. QED
        BY <1>1, <2>2, SumIsInteger
<1> HIDE DEF rows, Cols
<1>6. {} \in G
    <2>1. \A b \in B : Cols({})[b] = 0
        BY <1>5, SumOfNone
    <2>. QED
        BY <2>1, SumOfZeros, SumOfNone
<1>7. ASSUME NEW C \in SUBSET A, NEW x \in A \ C, C \in G PROVE C \cup {x} \in G
    <2>1. IsFiniteSet(C) /\ C \cup {x} \in SUBSET A
        BY <1>1
    <2>2. SumFunctionOnSet(rows, C \cup {x}) = rows[x] + SumFunctionOnSet(rows, C)
        BY <1>4, <2>1, SumWith
    <2>3. ASSUME NEW b \in B PROVE Cols(C \cup {x})[b] = Row(h, B, x)[b] + Cols(C)[b]
        <3>1. \A a \in C \cup {x} : Col(h, A, b)[a] \in Int
            BY <1>3
        <3>2. SumFunctionOnSet(Col(h, A, b), C \cup {x}) = Col(h, A, b)[x] + SumFunctionOnSet(Col(h, A, b), C)
            BY <2>1, <3>1, SumWith
        <3>. QED
            BY <1>2, <1>3, <1>5, <2>1, <3>2
    <2>4. SumFunctionOnSet(Cols(C \cup {x}), B) = SumFunctionOnSet(Row(h, B, x), B) + SumFunctionOnSet(Cols(C), B)
        <3>1. \A b \in B : /\ Row(h, B, x)[b] \in Int /\ Cols(C)[b] \in Int
                            /\ Cols(C \cup {x})[b] = Row(h, B, x)[b] + Cols(C)[b]
            BY <1>2, <1>5, <2>3
        <3> DEFINE r == Row(h, B, x)  c == Cols(C)  d == Cols(C \cup {x})
        <3>2. \A b \in B : r[b] \in Int /\ c[b] \in Int /\ d[b] = r[b] + c[b]
            BY <3>1
        <3> HIDE DEF r, c, d
        <3>3. SumFunctionOnSet(d, B) = SumFunctionOnSet(r, B) + SumFunctionOnSet(c, B)
            BY <3>2, SumOfSums
        <3>. QED
            BY <3>3 DEF r, c, d
    <2>5. rows[x] = SumFunctionOnSet(Row(h, B, x), B)
        BY <1>4
    <2>6. SumFunctionOnSet(rows, C) = SumFunctionOnSet(Cols(C), B)
        BY <1>7
    <2>. QED
        BY <2>1, <2>2, <2>4, <2>5, <2>6
<1>8. \A C \in SUBSET A : C \in G
    <2>1. SUFFICES ASSUME NEW C \in SUBSET A PROVE C \in G
        OBVIOUS
    <2>2. \A T \in SUBSET C : \A x \in C \ T : T \in G => T \cup {x} \in G
        BY <1>7
    <2> HIDE DEF G
    <2>. QED
        BY <1>1, <1>6, <2>2, ElementInduction
<1>9. SumFunctionOnSet(rows, Z) = SumFunctionOnSet(Cols(Z), B)
    BY <1>8
<1>10. SumFunctionOnSet(rowSums, Z) = SumFunctionOnSet(rows, Z)
    BY <1>1, <1>4, SumOfEqual
<1>11. SumFunctionOnSet(colSums, B) = SumFunctionOnSet(Cols(Z), B)
    BY <1>5, SumOfEqual
<1>. QED
    BY <1>9, <1>10, <1>11

(* The sum over the values of an injective function.                          *)
LEMMA SumOfImage ==
    ASSUME NEW f, NEW h, NEW S, IsFiniteSet(S),
           \A x, y \in S : h[x] = h[y] => x = y,
           NEW e, \A x \in S : f[h[x]] \in Int /\ e[x] = f[h[x]],
           NEW I, \A x \in S : h[x] \in I, \A y \in I : \E x \in S : y = h[x]
    PROVE  /\ IsFiniteSet(I) /\ Cardinality(I) = Cardinality(S)
           /\ SumFunctionOnSet(f, I) = SumFunctionOnSet(e, S)
<1> DEFINE Image(T) == {h[x] : x \in T}
           G == {T \in SUBSET S : /\ IsFiniteSet(Image(T)) /\ Cardinality(Image(T)) = Cardinality(T)
                                  /\ SumFunctionOnSet(f, Image(T)) = SumFunctionOnSet(e, T)}
<1>1. {} \in G
    <2>1. Image({}) = {}
        OBVIOUS
    <2>. QED
        BY <2>1, SumOfNone, FS_EmptySet
<1>2. ASSUME NEW T \in SUBSET S, NEW x \in S \ T, T \in G PROVE T \cup {x} \in G
    <2>1. IsFiniteSet(T)
        BY FS_Subset
    <2>2. Image(T \cup {x}) = Image(T) \cup {h[x]} /\ h[x] \notin Image(T)
        OBVIOUS
    <2>3. IsFiniteSet(Image(T)) /\ Cardinality(Image(T)) = Cardinality(T)
          /\ SumFunctionOnSet(f, Image(T)) = SumFunctionOnSet(e, T)
        BY <1>2
    <2>4. \A y \in Image(T) \cup {h[x]} : f[y] \in Int
        OBVIOUS
    <2>5. \A y \in T \cup {x} : e[y] \in Int
        OBVIOUS
    <2>6. e[x] = f[h[x]]
        OBVIOUS
    <2> HIDE DEF Image, G
    <2>7. SumFunctionOnSet(f, Image(T) \cup {h[x]}) = f[h[x]] + SumFunctionOnSet(f, Image(T))
        BY <2>2, <2>3, <2>4, SumWith
    <2>8. SumFunctionOnSet(e, T \cup {x}) = e[x] + SumFunctionOnSet(e, T)
        BY <2>1, <2>5, SumWith
    <2>9. IsFiniteSet(Image(T \cup {x})) /\ Cardinality(Image(T \cup {x})) = Cardinality(T \cup {x})
        <3>1. Cardinality(T \cup {x}) = Cardinality(T) + 1
            BY <2>1, FS_AddElement
        <3>2. IsFiniteSet(Image(T) \cup {h[x]}) /\ Cardinality(Image(T) \cup {h[x]}) = Cardinality(Image(T)) + 1
            BY <2>2, <2>3, FS_AddElement
        <3>. QED
            BY <2>2, <2>3, <3>1, <3>2
    <2>10. SumFunctionOnSet(f, Image(T \cup {x})) = SumFunctionOnSet(e, T \cup {x})
        BY <2>2, <2>3, <2>6, <2>7, <2>8
    <2>. QED
        BY <2>9, <2>10 DEF G
<1> HIDE DEF G
<1>3. S \in G
    BY <1>1, <1>2, ElementInduction
<1>4. Image(S) = I
    OBVIOUS
<1>. QED
    BY <1>3, <1>4 DEF G

-----------------------------------------------------------------------------
(* The order of the greedy matching. *)

(* Records that can be sorted.                                                *)
Listed(S) ==
    /\ IsFiniteSet(S)
    /\ \A x \in S : x.chain \in Int /\ x.amount \in Nat
    /\ \A x, y \in S : x = y \/ Before(x, y) \/ Before(y, x)

LEMMA BeforeIsOrder ==
    ASSUME NEW S, Listed(S)
    PROVE  /\ \A x, y \in S : Before(x, y) => x # y /\ ~Before(y, x)
           /\ \A x, y, z \in S : Before(x, y) /\ Before(y, z) => Before(x, z)
<1>1. \A x \in S : x.chain \in Int /\ x.amount \in Int
    BY DEF Listed
<1>. QED
    BY <1>1 DEF Before

(* The last of a set of records.                                              *)
LEMMA LastExists ==
    ASSUME NEW S, Listed(S), NEW T, T \subseteq S, T # {}
    PROVE  \E m \in T : \A x \in T : x = m \/ Before(x, m)
<1> DEFINE Last(U, m) == m \in U /\ \A x \in U : x = m \/ Before(x, m)
           G == {U \in SUBSET T : U = {} \/ \E m : Last(U, m)}
<1>1. {} \in G
    OBVIOUS
<1>2. ASSUME NEW U \in SUBSET T, NEW y \in T \ U, U \in G PROVE U \cup {y} \in G
    <2>1. CASE U = {}
        <3>1. Last(U \cup {y}, y)
            BY <2>1
        <3>. QED
            BY <3>1
    <2>2. CASE U # {}
        <3>1. PICK m : Last(U, m)
            BY <1>2, <2>2
        <3>2. m # y /\ m \in S /\ y \in S
            BY <3>1
        <3>3. CASE Before(m, y)
            <4>1. \A x \in U : Before(x, y)
                BY <3>1, <3>2, <3>3, BeforeIsOrder
            <4>2. Last(U \cup {y}, y)
                BY <4>1
            <4>. QED
                BY <4>2
        <3>4. CASE Before(y, m)
            <4>1. Last(U \cup {y}, m)
                BY <3>1, <3>4
            <4>. QED
                BY <4>1
        <3>. QED
            BY <3>2, <3>3, <3>4 DEF Listed
    <2>. QED
        BY <2>1, <2>2
<1>3. IsFiniteSet(T)
    BY FS_Subset DEF Listed
<1>4. T \in G
    <2> HIDE DEF G
    <2>. QED
        BY <1>1, <1>2, <1>3, ElementInduction
<1>. QED
    BY <1>4

(* A set that holds with a record also those before it.                       *)
Leading(S, T) == T \subseteq S /\ \A x \in T : Greater(S, x) \subseteq T

(* Without its last record it is still such a set.                            *)
LEMMA LeadingWithoutLast ==
    ASSUME NEW S, Listed(S), NEW T, Leading(S, T),
           NEW m \in T, \A x \in T : x = m \/ Before(x, m)
    PROVE  Greater(S, m) = T \ {m} /\ Leading(S, T \ {m})
<1>1. T \subseteq S /\ m \in S
    BY DEF Leading
<1>2. Greater(S, m) = T \ {m}
    BY <1>1, BeforeIsOrder DEF Leading, Greater
<1>3. ASSUME NEW x \in T \ {m} PROVE Greater(S, x) \subseteq T \ {m}
    BY <1>1, <1>3, BeforeIsOrder DEF Leading, Greater
<1>. QED
    BY <1>1, <1>2, <1>3 DEF Leading

-----------------------------------------------------------------------------
(* The greedy matching. *)

Given(g, lack, spare, p) ==
    IF p[1].chain = p[2].chain THEN 0
    ELSE Smaller(p[1].amount - SumFunction([t \in Greater(spare, p[2]) |-> g[<<p[1], t>>]]),
                 p[2].amount - SumFunction([e \in Greater(lack, p[1]) |-> g[<<e, p[2]>>]]))

(* What is given depends on what the greater deficits and surpluses are given.*)
LEMMA GivenDepends ==
    ASSUME NEW lack, NEW spare, NEW d, NEW s, NEW g, NEW h,
           \A t \in Greater(spare, s) : g[<<d, t>>] = h[<<d, t>>],
           \A e \in Greater(lack, d) : g[<<e, s>>] = h[<<e, s>>]
    PROVE  Given(g, lack, spare, <<d, s>>) = Given(h, lack, spare, <<d, s>>)
<1>1. [t \in Greater(spare, s) |-> g[<<d, t>>]] = [t \in Greater(spare, s) |-> h[<<d, t>>]]
    OBVIOUS
<1>2. [e \in Greater(lack, d) |-> g[<<e, s>>]] = [e \in Greater(lack, d) |-> h[<<e, s>>]]
    OBVIOUS
<1>. QED
    BY <1>1, <1>2 DEF Given

LEMMA GivenIsInteger ==
    ASSUME NEW lack, Listed(lack), NEW spare, Listed(spare), NEW d \in lack, NEW s \in spare, NEW g,
           \A t \in Greater(spare, s) : g[<<d, t>>] \in Int,
           \A e \in Greater(lack, d) : g[<<e, s>>] \in Int
    PROVE  Given(g, lack, spare, <<d, s>>) \in Int
<1> DEFINE row == [t \in Greater(spare, s) |-> g[<<d, t>>]]
           col == [e \in Greater(lack, d) |-> g[<<e, s>>]]
<1>1. Greater(spare, s) \subseteq spare /\ Greater(lack, d) \subseteq lack
    BY DEF Greater
<1>2. IsFiniteSet(Greater(spare, s)) /\ IsFiniteSet(Greater(lack, d))
    BY <1>1, FS_Subset DEF Listed
<1>3. \A t \in Greater(spare, s) : row[t] \in Int
    BY <1>1
<1>4. \A e \in Greater(lack, d) : col[e] \in Int
    BY <1>1
<1>5. DOMAIN row = Greater(spare, s) /\ DOMAIN col = Greater(lack, d)
    OBVIOUS
<1> HIDE DEF row, col
<1>6. SumFunction(row) \in Int /\ SumFunction(col) \in Int
    BY <1>2, <1>3, <1>4, <1>5, SumIsInteger DEF SumFunction
<1>7. d.amount \in Int /\ s.amount \in Int
    BY DEF Listed
<1>8. d.amount - SumFunction(row) \in Int /\ s.amount - SumFunction(col) \in Int
    BY <1>6, <1>7
<1>9. Given(g, lack, spare, <<d, s>>) =
        IF d.chain = s.chain THEN 0 ELSE Smaller(d.amount - SumFunction(row), s.amount - SumFunction(col))
    BY DEF Given, row, col
<1>10. Given(g, lack, spare, <<d, s>>) \in Int
    BY <1>8, <1>9 DEF Smaller
<1>. QED
    BY <1>6, <1>10 DEF row, col

(* With a pair also those that it depends on.                                 *)
Closed(lack, spare, T) ==
    \A d \in lack, s \in spare :
        <<d, s>> \in T =>
            /\ \A t \in Greater(spare, s) : <<d, t>> \in T
            /\ \A e \in Greater(lack, d) : <<e, s>> \in T

(* A closed set of pairs has one that no other depends on.                    *)
LEMMA LastPairExists ==
    ASSUME NEW lack, Listed(lack), NEW spare, Listed(spare),
           NEW T, T \subseteq lack \X spare, T # {}, Closed(lack, spare, T)
    PROVE  \E d \in lack, s \in spare :
            /\ <<d, s>> \in T /\ Closed(lack, spare, T \ {<<d, s>>})
            /\ d \notin Greater(lack, d) /\ s \notin Greater(spare, s)
<1> DEFINE D == {d \in lack : \E s \in spare : <<d, s>> \in T}
<1>1. D \subseteq lack /\ D # {}
    OBVIOUS
<1>2. PICK d \in D : \A x \in D : x = d \/ Before(x, d)
    <2> HIDE DEF D
    <2>. QED
        BY <1>1, LastExists
<1> DEFINE E == {s \in spare : <<d, s>> \in T}
<1>3. E \subseteq spare /\ E # {}
    BY <1>2
<1>4. PICK s \in E : \A x \in E : x = s \/ Before(x, s)
    <2> HIDE DEF E
    <2>. QED
        BY <1>3, LastExists
<1>5. d \in lack /\ s \in spare /\ <<d, s>> \in T
    BY <1>2, <1>4
<1>6. d \notin Greater(lack, d) /\ s \notin Greater(spare, s)
    BY <1>5, BeforeIsOrder DEF Greater
<1>7. ASSUME NEW x \in lack, NEW y \in spare, <<x, y>> \in T, <<x, y>> # <<d, s>>
      PROVE  /\ \A t \in Greater(spare, y) : <<x, t>> \in T \ {<<d, s>>}
             /\ \A e \in Greater(lack, x) : <<e, y>> \in T \ {<<d, s>>}
    <2>1. x \in D
        BY <1>7
    <2>2. ASSUME NEW t \in Greater(spare, y) PROVE <<x, t>> # <<d, s>>
        <3>1. SUFFICES ASSUME x = d, t = s PROVE FALSE
            OBVIOUS
        <3>2. y \in E /\ y # s /\ Before(s, y)
            BY <1>7, <3>1 DEF Greater
        <3>3. Before(y, s)
            BY <1>4, <3>2
        <3>. QED
            BY <1>5, <3>2, <3>3, BeforeIsOrder
    <2>3. ASSUME NEW e \in Greater(lack, x) PROVE <<e, y>> # <<d, s>>
        <3>1. SUFFICES ASSUME e = d PROVE FALSE
            OBVIOUS
        <3>2. Before(d, x)
            BY <3>1 DEF Greater
        <3>3. x = d \/ Before(x, d)
            BY <1>2, <2>1
        <3>. QED
            BY <1>5, <3>2, <3>3, BeforeIsOrder
    <2>. QED
        BY <1>7, <2>2, <2>3 DEF Closed
<1>8. Closed(lack, spare, T \ {<<d, s>>})
    BY <1>7 DEF Closed
<1>. QED
    BY <1>5, <1>6, <1>8

(* The recursion of the matching has a solution, of integers.                 *)
LEMMA MatchRecursion ==
    ASSUME NEW lack, Listed(lack), NEW spare, Listed(spare)
    PROVE  /\ Match(lack, spare) \in [lack \X spare -> Int]
           /\ \A d \in lack, s \in spare :
                Match(lack, spare)[<<d, s>>] = Given(Match(lack, spare), lack, spare, <<d, s>>)
<1> DEFINE P == lack \X spare
           Solves(g, T) == \A d \in lack, s \in spare :
                                <<d, s>> \in T => g[<<d, s>>] = Given(g, lack, spare, <<d, s>>)
           G == {T \in SUBSET P : Closed(lack, spare, T) => \E g : Solves(g, T)}
<1>1. IsFiniteSet(P)
    BY FS_Product DEF Listed
<1>2. ASSUME NEW T \in SUBSET P, \A U \in SUBSET T : U # T => U \in G PROVE T \in G
    <2>1. SUFFICES ASSUME Closed(lack, spare, T) PROVE \E g : Solves(g, T)
        OBVIOUS
    <2>2. CASE T = {}
        <3>1. Solves([p \in P |-> 0], T)
            BY <2>2
        <3>. QED
            BY <3>1
    <2>3. CASE T # {}
        <3>1. PICK d \in lack, s \in spare :
                /\ <<d, s>> \in T /\ Closed(lack, spare, T \ {<<d, s>>})
                /\ d \notin Greater(lack, d) /\ s \notin Greater(spare, s)
            BY <2>1, <2>3, LastPairExists
        <3>2. T \ {<<d, s>>} \in G
            BY <1>2, <3>1
        <3>3. PICK g : Solves(g, T \ {<<d, s>>})
            BY <3>1, <3>2
        <3> DEFINE v == Given(g, lack, spare, <<d, s>>)
                   h == [p \in P |-> IF p = <<d, s>> THEN v ELSE g[p]]
        <3>4. h[<<d, s>>] = v /\ \A p \in P : p # <<d, s>> => h[p] = g[p]
            OBVIOUS
        <3> HIDE DEF v, h
        <3>5. ASSUME NEW x \in lack, NEW y \in spare, <<x, y>> \in T, <<x, y>> # <<d, s>>
              PROVE  h[<<x, y>>] = Given(h, lack, spare, <<x, y>>)
            <4>1. \A t \in Greater(spare, y) : <<x, t>> \in T \ {<<d, s>>}
                BY <3>1, <3>5 DEF Closed
            <4>2. \A e \in Greater(lack, x) : <<e, y>> \in T \ {<<d, s>>}
                BY <3>1, <3>5 DEF Closed
            <4>3. \A t \in Greater(spare, y) : g[<<x, t>>] = h[<<x, t>>]
                BY <3>4, <4>1
            <4>4. \A e \in Greater(lack, x) : g[<<e, y>>] = h[<<e, y>>]
                BY <3>4, <4>2
            <4>5. Given(g, lack, spare, <<x, y>>) = Given(h, lack, spare, <<x, y>>)
                BY <4>3, <4>4, GivenDepends
            <4>6. g[<<x, y>>] = Given(g, lack, spare, <<x, y>>) /\ h[<<x, y>>] = g[<<x, y>>]
                BY <3>3, <3>4, <3>5
            <4>. QED
                BY <4>5, <4>6
        <3>6. h[<<d, s>>] = Given(h, lack, spare, <<d, s>>)
            <4>1. \A t \in Greater(spare, s) : t # s /\ t \in spare
                BY <3>1 DEF Greater
            <4>2. \A e \in Greater(lack, d) : e # d /\ e \in lack
                BY <3>1 DEF Greater
            <4>3. \A t \in Greater(spare, s) : g[<<d, t>>] = h[<<d, t>>]
                BY <3>4, <4>1
            <4>4. \A e \in Greater(lack, d) : g[<<e, s>>] = h[<<e, s>>]
                BY <3>4, <4>2
            <4>5. v = Given(h, lack, spare, <<d, s>>)
                BY <4>3, <4>4, GivenDepends DEF v
            <4>. QED
                BY <3>4, <4>5
        <3>7. Solves(h, T)
            BY <3>4, <3>5, <3>6
        <3>. QED
            BY <3>7
    <2>. QED
        BY <2>2, <2>3
<1>3. P \in G
    <2> HIDE DEF G
    <2>1. \A T \in SUBSET P : T \in G
        <3> HIDE DEF P
        <3>. QED
            BY <1>1, <1>2, SubsetInduction
    <2>. QED
        BY <2>1
<1>4. Closed(lack, spare, P)
    BY DEF Closed, Greater
<1>5. PICK g : Solves(g, P)
    BY <1>3, <1>4
<1> DEFINE Rule(g_) == g_ = [p \in P |->
                IF p[1].chain = p[2].chain THEN 0
                ELSE Smaller(p[1].amount - SumFunction([t \in Greater(spare, p[2]) |-> g_[<<p[1], t>>]]),
                             p[2].amount - SumFunction([e \in Greater(lack, p[1]) |-> g_[<<e, p[2]>>]]))]
           m == CHOOSE i : Rule(i)
<1>6. \A i : Rule(i) <=> i = [p \in P |-> Given(i, lack, spare, p)]
    BY DEF Given
<1> DEFINE f == [p \in P |-> g[p]]
<1>7. Rule(f)
    <2>1. ASSUME NEW d \in lack, NEW s \in spare PROVE g[<<d, s>>] = Given(f, lack, spare, <<d, s>>)
        <3>1. \A t \in Greater(spare, s) : g[<<d, t>>] = f[<<d, t>>]
            BY DEF Greater
        <3>2. \A e \in Greater(lack, d) : g[<<e, s>>] = f[<<e, s>>]
            BY DEF Greater
        <3> HIDE DEF f
        <3>3. Given(g, lack, spare, <<d, s>>) = Given(f, lack, spare, <<d, s>>)
            BY <3>1, <3>2, GivenDepends
        <3>. QED
            BY <1>5, <3>3
    <2>2. \A p \in P : g[p] = Given(f, lack, spare, p)
        BY <2>1
    <2>3. f = [p \in P |-> Given(f, lack, spare, p)]
        BY <2>2
    <2> HIDE DEF Rule, f
    <2>. QED
        BY <1>6, <2>3
<1>8. Rule(m)
    <2> HIDE DEF Rule, f
    <2>. QED
        BY <1>7
<1>9. Match(lack, spare) = m
    BY DEF Match
<1> HIDE DEF Rule, m
<1>10. \A d \in lack, s \in spare : m[<<d, s>>] = Given(m, lack, spare, <<d, s>>)
    BY <1>6, <1>8
<1> DEFINE Ints(T) == \A d \in lack, s \in spare : <<d, s>> \in T => m[<<d, s>>] \in Int
           H == {T \in SUBSET P : Closed(lack, spare, T) => Ints(T)}
<1>11. ASSUME NEW T \in SUBSET P, \A U \in SUBSET T : U # T => U \in H PROVE T \in H
    <2>1. SUFFICES ASSUME Closed(lack, spare, T), T # {} PROVE Ints(T)
        OBVIOUS
    <2>2. PICK d \in lack, s \in spare :
            /\ <<d, s>> \in T /\ Closed(lack, spare, T \ {<<d, s>>})
            /\ d \notin Greater(lack, d) /\ s \notin Greater(spare, s)
        BY <2>1, LastPairExists
    <2>3. T \ {<<d, s>>} \in H
        BY <1>11, <2>2
    <2>4. Ints(T \ {<<d, s>>})
        BY <2>2, <2>3
    <2>5. \A t \in Greater(spare, s) : m[<<d, t>>] \in Int
        <3>1. \A t \in Greater(spare, s) : t \in spare /\ <<d, t>> \in T /\ t # s
            BY <2>1, <2>2 DEF Closed, Greater
        <3>. QED
            BY <2>4, <3>1
    <2>6. \A e \in Greater(lack, d) : m[<<e, s>>] \in Int
        <3>1. \A e \in Greater(lack, d) : e \in lack /\ <<e, s>> \in T /\ e # d
            BY <2>1, <2>2 DEF Closed, Greater
        <3>. QED
            BY <2>4, <3>1
    <2>7. m[<<d, s>>] \in Int
        <3>1. Given(m, lack, spare, <<d, s>>) \in Int
            BY <2>5, <2>6, GivenIsInteger
        <3>. QED
            BY <1>10, <3>1
    <2>. QED
        BY <2>4, <2>7
<1>12. P \in H
    <2> HIDE DEF H
    <2>1. \A T \in SUBSET P : T \in H
        <3> HIDE DEF P
        <3>. QED
            BY <1>1, <1>11, SubsetInduction
    <2>. QED
        BY <2>1
<1>13. \A d \in lack, s \in spare : m[<<d, s>>] \in Int
    BY <1>4, <1>12
<1>14. m \in [P -> Int]
    <2>1. m = [p \in P |-> Given(m, lack, spare, p)]
        BY <1>6, <1>8
    <2>2. \A p \in P : Given(m, lack, spare, p) \in Int
        BY <1>10, <1>13
    <2>. QED
        BY <2>1, <2>2
<1>. QED
    BY <1>9, <1>10, <1>14

(* Elements that take what is left, or nothing, never take more in all.       *)
LEMMA LeadingSum ==
    ASSUME NEW S, Listed(S), NEW f, NEW n \in Nat,
           \A s \in S : f[s] \in Int /\ (f[s] <= 0 \/ f[s] <= n - SumFunctionOnSet(f, Greater(S, s))),
           NEW T, Leading(S, T)
    PROVE  SumFunctionOnSet(f, T) <= n
<1> DEFINE G == {U \in SUBSET T : Leading(S, U) => SumFunctionOnSet(f, U) <= n}
<1>1. T \subseteq S /\ IsFiniteSet(T)
    BY FS_Subset DEF Leading, Listed
<1>2. ASSUME NEW U \in SUBSET T, \A V \in SUBSET U : V # U => V \in G PROVE U \in G
    <2>1. SUFFICES ASSUME Leading(S, U) PROVE SumFunctionOnSet(f, U) <= n
        OBVIOUS
    <2>2. CASE U = {}
        BY <2>2, SumOfNone
    <2>3. CASE U # {}
        <3>1. PICK m \in U : \A x \in U : x = m \/ Before(x, m)
            BY <1>1, <2>3, LastExists
        <3>2. Greater(S, m) = U \ {m} /\ Leading(S, U \ {m})
            BY <2>1, <3>1, LeadingWithoutLast
        <3>3. U \ {m} \in G
            BY <1>2, <3>1
        <3>4. IsFiniteSet(U) /\ IsFiniteSet(U \ {m}) /\ \A x \in U : f[x] \in Int
            BY <1>1, FS_Subset
        <3>5. SumFunctionOnSet(f, U) = f[m] + SumFunctionOnSet(f, U \ {m})
            BY <3>1, <3>4, SumWithout
        <3>6. SumFunctionOnSet(f, U \ {m}) \in Int /\ f[m] \in Int
            BY <3>1, <3>4, SumIsInteger
        <3>7. SumFunctionOnSet(f, U \ {m}) <= n
            BY <3>2, <3>3
        <3>8. f[m] <= 0 \/ f[m] <= n - SumFunctionOnSet(f, U \ {m})
            BY <1>1, <3>1, <3>2
        <3>. QED
            BY <3>5, <3>6, <3>7, <3>8
    <2>. QED
        BY <2>2, <2>3
<1>3. T \in G
    <2> HIDE DEF G
    <2>. QED
        BY <1>1, <1>2, SubsetInduction
<1>. QED
    BY <1>3

LEMMA GreaterLeads ==
    ASSUME NEW S, Listed(S)
    PROVE  /\ Leading(S, S)
           /\ \A s \in S : Leading(S, Greater(S, s)) /\ s \notin Greater(S, s) /\ IsFiniteSet(Greater(S, s))
<1>1. Leading(S, S)
    BY DEF Leading, Greater
<1>2. ASSUME NEW s \in S PROVE Leading(S, Greater(S, s))
    BY BeforeIsOrder DEF Leading, Greater
<1>3. ASSUME NEW s \in S PROVE s \notin Greater(S, s) /\ IsFiniteSet(Greater(S, s))
    <2>1. Greater(S, s) \subseteq S
        BY DEF Greater
    <2>. QED
        BY <2>1, BeforeIsOrder, FS_Subset DEF Greater, Listed
<1>. QED
    BY <1>1, <1>2, <1>3

(* The rule of the matching, with rows and columns.                           *)
LEMMA MatchRule ==
    ASSUME NEW lack, Listed(lack), NEW spare, Listed(spare), NEW d \in lack, NEW s \in spare,
           NEW m, m = Match(lack, spare)
    PROVE  LET needed == d.amount - SumFunctionOnSet(Row(m, spare, d), Greater(spare, s))
               left == s.amount - SumFunctionOnSet(Col(m, lack, s), Greater(lack, d))
           IN  /\ m[<<d, s>>] \in Int /\ needed \in Int /\ left \in Int
               /\ m[<<d, s>>] = IF d.chain = s.chain THEN 0 ELSE Smaller(needed, left)
<1> DEFINE row == [t \in Greater(spare, s) |-> m[<<d, t>>]]
           col == [e \in Greater(lack, d) |-> m[<<e, s>>]]
<1>1. m \in [lack \X spare -> Int] /\ m[<<d, s>>] = Given(m, lack, spare, <<d, s>>)
    BY MatchRecursion
<1>2. Greater(spare, s) \subseteq spare /\ Greater(lack, d) \subseteq lack
    BY DEF Greater
<1>3. SumFunction(row) = SumFunctionOnSet(Row(m, spare, d), Greater(spare, s))
    <2>1. DOMAIN row = Greater(spare, s) /\ \A t \in Greater(spare, s) : row[t] = Row(m, spare, d)[t]
        BY <1>2 DEF Row
    <2> HIDE DEF row
    <2>. QED
        BY <2>1, GreaterLeads, SumOfEqual DEF SumFunction
<1>4. SumFunction(col) = SumFunctionOnSet(Col(m, lack, s), Greater(lack, d))
    <2>1. DOMAIN col = Greater(lack, d) /\ \A e \in Greater(lack, d) : col[e] = Col(m, lack, s)[e]
        BY <1>2 DEF Col
    <2> HIDE DEF col
    <2>. QED
        BY <2>1, GreaterLeads, SumOfEqual DEF SumFunction
<1>5. \A t \in Greater(spare, s) : m[<<d, t>>] \in Int
    BY <1>1, <1>2
<1>6. \A e \in Greater(lack, d) : m[<<e, s>>] \in Int
    BY <1>1, <1>2
<1>7. SumFunction(row) \in Int /\ SumFunction(col) \in Int
    <2>1. DOMAIN row = Greater(spare, s) /\ \A t \in Greater(spare, s) : row[t] \in Int
        BY <1>5
    <2>2. DOMAIN col = Greater(lack, d) /\ \A e \in Greater(lack, d) : col[e] \in Int
        BY <1>6
    <2> HIDE DEF row, col
    <2>. QED
        BY <2>1, <2>2, GreaterLeads, SumIsInteger DEF SumFunction
<1>8. d.amount \in Int /\ s.amount \in Int
    BY DEF Listed
<1>9. m[<<d, s>>] = IF d.chain = s.chain THEN 0
                    ELSE Smaller(d.amount - SumFunction(row), s.amount - SumFunction(col))
    BY <1>1 DEF Given
<1> HIDE DEF row, col
<1>. QED
    BY <1>1, <1>3, <1>4, <1>7, <1>8, <1>9

(* A deficit is never given more than it is, and no surplus gives more than   *)
(* it is; and neither takes anything back.                                    *)
LEMMA MatchBounds ==
    ASSUME NEW lack, Listed(lack), NEW spare, Listed(spare), NEW m, m = Match(lack, spare)
    PROVE  /\ \A d \in lack, s \in spare : m[<<d, s>>] \in Nat
           /\ \A d \in lack : \A T : Leading(spare, T) => SumFunctionOnSet(Row(m, spare, d), T) <= d.amount
           /\ \A s \in spare : \A T : Leading(lack, T) => SumFunctionOnSet(Col(m, lack, s), T) <= s.amount
<1>1. ASSUME NEW d \in lack, NEW T, Leading(spare, T)
      PROVE  SumFunctionOnSet(Row(m, spare, d), T) <= d.amount
    <2> DEFINE f == Row(m, spare, d)
    <2>1. ASSUME NEW s \in spare
          PROVE  f[s] \in Int /\ (f[s] <= 0 \/ f[s] <= d.amount - SumFunctionOnSet(f, Greater(spare, s)))
        <3>1. f[s] = m[<<d, s>>]
            BY DEF Row
        <3>. QED
            BY <3>1, MatchRule DEF Smaller
    <2>2. d.amount \in Nat
        BY DEF Listed
    <2> HIDE DEF f
    <2>3. SumFunctionOnSet(f, T) <= d.amount
        BY <1>1, <2>1, <2>2, LeadingSum
    <2>. QED
        BY <2>3 DEF f
<1>2. ASSUME NEW s \in spare, NEW T, Leading(lack, T)
      PROVE  SumFunctionOnSet(Col(m, lack, s), T) <= s.amount
    <2> DEFINE f == Col(m, lack, s)
    <2>1. ASSUME NEW d \in lack
          PROVE  f[d] \in Int /\ (f[d] <= 0 \/ f[d] <= s.amount - SumFunctionOnSet(f, Greater(lack, d)))
        <3>1. f[d] = m[<<d, s>>]
            BY DEF Col
        <3>. QED
            BY <3>1, MatchRule DEF Smaller
    <2>2. s.amount \in Nat
        BY DEF Listed
    <2> HIDE DEF f
    <2>3. SumFunctionOnSet(f, T) <= s.amount
        BY <1>2, <2>1, <2>2, LeadingSum
    <2>. QED
        BY <2>3 DEF f
<1>3. ASSUME NEW d \in lack, NEW s \in spare PROVE m[<<d, s>>] \in Nat
    <2> DEFINE needed == d.amount - SumFunctionOnSet(Row(m, spare, d), Greater(spare, s))
               left == s.amount - SumFunctionOnSet(Col(m, lack, s), Greater(lack, d))
    <2>1. /\ m[<<d, s>>] \in Int /\ needed \in Int /\ left \in Int
          /\ m[<<d, s>>] = IF d.chain = s.chain THEN 0 ELSE Smaller(needed, left)
        BY MatchRule
    <2>2. /\ SumFunctionOnSet(Row(m, spare, d), Greater(spare, s)) <= d.amount
          /\ SumFunctionOnSet(Col(m, lack, s), Greater(lack, d)) <= s.amount
        BY <1>1, <1>2, GreaterLeads
    <2>3. \A t \in spare : Row(m, spare, d)[t] \in Int
        BY MatchRecursion DEF Row
    <2>4. \A e \in lack : Col(m, lack, s)[e] \in Int
        BY MatchRecursion DEF Col
    <2>5. SumFunctionOnSet(Row(m, spare, d), Greater(spare, s)) \in Int
        BY <2>3, GreaterLeads, SumIsInteger DEF Greater
    <2>6. SumFunctionOnSet(Col(m, lack, s), Greater(lack, d)) \in Int
        BY <2>4, GreaterLeads, SumIsInteger DEF Greater
    <2>7. d.amount \in Int /\ s.amount \in Int
        BY DEF Listed
    <2>8. needed >= 0 /\ left >= 0
        BY <2>2, <2>5, <2>6, <2>7
    <2> HIDE DEF needed, left
    <2>. QED
        BY <2>1, <2>8 DEF Smaller
<1>. QED
    BY <1>1, <1>2, <1>3

LEMMA TotalIsSum ==
    ASSUME NEW S
    PROVE  Total(S) = SumFunctionOnSet([x \in S |-> x.amount], S)
BY DEF Total, SumFunction

(* Rows and columns are of naturals, and so are their sums.                   *)
LEMMA MatchTypes ==
    ASSUME NEW lack, Listed(lack), NEW spare, Listed(spare), NEW m, m = Match(lack, spare)
    PROVE  /\ \A d \in lack, s \in spare :
                /\ m[<<d, s>>] \in Nat /\ m[<<d, s>>] \in Int
                /\ Row(m, spare, d)[s] = m[<<d, s>>] /\ Col(m, lack, s)[d] = m[<<d, s>>]
           /\ \A d \in lack : \A T \in SUBSET spare :
                IsFiniteSet(T) /\ SumFunctionOnSet(Row(m, spare, d), T) \in Nat
           /\ \A s \in spare : \A T \in SUBSET lack :
                IsFiniteSet(T) /\ SumFunctionOnSet(Col(m, lack, s), T) \in Nat
<1>1. \A d \in lack, s \in spare : m[<<d, s>>] \in Nat
    BY MatchBounds
<1>5. ASSUME NEW d \in lack, NEW s \in spare PROVE m[<<d, s>>] \in Int
    <2>1. m[<<d, s>>] \in Nat
        BY <1>1
    <2>. QED
        BY <2>1
<1>2. \A d \in lack, s \in spare : Row(m, spare, d)[s] = m[<<d, s>>] /\ Col(m, lack, s)[d] = m[<<d, s>>]
    BY DEF Row, Col
<1>3. ASSUME NEW d \in lack, NEW T \in SUBSET spare
      PROVE  IsFiniteSet(T) /\ SumFunctionOnSet(Row(m, spare, d), T) \in Nat
    <2>1. IsFiniteSet(T) /\ \A s \in T : Row(m, spare, d)[s] \in Nat
        BY <1>1, <1>2, FS_Subset DEF Listed
    <2>. QED
        BY <2>1, SumIsNatural
<1>4. ASSUME NEW s \in spare, NEW T \in SUBSET lack
      PROVE  IsFiniteSet(T) /\ SumFunctionOnSet(Col(m, lack, s), T) \in Nat
    <2>1. IsFiniteSet(T) /\ \A d \in T : Col(m, lack, s)[d] \in Nat
        BY <1>1, <1>2, FS_Subset DEF Listed
    <2>. QED
        BY <2>1, SumIsNatural
<1>. QED
    BY <1>1, <1>2, <1>3, <1>4, <1>5

(* Up to and with a surplus that gives a deficit what it needed, the deficit  *)
(* is met; and likewise for a surplus that gives what it has left.            *)
LEMMA MatchCompletes ==
    ASSUME NEW lack, Listed(lack), NEW spare, Listed(spare), NEW d \in lack, NEW s \in spare,
           NEW m, m = Match(lack, spare)
    PROVE  LET row == SumFunctionOnSet(Row(m, spare, d), Greater(spare, s) \cup {s})
               col == SumFunctionOnSet(Col(m, lack, s), Greater(lack, d) \cup {d})
           IN  /\ row \in Nat /\ col \in Nat /\ row <= d.amount /\ col <= s.amount
               /\ row = m[<<d, s>>] + SumFunctionOnSet(Row(m, spare, d), Greater(spare, s))
               /\ col = m[<<d, s>>] + SumFunctionOnSet(Col(m, lack, s), Greater(lack, d))
               /\ d.chain # s.chain /\ row < d.amount => s.amount <= col
<1> DEFINE row == SumFunctionOnSet(Row(m, spare, d), Greater(spare, s) \cup {s})
           col == SumFunctionOnSet(Col(m, lack, s), Greater(lack, d) \cup {d})
           rowG == SumFunctionOnSet(Row(m, spare, d), Greater(spare, s))
           colG == SumFunctionOnSet(Col(m, lack, s), Greater(lack, d))
<1>0. /\ \A e \in lack, t \in spare :
            m[<<e, t>>] \in Int /\ Row(m, spare, e)[t] = m[<<e, t>>] /\ Col(m, lack, t)[e] = m[<<e, t>>]
      /\ \A T \in SUBSET spare : SumFunctionOnSet(Row(m, spare, d), T) \in Nat
      /\ \A T \in SUBSET lack : SumFunctionOnSet(Col(m, lack, s), T) \in Nat
    BY MatchTypes
<1>1. /\ Greater(spare, s) \in SUBSET spare /\ Greater(spare, s) \cup {s} \in SUBSET spare
      /\ Greater(lack, d) \in SUBSET lack /\ Greater(lack, d) \cup {d} \in SUBSET lack
    BY DEF Greater
<1>2. row \in Nat /\ col \in Nat /\ rowG \in Nat /\ colG \in Nat
    BY <1>0, <1>1
<1>3. \A t \in Greater(spare, s) \cup {s} : Row(m, spare, d)[t] \in Int
    BY <1>0, <1>1
<1>4. \A e \in Greater(lack, d) \cup {d} : Col(m, lack, s)[e] \in Int
    BY <1>0, <1>1
<1>5. row = m[<<d, s>>] + rowG
    <2>1. Row(m, spare, d)[s] = m[<<d, s>>]
        BY <1>0
    <2>. QED
        BY <1>3, <2>1, GreaterLeads, SumWith
<1>6. col = m[<<d, s>>] + colG
    <2>1. Col(m, lack, s)[d] = m[<<d, s>>]
        BY <1>0
    <2>. QED
        BY <1>4, <2>1, GreaterLeads, SumWith
<1>7. /\ m[<<d, s>>] \in Int
      /\ m[<<d, s>>] = IF d.chain = s.chain THEN 0 ELSE Smaller(d.amount - rowG, s.amount - colG)
    BY MatchRule
<1>8. Leading(spare, Greater(spare, s) \cup {s}) /\ Leading(lack, Greater(lack, d) \cup {d})
    BY GreaterLeads DEF Leading, Greater
<1>9. row <= d.amount /\ col <= s.amount
    BY <1>8, MatchBounds
<1>10. d.amount \in Int /\ s.amount \in Int
    BY DEF Listed
<1> HIDE DEF row, col, rowG, colG
<1>11. d.chain # s.chain /\ row < d.amount => s.amount <= col
    BY <1>2, <1>5, <1>6, <1>7, <1>10 DEF Smaller
<1>. QED
    BY <1>2, <1>5, <1>6, <1>9, <1>11 DEF row, col, rowG, colG

(* If a deficit is not met, and no surplus is of its chain, each surplus has  *)
(* given all it had to it and to the greater deficits.                        *)
LEMMA MatchShort ==
    ASSUME NEW lack, Listed(lack), NEW spare, Listed(spare), NEW d \in lack,
           NEW m, m = Match(lack, spare),
           \A s \in spare : s.chain # d.chain,
           SumFunctionOnSet(Row(m, spare, d), spare) # d.amount
    PROVE  Total(spare) < Total(lack)
<1>0. /\ \A e \in lack, t \in spare :
            m[<<e, t>>] \in Nat /\ m[<<e, t>>] \in Int /\ Row(m, spare, e)[t] = m[<<e, t>>]
      /\ \A e \in lack : SumFunctionOnSet(Row(m, spare, e), spare) \in Nat
    BY MatchTypes
<1>18. ASSUME NEW s \in spare
       PROVE  SumFunctionOnSet(Row(m, spare, d), Greater(spare, s) \cup {s}) < d.amount
              => SumFunctionOnSet(Col(m, lack, s), Greater(lack, d) \cup {d}) = s.amount
    <2> DEFINE row == SumFunctionOnSet(Row(m, spare, d), Greater(spare, s) \cup {s})
               col == SumFunctionOnSet(Col(m, lack, s), Greater(lack, d) \cup {d})
    <2>1. s.chain # d.chain
        OBVIOUS
    <2>2. /\ row \in Nat /\ col \in Nat /\ col <= s.amount
          /\ d.chain # s.chain /\ row < d.amount => s.amount <= col
        BY MatchCompletes
    <2>3. s.amount \in Nat
        BY DEF Listed
    <2> HIDE DEF row, col
    <2>4. row < d.amount => col = s.amount
        BY <2>1, <2>2, <2>3
    <2>. QED
        BY <2>4 DEF row, col
<1> DEFINE R(e) == SumFunctionOnSet(Row(m, spare, e), spare)
<1>1. \A e \in lack : R(e) \in Nat /\ R(e) <= e.amount /\ e.amount \in Nat
    BY <1>0, MatchBounds, GreaterLeads DEF Listed
<1>2. R(d) < d.amount
    BY <1>1
<1> DEFINE C == Greater(lack, d) \cup {d}
           rows == [e \in lack |-> SumFunctionOnSet(Row(m, spare, e), spare)]
           cols == [s \in spare |-> SumFunctionOnSet(Col(m, lack, s), C)]
           lacks == [e \in lack |-> e.amount]
           spares == [s \in spare |-> s.amount]
<1>3. C \in SUBSET lack /\ IsFiniteSet(C) /\ IsFiniteSet(C \ {d}) /\ IsFiniteSet(lack) /\ IsFiniteSet(spare)
    BY FS_Subset DEF Greater, Listed
<1>4. ASSUME NEW s \in spare PROVE SumFunctionOnSet(Col(m, lack, s), C) = s.amount
    <2>1. SumFunctionOnSet(Row(m, spare, d), Greater(spare, s) \cup {s}) < d.amount
          => SumFunctionOnSet(Col(m, lack, s), C) = s.amount
        BY <1>18
    <2>2. SumFunctionOnSet(Row(m, spare, d), Greater(spare, s) \cup {s}) <= R(d)
        <3>1. \A t \in spare : Row(m, spare, d)[t] \in Nat
            BY <1>0
        <3>2. Greater(spare, s) \cup {s} \subseteq spare
            BY DEF Greater
        <3>. QED
            BY <1>3, <3>1, <3>2, SumOfPart
    <2>3. SumFunctionOnSet(Row(m, spare, d), Greater(spare, s) \cup {s}) \in Nat
        BY MatchTypes DEF Greater
    <2>4. SumFunctionOnSet(Row(m, spare, d), Greater(spare, s) \cup {s}) < d.amount
        <3> HIDE DEF R
        <3>. QED
            BY <1>1, <1>2, <2>2, <2>3
    <2>. QED
        BY <2>1, <2>4
<1>5. \A e \in lack : rows[e] = R(e)
    OBVIOUS
<1>6. \A s \in spare : cols[s] = s.amount /\ spares[s] = s.amount
    BY <1>4
<1>7. SumFunctionOnSet(rows, C) = SumFunctionOnSet(cols, spare)
    <2>1. m \in [lack \X spare -> Int]
        BY MatchRecursion
    <2>2. \A e \in lack : rows[e] = SumFunctionOnSet(Row(m, spare, e), spare)
        OBVIOUS
    <2>3. \A s \in spare : cols[s] = SumFunctionOnSet(Col(m, lack, s), C)
        OBVIOUS
    <2> HIDE DEF C, rows, cols, R, lacks, spares
    <2>4. IsFiniteSet(lack) /\ IsFiniteSet(spare) /\ C \in SUBSET lack
        BY <1>3
    <2>. QED
        BY <2>1, <2>2, <2>3, <2>4, SumOfRows, SMTT(30)
<1>8. \A e \in lack : lacks[e] = e.amount
    OBVIOUS
<1>9. Total(spare) = SumFunctionOnSet(spares, spare) /\ Total(lack) = SumFunctionOnSet(lacks, lack)
    BY TotalIsSum
<1> HIDE DEF R, rows, cols, lacks, spares
<1>10. SumFunctionOnSet(cols, spare) = SumFunctionOnSet(spares, spare)
    BY <1>3, <1>6, SumOfEqual
<1>11. SumFunctionOnSet(rows, C \ {d}) <= SumFunctionOnSet(lacks, C \ {d})
    <2>1. \A e \in C \ {d} : rows[e] \in Int /\ lacks[e] \in Int /\ rows[e] <= lacks[e]
        BY <1>1, <1>3, <1>5, <1>8
    <2> HIDE DEF C
    <2>. QED
        BY <1>3, <2>1, SumOfLess
<1>12. /\ SumFunctionOnSet(rows, C) = rows[d] + SumFunctionOnSet(rows, C \ {d})
       /\ SumFunctionOnSet(lacks, C) = lacks[d] + SumFunctionOnSet(lacks, C \ {d})
    <2>1. d \in C /\ \A e \in C : rows[e] \in Int /\ lacks[e] \in Int
        BY <1>1, <1>3, <1>5, <1>8
    <2> HIDE DEF C
    <2>. QED
        BY <1>3, <2>1, SumWithout
<1>13. SumFunctionOnSet(rows, C \ {d}) \in Int /\ SumFunctionOnSet(lacks, C \ {d}) \in Int
    <2>1. \A e \in C \ {d} : rows[e] \in Int /\ lacks[e] \in Int
        BY <1>1, <1>3, <1>5, <1>8
    <2> HIDE DEF C
    <2>. QED
        BY <1>3, <2>1, SumIsInteger
<1>14. SumFunctionOnSet(lacks, C) <= SumFunctionOnSet(lacks, lack)
    <2>1. \A e \in lack : lacks[e] \in Nat
        BY <1>1, <1>8
    <2> HIDE DEF C
    <2>. QED
        BY <1>3, <2>1, SumOfPart
<1>15. SumFunctionOnSet(lacks, lack) \in Int
    <2>1. \A e \in lack : lacks[e] \in Int
        BY <1>1, <1>8
    <2>. QED
        BY <1>3, <2>1, SumIsInteger
<1>16. rows[d] < lacks[d] /\ rows[d] \in Int /\ lacks[d] \in Int
    BY <1>1, <1>2, <1>5, <1>8
<1> HIDE DEF C
<1>17. SumFunctionOnSet(rows, C) < SumFunctionOnSet(lacks, C) /\ SumFunctionOnSet(rows, C) \in Int
       /\ SumFunctionOnSet(lacks, C) \in Int
    BY <1>11, <1>12, <1>13, <1>16
<1>. QED
    BY <1>7, <1>9, <1>10, <1>14, <1>15, <1>17

(* If the surpluses suffice, and no chain has both a deficit and a surplus,   *)
(* each deficit is met.                                                       *)
LEMMA MatchMeets ==
    ASSUME NEW lack, Listed(lack), NEW spare, Listed(spare),
           NEW m, m = Match(lack, spare), \A d \in lack, s \in spare : d.chain # s.chain,
           Total(spare) >= Total(lack), Total(spare) \in Int, Total(lack) \in Int
    PROVE  \A d \in lack : SumFunctionOnSet(Row(m, spare, d), spare) = d.amount
BY MatchShort

-----------------------------------------------------------------------------
(* The transfers of a plan. *)

LEMMA ToCentsIsNear ==
    ASSUME NEW n \in Nat
    PROVE  /\ ToCents(n) \in Nat
           /\ ToCents(n) <= n + CentUnits \div 2
           /\ 2 * (ToCents(n) - n) <= CentUnits /\ 2 * (n - ToCents(n)) <= CentUnits
<1> DEFINE h == CentUnits \div 2
           q == (n + h) \div CentUnits
<1>1. CentUnits \in Nat /\ CentUnits > 0
    BY RebalancingAssumption
<1>2. h \in Nat /\ 2 * h <= CentUnits /\ CentUnits <= 2 * h + 1
    BY <1>1
<1> HIDE DEF h
<1>3. n + h \in Nat
    BY <1>2
<1>4. \A k \in Nat : /\ k \div CentUnits \in Nat
                     /\ (k \div CentUnits) * CentUnits \in Nat
                     /\ (k \div CentUnits) * CentUnits <= k
                     /\ k < (k \div CentUnits) * CentUnits + CentUnits
    BY <1>1
<1>5. q * CentUnits \in Nat /\ q * CentUnits <= n + h /\ n + h < q * CentUnits + CentUnits
    BY <1>3, <1>4
<1>6. ToCents(n) = q * CentUnits
    BY DEF ToCents, h
<1> HIDE DEF q
<1>7. ToCents(n) \in Nat /\ ToCents(n) <= n + h /\ n + h < ToCents(n) + CentUnits
    BY <1>5, <1>6
<1>8. ToCents(n) <= n + CentUnits \div 2
    BY <1>7 DEF h
<1>9. 2 * (ToCents(n) - n) <= CentUnits /\ 2 * (n - ToCents(n)) <= CentUnits
    BY <1>1, <1>2, <1>7
<1>. QED
    BY <1>7, <1>8, <1>9

(* A set of transfers, of amounts that are rounded.                           *)
LEMMA RoundedTotal ==
    ASSUME NEW U, IsFiniteSet(U), NEW h, \A x, y \in U : h[x] = h[y] => x = y,
           NEW v, \A x \in U : v[x] \in Nat /\ h[x].amount = ToCents(v[x]),
           NEW I, \A x \in U : h[x] \in I, \A y \in I : \E x \in U : y = h[x]
    PROVE  /\ IsFiniteSet(I) /\ Cardinality(I) = Cardinality(U)
           /\ Total(I) \in Nat
           /\ Total(I) <= SumFunctionOnSet(v, U) + (CentUnits \div 2) * Cardinality(I)
           /\ 2 * (Total(I) - SumFunctionOnSet(v, U)) <= CentUnits * Cardinality(I)
           /\ 2 * (SumFunctionOnSet(v, U) - Total(I)) <= CentUnits * Cardinality(I)
<1> DEFINE f == [x \in I |-> x.amount]
           c == [x \in U |-> f[h[x]]]
<1>1. \A x \in U : f[h[x]] = ToCents(v[x]) /\ c[x] = ToCents(v[x])
    OBVIOUS
<1>2. \A x \in U : v[x] \in Int /\ f[h[x]] \in Int /\ c[x] \in Nat /\ c[x] \in Int
    BY <1>1, ToCentsIsNear
<1>3. \A x \in U : c[x] <= v[x] + CentUnits \div 2
    BY <1>1, ToCentsIsNear
<1>4. \A x \in U : 2 * (c[x] - v[x]) <= CentUnits /\ 2 * (v[x] - c[x]) <= CentUnits
    BY <1>1, ToCentsIsNear
<1>5. Total(I) = SumFunctionOnSet(f, I)
    BY TotalIsSum
<1> HIDE DEF f
<1>6. /\ IsFiniteSet(I) /\ Cardinality(I) = Cardinality(U)
      /\ SumFunctionOnSet(f, I) = SumFunctionOnSet(c, U)
    BY <1>2, SumOfImage
<1>7. CentUnits \in Int /\ CentUnits \div 2 \in Int
    BY RebalancingAssumption
<1> HIDE DEF c
<1>8. SumFunctionOnSet(c, U) \in Nat
    BY <1>2, SumIsNatural
<1>9. SumFunctionOnSet(c, U) <= SumFunctionOnSet(v, U) + (CentUnits \div 2) * Cardinality(U)
    BY <1>2, <1>3, <1>7, SumAtMost
<1>10. 2 * (SumFunctionOnSet(c, U) - SumFunctionOnSet(v, U)) <= CentUnits * Cardinality(U)
    BY <1>2, <1>4, <1>7, SumWithin
<1>11. 2 * (SumFunctionOnSet(v, U) - SumFunctionOnSet(c, U)) <= CentUnits * Cardinality(U)
    BY <1>2, <1>4, <1>7, SumWithin
<1>. QED
    BY <1>5, <1>6, <1>8, <1>9, <1>10, <1>11

(* Records that can be sorted, one for each chain.                            *)
OneEach(S) == Listed(S) /\ \A x, y \in S : x.chain = y.chain => x = y

MoveOf(m, d, s) ==
    [asset |-> d.asset, from |-> s.chain, to |-> d.chain,
     amount |-> ToCents(m[<<d, s>>]), at |-> "planned"]

(* A plan has a transfer for each pair of which something is given.           *)
LEMMA PlanMoves ==
    ASSUME NEW lack, Listed(lack), NEW spare, Listed(spare), NEW m, m = Match(lack, spare),
           NEW moves, moves = PlanTransfersForAsset(lack, spare).moves
    PROVE  /\ \A d \in lack, s \in spare : m[<<d, s>>] > 0 => MoveOf(m, d, s) \in moves
           /\ \A x \in moves : \E d \in lack, s \in spare : m[<<d, s>>] > 0 /\ x = MoveOf(m, d, s)
<1>1. DOMAIN m = lack \X spare
    BY MatchRecursion
<1>2. moves = {[asset |-> p[1].asset, from |-> p[2].chain, to |-> p[1].chain,
                amount |-> ToCents(m[p]), at |-> "planned"] : p \in {p \in lack \X spare : m[p] > 0}}
    BY <1>1 DEF PlanTransfersForAsset
<1>3. ASSUME NEW d \in lack, NEW s \in spare, m[<<d, s>>] > 0 PROVE MoveOf(m, d, s) \in moves
    <2>1. <<d, s>> \in {p \in lack \X spare : m[p] > 0}
        BY <1>3
    <2>. QED
        BY <1>2, <2>1 DEF MoveOf
<1>4. ASSUME NEW x \in moves PROVE \E d \in lack, s \in spare : m[<<d, s>>] > 0 /\ x = MoveOf(m, d, s)
    <2>1. PICK p \in lack \X spare : m[p] > 0 /\
            x = [asset |-> p[1].asset, from |-> p[2].chain, to |-> p[1].chain,
                 amount |-> ToCents(m[p]), at |-> "planned"]
        BY <1>2, <1>4
    <2>2. p[1] \in lack /\ p[2] \in spare /\ p = <<p[1], p[2]>>
        BY <2>1
    <2>3. m[<<p[1], p[2]>>] > 0 /\ x = MoveOf(m, p[1], p[2])
        BY <2>1, <2>2 DEF MoveOf
    <2>. QED
        BY <2>2, <2>3
<1>. QED
    BY <1>3, <1>4

(* What a plan moves to the chain of a deficit, and from that of a surplus.   *)
LEMMA PlanInto ==
    ASSUME NEW lack, OneEach(lack), NEW spare, OneEach(spare), NEW m, m = Match(lack, spare),
           NEW moves, moves = PlanTransfersForAsset(lack, spare).moves,
           NEW d \in lack, NEW I, I = {x \in moves : x.to = d.chain},
           NEW given, given = SumFunctionOnSet(Row(m, spare, d), spare)
    PROVE  /\ IsFiniteSet(I) /\ Cardinality(I) <= Cardinality(spare) /\ Total(I) \in Nat
           /\ Total(I) <= given + (CentUnits \div 2) * Cardinality(I)
           /\ 2 * (Total(I) - given) <= CentUnits * Cardinality(I)
           /\ 2 * (given - Total(I)) <= CentUnits * Cardinality(I)
<1> DEFINE U == {s \in spare : m[<<d, s>>] > 0}
           h == [s \in U |-> MoveOf(m, d, s)]
           v == Row(m, spare, d)
<1>1. Listed(lack) /\ Listed(spare) /\ IsFiniteSet(spare)
    BY DEF OneEach, Listed
<1>2. \A s \in spare : m[<<d, s>>] \in Nat /\ m[<<d, s>>] \in Int /\ v[s] = m[<<d, s>>]
    BY <1>1, MatchTypes
<1>3. IsFiniteSet(U) /\ U \subseteq spare /\ Cardinality(U) <= Cardinality(spare)
    BY <1>1, FS_Subset
<1>4. \A x, y \in U : h[x] = h[y] => x = y
    BY DEF MoveOf, OneEach
<1>5. \A x \in U : v[x] \in Nat /\ h[x].amount = ToCents(v[x])
    BY <1>2 DEF MoveOf
<1>6. ASSUME NEW x \in U PROVE h[x] \in I
    <2>1. MoveOf(m, d, x) \in moves
        BY <1>1, PlanMoves
    <2>. QED
        BY <2>1 DEF MoveOf
<1>7. ASSUME NEW y \in I PROVE \E x \in U : y = h[x]
    <2>1. y \in moves /\ y.to = d.chain
        BY <1>7
    <2>2. PICK e \in lack, s \in spare : m[<<e, s>>] > 0 /\ y = MoveOf(m, e, s)
        BY <1>1, <2>1, PlanMoves
    <2>3. e = d
        BY <2>1, <2>2 DEF MoveOf, OneEach
    <2>. QED
        BY <2>2, <2>3
<1>8. SumFunctionOnSet(v, U) = given
    <2>1. \A s \in spare : v[s] \in Int
        BY <1>2
    <2>2. \A s \in spare \ U : v[s] = 0
        BY <1>2
    <2> HIDE DEF v, U
    <2>3. SumFunctionOnSet(v, U) = SumFunctionOnSet(v, spare)
        BY <1>1, <1>3, <2>1, <2>2, SumOfSupport
    <2>. QED
        BY <2>3 DEF v
<1> HIDE DEF U, h, v
<1>. QED
    BY <1>3, <1>4, <1>5, <1>6, <1>7, <1>8, RoundedTotal

LEMMA PlanOutOf ==
    ASSUME NEW lack, OneEach(lack), NEW spare, OneEach(spare), NEW m, m = Match(lack, spare),
           NEW moves, moves = PlanTransfersForAsset(lack, spare).moves,
           NEW s \in spare, NEW I, I = {x \in moves : x.from = s.chain},
           NEW given, given = SumFunctionOnSet(Col(m, lack, s), lack)
    PROVE  /\ IsFiniteSet(I) /\ Cardinality(I) <= Cardinality(lack) /\ Total(I) \in Nat
           /\ Total(I) <= given + (CentUnits \div 2) * Cardinality(I)
           /\ 2 * (Total(I) - given) <= CentUnits * Cardinality(I)
<1> DEFINE U == {d \in lack : m[<<d, s>>] > 0}
           h == [d \in U |-> MoveOf(m, d, s)]
           v == Col(m, lack, s)
<1>1. Listed(lack) /\ Listed(spare) /\ IsFiniteSet(lack)
    BY DEF OneEach, Listed
<1>2. \A d \in lack : m[<<d, s>>] \in Nat /\ m[<<d, s>>] \in Int /\ v[d] = m[<<d, s>>]
    BY <1>1, MatchTypes
<1>3. IsFiniteSet(U) /\ U \subseteq lack /\ Cardinality(U) <= Cardinality(lack)
    BY <1>1, FS_Subset
<1>4. \A x, y \in U : h[x] = h[y] => x = y
    BY DEF MoveOf, OneEach
<1>5. \A x \in U : v[x] \in Nat /\ h[x].amount = ToCents(v[x])
    BY <1>2 DEF MoveOf
<1>6. ASSUME NEW x \in U PROVE h[x] \in I
    <2>1. MoveOf(m, x, s) \in moves
        BY <1>1, PlanMoves
    <2>. QED
        BY <2>1 DEF MoveOf
<1>7. ASSUME NEW y \in I PROVE \E x \in U : y = h[x]
    <2>1. y \in moves /\ y.from = s.chain
        BY <1>7
    <2>2. PICK d \in lack, t \in spare : m[<<d, t>>] > 0 /\ y = MoveOf(m, d, t)
        BY <1>1, <2>1, PlanMoves
    <2>3. t = s
        BY <2>1, <2>2 DEF MoveOf, OneEach
    <2>. QED
        BY <2>2, <2>3
<1>8. SumFunctionOnSet(v, U) = given
    <2>1. \A d \in lack : v[d] \in Int
        BY <1>2
    <2>2. \A d \in lack \ U : v[d] = 0
        BY <1>2
    <2> HIDE DEF v, U
    <2>3. SumFunctionOnSet(v, U) = SumFunctionOnSet(v, lack)
        BY <1>1, <1>3, <2>1, <2>2, SumOfSupport
    <2>. QED
        BY <2>3 DEF v
<1> HIDE DEF U, h, v
<1>. QED
    BY <1>3, <1>4, <1>5, <1>6, <1>7, <1>8, RoundedTotal

LEMMA MatchWithin ==
    ASSUME NEW lack, Listed(lack), NEW spare, Listed(spare), NEW m, m = Match(lack, spare),
           NEW d \in lack, NEW s \in spare
    PROVE  /\ m[<<d, s>>] + SumFunctionOnSet(Row(m, spare, d), Greater(spare, s)) <= d.amount
           /\ m[<<d, s>>] + SumFunctionOnSet(Col(m, lack, s), Greater(lack, d)) <= s.amount
<1> DEFINE row == SumFunctionOnSet(Row(m, spare, d), Greater(spare, s) \cup {s})
           col == SumFunctionOnSet(Col(m, lack, s), Greater(lack, d) \cup {d})
           rowG == SumFunctionOnSet(Row(m, spare, d), Greater(spare, s))
           colG == SumFunctionOnSet(Col(m, lack, s), Greater(lack, d))
<1>1. row <= d.amount /\ col <= s.amount /\ row = m[<<d, s>>] + rowG /\ col = m[<<d, s>>] + colG
    BY MatchCompletes
<1> HIDE DEF row, col
<1>. QED
    BY <1>1

(* A deficit that is met gets nothing from the lesser surpluses, and a        *)
(* surplus that is exhausted gives nothing to the lesser deficits.            *)
LEMMA MetOnce ==
    ASSUME NEW lack, Listed(lack), NEW spare, Listed(spare), NEW m, m = Match(lack, spare),
           NEW d \in lack, NEW s \in spare, NEW t \in spare, Before(s, t), m[<<d, t>>] > 0
    PROVE  SumFunctionOnSet(Row(m, spare, d), Greater(spare, s) \cup {s}) < d.amount
<1> DEFINE S == Greater(spare, s) \cup {s}
           T == Greater(spare, t)
           row == Row(m, spare, d)
<1>1. S \subseteq T /\ T \subseteq spare
    BY BeforeIsOrder DEF Greater
<1>2. \A x \in spare : row[x] \in Nat
    <2>1. \A x \in spare : m[<<d, x>>] \in Nat /\ row[x] = m[<<d, x>>]
        BY MatchTypes
    <2>. QED
        BY <2>1
<1>3. IsFiniteSet(T) /\ \A x \in T : row[x] \in Nat
    BY <1>1, <1>2, GreaterLeads
<1>4. SumFunctionOnSet(row, S) \in Nat /\ SumFunctionOnSet(row, T) \in Nat /\ d.amount \in Nat
    BY <1>1, MatchTypes DEF Listed
<1>5. m[<<d, t>>] + SumFunctionOnSet(row, T) <= d.amount
    BY MatchWithin
<1>6. m[<<d, t>>] \in Nat
    BY MatchTypes
<1> HIDE DEF S, T, row
<1>7. SumFunctionOnSet(row, S) <= SumFunctionOnSet(row, T)
    BY <1>1, <1>3, SumOfPart
<1>8. SumFunctionOnSet(row, S) < d.amount
    BY <1>4, <1>5, <1>6, <1>7
<1>. QED
    BY <1>8 DEF S, row

LEMMA ExhaustedOnce ==
    ASSUME NEW lack, Listed(lack), NEW spare, Listed(spare), NEW m, m = Match(lack, spare),
           NEW s \in spare, NEW d \in lack, NEW e \in lack, Before(d, e), m[<<e, s>>] > 0
    PROVE  SumFunctionOnSet(Col(m, lack, s), Greater(lack, d) \cup {d}) < s.amount
<1> DEFINE S == Greater(lack, d) \cup {d}
           T == Greater(lack, e)
           col == Col(m, lack, s)
<1>1. S \subseteq T /\ T \subseteq lack
    BY BeforeIsOrder DEF Greater
<1>2. \A x \in lack : col[x] \in Nat
    <2>1. \A x \in lack : m[<<x, s>>] \in Nat /\ col[x] = m[<<x, s>>]
        BY MatchTypes
    <2>. QED
        BY <2>1
<1>3. IsFiniteSet(T) /\ \A x \in T : col[x] \in Nat
    BY <1>1, <1>2, GreaterLeads
<1>4. SumFunctionOnSet(col, S) \in Nat /\ SumFunctionOnSet(col, T) \in Nat /\ s.amount \in Nat
    BY <1>1, MatchTypes DEF Listed
<1>5. m[<<e, s>>] + SumFunctionOnSet(col, T) <= s.amount
    BY MatchWithin
<1>6. m[<<e, s>>] \in Nat
    BY MatchTypes
<1> HIDE DEF S, T, col
<1>7. SumFunctionOnSet(col, S) <= SumFunctionOnSet(col, T)
    BY <1>1, <1>3, SumOfPart
<1>8. SumFunctionOnSet(col, S) < s.amount
    BY <1>4, <1>5, <1>6, <1>7
<1>. QED
    BY <1>8 DEF S, col

(* Each transfer of a plan that meets all deficits completes its deficit or   *)
(* exhausts its surplus, and the last surplus is not exhausted by a transfer  *)
(* that does not complete: there are fewer transfers than chains involved.    *)
LEMMA FewTransfers ==
    ASSUME NEW lack, OneEach(lack), NEW spare, OneEach(spare), NEW m, m = Match(lack, spare),
           \A d \in lack, s \in spare : d.chain # s.chain,
           \A d \in lack : SumFunctionOnSet(Row(m, spare, d), spare) = d.amount,
           NEW moves, moves = PlanTransfersForAsset(lack, spare).moves
    PROVE  moves = {} \/ Cardinality(moves) < Cardinality(lack) + Cardinality(spare)
<1> DEFINE used == {p \in lack \X spare : m[p] > 0}
           Meets(d, s) == SumFunctionOnSet(Row(m, spare, d), Greater(spare, s) \cup {s}) = d.amount
<1>1. Listed(lack) /\ Listed(spare) /\ IsFiniteSet(lack) /\ IsFiniteSet(spare)
    BY DEF OneEach, Listed
<1>2. IsFiniteSet(used)
    BY <1>1, FS_Product, FS_Subset
<1>3. lack \cap spare = {}
    OBVIOUS
<1>4. SUFFICES ASSUME moves # {} PROVE Cardinality(moves) < Cardinality(lack) + Cardinality(spare)
    OBVIOUS
<1>5. spare # {}
    <2>1. \A x \in moves : \E d \in lack, s \in spare : m[<<d, s>>] > 0 /\ x = MoveOf(m, d, s)
        BY <1>1, PlanMoves
    <2>. QED
        BY <1>4, <2>1
<1>6. PICK last \in spare : \A x \in spare : x = last \/ Before(x, last)
    BY <1>1, <1>5, LastExists
<1>7. ASSUME NEW d \in lack PROVE Meets(d, last)
    <2>1. Greater(spare, last) \cup {last} = spare
        BY <1>6 DEF Greater
    <2>. QED
        BY <2>1
<1>8. ASSUME NEW d \in lack, NEW s \in spare, NEW t \in spare,
             m[<<d, s>>] > 0, m[<<d, t>>] > 0, Meets(d, s), Meets(d, t)
      PROVE  s = t
    <2>1. ~Before(s, t)
        BY <1>1, <1>8, MetOnce DEF Listed
    <2>2. ~Before(t, s)
        BY <1>1, <1>8, MetOnce DEF Listed
    <2>. QED
        BY <1>1, <2>1, <2>2 DEF Listed
<1>9. ASSUME NEW s \in spare, NEW d \in lack, NEW e \in lack,
             m[<<d, s>>] > 0, m[<<e, s>>] > 0, ~Meets(d, s), ~Meets(e, s)
      PROVE  d = e
    <2>1. ASSUME NEW x \in lack, ~Meets(x, s)
          PROVE  s.amount <= SumFunctionOnSet(Col(m, lack, s), Greater(lack, x) \cup {x})
        <3> DEFINE row == SumFunctionOnSet(Row(m, spare, x), Greater(spare, s) \cup {s})
                   col == SumFunctionOnSet(Col(m, lack, s), Greater(lack, x) \cup {x})
        <3>1. /\ row \in Nat /\ row <= x.amount
              /\ x.chain # s.chain /\ row < x.amount => s.amount <= col
            BY <1>1, MatchCompletes
        <3>2. x.amount \in Nat /\ x.chain # s.chain /\ row # x.amount
            BY <1>1, <2>1 DEF Listed
        <3> HIDE DEF row, col
        <3>3. s.amount <= col
            BY <3>1, <3>2
        <3>. QED
            BY <3>3 DEF col
    <2>2. ASSUME NEW x \in lack, NEW y \in lack, m[<<y, s>>] > 0, ~Meets(x, s), Before(x, y) PROVE FALSE
        <3> DEFINE col == SumFunctionOnSet(Col(m, lack, s), Greater(lack, x) \cup {x})
        <3>1. s.amount <= col
            BY <2>1, <2>2
        <3>2. col < s.amount
            BY <1>1, <2>2, ExhaustedOnce
        <3>3. s.amount \in Nat /\ col \in Nat
            BY <1>1, MatchTypes DEF Listed, Greater
        <3> HIDE DEF col
        <3>. QED
            BY <3>1, <3>2, <3>3
    <2>3. ~Before(d, e)
        BY <1>9, <2>2
    <2>4. ~Before(e, d)
        BY <1>9, <2>2
    <2>. QED
        BY <1>1, <2>3, <2>4 DEF Listed
<1> DEFINE Z == lack \cup (spare \ {last})
           f == [p \in used |-> IF Meets(p[1], p[2]) THEN p[1] ELSE p[2]]
<1> HIDE DEF Meets
<1>10. ASSUME NEW p \in used PROVE f[p] \in Z
    BY <1>7
<1>11. ASSUME NEW p \in used, NEW q \in used, f[p] = f[q] PROVE p = q
    <2>1. /\ p[1] \in lack /\ p[2] \in spare /\ p = <<p[1], p[2]>>
          /\ q[1] \in lack /\ q[2] \in spare /\ q = <<q[1], q[2]>>
        OBVIOUS
    <2>2. m[<<p[1], p[2]>>] > 0 /\ m[<<q[1], q[2]>>] > 0
        BY <2>1
    <2>3. CASE Meets(p[1], p[2]) /\ Meets(q[1], q[2])
        <3>1. p[1] = q[1]
            BY <1>11, <2>3
        <3>. QED
            BY <1>8, <2>1, <2>2, <2>3, <3>1
    <2>4. CASE ~Meets(p[1], p[2]) /\ ~Meets(q[1], q[2])
        <3>1. p[2] = q[2]
            BY <1>11, <2>4
        <3>. QED
            BY <1>9, <2>1, <2>2, <2>4, <3>1
    <2>5. CASE Meets(p[1], p[2]) /\ ~Meets(q[1], q[2])
        BY <1>3, <1>11, <2>1, <2>5
    <2>6. CASE ~Meets(p[1], p[2]) /\ Meets(q[1], q[2])
        BY <1>3, <1>11, <2>1, <2>6
    <2>. QED
        BY <2>3, <2>4, <2>5, <2>6
<1>12. f \in Injection(used, Z)
    <2>1. f \in [used -> Z]
        BY <1>10
    <2>. QED
        BY <1>11, <2>1 DEF Injection, IsInjective
<1>13. /\ IsFiniteSet(spare \ {last}) /\ Cardinality(spare \ {last}) = Cardinality(spare) - 1
       /\ Cardinality(spare) \in Nat /\ Cardinality(lack) \in Nat
    BY <1>1, FS_RemoveElement, FS_CardinalityType
<1>14. IsFiniteSet(Z) /\ Cardinality(Z) = Cardinality(lack) + Cardinality(spare) - 1
    <2>1. lack \cap (spare \ {last}) = {}
        BY <1>3
    <2>2. /\ IsFiniteSet(Z)
          /\ Cardinality(Z) = Cardinality(lack) + Cardinality(spare \ {last}) - Cardinality(lack \cap (spare \ {last}))
        BY <1>1, <1>13, FS_Union
    <2>3. Cardinality(lack \cap (spare \ {last})) = 0
        BY <2>1, FS_EmptySet
    <2> HIDE DEF Z
    <2>. QED
        BY <1>13, <2>2, <2>3
<1>15. Cardinality(used) <= Cardinality(Z) /\ Cardinality(used) \in Nat
    BY <1>2, <1>12, <1>14, FS_Injection, FS_CardinalityType
<1> DEFINE g == [p \in used |-> MoveOf(m, p[1], p[2])]
<1>16. g \in Surjection(used, moves)
    <2>1. \A p \in used : g[p] \in moves
        BY <1>1, PlanMoves
    <2>2. ASSUME NEW x \in moves PROVE \E p \in used : g[p] = x
        <3>1. PICK d \in lack, s \in spare : m[<<d, s>>] > 0 /\ x = MoveOf(m, d, s)
            BY <1>1, PlanMoves
        <3>2. <<d, s>> \in used /\ g[<<d, s>>] = x
            BY <3>1
        <3>. QED
            BY <3>2
    <2>. QED
        BY <2>1, <2>2 DEF Surjection
<1>17. Cardinality(moves) <= Cardinality(used) /\ IsFiniteSet(moves)
    BY <1>2, <1>16, FS_Surjection
<1>18. Cardinality(moves) \in Nat
    BY <1>17, FS_CardinalityType
<1>. QED
    BY <1>13, <1>14, <1>15, <1>17, <1>18

LEMMA TotalIsNatural ==
    ASSUME NEW S, Listed(S)
    PROVE  Total(S) \in Nat
<1> DEFINE f == [x \in S |-> x.amount]
<1>1. IsFiniteSet(S) /\ \A x \in S : f[x] \in Nat
    BY DEF Listed
<1>2. SumFunctionOnSet(f, S) \in Nat
    BY <1>1, SumIsNatural
<1>. QED
    BY <1>2, TotalIsSum

(* planTransfersForAsset throws only if the surpluses do not suffice. Else    *)
(* each deficit is met and no surplus is overdrawn, to within the rounding,   *)
(* and there are fewer transfers than chains involved. So it is for deficits  *)
(* and surpluses of any number and size, of distinct chains.                  *)
THEOREM PlansMeet ==
    ASSUME NEW lack, OneEach(lack), NEW spare, OneEach(spare),
           \A d \in lack, s \in spare : d.chain # s.chain
    PROVE  PlanMeets(lack, spare)
<1> DEFINE m == Match(lack, spare)
           plan == PlanTransfersForAsset(lack, spare)
           moves == plan.moves
           Into(d) == {x \in moves : x.to = d.chain}
           OutOf(s) == {x \in moves : x.from = s.chain}
<1>1. Listed(lack) /\ Listed(spare)
    BY DEF OneEach
<1>2. Total(lack) \in Nat /\ Total(spare) \in Nat
    BY <1>1, TotalIsNatural
<1>3. \A d \in lack : SumFunction([s \in spare |-> m[<<d, s>>]]) = SumFunctionOnSet(Row(m, spare, d), spare)
    BY DEF SumFunction, Row
<1>4. plan.ok <=> /\ Total(spare) >= Total(lack)
                  /\ \A d \in lack : SumFunctionOnSet(Row(m, spare, d), spare) >= d.amount
    <2>1. plan.ok <=> /\ Total(spare) >= Total(lack)
                      /\ \A d \in lack : SumFunction([s \in spare |-> m[<<d, s>>]]) >= d.amount
        BY DEF PlanTransfersForAsset
    <2> HIDE DEF m, plan
    <2>. QED
        BY <1>3, <2>1
<1>5. PICK g : g = m
    OBVIOUS
<1>6. PICK ms : ms = moves
    OBVIOUS
<1>7. Total(spare) >= Total(lack) => \A d \in lack : SumFunctionOnSet(Row(g, spare, d), spare) = d.amount
    BY <1>1, <1>2, <1>5, MatchMeets
<1>8. CentUnits \in Nat
    BY RebalancingAssumption
<1>9. \A d \in lack : d.amount \in Nat
    BY <1>1 DEF Listed
<1>10. ASSUME NEW d \in lack, SumFunctionOnSet(Row(g, spare, d), spare) = d.amount,
              NEW I, I = {x \in ms : x.to = d.chain}
       PROVE  Near(Total(I), d.amount, Cardinality(I))
    <2>1. /\ IsFiniteSet(I) /\ Total(I) \in Nat
          /\ 2 * (Total(I) - d.amount) <= CentUnits * Cardinality(I)
          /\ 2 * (d.amount - Total(I)) <= CentUnits * Cardinality(I)
        BY <1>5, <1>6, <1>10, PlanInto
    <2>2. PICK bound \in Nat : bound = CentUnits * Cardinality(I)
        BY <1>8, <2>1, FS_CardinalityType
    <2>3. 2 * (Total(I) - d.amount) \in (-bound)..bound
        BY <1>9, <2>1, <2>2
    <2>. QED
        BY <2>2, <2>3 DEF Near
<1>11. ASSUME NEW s \in spare, NEW I, I = {x \in ms : x.from = s.chain}
       PROVE  2 * (Total(I) - s.amount) <= CentUnits * Cardinality(I)
    <2>1. PICK given : given = SumFunctionOnSet(Col(g, lack, s), lack)
        OBVIOUS
    <2>2. /\ IsFiniteSet(I) /\ Total(I) \in Nat
          /\ 2 * (Total(I) - given) <= CentUnits * Cardinality(I)
        BY <1>5, <1>6, <1>11, <2>1, PlanOutOf
    <2>3. given \in Nat
        BY <1>1, <1>5, <2>1, MatchTypes
    <2>4. given <= s.amount
        <3>1. Leading(lack, lack)
            BY DEF Leading, Greater
        <3>. QED
            BY <1>1, <1>5, <2>1, <3>1, MatchBounds
    <2>5. s.amount \in Nat
        BY <1>1 DEF Listed
    <2>6. PICK bound \in Nat : bound = CentUnits * Cardinality(I)
        BY <1>8, <2>2, FS_CardinalityType
    <2>. QED
        BY <2>2, <2>3, <2>4, <2>5, <2>6
<1>12. Total(spare) >= Total(lack) =>
            (ms = {} \/ Cardinality(ms) < Cardinality(lack) + Cardinality(spare))
    BY <1>5, <1>6, <1>7, FewTransfers
<1>13. plan.ok <=> Total(spare) >= Total(lack)
    <2> HIDE DEF m, plan
    <2>1. \A d \in lack : d.amount >= d.amount
        BY <1>9
    <2>. QED
        BY <1>4, <1>5, <1>7, <2>1
<1>14. plan.ok => \A d \in lack : Near(Total(Into(d)), d.amount, Cardinality(Into(d)))
    <2> HIDE DEF m, plan
    <2>. QED
        BY <1>6, <1>7, <1>10, <1>13
<1>15. \A s \in spare : 2 * (Total(OutOf(s)) - s.amount) <= CentUnits * Cardinality(OutOf(s))
    <2> HIDE DEF m, plan
    <2>. QED
        BY <1>6, <1>11
<1>16. plan.ok => (moves = {} \/ Cardinality(moves) < Cardinality(lack) + Cardinality(spare))
    <2> HIDE DEF m, plan
    <2>. QED
        BY <1>6, <1>12, <1>13
<1>. QED
    BY <1>13, <1>14, <1>15, <1>16 DEF PlanMeets

LEMMA GreedyIsExactAlways == GreedyIsExact
<1> DEFINE Take(S, n) == {Amount(c, "USDC", n[c]) : c \in S}
<1>1. ASSUME NEW lacking \in SUBSET PlanChains, NEW n \in [PlanChains -> PlanInputs]
      PROVE  PlanMeets(Take(lacking, n), {x \in Take(PlanChains \ lacking, n) : x.amount > 0})
    <2> DEFINE lack == Take(lacking, n)
               spare == {x \in Take(PlanChains \ lacking, n) : x.amount > 0}
    <2>1. \A c \in PlanChains : c \in Int /\ n[c] \in Nat
        BY DEF PlanChains, PlanInputs
    <2>2. \A x \in Take(PlanChains, n) : x.chain \in PlanChains /\ x = Amount(x.chain, "USDC", n[x.chain])
        BY DEF Amount
    <2>3. IsFiniteSet(Take(PlanChains, n))
        <3>1. IsFiniteSet(PlanChains)
            <4>1. 1 \in Int /\ 5 \in Int
                OBVIOUS
            <4>. QED
                BY <4>1, FS_Interval DEF PlanChains
        <3> DEFINE g == [c \in PlanChains |-> Amount(c, "USDC", n[c])]
        <3>2. g \in Surjection(PlanChains, Take(PlanChains, n))
            BY DEF Surjection
        <3>. QED
            BY <3>1, <3>2, FS_Surjection
    <2>4. ASSUME NEW S \in SUBSET Take(PlanChains, n) PROVE OneEach(S)
        <3>1. IsFiniteSet(S)
            BY <2>3, FS_Subset
        <3>2. \A x \in S : x.chain \in Int /\ x.amount \in Nat
            BY <2>1, <2>2 DEF Amount
        <3>3. \A x, y \in S : x.chain = y.chain => x = y
            BY <2>2
        <3>4. \A x, y \in S : x = y \/ Before(x, y) \/ Before(y, x)
            BY <3>2, <3>3 DEF Before
        <3>. QED
            BY <3>1, <3>2, <3>3, <3>4 DEF OneEach, Listed
    <2>5. lack \subseteq Take(PlanChains, n) /\ spare \subseteq Take(PlanChains, n)
        OBVIOUS
    <2>6. \A d \in lack, s \in spare : d.chain # s.chain
        BY DEF Amount
    <2> HIDE DEF lack, spare
    <2>7. PlanMeets(lack, spare)
        BY <2>4, <2>5, <2>6, PlansMeet
    <2>. QED
        BY <2>7 DEF lack, spare
<1>. QED
    BY <1>1 DEF GreedyIsExact

(* A plan of the checks' small inputs is exact: planTransfersForAsset throws  *)
(* for a shortage only, meets every deficit and lets no source give more than *)
(* it has to spare, to within the rounding.                                   *)
THEOREM GreedyIsExactHolds == Spec => []GreedyIsExact
<1>1. Spec => []GreedyIsExact
    BY GreedyIsExactAlways, PTL
<1>. QED
    BY <1>1

-----------------------------------------------------------------------------
(* The types. *)

CheckType ==
    [stage : {"idle", "triggers", "plan", "executing"}, next : 0..Len(ChainIds),
     lack : SUBSET Reading, spare : SUBSET Reading, moves : SUBSET Move]

(* One reading at most of each chain and asset. *)
Once(S) == IsFiniteSet(S) /\ \A x, y \in S : x.chain = y.chain /\ x.asset = y.asset => x = y

(* A check holds what it has read of the chains before the next one.          *)
CheckInv(k) ==
    /\ k \in CheckType
    /\ k.stage = "executing" <=> k.moves # {}
    /\ k.stage \in {"triggers", "plan"} <=> k.next \in Chains
    /\ \A x \in k.moves : x.from # x.to
    /\ Once(k.lack) /\ Once(k.spare) /\ IsFiniteSet(k.moves)
    /\ k.stage = "triggers" => \A x \in k.lack : x.chain < k.next
    /\ k.stage = "plan" => \A x \in k.spare : x.chain < k.next

WalletInv ==
    /\ balance \in [Pairs -> Nat] /\ late \in [Pairs -> Nat] /\ stranded \in Nat

BoundsInv ==
    /\ orders \subseteq Orders /\ faults \in 0..MaxFaults /\ disturbances \in 0..MaxDisturbances

Inv ==
    /\ WalletInv /\ BoundsInv
    /\ check \in [Slots -> CheckType] /\ \A s \in Slots : CheckInv(check[s])

LEMMA ConstantFacts ==
    /\ Chains = 1..Len(ChainIds) /\ Len(ChainIds) \in Nat \ {0}
    /\ IsFiniteSet(Chains) /\ Cardinality(Chains) = Len(ChainIds)
    /\ IsFiniteSet(Assets) /\ IsFiniteSet(Slots)
    /\ \A p \in DOMAIN Base : p \in Pairs /\ Base[p] \in Nat
    /\ CentUnits \in Nat \ {0} /\ MaxFaults \in Nat /\ MaxDisturbances \in Nat
<1>1. Chains = 1..Len(ChainIds) /\ Len(ChainIds) \in Nat \ {0}
    BY RebalancingAssumption DEF Chains
<1>2. IsFiniteSet(Chains) /\ Cardinality(Chains) = Len(ChainIds)
    <2>1. 1 \in Int /\ Len(ChainIds) \in Int
        BY <1>1
    <2>2. /\ IsFiniteSet(1..Len(ChainIds))
          /\ Cardinality(1..Len(ChainIds)) = IF 1 > Len(ChainIds) THEN 0 ELSE Len(ChainIds) - 1 + 1
        BY <2>1, FS_Interval
    <2>. QED
        BY <1>1, <2>2
<1>3. IsFiniteSet(Assets)
    <2>1. IsFiniteSet(({} \cup {"USDC"}) \cup {"USDT"})
        BY FS_EmptySet, FS_AddElement
    <2>2. Assets \in SUBSET (({} \cup {"USDC"}) \cup {"USDT"})
        BY RebalancingAssumption
    <2>. QED
        BY <2>1, <2>2, FS_Subset
<1>4. \A p \in DOMAIN Base : p \in Pairs /\ Base[p] \in Nat
    BY RebalancingAssumption
<1>. QED
    BY <1>1, <1>2, <1>3, <1>4, RebalancingAssumption

(* A threshold is at the base or below.                                       *)
LEMMA ThresholdIsLow ==
    ASSUME NEW p \in DOMAIN Base
    PROVE  Threshold(p) \in Int /\ Threshold(p) <= Base[p]
<1>1. PICK b \in Nat : b = Base[p]
    BY ConstantFacts
<1>2. PICK t \in 0..100 : t = 100 - TriggerPercent
    BY RebalancingAssumption
<1>3. b * t \in Nat /\ b * t <= b * 100
    BY <1>1, <1>2
<1>4. (b * t) \div 100 \in Int /\ (b * t) \div 100 <= b
    <2>1. PICK c \in Nat : c = b * t
        BY <1>3
    <2>2. c <= b * 100
        BY <1>3, <2>1
    <2>3. c \div 100 \in Int /\ c \div 100 <= b
        BY <1>1, <2>1, <2>2
    <2>. QED
        BY <2>1, <2>3
<1>. QED
    BY <1>1, <1>2, <1>4 DEF Threshold

(* Readings of distinct chains and assets.                                    *)
LEMMA OnceIsOnce ==
    ASSUME NEW S, Once(S), NEW R, NEW c, \A x \in S : x.chain # c,
           \A x \in R : x.chain = c /\ x.asset \in Assets,
           \A x, y \in R : x.asset = y.asset => x = y
    PROVE  Once(S \cup R)
<1> DEFINE f == [x \in R |-> x.asset]
<1>1. f \in Injection(R, Assets)
    BY DEF Injection, IsInjective
<1>2. IsFiniteSet(R)
    BY <1>1, ConstantFacts, FS_Injection
<1>3. IsFiniteSet(S \cup R)
    BY <1>2, FS_Union DEF Once
<1>. QED
    BY <1>3 DEF Once

OfAsset(S, a) == {x \in S : x.asset = a}

LEMMA OfAssetOnce ==
    ASSUME NEW S, Once(S), S \subseteq Reading, NEW a
    PROVE  OneEach(OfAsset(S, a)) /\ IsFiniteSet(OfAsset(S, a))
<1> DEFINE T == OfAsset(S, a)
<1>1. IsFiniteSet(T)
    BY FS_Subset DEF Once, OfAsset
<1>2. \A x \in T : x.chain \in Int /\ x.amount \in Nat
    BY ConstantFacts DEF OfAsset, Reading
<1>3. \A x, y \in T : x.chain = y.chain => x = y
    BY DEF OfAsset, Once
<1>4. \A x, y \in T : x = y \/ Before(x, y) \/ Before(y, x)
    <2>1. \A x, y \in T : x = y \/ x.chain < y.chain \/ y.chain < x.chain
        BY <1>2, <1>3
    <2>. QED
        BY <1>2, <2>1 DEF Before
<1>. QED
    BY <1>1, <1>2, <1>3, <1>4 DEF OneEach, Listed

(* The transfers of the plans of all assets, if none throws.                  *)
LEMMA PortfolioMoves ==
    ASSUME NEW lack, lack \subseteq Reading, NEW spare, NEW moves,
           moves = PlanPortfolioRebalancing(lack, spare)
    PROVE  \A x \in moves : \E a \in Assets :
            LET plan == PlanTransfersForAsset(OfAsset(lack, a), OfAsset(spare, a)) IN
            plan.ok /\ plan.moves \subseteq moves /\ x \in plan.moves
<1> DEFINE A == {x.asset : x \in lack}
           plan == [a \in A |-> PlanTransfersForAsset(OfAsset(lack, a), OfAsset(spare, a))]
<1>1. moves = IF \A a \in DOMAIN plan : plan[a].ok THEN UNION {plan[a].moves : a \in DOMAIN plan} ELSE {}
    BY DEF PlanPortfolioRebalancing, OfAsset
<1>2. A \subseteq Assets
    BY DEF Reading
<1>3. DOMAIN plan = A /\ \A a \in A : plan[a] = PlanTransfersForAsset(OfAsset(lack, a), OfAsset(spare, a))
    OBVIOUS
<1> HIDE DEF plan, A
<1>4. \A x \in moves : \E a \in A : plan[a].ok /\ plan[a].moves \subseteq moves /\ x \in plan[a].moves
    BY <1>1, <1>3
<1>. QED
    BY <1>2, <1>3, <1>4

(* A plan has one transfer at most from a chain to another, of an asset, and  *)
(* none of a chain to itself.                                                 *)
LEMMA PortfolioTypes ==
    ASSUME NEW lack, lack \subseteq Reading, Once(lack),
           NEW spare, spare \subseteq Reading, Once(spare),
           NEW moves, moves = PlanPortfolioRebalancing(lack, spare)
    PROVE  /\ moves \subseteq Move /\ IsFiniteSet(moves)
           /\ \A x \in moves : x.from # x.to /\ x.at = "planned"
<1>1. ASSUME NEW x \in moves
      PROVE  \E a \in Assets, d \in lack, s \in spare :
                /\ d.asset = a /\ s.asset = a /\ d.chain # s.chain
                /\ x = MoveOf(Match(OfAsset(lack, a), OfAsset(spare, a)), d, s)
                /\ x.amount \in Nat
    <2>1. PICK a \in Assets : x \in PlanTransfersForAsset(OfAsset(lack, a), OfAsset(spare, a)).moves
        BY PortfolioMoves
    <2>2. PICK D : D = OfAsset(lack, a)
        OBVIOUS
    <2>3. PICK S : S = OfAsset(spare, a)
        OBVIOUS
    <2>4. PICK m : m = Match(D, S)
        OBVIOUS
    <2>5. Listed(D) /\ Listed(S)
        BY <2>2, <2>3, OfAssetOnce DEF OneEach
    <2>6. PICK plan : plan = PlanTransfersForAsset(D, S).moves
        OBVIOUS
    <2>7. \A y \in plan : \E d \in D, s \in S : m[<<d, s>>] > 0 /\ y = MoveOf(m, d, s)
        <3>1. /\ Listed(D) /\ Listed(S) /\ m = Match(D, S)
              /\ plan = PlanTransfersForAsset(D, S).moves
            BY <2>4, <2>5, <2>6
        <3>. QED
            BY <3>1, PlanMoves
    <2>8. PICK d \in D, s \in S : m[<<d, s>>] > 0 /\ x = MoveOf(m, d, s)
        BY <2>1, <2>2, <2>3, <2>6, <2>7
    <2>9. d.chain # s.chain
        <3>1. d.chain = s.chain => m[<<d, s>>] = 0
            BY <2>4, <2>5, MatchRule
        <3>. QED
            BY <2>8, <3>1
    <2>10. m[<<d, s>>] \in Nat
        BY <2>4, <2>5, MatchTypes
    <2>11. x.amount \in Nat
        BY <2>8, <2>10, ToCentsIsNear DEF MoveOf
    <2>12. d \in lack /\ s \in spare /\ d.asset = a /\ s.asset = a
        BY <2>2, <2>3 DEF OfAsset
    <2>. QED
        BY <2>2, <2>3, <2>4, <2>8, <2>9, <2>11, <2>12
<1>2. ASSUME NEW x \in moves PROVE x \in Move /\ x.from # x.to /\ x.at = "planned"
    <2>1. PICK a \in Assets, d \in lack, s \in spare :
            /\ d.asset = a /\ s.asset = a /\ d.chain # s.chain
            /\ x = MoveOf(Match(OfAsset(lack, a), OfAsset(spare, a)), d, s)
            /\ x.amount \in Nat
        BY <1>1
    <2>2. d.chain \in Chains /\ s.chain \in Chains
        BY DEF Reading
    <2>3. PICK n \in Nat : x = [asset |-> a, from |-> s.chain, to |-> d.chain, amount |-> n, at |-> "planned"]
        BY <2>1 DEF MoveOf
    <2>. QED
        BY <2>1, <2>2, <2>3 DEF Move
<1>3. ASSUME NEW x \in moves, NEW y \in moves, x.asset = y.asset, x.from = y.from, x.to = y.to
      PROVE  x = y
    <2>1. PICK a \in Assets, d \in lack, s \in spare :
            /\ d.asset = a /\ s.asset = a
            /\ x = MoveOf(Match(OfAsset(lack, a), OfAsset(spare, a)), d, s)
        BY <1>1
    <2>2. PICK b \in Assets, e \in lack, t \in spare :
            /\ e.asset = b /\ t.asset = b
            /\ y = MoveOf(Match(OfAsset(lack, b), OfAsset(spare, b)), e, t)
        BY <1>1
    <2>3. /\ x.asset = a /\ x.to = d.chain /\ x.from = s.chain
          /\ y.asset = b /\ y.to = e.chain /\ y.from = t.chain
        BY <2>1, <2>2 DEF MoveOf
    <2>4. a = b /\ d = e /\ s = t
        BY <1>3, <2>1, <2>2, <2>3 DEF Once
    <2>. QED
        BY <2>1, <2>2, <2>4
<1>4. IsFiniteSet(moves)
    <2> DEFINE T == Assets \X (Chains \X Chains)
               f == [x \in moves |-> <<x.asset, <<x.from, x.to>>>>]
    <2>1. IsFiniteSet(T)
        BY ConstantFacts, FS_Product
    <2>2. f \in [moves -> T]
        BY <1>2 DEF Move
    <2>3. f \in Injection(moves, T)
        BY <1>3, <2>2 DEF Injection, IsInjective
    <2>. QED
        BY <2>1, <2>3, FS_Injection
<1>. QED
    BY <1>2, <1>4

-----------------------------------------------------------------------------
(* Each step keeps the types. *)

LEMMA InvInit == Init => Inv
<1>1. SUFFICES ASSUME Init PROVE Inv
    OBVIOUS
<1>2. WalletInv
    BY <1>1, RebalancingAssumption DEF Init, WalletInv
<1>3. BoundsInv
    BY <1>1, ConstantFacts DEF Init, BoundsInv
<1>4. Idle \in CheckType
    BY ConstantFacts DEF Idle, CheckType
<1>5. CheckInv(Idle)
    <2>1. Idle.next \notin Chains
        BY ConstantFacts DEF Idle
    <2>. QED
        BY <1>4, <2>1, FS_EmptySet DEF Idle, CheckInv, Once
<1>. QED
    BY <1>1, <1>2, <1>3, <1>4, <1>5 DEF Init, Inv

LEMMA IdleInv == CheckInv(Idle)
<1>1. Idle \in CheckType
    BY ConstantFacts DEF Idle, CheckType
<1>2. Idle.next \notin Chains
    BY ConstantFacts DEF Idle
<1>. QED
    BY <1>1, <1>2, FS_EmptySet DEF Idle, CheckInv, Once

(* A step that sets one slot.                                                 *)
LEMMA OneSlot ==
    ASSUME Inv, NEW s \in Slots, NEW k, CheckInv(k), check' = [check EXCEPT ![s] = k]
    PROVE  check' \in [Slots -> CheckType] /\ \A t \in Slots : CheckInv(check'[t])
<1>1. k \in CheckType /\ \A t \in Slots : CheckInv(check[t])
    BY DEF CheckInv, Inv
<1>2. \A t \in Slots : check'[t] = IF t = s THEN k ELSE check[t]
    BY DEF Inv
<1>3. check' \in [Slots -> CheckType]
    BY <1>1 DEF Inv
<1>. QED
    BY <1>1, <1>2, <1>3

LEMMA StartCheckInv == ASSUME Inv, NEW s \in Slots, StartCheck(s) PROVE Inv'
<1>0. PICK k : k = [Idle EXCEPT !.stage = "triggers", !.next = 1]
    OBVIOUS
<1>1. CheckInv(k)
    <2>1. k = [stage |-> "triggers", next |-> 1, lack |-> {}, spare |-> {}, moves |-> {}]
        BY <1>0 DEF Idle
    <2>2. 1 \in Chains /\ 1 \in 0..Len(ChainIds)
        BY ConstantFacts
    <2>3. k \in CheckType
        BY <2>1, <2>2 DEF CheckType
    <2>4. k.stage = "triggers" /\ k.next = 1 /\ k.lack = {} /\ k.spare = {} /\ k.moves = {}
        BY <2>1
    <2>5. Once({}) /\ IsFiniteSet({})
        BY FS_EmptySet DEF Once
    <2>. QED
        BY <2>2, <2>3, <2>4, <2>5 DEF CheckInv
<1>2. check' = [check EXCEPT ![s] = k]
    BY <1>0 DEF StartCheck
<1>3. check' \in [Slots -> CheckType] /\ \A t \in Slots : CheckInv(check'[t])
    BY <1>1, <1>2, OneSlot
<1>4. BoundsInv'
    BY ConstantFacts DEF Inv, BoundsInv, StartCheck, Disturb
<1>5. WalletInv'
    BY DEF Inv, WalletInv, StartCheck
<1>. QED
    BY <1>3, <1>4, <1>5 DEF Inv

(* Whatever the balances are, a look at a chain finds readings of it.         *)
LEMMA LowAtTypes ==
    ASSUME WalletInv, NEW c \in Chains
    PROVE  /\ \A x \in LowAt(c) :
                /\ x \in Reading /\ x.chain = c /\ x.asset \in Assets
                /\ <<c, x.asset>> \in DOMAIN Base /\ x.amount = Base[<<c, x.asset>>] - balance[<<c, x.asset>>]
           /\ \A x, y \in LowAt(c) : x.asset = y.asset => x = y
<1>1. ASSUME NEW x \in LowAt(c)
      PROVE  /\ x \in Reading /\ x.asset \in Assets /\ <<c, x.asset>> \in DOMAIN Base
             /\ x = Amount(c, x.asset, Base[<<c, x.asset>>] - balance[<<c, x.asset>>])
    <2>1. PICK a \in Assets : Low(<<c, a>>) /\ x = Amount(c, a, Base[<<c, a>>] - balance[<<c, a>>])
        BY DEF LowAt
    <2>2. <<c, a>> \in DOMAIN Base /\ balance[<<c, a>>] <= Threshold(<<c, a>>)
        BY <2>1 DEF Low
    <2>3. Base[<<c, a>>] \in Nat /\ balance[<<c, a>>] \in Nat
        BY <2>2, ConstantFacts DEF WalletInv
    <2>4. PICK n \in Nat : n = Base[<<c, a>>] - balance[<<c, a>>]
        BY <2>2, <2>3, ThresholdIsLow
    <2>. QED
        BY <2>1, <2>2, <2>4 DEF Amount, Reading
<1>2. \A x \in LowAt(c) : x.chain = c /\ x.amount = Base[<<c, x.asset>>] - balance[<<c, x.asset>>]
    BY <1>1 DEF Amount
<1>. QED
    BY <1>1, <1>2

LEMMA SpareAtTypes ==
    ASSUME WalletInv, NEW c \in Chains, NEW assets \in SUBSET Assets
    PROVE  /\ \A x \in SpareAt(c, assets) :
                /\ x \in Reading /\ x.chain = c /\ x.asset \in Assets
                /\ <<c, x.asset>> \in DOMAIN Base /\ balance[<<c, x.asset>>] > Base[<<c, x.asset>>]
                /\ x.amount = balance[<<c, x.asset>>] - Base[<<c, x.asset>>]
           /\ \A x, y \in SpareAt(c, assets) : x.asset = y.asset => x = y
<1>1. ASSUME NEW x \in SpareAt(c, assets)
      PROVE  /\ x \in Reading /\ x.asset \in Assets /\ <<c, x.asset>> \in DOMAIN Base
             /\ balance[<<c, x.asset>>] > Base[<<c, x.asset>>]
             /\ x = Amount(c, x.asset, balance[<<c, x.asset>>] - Base[<<c, x.asset>>])
    <2>1. PICK a \in Assets : Spare(<<c, a>>) /\ x = Amount(c, a, balance[<<c, a>>] - Base[<<c, a>>])
        BY DEF SpareAt
    <2>2. <<c, a>> \in DOMAIN Base /\ balance[<<c, a>>] > Base[<<c, a>>]
        BY <2>1 DEF Spare
    <2>3. Base[<<c, a>>] \in Nat /\ balance[<<c, a>>] \in Nat
        BY <2>2, ConstantFacts DEF WalletInv
    <2>4. PICK n \in Nat : n = balance[<<c, a>>] - Base[<<c, a>>]
        BY <2>2, <2>3
    <2>. QED
        BY <2>1, <2>2, <2>4 DEF Amount, Reading
<1>2. \A x \in SpareAt(c, assets) :
            x.chain = c /\ x.amount = balance[<<c, x.asset>>] - Base[<<c, x.asset>>]
    BY <1>1 DEF Amount
<1>. QED
    BY <1>1, <1>2

LEMMA LookInv == ASSUME Inv, NEW s \in Slots, Look(s) PROVE Inv'
<1>1. PICK k : k = check[s]
    OBVIOUS
<1>2. CheckInv(k) /\ k.stage = "triggers" /\ k \in CheckType /\ k.next \in Chains
    BY <1>1 DEF Inv, CheckInv, Look
<1>3. PICK low : low = LowAt(k.next)
    OBVIOUS
<1>31. PICK ok \in BOOLEAN : \E lack :
        /\ lack = (IF ok THEN k.lack \cup low ELSE k.lack)
        /\ Answers(ok)
        /\ check' = [check EXCEPT ![s] =
                IF k.next < Len(ChainIds) THEN [k EXCEPT !.next = @ + 1, !.lack = lack]
                ELSE IF lack = {} THEN Idle
                ELSE [Idle EXCEPT !.stage = "plan", !.next = 1, !.lack = lack]]
    BY <1>1, <1>3, Zenon DEF Look
<1>4. PICK lack :
        /\ lack = (IF ok THEN k.lack \cup low ELSE k.lack)
        /\ Answers(ok)
        /\ check' = [check EXCEPT ![s] =
                IF k.next < Len(ChainIds) THEN [k EXCEPT !.next = @ + 1, !.lack = lack]
                ELSE IF lack = {} THEN Idle
                ELSE [Idle EXCEPT !.stage = "plan", !.next = 1, !.lack = lack]]
    BY <1>31, Zenon
<1>5. \A x \in low : x \in Reading /\ x.chain = k.next /\ x.asset \in Assets
    BY <1>2, <1>3, LowAtTypes DEF Inv
<1>6. \A x, y \in low : x.asset = y.asset => x = y
    BY <1>2, <1>3, LowAtTypes DEF Inv
<1>7. Once(lack) /\ lack \subseteq Reading /\ \A x \in lack : x.chain <= k.next
    <2>1. Once(k.lack) /\ k.lack \subseteq Reading /\ k.next \in Int /\ \A x \in k.lack : x.chain < k.next
        BY <1>2, ConstantFacts DEF CheckInv, CheckType
    <2>2. Once(k.lack \cup low)
        <3>1. \A x \in k.lack : x.chain \in Int /\ x.chain # k.next
            BY <2>1, ConstantFacts DEF Reading
        <3>. QED
            BY <1>5, <1>6, <2>1, <3>1, OnceIsOnce
    <2>3. \A x \in k.lack : x.chain \in Int
        BY <2>1, ConstantFacts DEF Reading
    <2>. QED
        BY <1>4, <1>5, <2>1, <2>2, <2>3
<1>8. PICK j : j = IF k.next < Len(ChainIds) THEN [k EXCEPT !.next = @ + 1, !.lack = lack]
                   ELSE IF lack = {} THEN Idle
                   ELSE [Idle EXCEPT !.stage = "plan", !.next = 1, !.lack = lack]
    OBVIOUS
<1>9. CheckInv(j)
    <2>1. CASE k.next < Len(ChainIds)
        <3>0. k.next + 1 \in 0..Len(ChainIds)
            BY <1>2, <2>1, ConstantFacts
        <3>1. /\ j.stage = "triggers" /\ j.next = k.next + 1 /\ j.lack = lack
              /\ j.spare = k.spare /\ j.moves = k.moves /\ j \in CheckType
            BY <1>2, <1>7, <1>8, <2>1, <3>0 DEF CheckType
        <3>2. j.next \in Chains /\ \A x \in lack : x.chain < j.next
            BY <1>2, <1>7, <2>1, <3>1, ConstantFacts DEF Reading
        <3>. QED
            BY <1>2, <1>7, <3>1, <3>2 DEF CheckInv
    <2>2. CASE ~(k.next < Len(ChainIds)) /\ lack = {}
        BY <1>8, <2>2, IdleInv
    <2>3. CASE ~(k.next < Len(ChainIds)) /\ lack # {}
        <3>1. j = [stage |-> "plan", next |-> 1, lack |-> lack, spare |-> {}, moves |-> {}]
            BY <1>8, <2>3 DEF Idle
        <3>2. j \in CheckType /\ 1 \in Chains
            BY <1>7, <3>1, ConstantFacts DEF CheckType
        <3>. QED
            BY <1>7, <3>1, <3>2, FS_EmptySet DEF CheckInv, Once
    <2>. QED
        BY <2>1, <2>2, <2>3
<1>10. check' \in [Slots -> CheckType] /\ \A t \in Slots : CheckInv(check'[t])
    BY <1>4, <1>8, <1>9, OneSlot
<1>11. BoundsInv'
    BY <1>4, ConstantFacts DEF Inv, BoundsInv, Look, Answers
<1>12. WalletInv'
    BY DEF Inv, WalletInv, Look
<1>. QED
    BY <1>10, <1>11, <1>12 DEF Inv

LEMMA LookAgainInv == ASSUME Inv, NEW s \in Slots, LookAgain(s) PROVE Inv'
<1>1. PICK k : k = check[s]
    OBVIOUS
<1>2. CheckInv(k) /\ k.stage = "plan" /\ k \in CheckType /\ k.next \in Chains
    BY <1>1 DEF Inv, CheckInv, LookAgain
<1>3. PICK over : over = SpareAt(k.next, {x.asset : x \in k.lack})
    OBVIOUS
<1>31. PICK ok \in BOOLEAN : \E spare :
        /\ spare = (IF ok THEN k.spare \cup over ELSE k.spare)
        /\ Answers(ok)
        /\ IF k.next < Len(ChainIds)
           THEN check' = [check EXCEPT ![s].next = @ + 1, ![s].spare = spare]
           ELSE \E moves \in {PlanPortfolioRebalancing(k.lack, spare)} :
                    check' = [check EXCEPT ![s] =
                        IF moves = {} THEN Idle ELSE [Idle EXCEPT !.stage = "executing", !.moves = moves]]
    BY <1>1, <1>3, Zenon DEF LookAgain
<1>4. PICK spare :
        /\ spare = (IF ok THEN k.spare \cup over ELSE k.spare)
        /\ Answers(ok)
        /\ IF k.next < Len(ChainIds)
           THEN check' = [check EXCEPT ![s].next = @ + 1, ![s].spare = spare]
           ELSE \E moves \in {PlanPortfolioRebalancing(k.lack, spare)} :
                    check' = [check EXCEPT ![s] =
                        IF moves = {} THEN Idle ELSE [Idle EXCEPT !.stage = "executing", !.moves = moves]]
    BY <1>31, Zenon
<1>5. {x.asset : x \in k.lack} \in SUBSET Assets
    BY <1>2 DEF CheckType, Reading
<1>6. \A x \in over : x \in Reading /\ x.chain = k.next /\ x.asset \in Assets
    BY <1>2, <1>3, <1>5, SpareAtTypes DEF Inv
<1>7. \A x, y \in over : x.asset = y.asset => x = y
    BY <1>2, <1>3, <1>5, SpareAtTypes DEF Inv
<1>8. Once(spare) /\ spare \subseteq Reading /\ \A x \in spare : x.chain <= k.next
    <2>1. Once(k.spare) /\ k.spare \subseteq Reading /\ k.next \in Int /\ \A x \in k.spare : x.chain < k.next
        BY <1>2, ConstantFacts DEF CheckInv, CheckType
    <2>2. \A x \in k.spare : x.chain \in Int /\ x.chain # k.next
        BY <2>1, ConstantFacts DEF Reading
    <2>3. Once(k.spare \cup over)
        BY <1>6, <1>7, <2>1, <2>2, OnceIsOnce
    <2>. QED
        BY <1>4, <1>6, <2>1, <2>2, <2>3
<1>9. \E j : CheckInv(j) /\ check' = [check EXCEPT ![s] = j]
    <2>1. CASE k.next < Len(ChainIds)
        <3>1. PICK j : j = [k EXCEPT !.next = @ + 1, !.spare = spare]
            OBVIOUS
        <3>2. k.next + 1 \in 0..Len(ChainIds)
            BY <1>2, <2>1, ConstantFacts
        <3>3. /\ j.stage = "plan" /\ j.next = k.next + 1 /\ j.lack = k.lack
              /\ j.spare = spare /\ j.moves = k.moves /\ j \in CheckType
            BY <1>2, <1>8, <3>1, <3>2 DEF CheckType
        <3>4. j.next \in Chains /\ \A x \in spare : x.chain < j.next
            BY <1>2, <1>8, <2>1, <3>3, ConstantFacts DEF Reading
        <3>5. CheckInv(j)
            BY <1>2, <1>8, <3>3, <3>4 DEF CheckInv
        <3>6. check' = [check EXCEPT ![s] = j]
            BY <1>1, <1>4, <2>1, <3>1 DEF Inv
        <3>. QED
            BY <3>5, <3>6
    <2>2. CASE ~(k.next < Len(ChainIds))
        <3>1. PICK moves : moves = PlanPortfolioRebalancing(k.lack, spare)
            OBVIOUS
        <3>2. PICK j : j = IF moves = {} THEN Idle ELSE [Idle EXCEPT !.stage = "executing", !.moves = moves]
            OBVIOUS
        <3>3. check' = [check EXCEPT ![s] = j]
            BY <1>4, <2>2, <3>1, <3>2
        <3>4. Once(k.lack) /\ k.lack \subseteq Reading
            BY <1>2 DEF CheckInv, CheckType
        <3>5. /\ moves \subseteq Move /\ IsFiniteSet(moves)
              /\ \A x \in moves : x.from # x.to
            BY <1>8, <3>1, <3>4, PortfolioTypes
        <3>6. CASE moves = {}
            BY <3>2, <3>3, <3>6, IdleInv
        <3>7. CASE moves # {}
            <4>1. j = [stage |-> "executing", next |-> 0, lack |-> {}, spare |-> {}, moves |-> moves]
                BY <3>2, <3>7 DEF Idle
            <4>2. /\ j.stage = "executing" /\ j.next = 0 /\ j.lack = {}
                  /\ j.spare = {} /\ j.moves = moves
                BY <4>1
            <4>3. j \in CheckType
                BY <3>5, <4>1, ConstantFacts DEF CheckType
            <4>4. Once({}) /\ 0 \notin Chains
                BY ConstantFacts, FS_EmptySet DEF Once
            <4>5. CheckInv(j)
                BY <3>5, <3>7, <4>2, <4>3, <4>4 DEF CheckInv
            <4>. QED
                BY <3>3, <4>5
        <3>. QED
            BY <3>6, <3>7
    <2>. QED
        BY <2>1, <2>2
<1>10. check' \in [Slots -> CheckType] /\ \A t \in Slots : CheckInv(check'[t])
    BY <1>9, OneSlot
<1>11. BoundsInv'
    BY <1>4, ConstantFacts DEF Inv, BoundsInv, LookAgain, Answers
<1>12. WalletInv'
    BY DEF Inv, WalletInv, LookAgain
<1>. QED
    BY <1>10, <1>11, <1>12 DEF Inv

(* A transfer in a slot goes on, or is over.                                  *)
LEMMA ProceedInv ==
    ASSUME Inv, NEW s \in Slots, NEW m \in check[s].moves,
           NEW at \in {"planned", "sent", "withdrawing"}, Proceed(s, m, at)
    PROVE  check' \in [Slots -> CheckType] /\ \A t \in Slots : CheckInv(check'[t])
<1>1. PICK k : k = check[s]
    OBVIOUS
<1>2. CheckInv(k) /\ k \in CheckType
    BY <1>1 DEF Inv, CheckInv
<1>3. PICK n : n = [m EXCEPT !.at = at]
    OBVIOUS
<1>4. PICK moves : moves = (k.moves \ {m}) \cup {n}
    OBVIOUS
<1>5. PICK j : j = [k EXCEPT !.moves = moves]
    OBVIOUS
<1>6. check' = [check EXCEPT ![s] = j]
    BY <1>1, <1>3, <1>4, <1>5 DEF Inv, Proceed
<1>7. m \in Move /\ m.from # m.to
    BY <1>1, <1>2 DEF CheckInv, CheckType
<1>8. n \in Move /\ n.from # n.to
    BY <1>3, <1>7 DEF Move
<1>9. moves \subseteq Move /\ moves # {} /\ \A x \in moves : x.from # x.to
    BY <1>2, <1>4, <1>8 DEF CheckInv, CheckType
<1>10. IsFiniteSet(moves)
    BY <1>2, <1>4, FS_RemoveElement, FS_AddElement DEF CheckInv
<1>11. /\ j.stage = k.stage /\ j.next = k.next /\ j.lack = k.lack
       /\ j.spare = k.spare /\ j.moves = moves /\ j \in CheckType
    BY <1>2, <1>5, <1>9 DEF CheckType
<1>12. CheckInv(j)
    BY <1>1, <1>2, <1>9, <1>10, <1>11 DEF CheckInv
<1>. QED
    BY <1>6, <1>12, OneSlot

LEMMA SettleInv ==
    ASSUME Inv, NEW s \in Slots, NEW m \in check[s].moves, Settle(s, m)
    PROVE  check' \in [Slots -> CheckType] /\ \A t \in Slots : CheckInv(check'[t])
<1>1. PICK k : k = check[s]
    OBVIOUS
<1>2. CheckInv(k) /\ k \in CheckType
    BY <1>1 DEF Inv, CheckInv
<1>3. PICK left : left = k.moves \ {m}
    OBVIOUS
<1>4. PICK j : j = IF left = {} THEN Idle ELSE [k EXCEPT !.moves = left]
    OBVIOUS
<1>5. check' = [check EXCEPT ![s] = j]
    BY <1>1, <1>3, <1>4 DEF Settle
<1>6. CheckInv(j)
    <2>1. CASE left = {}
        BY <1>4, <2>1, IdleInv
    <2>2. CASE left # {}
        <3>1. k.moves # {} /\ left \subseteq k.moves
            BY <1>1, <1>3
        <3>2. IsFiniteSet(left)
            BY <1>2, <1>3, FS_RemoveElement DEF CheckInv
        <3>3. /\ j.stage = k.stage /\ j.next = k.next /\ j.lack = k.lack
              /\ j.spare = k.spare /\ j.moves = left /\ j \in CheckType
            BY <1>2, <1>4, <2>2, <3>1 DEF CheckType
        <3>. QED
            BY <1>2, <2>2, <3>1, <3>2, <3>3 DEF CheckInv
    <2>. QED
        BY <2>1, <2>2
<1>. QED
    BY <1>5, <1>6, OneSlot

LEMMA MoveFacts ==
    ASSUME Inv, NEW s \in Slots, NEW m \in check[s].moves
    PROVE  /\ m \in Move /\ m.amount \in Nat /\ m.from # m.to
           /\ <<m.from, m.asset>> \in Pairs /\ <<m.to, m.asset>> \in Pairs
           /\ check[s].stage = "executing"
<1>1. CheckInv(check[s]) /\ check[s] \in CheckType
    BY DEF Inv
<1>2. m \in Move /\ m.from # m.to /\ check[s].stage = "executing"
    BY <1>1 DEF CheckInv, CheckType
<1>. QED
    BY <1>2 DEF Move, Pairs

LEMMA TransferInv == ASSUME Inv, NEW s \in Slots, NEW m \in check[s].moves, Transfer(s, m) PROVE Inv'
<1>1. /\ m \in Move /\ m.amount \in Nat
      /\ <<m.from, m.asset>> \in Pairs /\ <<m.to, m.asset>> \in Pairs
    BY MoveFacts
<1>2. \A p \in Pairs : balance[p] \in Nat /\ late[p] \in Nat
    BY DEF Inv, WalletInv
<1>3. ASSUME Fault PROVE faults' \in 0..MaxFaults
    BY <1>3, ConstantFacts DEF Fault, Inv, BoundsInv
<1>4. CASE Debit(s, m)
    <2>1. check' \in [Slots -> CheckType] /\ \A t \in Slots : CheckInv(check'[t])
        BY <1>4, ProceedInv DEF Debit
    <2>2. balance[<<m.from, m.asset>>] - m.amount \in Nat
        BY <1>1, <1>2, <1>4 DEF Debit
    <2>3. WalletInv'
        BY <1>1, <1>4, <2>2 DEF Debit, Inv, WalletInv
    <2>. QED
        BY <1>4, <2>1, <2>3 DEF Debit, Inv, BoundsInv
<1>5. CASE Refuse(s, m)
    <2>1. check' \in [Slots -> CheckType] /\ \A t \in Slots : CheckInv(check'[t])
        BY <1>5, SettleInv DEF Refuse
    <2>2. faults' \in 0..MaxFaults
        BY <1>3, <1>5 DEF Refuse, Inv, BoundsInv
    <2>. QED
        BY <1>5, <2>1, <2>2 DEF Refuse, Inv, WalletInv, BoundsInv
<1>6. CASE Withdraw(s, m)
    <2>1. check' \in [Slots -> CheckType] /\ \A t \in Slots : CheckInv(check'[t])
        BY <1>6, ProceedInv DEF Withdraw
    <2>. QED
        BY <1>6, <2>1 DEF Withdraw, Inv, WalletInv, BoundsInv
<1>7. CASE Arrive(s, m)
    <2>1. check' \in [Slots -> CheckType] /\ \A t \in Slots : CheckInv(check'[t])
        BY <1>7, SettleInv DEF Arrive
    <2>2. balance[<<m.to, m.asset>>] + m.amount \in Nat
        BY <1>1, <1>2
    <2>3. WalletInv'
        BY <1>1, <1>7, <2>2 DEF Arrive, Inv, WalletInv
    <2>. QED
        BY <1>7, <2>1, <2>3 DEF Arrive, Inv, BoundsInv
<1>8. CASE GiveUpWaiting(s, m)
    <2>1. check' \in [Slots -> CheckType] /\ \A t \in Slots : CheckInv(check'[t])
        BY <1>8, SettleInv DEF GiveUpWaiting
    <2>2. late[<<m.to, m.asset>>] + m.amount \in Nat
        BY <1>1, <1>2
    <2>3. WalletInv'
        BY <1>1, <1>8, <2>2 DEF GiveUpWaiting, Inv, WalletInv
    <2>4. faults' \in 0..MaxFaults
        BY <1>3, <1>8 DEF GiveUpWaiting
    <2>. QED
        BY <1>8, <2>1, <2>3, <2>4 DEF GiveUpWaiting, Inv, BoundsInv
<1>9. CASE Strand(s, m)
    <2>1. check' \in [Slots -> CheckType] /\ \A t \in Slots : CheckInv(check'[t])
        BY <1>9, SettleInv DEF Strand
    <2>2. WalletInv'
        BY <1>1, <1>9 DEF Strand, Inv, WalletInv
    <2>3. faults' \in 0..MaxFaults
        BY <1>3, <1>9 DEF Strand
    <2>. QED
        BY <1>9, <2>1, <2>2, <2>3 DEF Strand, Inv, BoundsInv
<1>. QED
    BY <1>4, <1>5, <1>6, <1>7, <1>8, <1>9 DEF Transfer

LEMMA LateArrivesInv == ASSUME Inv, NEW p \in Pairs, LateArrives(p) PROVE Inv'
<1>1. balance[p] + late[p] \in Nat
    BY DEF Inv, WalletInv
<1>2. WalletInv'
    BY <1>1 DEF Inv, WalletInv, LateArrives
<1>. QED
    BY <1>2 DEF Inv, BoundsInv, LateArrives

LEMMA FillOrderInv == ASSUME Inv, NEW o \in Orders, FillOrder(o) PROVE Inv'
<1>1. PICK from, to : from = <<o[1], o[3]>> /\ to = <<o[2], o[3]>>
    OBVIOUS
<1>2. from \in Pairs /\ to \in Pairs
    BY <1>1, RebalancingAssumption DEF Pairs
<1>3. balance[from] > 0 /\ balance' = [balance EXCEPT ![from] = @ - 1, ![to] = @ + 1]
    BY <1>1 DEF FillOrder
<1>4. balance[from] - 1 \in Nat /\ [balance EXCEPT ![from] = @ - 1] \in [Pairs -> Nat]
    BY <1>2, <1>3 DEF Inv, WalletInv
<1>5. WalletInv'
    BY <1>2, <1>3, <1>4 DEF Inv, WalletInv, FillOrder
<1>6. BoundsInv'
    BY ConstantFacts DEF Inv, BoundsInv, FillOrder, Disturb
<1>. QED
    BY <1>5, <1>6 DEF Inv, FillOrder

(* What a crash leaves under way.                                             *)
Moving == {x \in Slots \X UNION {check[s].moves : s \in Slots} :
                x[2] \in check[x[1]].moves /\ x[2].at # "planned"}

Delivered == {x \in Moving : x[2].at = "withdrawing" \/ RouteOf(x[2]) = "usdt0"}

DeliveredTo(p) == {x \in Delivered : <<x[2].to, x[2].asset>> = p}

SumOfMoves(S) == SumFunction([x \in S |-> x[2].amount])

LEMMA MovingTypes ==
    ASSUME Inv
    PROVE  IsFiniteSet(Moving) /\ \A x \in Moving : x[1] \in Slots /\ x[2] \in check[x[1]].moves /\ x[2].amount \in Nat
<1> DEFINE Sets == {check[s].moves : s \in Slots}
           f == [s \in Slots |-> check[s].moves]
<1>1. f \in Surjection(Slots, Sets)
    BY DEF Surjection
<1>2. IsFiniteSet(Sets)
    BY <1>1, ConstantFacts, FS_Surjection
<1>3. \A T \in Sets : IsFiniteSet(T)
    BY DEF Inv, CheckInv
<1> HIDE DEF f
<1>4. IsFiniteSet(UNION Sets)
    BY <1>2, <1>3, FS_UNION
<1>5. IsFiniteSet(Slots \X UNION Sets)
    BY <1>4, ConstantFacts, FS_Product
<1>6. Moving \subseteq Slots \X UNION Sets
    BY DEF Moving
<1>7. IsFiniteSet(Moving)
    BY <1>5, <1>6, FS_Subset
<1>8. \A x \in Moving : x[1] \in Slots /\ x[2] \in check[x[1]].moves
    BY DEF Moving
<1>9. \A x \in Moving : x[2].amount \in Nat
    BY <1>8, MoveFacts
<1>. QED
    BY <1>7, <1>8, <1>9

LEMMA SumOfMovesType == ASSUME Inv, NEW S \in SUBSET Moving PROVE SumOfMoves(S) \in Nat
<1> DEFINE f == [x \in S |-> x[2].amount]
<1>1. IsFiniteSet(S) /\ \A x \in S : f[x] \in Nat
    BY MovingTypes, FS_Subset
<1>2. SumFunctionOnSet(f, S) \in Nat
    BY <1>1, SumIsNatural
<1>3. SumFunction(f) = SumFunctionOnSet(f, S)
    BY DEF SumFunction
<1>. QED
    BY <1>2, <1>3 DEF SumOfMoves

LEMMA CrashSteps ==
    ASSUME Crash
    PROVE  /\ Fault /\ check' = [s \in Slots |-> Idle]
           /\ late' = [p \in Pairs |-> late[p] + SumOfMoves(DeliveredTo(p))]
           /\ stranded' = stranded + SumOfMoves(Moving \ Delivered)
           /\ UNCHANGED <<balance, orders, disturbances>>
BY DEF Crash, Moving, Delivered, DeliveredTo, SumOfMoves

LEMMA CrashInv == ASSUME Inv, Crash PROVE Inv'
<1>1. \A p \in Pairs : SumOfMoves(DeliveredTo(p)) \in Nat
    <2>1. \A p \in Pairs : DeliveredTo(p) \in SUBSET Moving
        BY DEF Delivered, DeliveredTo
    <2>. QED
        BY <2>1, SumOfMovesType
<1>2. SumOfMoves(Moving \ Delivered) \in Nat
    BY SumOfMovesType
<1>3. late' \in [Pairs -> Nat]
    <2>1. \A p \in Pairs : late[p] \in Nat
        BY DEF Inv, WalletInv
    <2>2. \A p \in Pairs : late[p] + SumOfMoves(DeliveredTo(p)) \in Nat
        BY <1>1, <2>1
    <2>3. late' = [p \in Pairs |-> late[p] + SumOfMoves(DeliveredTo(p))]
        BY CrashSteps
    <2>. QED
        BY <2>2, <2>3
<1>4. stranded' \in Nat
    BY <1>2, CrashSteps DEF Inv, WalletInv
<1>5. faults' \in 0..MaxFaults
    BY CrashSteps, ConstantFacts DEF Fault, Inv, BoundsInv
<1>6. /\ check' \in [Slots -> CheckType] /\ \A s \in Slots : CheckInv(check'[s])
    <2>1. Idle \in CheckType
        BY IdleInv DEF CheckInv
    <2>. QED
        BY <2>1, CrashSteps, IdleInv
<1>. QED
    BY <1>3, <1>4, <1>5, <1>6, CrashSteps DEF Inv, WalletInv, BoundsInv

LEMMA InvNext == Inv /\ [Next]_vars => Inv'
<1>1. SUFFICES ASSUME Inv, [Next]_vars PROVE Inv'
    OBVIOUS
<1>2. ASSUME NEW s \in Slots, Work(s) PROVE Inv'
    BY <1>1, <1>2, StartCheckInv, LookInv, LookAgainInv, TransferInv DEF Work
<1>3. CASE UNCHANGED vars
    BY <1>1, <1>3 DEF vars, Inv, WalletInv, BoundsInv
<1>. QED
    BY <1>1, <1>2, <1>3, LateArrivesInv, FillOrderInv, CrashInv DEF Next

LEMMA InvImpliesTypeOK == Inv => TypeOK
BY DEF Inv, WalletInv, BoundsInv, CheckInv, CheckType, TypeOK

LEMMA InvHolds == Spec => []Inv
<1>1. Spec => []Inv
    BY InvInit, InvNext, PTL DEF Spec
<1>. QED
    BY <1>1

(* Balances never go below zero, whatever is planned of them: a transfer is   *)
(* only sent if there are funds. A check reads each chain once, and executes  *)
(* while it has transfers, of one chain to another.                           *)
THEOREM TypeCorrect == Spec => []TypeOK
BY InvHolds, InvImpliesTypeOK, PTL

-----------------------------------------------------------------------------
(* What an undisturbed check does to the balances. *)

LEMMA TotalWithout ==
    ASSUME NEW S, IsFiniteSet(S), \A x \in S : x.amount \in Nat
    PROVE  /\ Total(S) \in Nat
           /\ \A x \in S : Total(S \ {x}) \in Nat /\ Total(S) = x.amount + Total(S \ {x})
<1> DEFINE f == [x \in S |-> x.amount]
<1>1. Total(S) = SumFunctionOnSet(f, S)
    BY TotalIsSum
<1>2. \A x \in S : f[x] \in Nat
    OBVIOUS
<1>3. Total(S) \in Nat
    BY <1>1, <1>2, SumIsNatural
<1>4. ASSUME NEW x \in S PROVE Total(S \ {x}) \in Nat /\ Total(S) = x.amount + Total(S \ {x})
    <2> DEFINE g == [y \in S \ {x} |-> y.amount]
    <2>1. IsFiniteSet(S \ {x}) /\ \A y \in S \ {x} : g[y] = f[y] /\ g[y] \in Nat
        BY FS_RemoveElement
    <2>2. Total(S \ {x}) = SumFunctionOnSet(g, S \ {x})
        BY TotalIsSum
    <2>3. f[x] = x.amount /\ \A y \in S : f[y] \in Int
        OBVIOUS
    <2> HIDE DEF f, g
    <2>4. SumFunctionOnSet(g, S \ {x}) = SumFunctionOnSet(f, S \ {x})
        BY <2>1, SumOfEqual
    <2>5. SumFunctionOnSet(f, S) = f[x] + SumFunctionOnSet(f, S \ {x})
        BY <2>3, SumWithout
    <2>6. Total(S \ {x}) \in Nat
        BY <2>1, <2>2, SumIsNatural
    <2>. QED
        BY <1>1, <2>2, <2>3, <2>4, <2>5, <2>6
<1>. QED
    BY <1>3, <1>4

LEMMA TotalWith ==
    ASSUME NEW S, IsFiniteSet(S), \A x \in S : x.amount \in Nat, NEW y, y.amount \in Nat
    PROVE  Total(S \cup {y}) \in Nat /\ Total(S \cup {y}) <= Total(S) + y.amount
<1>1. CASE y \in S
    <2>1. S \cup {y} = S
        BY <1>1
    <2>2. Total(S) \in Nat
        BY TotalWithout
    <2>3. Total(S \cup {y}) = Total(S)
        BY <2>1
    <2>. QED
        BY <2>2, <2>3
<1>2. CASE y \notin S
    <2>1. (S \cup {y}) \ {y} = S
        BY <1>2
    <2>2. IsFiniteSet(S \cup {y}) /\ \A x \in S \cup {y} : x.amount \in Nat
        BY FS_AddElement
    <2>3. /\ Total(S \cup {y}) \in Nat
          /\ Total((S \cup {y}) \ {y}) \in Nat
          /\ Total(S \cup {y}) = y.amount + Total((S \cup {y}) \ {y})
        BY <2>2, TotalWithout
    <2>. QED
        BY <2>1, <2>3
<1>. QED
    BY <1>1, <1>2

LEMMA TotalOfPart ==
    ASSUME NEW S, IsFiniteSet(S), \A x \in S : x.amount \in Nat, NEW T \in SUBSET S
    PROVE  Total(T) \in Nat /\ Total(T) <= Total(S)
<1> DEFINE f == [x \in S |-> x.amount]
           g == [x \in T |-> x.amount]
<1>1. IsFiniteSet(T)
    BY FS_Subset
<1>2. /\ \A x \in S : f[x] \in Nat
      /\ \A x \in T : g[x] = f[x]
    OBVIOUS
<1>3. Total(S) = SumFunctionOnSet(f, S) /\ Total(T) = SumFunctionOnSet(g, T)
    BY TotalIsSum
<1>4. Total(T) \in Nat
    BY <1>1, TotalWithout
<1> HIDE DEF f, g
<1>5. SumFunctionOnSet(g, T) = SumFunctionOnSet(f, T)
    BY <1>1, <1>2, SumOfEqual
<1>6. SumFunctionOnSet(f, T) <= SumFunctionOnSet(f, S)
    BY <1>2, SumOfPart
<1>. QED
    BY <1>3, <1>4, <1>5, <1>6

(* The readings of one asset, of other chains than one, are few.              *)
LEMMA FewOthers ==
    ASSUME NEW S, OneEach(S), S \subseteq Reading, NEW c \in Chains, \A x \in S : x.chain # c
    PROVE  Cardinality(S) \in Nat /\ Cardinality(S) <= Len(ChainIds) - 1
<1> DEFINE f == [x \in S |-> x.chain]
<1>1. f \in [S -> Chains \ {c}]
    BY DEF Reading
<1>2. f \in Injection(S, Chains \ {c})
    BY <1>1 DEF Injection, IsInjective, OneEach
<1>3. IsFiniteSet(Chains \ {c}) /\ Cardinality(Chains \ {c}) = Len(ChainIds) - 1
    <2>1. IsFiniteSet(Chains) /\ Cardinality(Chains) = Len(ChainIds)
        BY ConstantFacts
    <2>2. /\ IsFiniteSet(Chains \ {c})
          /\ Cardinality(Chains \ {c}) = IF c \in Chains THEN Cardinality(Chains) - 1 ELSE Cardinality(Chains)
        BY <2>1, FS_RemoveElement
    <2>. QED
        BY <2>1, <2>2
<1>4. IsFiniteSet(S) /\ Cardinality(S) <= Cardinality(Chains \ {c})
    BY <1>2, <1>3, FS_Injection
<1>. QED
    BY <1>3, <1>4, FS_CardinalityType

LEMMA RoundingIsSlack ==
    ASSUME NEW n \in Nat, n <= Len(ChainIds) - 1
    PROVE  (CentUnits \div 2) * n \in Nat /\ (CentUnits \div 2) * n <= Slack /\ Slack \in Nat
<1>1. PICK h \in Nat : h = CentUnits \div 2
    BY ConstantFacts
<1>2. PICK c \in Nat : c = Len(ChainIds) - 1
    BY ConstantFacts
<1>3. h * n \in Nat /\ h * c \in Nat /\ h * n <= h * c
    BY <1>2
<1>. QED
    BY <1>1, <1>2, <1>3 DEF Slack

LEMMA SlackIsNatural == Slack \in Nat
<1>1. 0 \in Nat /\ 0 <= Len(ChainIds) - 1
    BY ConstantFacts
<1>. QED
    BY <1>1, RoundingIsSlack

LEMMA PlanTotal ==
    ASSUME NEW lack, lack \subseteq Reading, Once(lack),
           NEW spare, spare \subseteq Reading, Once(spare),
           NEW C, C \subseteq PlanPortfolioRebalancing(lack, spare)
    PROVE  Total(C) \in Nat
<1>1. PICK moves : moves = PlanPortfolioRebalancing(lack, spare)
    OBVIOUS
<1>2. moves \subseteq Move /\ IsFiniteSet(moves)
    BY <1>1, PortfolioTypes
<1>3. \A x \in moves : x.amount \in Nat
    BY <1>2 DEF Move
<1>. QED
    BY <1>1, <1>2, <1>3, TotalOfPart

(* A transfer of a plan is one of the plan of its asset.                      *)
LEMMA PlanOfAsset ==
    ASSUME NEW lack, lack \subseteq Reading, Once(lack),
           NEW spare, spare \subseteq Reading, Once(spare),
           NEW moves, moves = PlanPortfolioRebalancing(lack, spare),
           NEW x \in moves,
           NEW D, D = OfAsset(lack, x.asset), NEW S, S = OfAsset(spare, x.asset),
           NEW plan, plan = PlanTransfersForAsset(D, S).moves, NEW m, m = Match(D, S)
    PROVE  /\ x.asset \in Assets /\ x \in plan /\ plan \subseteq moves
           /\ \E d \in D, s \in S : x = MoveOf(m, d, s)
           /\ \A y \in plan : y.asset = x.asset
<1>1. PICK a \in Assets : /\ x \in PlanTransfersForAsset(OfAsset(lack, a), OfAsset(spare, a)).moves
                          /\ PlanTransfersForAsset(OfAsset(lack, a), OfAsset(spare, a)).moves \subseteq moves
    BY PortfolioMoves
<1>2. ASSUME NEW A, A = OfAsset(lack, a), NEW B, B = OfAsset(spare, a), NEW g, g = Match(A, B),
             NEW y \in PlanTransfersForAsset(A, B).moves
      PROVE  y.asset = a /\ \E d \in A, s \in B : y = MoveOf(g, d, s)
    <2>1. Listed(A) /\ Listed(B)
        BY <1>2, OfAssetOnce DEF OneEach
    <2>2. PICK ms : ms = PlanTransfersForAsset(A, B).moves
        OBVIOUS
    <2>3. \A z \in ms : \E d \in A, s \in B : g[<<d, s>>] > 0 /\ z = MoveOf(g, d, s)
        BY <1>2, <2>1, <2>2, PlanMoves
    <2>4. PICK d \in A, s \in B : y = MoveOf(g, d, s)
        BY <1>2, <2>2, <2>3
    <2>5. y.asset = a
        BY <1>2, <2>4 DEF MoveOf, OfAsset
    <2>. QED
        BY <2>4, <2>5
<1>3. x.asset = a
    BY <1>1, <1>2
<1>. QED
    BY <1>1, <1>2, <1>3

(* What a plan moves to a chain is a deficit there, and what it moves away is *)
(* a surplus, to within the rounding.                                         *)
MovesInto(moves, c, a) == {x \in moves : x.to = c /\ x.asset = a}

MovesOutOf(moves, c, a) == {x \in moves : x.from = c /\ x.asset = a}

LEMMA PlannedInto ==
    ASSUME NEW lack, lack \subseteq Reading, Once(lack),
           NEW spare, spare \subseteq Reading, Once(spare),
           \A d \in lack, s \in spare : d.asset = s.asset => d.chain # s.chain,
           NEW moves, moves = PlanPortfolioRebalancing(lack, spare),
           NEW c, NEW a, NEW C, C = MovesInto(moves, c, a), C # {}
    PROVE  \E d \in lack : d.chain = c /\ d.asset = a /\ Total(C) <= d.amount + Slack
<1>0. C = {x \in moves : x.to = c /\ x.asset = a}
    BY DEF MovesInto
<1>1. PICK x \in C : x \in moves /\ x.to = c /\ x.asset = a
    BY <1>0
<1>2. PICK D : D = OfAsset(lack, x.asset)
    OBVIOUS
<1>3. PICK S : S = OfAsset(spare, x.asset)
    OBVIOUS
<1>4. PICK plan : plan = PlanTransfersForAsset(D, S).moves
    OBVIOUS
<1>5. PICK m : m = Match(D, S)
    OBVIOUS
<1>6. /\ x \in plan /\ plan \subseteq moves
      /\ \E d \in D, s \in S : x = MoveOf(m, d, s)
      /\ \A y \in plan : y.asset = x.asset
    BY <1>1, <1>2, <1>3, <1>4, <1>5, PlanOfAsset
<1>7. PICK d \in D, s \in S : x = MoveOf(m, d, s)
    BY <1>6
<1>8. d \in lack /\ d.chain = c /\ d.asset = a /\ d.amount \in Nat /\ d.chain \in Chains
    BY <1>1, <1>2, <1>7 DEF MoveOf, OfAsset, Reading
<1>9. PICK I : I = {y \in plan : y.to = d.chain}
    OBVIOUS
<1>10. C = I
    <2>1. ASSUME NEW y \in C PROVE y \in I
        <3>1. y \in moves /\ y.asset = x.asset /\ y.to = c
            BY <1>0, <1>1
        <3>2. y \in plan
            BY <1>2, <1>3, <1>4, <1>5, <3>1, PlanOfAsset
        <3>. QED
            BY <1>8, <1>9, <3>1, <3>2
    <2>2. ASSUME NEW y \in I PROVE y \in C
        BY <1>0, <1>1, <1>6, <1>8, <1>9
    <2>. QED
        BY <2>1, <2>2
<1>11. OneEach(D) /\ OneEach(S)
    BY <1>2, <1>3, OfAssetOnce
<1>12. PICK given : given = SumFunctionOnSet(Row(m, S, d), S)
    OBVIOUS
<1>13. /\ IsFiniteSet(I) /\ Cardinality(I) <= Cardinality(S) /\ Total(I) \in Nat
       /\ Total(I) <= given + (CentUnits \div 2) * Cardinality(I)
    BY <1>4, <1>5, <1>9, <1>11, <1>12, PlanInto
<1>14. given \in Nat /\ given <= d.amount
    <2>1. Leading(S, S)
        BY DEF Leading, Greater
    <2>2. given \in Nat
        BY <1>5, <1>11, <1>12, MatchTypes DEF OneEach
    <2>3. given <= d.amount
        BY <1>5, <1>11, <1>12, <2>1, MatchBounds DEF OneEach
    <2>. QED
        BY <2>2, <2>3
<1>15. Cardinality(S) \in Nat /\ Cardinality(S) <= Len(ChainIds) - 1
    <2>1. S \subseteq Reading /\ \A t \in S : t.chain # d.chain
        BY <1>1, <1>3, <1>8 DEF OfAsset
    <2>. QED
        BY <1>8, <1>11, <2>1, FewOthers
<1>16. Cardinality(I) \in Nat /\ Cardinality(I) <= Len(ChainIds) - 1
    BY <1>13, <1>15, ConstantFacts, FS_CardinalityType
<1>17. PICK r : r = (CentUnits \div 2) * Cardinality(I)
    OBVIOUS
<1>18. r \in Nat /\ r <= Slack /\ Slack \in Nat
    BY <1>16, <1>17, RoundingIsSlack
<1>19. Total(C) <= d.amount + Slack
    <2>1. Total(I) <= given + r
        BY <1>13, <1>17
    <2>2. Total(C) = Total(I)
        BY <1>10
    <2>. QED
        BY <1>8, <1>13, <1>14, <1>18, <2>1, <2>2
<1>. QED
    BY <1>8, <1>19

LEMMA PlannedOutOf ==
    ASSUME NEW lack, lack \subseteq Reading, Once(lack),
           NEW spare, spare \subseteq Reading, Once(spare),
           \A d \in lack, s \in spare : d.asset = s.asset => d.chain # s.chain,
           NEW moves, moves = PlanPortfolioRebalancing(lack, spare),
           NEW c, NEW a, NEW C, C = MovesOutOf(moves, c, a), C # {}
    PROVE  \E s \in spare : s.chain = c /\ s.asset = a /\ Total(C) <= s.amount + Slack
<1>0. C = {x \in moves : x.from = c /\ x.asset = a}
    BY DEF MovesOutOf
<1>1. PICK x \in C : x \in moves /\ x.from = c /\ x.asset = a
    BY <1>0
<1>2. PICK D : D = OfAsset(lack, x.asset)
    OBVIOUS
<1>3. PICK S : S = OfAsset(spare, x.asset)
    OBVIOUS
<1>4. PICK plan : plan = PlanTransfersForAsset(D, S).moves
    OBVIOUS
<1>5. PICK m : m = Match(D, S)
    OBVIOUS
<1>6. /\ x \in plan /\ plan \subseteq moves
      /\ \E d \in D, s \in S : x = MoveOf(m, d, s)
      /\ \A y \in plan : y.asset = x.asset
    BY <1>1, <1>2, <1>3, <1>4, <1>5, PlanOfAsset
<1>7. PICK d \in D, s \in S : x = MoveOf(m, d, s)
    BY <1>6
<1>8. s \in spare /\ s.chain = c /\ s.asset = a /\ s.amount \in Nat /\ s.chain \in Chains
    BY <1>1, <1>3, <1>7 DEF MoveOf, OfAsset, Reading
<1>9. PICK I : I = {y \in plan : y.from = s.chain}
    OBVIOUS
<1>10. C = I
    <2>1. ASSUME NEW y \in C PROVE y \in I
        <3>1. y \in moves /\ y.asset = x.asset /\ y.from = c
            BY <1>0, <1>1
        <3>2. y \in plan
            BY <1>2, <1>3, <1>4, <1>5, <3>1, PlanOfAsset
        <3>. QED
            BY <1>8, <1>9, <3>1, <3>2
    <2>2. ASSUME NEW y \in I PROVE y \in C
        BY <1>0, <1>1, <1>6, <1>8, <1>9
    <2>. QED
        BY <2>1, <2>2
<1>11. OneEach(D) /\ OneEach(S)
    BY <1>2, <1>3, OfAssetOnce
<1>12. PICK given : given = SumFunctionOnSet(Col(m, D, s), D)
    OBVIOUS
<1>13. /\ IsFiniteSet(I) /\ Cardinality(I) <= Cardinality(D) /\ Total(I) \in Nat
       /\ Total(I) <= given + (CentUnits \div 2) * Cardinality(I)
    BY <1>4, <1>5, <1>9, <1>11, <1>12, PlanOutOf
<1>14. given \in Nat /\ given <= s.amount
    <2>1. Leading(D, D)
        BY DEF Leading, Greater
    <2>2. given \in Nat
        BY <1>5, <1>11, <1>12, MatchTypes DEF OneEach
    <2>3. given <= s.amount
        BY <1>5, <1>11, <1>12, <2>1, MatchBounds DEF OneEach
    <2>. QED
        BY <2>2, <2>3
<1>15. Cardinality(D) \in Nat /\ Cardinality(D) <= Len(ChainIds) - 1
    <2>1. D \subseteq Reading /\ \A t \in D : t.chain # s.chain
        BY <1>1, <1>2, <1>8 DEF OfAsset
    <2>. QED
        BY <1>8, <1>11, <2>1, FewOthers
<1>16. Cardinality(I) \in Nat /\ Cardinality(I) <= Len(ChainIds) - 1
    BY <1>13, <1>15, ConstantFacts, FS_CardinalityType
<1>17. PICK r : r = (CentUnits \div 2) * Cardinality(I)
    OBVIOUS
<1>18. r \in Nat /\ r <= Slack /\ Slack \in Nat
    BY <1>16, <1>17, RoundingIsSlack
<1>19. Total(C) <= s.amount + Slack
    <2>1. Total(I) <= given + r
        BY <1>13, <1>17
    <2>2. Total(C) = Total(I)
        BY <1>10
    <2>. QED
        BY <1>8, <1>13, <1>14, <1>18, <2>1, <2>2
<1>. QED
    BY <1>8, <1>19

-----------------------------------------------------------------------------
(* The invariant of a program in which nothing has come between a check and   *)
(* the balances it has read: there is one check at a time, what it has read   *)
(* is still so, and what it still has to move leaves the bases be.            *)

PairOf(x) == <<x.chain, x.asset>>

Leaving(s, p) == {x \in check[s].moves : x.at = "planned" /\ x.from = p[1] /\ x.asset = p[2]}

Coming(s, p) == {x \in check[s].moves : x.to = p[1] /\ x.asset = p[2]}

OneCheck == \A s, t \in Slots : check[s].stage # "idle" /\ check[t].stage # "idle" => s = t

StillRead(k) ==
    /\ k.stage \in {"triggers", "plan"} =>
        /\ \A p \in Pairs : late[p] = 0
        /\ \A x \in k.lack :
            PairOf(x) \in DOMAIN Base /\ x.amount = Base[PairOf(x)] - balance[PairOf(x)]
    /\ k.stage = "plan" =>
        \A x \in k.spare :
            /\ PairOf(x) \in DOMAIN Base /\ balance[PairOf(x)] > Base[PairOf(x)]
            /\ x.amount = balance[PairOf(x)] - Base[PairOf(x)]

Bounded(p) ==
    /\ late[p] > 0 => balance[p] + late[p] <= Base[p] + Slack
    /\ \A s \in Slots :
        /\ Leaving(s, p) # {} => balance[p] + Slack >= Base[p] + Total(Leaving(s, p))
        /\ Coming(s, p) # {} => balance[p] + late[p] + Total(Coming(s, p)) <= Base[p] + Slack

Undisturbed ==
    /\ OneCheck
    /\ \A s \in Slots : StillRead(check[s])
    /\ \A p \in DOMAIN Base : Bounded(p)

LEMMA NotMoving ==
    ASSUME Inv, NEW s \in Slots, check[s].stage # "executing", NEW p
    PROVE  check[s].moves = {} /\ Leaving(s, p) = {} /\ Coming(s, p) = {}
<1>1. check[s].moves = {}
    BY DEF Inv, CheckInv
<1>. QED
    BY <1>1 DEF Leaving, Coming

LEMMA NotBusy ==
    ASSUME Inv, ~Busy
    PROVE  /\ \A s \in Slots : check[s].stage = "idle"
           /\ \A p \in Pairs : late[p] = 0
BY DEF Inv, WalletInv, Busy

LEMMA UndisturbedInit == ASSUME Init PROVE Undisturbed
<1>1. \A s \in Slots : check[s] = Idle /\ check[s].stage = "idle" /\ check[s].moves = {}
    BY DEF Init, Idle
<1>2. \A p \in Pairs : late[p] = 0
    BY DEF Init
<1>3. \A s \in Slots, p \in DOMAIN Base : Leaving(s, p) = {} /\ Coming(s, p) = {}
    BY <1>1 DEF Leaving, Coming
<1>4. \A p \in DOMAIN Base : Bounded(p)
    BY <1>2, <1>3, ConstantFacts DEF Bounded
<1>. QED
    BY <1>1, <1>4 DEF Undisturbed, OneCheck, StillRead

LEMMA StartCheckUndisturbed ==
    ASSUME Inv, NEW s \in Slots, StartCheck(s), ~Busy
    PROVE  Undisturbed'
<1>1. PICK k : k = [Idle EXCEPT !.stage = "triggers", !.next = 1]
    OBVIOUS
<1>2. k.stage = "triggers" /\ k.lack = {} /\ k.moves = {}
    BY <1>1 DEF Idle
<1>3. \A t \in Slots : check'[t] = IF t = s THEN k ELSE check[t]
    BY <1>1 DEF StartCheck, Inv
<1>4. \A t \in Slots : check[t].stage = "idle" /\ check[t].moves = {}
    BY NotBusy DEF Inv, CheckInv
<1>5. \A p \in Pairs : late'[p] = 0
    BY NotBusy DEF StartCheck
<1>6. OneCheck'
    BY <1>3, <1>4 DEF OneCheck
<1>7. ASSUME NEW t \in Slots PROVE StillRead(check[t])'
    BY <1>2, <1>3, <1>4, <1>5 DEF StillRead
<1>8. ASSUME NEW p \in DOMAIN Base PROVE Bounded(p)'
    <2>1. \A t \in Slots : Leaving(t, p)' = {} /\ Coming(t, p)' = {}
        BY <1>2, <1>3, <1>4 DEF Leaving, Coming
    <2>. QED
        BY <1>5, <2>1, ConstantFacts DEF Bounded
<1>. QED
    BY <1>6, <1>7, <1>8 DEF Undisturbed

LEMMA FillOrderUndisturbed ==
    ASSUME Inv, NEW o \in Orders, FillOrder(o), ~Busy
    PROVE  Undisturbed'
<1>1. \A t \in Slots : check'[t].stage = "idle" /\ check'[t].moves = {}
    BY NotBusy DEF FillOrder, Inv, CheckInv
<1>2. \A p \in Pairs : late'[p] = 0
    BY NotBusy DEF FillOrder
<1>3. OneCheck'
    BY <1>1 DEF OneCheck
<1>4. ASSUME NEW t \in Slots PROVE StillRead(check[t])'
    BY <1>1 DEF StillRead
<1>5. ASSUME NEW p \in DOMAIN Base PROVE Bounded(p)'
    <2>1. \A t \in Slots : Leaving(t, p)' = {} /\ Coming(t, p)' = {}
        BY <1>1 DEF Leaving, Coming
    <2>. QED
        BY <1>2, <2>1, ConstantFacts DEF Bounded
<1>. QED
    BY <1>3, <1>4, <1>5 DEF Undisturbed

(* A step of the only check, of which no balance has changed yet.             *)
LEMMA ReadingUndisturbed ==
    ASSUME Inv, Undisturbed, NEW s \in Slots, check[s].stage # "idle",
           NEW k, check' = [check EXCEPT ![s] = k], k.moves = {},
           UNCHANGED <<balance, late>>, StillRead(k)
    PROVE  Undisturbed'
<1>1. \A t \in Slots : check'[t] = IF t = s THEN k ELSE check[t]
    BY DEF Inv
<1>2. \A t \in Slots : t # s => check[t].stage = "idle" /\ check[t].moves = {}
    BY DEF Undisturbed, OneCheck, Inv, CheckInv
<1>3. OneCheck'
    BY <1>1, <1>2 DEF OneCheck
<1>4. ASSUME NEW t \in Slots PROVE StillRead(check[t])'
    <2>1. PICK j : j = check'[t]
        OBVIOUS
    <2>2. StillRead(j)
        BY <1>1, <1>2, <2>1 DEF StillRead
    <2>3. StillRead(j)'
        BY <2>2 DEF StillRead
    <2>. QED
        BY <2>1, <2>3 DEF StillRead
<1>5. ASSUME NEW p \in DOMAIN Base PROVE Bounded(p)'
    <2>1. \A t \in Slots : Leaving(t, p)' = {} /\ Coming(t, p)' = {}
        BY <1>1, <1>2 DEF Leaving, Coming
    <2>2. Bounded(p)
        BY DEF Undisturbed
    <2>. QED
        BY <2>1, <2>2 DEF Bounded
<1>. QED
    BY <1>3, <1>4, <1>5 DEF Undisturbed

LEMMA LookUndisturbed ==
    ASSUME Inv, Undisturbed, NEW s \in Slots, Look(s)
    PROVE  Undisturbed'
<1>1. PICK k : k = check[s]
    OBVIOUS
<1>2. /\ k.stage = "triggers" /\ k \in CheckType /\ k.next \in Chains
      /\ k.moves = {} /\ StillRead(k)
    BY <1>1 DEF Inv, CheckInv, Look, Undisturbed
<1>3. PICK low : low = LowAt(k.next)
    OBVIOUS
<1>31. PICK ok \in BOOLEAN : \E lack :
        /\ lack = (IF ok THEN k.lack \cup low ELSE k.lack)
        /\ check' = [check EXCEPT ![s] =
                IF k.next < Len(ChainIds) THEN [k EXCEPT !.next = @ + 1, !.lack = lack]
                ELSE IF lack = {} THEN Idle
                ELSE [Idle EXCEPT !.stage = "plan", !.next = 1, !.lack = lack]]
    BY <1>1, <1>3, Zenon DEF Look
<1>4. PICK lack :
        /\ lack = (IF ok THEN k.lack \cup low ELSE k.lack)
        /\ check' = [check EXCEPT ![s] =
                IF k.next < Len(ChainIds) THEN [k EXCEPT !.next = @ + 1, !.lack = lack]
                ELSE IF lack = {} THEN Idle
                ELSE [Idle EXCEPT !.stage = "plan", !.next = 1, !.lack = lack]]
    BY <1>31, Zenon
<1>5. \A x \in low : PairOf(x) \in DOMAIN Base /\ x.amount = Base[PairOf(x)] - balance[PairOf(x)]
    <2>1. \A x \in low : /\ x.chain = k.next /\ <<k.next, x.asset>> \in DOMAIN Base
                          /\ x.amount = Base[<<k.next, x.asset>>] - balance[<<k.next, x.asset>>]
        BY <1>2, <1>3, LowAtTypes DEF Inv
    <2>2. \A x \in low : PairOf(x) = <<k.next, x.asset>>
        BY <2>1 DEF PairOf
    <2>. QED
        BY <2>1, <2>2
<1>6. \A x \in lack : PairOf(x) \in DOMAIN Base /\ x.amount = Base[PairOf(x)] - balance[PairOf(x)]
    BY <1>2, <1>4, <1>5 DEF StillRead
<1>7. \A p \in Pairs : late[p] = 0
    BY <1>2 DEF StillRead
<1>8. PICK j : j = IF k.next < Len(ChainIds) THEN [k EXCEPT !.next = @ + 1, !.lack = lack]
                   ELSE IF lack = {} THEN Idle
                   ELSE [Idle EXCEPT !.stage = "plan", !.next = 1, !.lack = lack]
    OBVIOUS
<1>9. j.moves = {} /\ StillRead(j)
    <2>1. CASE k.next < Len(ChainIds)
        <3>1. j.stage = "triggers" /\ j.lack = lack /\ j.moves = {}
            BY <1>2, <1>8, <2>1 DEF CheckType
        <3>. QED
            BY <1>6, <1>7, <3>1 DEF StillRead
    <2>2. CASE ~(k.next < Len(ChainIds)) /\ lack = {}
        BY <1>8, <2>2 DEF StillRead, Idle
    <2>3. CASE ~(k.next < Len(ChainIds)) /\ lack # {}
        <3>1. j.stage = "plan" /\ j.lack = lack /\ j.spare = {} /\ j.moves = {}
            BY <1>8, <2>3 DEF Idle
        <3>. QED
            BY <1>6, <1>7, <3>1 DEF StillRead
    <2>. QED
        BY <2>1, <2>2, <2>3
<1>10. UNCHANGED <<balance, late>> /\ check' = [check EXCEPT ![s] = j] /\ check[s].stage # "idle"
    BY <1>1, <1>2, <1>4, <1>8 DEF Look
<1>. QED
    BY <1>9, <1>10, ReadingUndisturbed

LEMMA LookAgainUndisturbed ==
    ASSUME Inv, Undisturbed, NEW s \in Slots, LookAgain(s)
    PROVE  Undisturbed'
<1>1. PICK k : k = check[s]
    OBVIOUS
<1>2. /\ k.stage = "plan" /\ k \in CheckType /\ k.next \in Chains /\ CheckInv(k)
      /\ k.moves = {} /\ StillRead(k)
    BY <1>1 DEF Inv, CheckInv, LookAgain, Undisturbed
<1>3. PICK over : over = SpareAt(k.next, {x.asset : x \in k.lack})
    OBVIOUS
<1>31. PICK ok \in BOOLEAN : \E spare :
        /\ spare = (IF ok THEN k.spare \cup over ELSE k.spare)
        /\ IF k.next < Len(ChainIds)
           THEN check' = [check EXCEPT ![s].next = @ + 1, ![s].spare = spare]
           ELSE \E moves \in {PlanPortfolioRebalancing(k.lack, spare)} :
                    check' = [check EXCEPT ![s] =
                        IF moves = {} THEN Idle ELSE [Idle EXCEPT !.stage = "executing", !.moves = moves]]
    BY <1>1, <1>3, Zenon DEF LookAgain
<1>4. PICK spare :
        /\ spare = (IF ok THEN k.spare \cup over ELSE k.spare)
        /\ IF k.next < Len(ChainIds)
           THEN check' = [check EXCEPT ![s].next = @ + 1, ![s].spare = spare]
           ELSE \E moves \in {PlanPortfolioRebalancing(k.lack, spare)} :
                    check' = [check EXCEPT ![s] =
                        IF moves = {} THEN Idle ELSE [Idle EXCEPT !.stage = "executing", !.moves = moves]]
    BY <1>31, Zenon
<1>5. {x.asset : x \in k.lack} \in SUBSET Assets
    BY <1>2 DEF CheckType, Reading
<1>6. /\ \A x \in over :
            /\ x \in Reading /\ x.chain = k.next /\ x.asset \in Assets
            /\ <<k.next, x.asset>> \in DOMAIN Base /\ balance[<<k.next, x.asset>>] > Base[<<k.next, x.asset>>]
            /\ x.amount = balance[<<k.next, x.asset>>] - Base[<<k.next, x.asset>>]
      /\ \A x, y \in over : x.asset = y.asset => x = y
    BY <1>2, <1>3, <1>5, SpareAtTypes DEF Inv
<1>7. \A x \in spare :
        /\ PairOf(x) \in DOMAIN Base /\ balance[PairOf(x)] > Base[PairOf(x)]
        /\ x.amount = balance[PairOf(x)] - Base[PairOf(x)]
    <2>1. \A x \in over : PairOf(x) = <<k.next, x.asset>>
        BY <1>6 DEF PairOf
    <2>. QED
        BY <1>2, <1>4, <1>6, <2>1 DEF StillRead
<1>8. /\ \A p \in Pairs : late[p] = 0
      /\ \A x \in k.lack : PairOf(x) \in DOMAIN Base /\ x.amount = Base[PairOf(x)] - balance[PairOf(x)]
    BY <1>2 DEF StillRead
<1>9. Once(k.lack) /\ k.lack \subseteq Reading /\ Once(spare) /\ spare \subseteq Reading
    <2>1. Once(k.lack) /\ k.lack \subseteq Reading /\ Once(k.spare) /\ k.spare \subseteq Reading
        BY <1>2 DEF CheckInv, CheckType
    <2>2. \A x \in k.spare : x.chain \in Int /\ x.chain # k.next
        BY <1>2, <2>1, ConstantFacts DEF Reading, CheckInv
    <2>3. Once(k.spare \cup over)
        BY <1>6, <2>1, <2>2, OnceIsOnce
    <2>. QED
        BY <1>4, <1>6, <2>1, <2>3
<1>10. UNCHANGED <<balance, late>> /\ check[s].stage # "idle"
    BY <1>1, <1>2 DEF LookAgain
<1>11. CASE k.next < Len(ChainIds)
    <2>1. PICK j : j = [k EXCEPT !.next = @ + 1, !.spare = spare]
        OBVIOUS
    <2>2. j.stage = "plan" /\ j.lack = k.lack /\ j.spare = spare /\ j.moves = {}
        BY <1>2, <2>1 DEF CheckType
    <2>3. check' = [check EXCEPT ![s] = j]
        BY <1>1, <1>4, <1>11, <2>1 DEF Inv
    <2>4. StillRead(j)
        BY <1>7, <1>8, <2>2 DEF StillRead
    <2>. QED
        BY <1>10, <2>2, <2>3, <2>4, ReadingUndisturbed
<1>12. CASE ~(k.next < Len(ChainIds))
    <2>1. PICK moves : moves = PlanPortfolioRebalancing(k.lack, spare)
        OBVIOUS
    <2>2. PICK j : j = IF moves = {} THEN Idle ELSE [Idle EXCEPT !.stage = "executing", !.moves = moves]
        OBVIOUS
    <2>3. check' = [check EXCEPT ![s] = j]
        BY <1>4, <1>12, <2>1, <2>2
    <2>4. CASE moves = {}
        <3>1. j.stage = "idle" /\ j.moves = {}
            BY <2>2, <2>4 DEF Idle
        <3>2. StillRead(j)
            BY <3>1 DEF StillRead
        <3>. QED
            BY <1>10, <2>3, <3>1, <3>2, ReadingUndisturbed
    <2>5. CASE moves # {}
        <3>1. j.stage = "executing" /\ j.moves = moves
            BY <2>2, <2>5 DEF Idle
        <3>2. \A t \in Slots : check'[t] = IF t = s THEN j ELSE check[t]
            BY <2>3 DEF Inv
        <3>3. \A t \in Slots : t # s => check[t].stage = "idle" /\ check[t].moves = {}
            BY <1>10 DEF Undisturbed, OneCheck, Inv, CheckInv
        <3>4. OneCheck'
            BY <3>2, <3>3 DEF OneCheck
        <3>5. ASSUME NEW t \in Slots PROVE StillRead(check[t])'
            <4>1. check'[t].stage \notin {"triggers", "plan"}
                BY <3>1, <3>2, <3>3
            <4>. QED
                BY <4>1 DEF StillRead
        <3>6. \A d \in k.lack, x \in spare : d.asset = x.asset => d.chain # x.chain
            <4>1. ASSUME NEW d \in k.lack, NEW x \in spare, PairOf(d) = PairOf(x) PROVE FALSE
                <5>1. d.amount \in Nat /\ PairOf(d) \in DOMAIN Base
                    BY <1>8, <1>9 DEF Reading
                <5>2. Base[PairOf(d)] \in Nat /\ balance[PairOf(d)] \in Nat
                    BY <5>1, ConstantFacts DEF Inv, WalletInv
                <5>3. d.amount = Base[PairOf(d)] - balance[PairOf(d)] /\ balance[PairOf(d)] > Base[PairOf(d)]
                    BY <1>7, <1>8, <4>1
                <5>. QED
                    BY <5>1, <5>2, <5>3
            <4>. QED
                BY <4>1 DEF PairOf
        <3>7. ASSUME NEW p \in DOMAIN Base PROVE Bounded(p)'
            <4>1. p \in Pairs /\ p = <<p[1], p[2]>> /\ Base[p] \in Nat /\ balance[p] \in Nat /\ late[p] = 0
                BY <1>8, ConstantFacts DEF Pairs, Inv, WalletInv
            <4>2. \A t \in Slots : t # s => Leaving(t, p)' = {} /\ Coming(t, p)' = {}
                BY <3>2, <3>3 DEF Leaving, Coming
            <4>0. PICK c, a : c = p[1] /\ a = p[2]
                OBVIOUS
            <4>3. PICK L : L = MovesOutOf(moves, c, a)
                OBVIOUS
            <4>4. PICK C : C = MovesInto(moves, c, a)
                OBVIOUS
            <4>5. \A x \in moves : x.at = "planned"
                BY <1>9, <2>1, PortfolioTypes
            <4>6. Leaving(s, p)' = L /\ Coming(s, p)' = C
                BY <3>1, <3>2, <4>0, <4>3, <4>4, <4>5 DEF Leaving, Coming, MovesInto, MovesOutOf
            <4>7. C # {} => balance[p] + late[p] + Total(C) <= Base[p] + Slack
                <5>1. SUFFICES ASSUME C # {} PROVE balance[p] + Total(C) <= Base[p] + Slack
                    BY <4>1
                <5>2. PICK d \in k.lack : d.chain = c /\ d.asset = a /\ Total(C) <= d.amount + Slack
                    <6>1. PICK lack : lack = k.lack
                        OBVIOUS
                    <6>2. /\ Once(lack) /\ lack \subseteq Reading /\ Once(spare) /\ spare \subseteq Reading
                          /\ moves = PlanPortfolioRebalancing(lack, spare)
                          /\ \A d \in lack, x \in spare : d.asset = x.asset => d.chain # x.chain
                        BY <1>9, <2>1, <3>6, <6>1
                    <6>3. \E d \in lack : d.chain = c /\ d.asset = a /\ Total(C) <= d.amount + Slack
                        BY <4>4, <5>1, <6>2, PlannedInto
                    <6>. QED
                        BY <6>1, <6>3
                <5>3. PairOf(d) = p
                    BY <4>0, <4>1, <5>2 DEF PairOf
                <5>4. d.amount = Base[p] - balance[p]
                    BY <1>8, <5>3
                <5>5. Total(C) \in Nat /\ Slack \in Nat
                    BY <1>9, <2>1, <4>4, PlanTotal, SlackIsNatural DEF MovesInto
                <5>. QED
                    BY <4>1, <5>2, <5>4, <5>5
            <4>8. L # {} => balance[p] + Slack >= Base[p] + Total(L)
                <5>1. SUFFICES ASSUME L # {} PROVE balance[p] + Slack >= Base[p] + Total(L)
                    OBVIOUS
                <5>2. PICK x \in spare : x.chain = c /\ x.asset = a /\ Total(L) <= x.amount + Slack
                    <6>1. PICK lack : lack = k.lack
                        OBVIOUS
                    <6>2. /\ Once(lack) /\ lack \subseteq Reading /\ Once(spare) /\ spare \subseteq Reading
                          /\ moves = PlanPortfolioRebalancing(lack, spare)
                          /\ \A d \in lack, x \in spare : d.asset = x.asset => d.chain # x.chain
                        BY <1>9, <2>1, <3>6, <6>1
                    <6>. QED
                        BY <4>3, <5>1, <6>2, PlannedOutOf
                <5>3. PairOf(x) = p
                    BY <4>0, <4>1, <5>2 DEF PairOf
                <5>4. x.amount = balance[p] - Base[p]
                    BY <1>7, <5>3
                <5>5. Total(L) \in Nat /\ Slack \in Nat
                    BY <1>9, <2>1, <4>3, PlanTotal, SlackIsNatural DEF MovesOutOf
                <5>. QED
                    BY <4>1, <5>2, <5>4, <5>5
            <4>9. ASSUME NEW t \in Slots
                  PROVE  /\ Leaving(t, p)' # {} => balance'[p] + Slack >= Base[p] + Total(Leaving(t, p)')
                         /\ Coming(t, p)' # {} => balance'[p] + late'[p] + Total(Coming(t, p)') <= Base[p] + Slack
                BY <1>10, <4>2, <4>6, <4>7, <4>8
            <4>. QED
                BY <1>10, <4>1, <4>9 DEF Bounded
        <3>. QED
            BY <3>4, <3>5, <3>7 DEF Undisturbed
    <2>. QED
        BY <2>4, <2>5
<1>. QED
    BY <1>11, <1>12

LEMMA PairTotals ==
    ASSUME Inv, NEW s \in Slots, NEW p, NEW S, S \in {Leaving(s, p), Coming(s, p)}
    PROVE  IsFiniteSet(S) /\ (\A x \in S : x.amount \in Nat) /\ Total(S) \in Nat
<1>1. S \subseteq check[s].moves
    BY DEF Leaving, Coming
<1>2. IsFiniteSet(check[s].moves)
    BY DEF Inv, CheckInv
<1>3. IsFiniteSet(S)
    BY <1>1, <1>2, FS_Subset
<1>4. \A x \in S : x.amount \in Nat
    BY <1>1, MoveFacts
<1>. QED
    BY <1>3, <1>4, TotalWithout

(* What a transfer of the only check does to the amounts that are to leave    *)
(* and to reach a pair.                                                       *)
LEMMA MovingTotals ==
    ASSUME Inv, NEW s \in Slots, NEW m \in check[s].moves, NEW p,
           NEW S, S \in {Leaving(s, p), Coming(s, p)}
    PROVE  /\ IsFiniteSet(S) /\ \A x \in S : x.amount \in Nat
           /\ Total(S) \in Nat /\ Total(S \ {m}) \in Nat
           /\ m \in S => Total(S) = m.amount + Total(S \ {m})
           /\ m \notin S => Total(S \ {m}) = Total(S)
<1>3. IsFiniteSet(S) /\ \A x \in S : x.amount \in Nat
    BY PairTotals
<1>5. Total(S) \in Nat /\ (m \in S => Total(S \ {m}) \in Nat /\ Total(S) = m.amount + Total(S \ {m}))
    BY <1>3, TotalWithout
<1>6. m \notin S => Total(S \ {m}) = Total(S)
    <2>1. m \notin S => S \ {m} = S
        OBVIOUS
    <2>. QED
        BY <2>1
<1>. QED
    BY <1>3, <1>5, <1>6

LEMMA OthersIdle ==
    ASSUME Inv, Undisturbed, NEW s \in Slots, check[s].stage # "idle"
    PROVE  \A t \in Slots : t # s => check[t].stage = "idle" /\ check[t].moves = {}
BY DEF Undisturbed, OneCheck, Inv, CheckInv

(* The only check goes on executing, or is over.                              *)
LEMMA ExecutingUndisturbed ==
    ASSUME Inv, Undisturbed, NEW s \in Slots, check[s].stage = "executing",
           NEW k, check' = [check EXCEPT ![s] = k], k.stage \in {"executing", "idle"},
           \A p \in DOMAIN Base :
                /\ late'[p] > 0 => balance'[p] + late'[p] <= Base[p] + Slack
                /\ Leaving(s, p)' # {} => balance'[p] + Slack >= Base[p] + Total(Leaving(s, p)')
                /\ Coming(s, p)' # {} => balance'[p] + late'[p] + Total(Coming(s, p)') <= Base[p] + Slack
    PROVE  Undisturbed'
<1>1. \A t \in Slots : check'[t] = IF t = s THEN k ELSE check[t]
    BY DEF Inv
<1>2. \A t \in Slots : t # s => check[t].stage = "idle" /\ check[t].moves = {}
    BY OthersIdle
<1>3. OneCheck'
    BY <1>1, <1>2 DEF OneCheck
<1>4. ASSUME NEW t \in Slots PROVE StillRead(check[t])'
    <2>1. check'[t].stage \notin {"triggers", "plan"}
        BY <1>1, <1>2
    <2>. QED
        BY <2>1 DEF StillRead
<1>5. ASSUME NEW p \in DOMAIN Base PROVE Bounded(p)'
    <2>1. \A t \in Slots : t # s => Leaving(t, p)' = {} /\ Coming(t, p)' = {}
        BY <1>1, <1>2 DEF Leaving, Coming
    <2>. QED
        BY <2>1 DEF Bounded
<1>. QED
    BY <1>3, <1>4, <1>5 DEF Undisturbed

LEMMA SettleSets ==
    ASSUME Inv, NEW s \in Slots, NEW m \in check[s].moves, Settle(s, m)
    PROVE  /\ \E k : check' = [check EXCEPT ![s] = k] /\ k.stage \in {"executing", "idle"}
           /\ \A p : Leaving(s, p)' = Leaving(s, p) \ {m} /\ Coming(s, p)' = Coming(s, p) \ {m}
<1>1. check[s] \in CheckType /\ check[s].stage = "executing"
    BY MoveFacts DEF Inv
<1>2. PICK left : left = check[s].moves \ {m}
    OBVIOUS
<1>3. PICK k : k = IF left = {} THEN Idle ELSE [check[s] EXCEPT !.moves = left]
    OBVIOUS
<1>4. k.moves = left /\ k.stage \in {"executing", "idle"}
    BY <1>1, <1>3 DEF CheckType, Idle
<1>5. check' = [check EXCEPT ![s] = k]
    BY <1>2, <1>3 DEF Settle
<1>6. check'[s].moves = check[s].moves \ {m}
    BY <1>2, <1>4, <1>5 DEF Inv
<1>7. \A p : Leaving(s, p)' = Leaving(s, p) \ {m} /\ Coming(s, p)' = Coming(s, p) \ {m}
    BY <1>6 DEF Leaving, Coming
<1>. QED
    BY <1>4, <1>5, <1>7

LEMMA ProceedSets ==
    ASSUME Inv, NEW s \in Slots, NEW m \in check[s].moves,
           NEW at \in {"sent", "withdrawing"}, Proceed(s, m, at)
    PROVE  /\ \E k : check' = [check EXCEPT ![s] = k] /\ k.stage \in {"executing", "idle"}
           /\ \A p : /\ Leaving(s, p)' = Leaving(s, p) \ {m}
                     /\ Coming(s, p)' # {} => Coming(s, p) # {}
                     /\ Total(Coming(s, p)') \in Nat /\ Total(Coming(s, p)') <= Total(Coming(s, p))
<1>1. check[s] \in CheckType /\ check[s].stage = "executing"
    BY MoveFacts DEF Inv
<1>2. m \in Move /\ m.amount \in Nat
    BY MoveFacts
<1>3. PICK n : n = [m EXCEPT !.at = at]
    OBVIOUS
<1>4. n.at = at /\ n.from = m.from /\ n.to = m.to /\ n.asset = m.asset /\ n.amount = m.amount
    BY <1>2, <1>3 DEF Move
<1>5. PICK k : k = [check[s] EXCEPT !.moves = (check[s].moves \ {m}) \cup {n}]
    OBVIOUS
<1>6. k.moves = (check[s].moves \ {m}) \cup {n} /\ k.stage = "executing"
    BY <1>1, <1>5 DEF CheckType
<1>7. check' = [check EXCEPT ![s] = k]
    BY <1>3, <1>5 DEF Proceed, Inv
<1>8. check'[s].moves = (check[s].moves \ {m}) \cup {n}
    BY <1>6, <1>7 DEF Inv
<1>9. \A p : Leaving(s, p)' = Leaving(s, p) \ {m}
    BY <1>4, <1>8 DEF Leaving
<1>10. ASSUME NEW p
       PROVE  /\ Coming(s, p)' # {} => Coming(s, p) # {}
              /\ Total(Coming(s, p)') \in Nat /\ Total(Coming(s, p)') <= Total(Coming(s, p))
    <2>1. PICK C : C = Coming(s, p)
        OBVIOUS
    <2>2. PICK C2 : C2 = Coming(s, p)'
        OBVIOUS
    <2>3. CASE m \in C
        <3>1. C2 = (C \ {m}) \cup {n}
            BY <1>4, <1>8, <2>1, <2>2, <2>3 DEF Coming
        <3>2. /\ IsFiniteSet(C) /\ \A x \in C : x.amount \in Nat
              /\ Total(C \ {m}) \in Nat /\ Total(C) = m.amount + Total(C \ {m}) /\ Total(C) \in Nat
            BY <2>1, <2>3, MovingTotals
        <3>3. IsFiniteSet(C \ {m}) /\ \A x \in C \ {m} : x.amount \in Nat
            BY <3>2, FS_RemoveElement
        <3>4. n.amount \in Nat
            BY <1>2, <1>4
        <3>5. Total((C \ {m}) \cup {n}) \in Nat /\ Total((C \ {m}) \cup {n}) <= Total(C \ {m}) + n.amount
            BY <3>3, <3>4, TotalWith
        <3>6. Total(C2) \in Nat /\ Total(C2) <= Total(C \ {m}) + n.amount
            BY <3>1, <3>5
        <3>7. Total(C2) <= Total(C)
            BY <1>2, <1>4, <3>2, <3>6
        <3>. QED
            BY <2>1, <2>2, <2>3, <3>6, <3>7
    <2>4. CASE m \notin C
        <3>1. C2 = C
            BY <1>4, <1>8, <2>1, <2>2, <2>4 DEF Coming
        <3>2. Total(C) \in Nat
            BY <2>1, MovingTotals
        <3>3. Total(C2) = Total(C)
            BY <3>1
        <3>4. Total(C2) \in Nat /\ Total(C2) <= Total(C)
            BY <3>2, <3>3
        <3>. QED
            BY <2>1, <2>2, <3>1, <3>4
    <2>. QED
        BY <2>3, <2>4
<1>. QED
    BY <1>6, <1>7, <1>9, <1>10

KeepsBase(p) ==
    /\ balance'[p] < balance[p] => balance'[p] + Slack >= Base[p]
    /\ balance'[p] > balance[p] => balance'[p] <= Base[p] + Slack

(* The amounts that a transfer and a pair have to do with, and their bounds.  *)
BoundsHold(p, m, L, C) ==
    /\ p \in Pairs /\ balance[p] \in Nat /\ late[p] \in Nat /\ Base[p] \in Nat
    /\ Slack \in Nat /\ m.amount \in Nat
    /\ Total(L) \in Nat /\ Total(L \ {m}) \in Nat /\ Total(C) \in Nat /\ Total(C \ {m}) \in Nat
    /\ Total(L) = (IF m \in L THEN m.amount ELSE 0) + Total(L \ {m})
    /\ Total(C) = (IF m \in C THEN m.amount ELSE 0) + Total(C \ {m})
    /\ m \in L <=> m.at = "planned" /\ p = <<m.from, m.asset>>
    /\ m \in C <=> p = <<m.to, m.asset>>
    /\ late[p] > 0 => balance[p] + late[p] <= Base[p] + Slack
    /\ L # {} => balance[p] + Slack >= Base[p] + Total(L)
    /\ C # {} => balance[p] + late[p] + Total(C) <= Base[p] + Slack

LEMMA BoundedFacts ==
    ASSUME Inv, Undisturbed, NEW s \in Slots, NEW m \in check[s].moves, NEW p \in DOMAIN Base,
           NEW L, L = Leaving(s, p), NEW C, C = Coming(s, p)
    PROVE  BoundsHold(p, m, L, C)
<1>1. p \in Pairs /\ balance[p] \in Nat /\ late[p] \in Nat /\ Base[p] \in Nat
    BY ConstantFacts DEF Inv, WalletInv
<1>2. Slack \in Nat /\ m.amount \in Nat
    BY SlackIsNatural, MoveFacts
<1>3. /\ Total(L) \in Nat /\ Total(L \ {m}) \in Nat
      /\ m \in L => Total(L) = m.amount + Total(L \ {m})
      /\ m \notin L => Total(L \ {m}) = Total(L)
    BY MovingTotals
<1>4. /\ Total(C) \in Nat /\ Total(C \ {m}) \in Nat
      /\ m \in C => Total(C) = m.amount + Total(C \ {m})
      /\ m \notin C => Total(C \ {m}) = Total(C)
    BY MovingTotals
<1>5. p = <<p[1], p[2]>>
    BY <1>1 DEF Pairs
<1>6. m \in L <=> m.at = "planned" /\ p = <<m.from, m.asset>>
    BY <1>5 DEF Leaving
<1>7. m \in C <=> p = <<m.to, m.asset>>
    BY <1>5 DEF Coming
<1>8. Bounded(p)
    BY DEF Undisturbed
<1>9. /\ late[p] > 0 => balance[p] + late[p] <= Base[p] + Slack
      /\ L # {} => balance[p] + Slack >= Base[p] + Total(L)
      /\ C # {} => balance[p] + late[p] + Total(C) <= Base[p] + Slack
    BY <1>8 DEF Bounded
<1>10. Total(L) = (IF m \in L THEN m.amount ELSE 0) + Total(L \ {m})
    BY <1>2, <1>3
<1>11. Total(C) = (IF m \in C THEN m.amount ELSE 0) + Total(C \ {m})
    BY <1>2, <1>4
<1>. QED
    BY <1>1, <1>2, <1>3, <1>4, <1>6, <1>7, <1>9, <1>10, <1>11 DEF BoundsHold

LEMMA DebitUndisturbed ==
    ASSUME Inv, Undisturbed, NEW s \in Slots, NEW m \in check[s].moves, Debit(s, m)
    PROVE  Undisturbed' /\ \A p \in DOMAIN Base : KeepsBase(p)
<1>1. /\ \E k : check' = [check EXCEPT ![s] = k] /\ k.stage \in {"executing", "idle"}
      /\ \A p : /\ Leaving(s, p)' = Leaving(s, p) \ {m}
                /\ Coming(s, p)' # {} => Coming(s, p) # {}
                /\ Total(Coming(s, p)') \in Nat /\ Total(Coming(s, p)') <= Total(Coming(s, p))
    BY ProceedSets DEF Debit
<1>2. ASSUME NEW p \in DOMAIN Base
      PROVE  /\ late'[p] > 0 => balance'[p] + late'[p] <= Base[p] + Slack
             /\ Leaving(s, p)' # {} => balance'[p] + Slack >= Base[p] + Total(Leaving(s, p)')
             /\ Coming(s, p)' # {} => balance'[p] + late'[p] + Total(Coming(s, p)') <= Base[p] + Slack
             /\ KeepsBase(p)
    <2>1. PICK L : L = Leaving(s, p)
        OBVIOUS
    <2>2. PICK C : C = Coming(s, p)
        OBVIOUS
    <2>3. PICK C2 : C2 = Coming(s, p)'
        OBVIOUS
    <2>4. /\ p \in Pairs /\ balance[p] \in Nat /\ late[p] \in Nat /\ Base[p] \in Nat
          /\ Slack \in Nat /\ m.amount \in Nat
          /\ Total(L) \in Nat /\ Total(L \ {m}) \in Nat /\ Total(C) \in Nat
          /\ Total(L) = (IF m \in L THEN m.amount ELSE 0) + Total(L \ {m})
          /\ m \in L <=> m.at = "planned" /\ p = <<m.from, m.asset>>
          /\ late[p] > 0 => balance[p] + late[p] <= Base[p] + Slack
          /\ L # {} => balance[p] + Slack >= Base[p] + Total(L)
          /\ C # {} => balance[p] + late[p] + Total(C) <= Base[p] + Slack
        <3>1. BoundsHold(p, m, L, C)
            BY <2>1, <2>2, BoundedFacts
        <3>. QED
            BY <3>1 DEF BoundsHold
    <2>5. Leaving(s, p)' = L \ {m} /\ (L \ {m} # {} => L # {}) /\ (m \in L => L # {})
        BY <1>1, <2>1
    <2>6. (C2 # {} => C # {}) /\ Total(C2) \in Nat /\ Total(C2) <= Total(C)
        BY <1>1, <2>2, <2>3
    <2>7. late' = late /\ balance'[p] = balance[p] - (IF m \in L THEN m.amount ELSE 0)
        BY <2>4 DEF Debit, Inv, WalletInv
    <2>8. balance'[p] \in Int
        BY <2>4, <2>7
    <2>9. late'[p] > 0 => balance'[p] + late'[p] <= Base[p] + Slack
        BY <2>4, <2>7
    <2>10. L \ {m} # {} => balance'[p] + Slack >= Base[p] + Total(L \ {m})
        BY <2>4, <2>5, <2>7
    <2>11. C2 # {} => balance'[p] + late'[p] + Total(C2) <= Base[p] + Slack
        BY <2>4, <2>6, <2>7
    <2>12. KeepsBase(p)
        BY <2>4, <2>5, <2>7 DEF KeepsBase
    <2>. QED
        BY <2>3, <2>5, <2>9, <2>10, <2>11, <2>12
<1>3. check[s].stage = "executing"
    BY MoveFacts
<1>4. Undisturbed'
    BY <1>1, <1>2, <1>3, ExecutingUndisturbed
<1>. QED
    BY <1>2, <1>4

(* A transfer that is over: it arrives, or is late, or does not arrive.       *)
LEMMA SettledUndisturbed ==
    ASSUME Inv, Undisturbed, NEW s \in Slots, NEW m \in check[s].moves, Settle(s, m),
           NEW q, q = <<m.to, m.asset>>, NEW arrived \in {0, m.amount}, NEW later \in {0, m.amount},
           arrived = 0 \/ later = 0,
           balance' = [balance EXCEPT ![q] = @ + arrived], late' = [late EXCEPT ![q] = @ + later]
    PROVE  Undisturbed' /\ \A p \in DOMAIN Base : KeepsBase(p)
<1>1. /\ \E k : check' = [check EXCEPT ![s] = k] /\ k.stage \in {"executing", "idle"}
      /\ \A p : Leaving(s, p)' = Leaving(s, p) \ {m} /\ Coming(s, p)' = Coming(s, p) \ {m}
    BY SettleSets
<1>2. ASSUME NEW p \in DOMAIN Base
      PROVE  /\ late'[p] > 0 => balance'[p] + late'[p] <= Base[p] + Slack
             /\ Leaving(s, p)' # {} => balance'[p] + Slack >= Base[p] + Total(Leaving(s, p)')
             /\ Coming(s, p)' # {} => balance'[p] + late'[p] + Total(Coming(s, p)') <= Base[p] + Slack
             /\ KeepsBase(p)
    <2>1. PICK L : L = Leaving(s, p)
        OBVIOUS
    <2>2. PICK C : C = Coming(s, p)
        OBVIOUS
    <2>4. /\ p \in Pairs /\ balance[p] \in Nat /\ late[p] \in Nat /\ Base[p] \in Nat
          /\ Slack \in Nat /\ m.amount \in Nat
          /\ Total(L) \in Nat /\ Total(L \ {m}) \in Nat /\ Total(C) \in Nat /\ Total(C \ {m}) \in Nat
          /\ Total(L) = (IF m \in L THEN m.amount ELSE 0) + Total(L \ {m})
          /\ Total(C) = (IF m \in C THEN m.amount ELSE 0) + Total(C \ {m})
          /\ m \in C <=> p = q
          /\ late[p] > 0 => balance[p] + late[p] <= Base[p] + Slack
          /\ L # {} => balance[p] + Slack >= Base[p] + Total(L)
          /\ C # {} => balance[p] + late[p] + Total(C) <= Base[p] + Slack
        <3>1. BoundsHold(p, m, L, C)
            BY <2>1, <2>2, BoundedFacts
        <3>. QED
            BY <3>1 DEF BoundsHold
    <2>5. /\ Leaving(s, p)' = L \ {m} /\ (L \ {m} # {} => L # {})
          /\ Coming(s, p)' = C \ {m} /\ (C \ {m} # {} => C # {}) /\ (m \in C => C # {})
        BY <1>1, <2>1, <2>2
    <2>6. PICK b \in Nat : b = IF m \in C THEN arrived ELSE 0
        BY <2>4
    <2>7. PICK l \in Nat : l = IF m \in C THEN later ELSE 0
        BY <2>4
    <2>8. balance'[p] = balance[p] + b /\ late'[p] = late[p] + l
        BY <2>4, <2>6, <2>7 DEF Inv, WalletInv
    <2>9. b + l <= (IF m \in C THEN m.amount ELSE 0)
        BY <2>4, <2>6, <2>7
    <2>10. b + l + Total(C \ {m}) <= Total(C) /\ (b + l > 0 => C # {})
        BY <2>4, <2>5, <2>6, <2>7, <2>9
    <2>11. late'[p] > 0 => balance'[p] + late'[p] <= Base[p] + Slack
        <3>1. CASE b + l > 0
            <4>1. b + l <= Total(C) /\ balance[p] + late[p] + Total(C) <= Base[p] + Slack
                BY <2>4, <2>10, <3>1
            <4>. QED
                BY <2>4, <2>8, <4>1
        <3>2. CASE b + l = 0
            <4>1. balance'[p] = balance[p] /\ late'[p] = late[p]
                BY <2>4, <2>8, <3>2
            <4>. QED
                BY <2>4, <4>1
        <3>. QED
            BY <3>1, <3>2
    <2>12. L \ {m} # {} => balance'[p] + Slack >= Base[p] + Total(L \ {m})
        <3>1. Total(L \ {m}) <= Total(L)
            BY <2>4
        <3>. QED
            BY <2>4, <2>5, <2>8, <3>1
    <2>13. C \ {m} # {} => balance'[p] + late'[p] + Total(C \ {m}) <= Base[p] + Slack
        BY <2>4, <2>5, <2>8, <2>10
    <2>14. KeepsBase(p)
        BY <2>4, <2>8, <2>10 DEF KeepsBase
    <2>. QED
        BY <2>5, <2>11, <2>12, <2>13, <2>14
<1>3. check[s].stage = "executing"
    BY MoveFacts
<1>4. Undisturbed'
    BY <1>1, <1>2, <1>3, ExecutingUndisturbed
<1>. QED
    BY <1>2, <1>4

LEMMA TransferUndisturbed ==
    ASSUME Inv, Undisturbed, NEW s \in Slots, NEW m \in check[s].moves, Transfer(s, m)
    PROVE  Undisturbed' /\ \A p \in DOMAIN Base : KeepsBase(p)
<1>0. PICK q : q = <<m.to, m.asset>>
    OBVIOUS
<1>1. q \in Pairs /\ m.amount \in Nat
    BY <1>0, MoveFacts
<1>2. /\ balance = [balance EXCEPT ![q] = @ + 0]
      /\ late = [late EXCEPT ![q] = @ + 0]
    BY <1>1 DEF Inv, WalletInv
<1>3. CASE Debit(s, m)
    BY <1>3, DebitUndisturbed
<1>4. CASE Refuse(s, m) \/ Strand(s, m)
    <2>1. Settle(s, m) /\ UNCHANGED <<balance, late>>
        BY <1>4 DEF Refuse, Strand
    <2>2. balance' = [balance EXCEPT ![q] = @ + 0] /\ late' = [late EXCEPT ![q] = @ + 0]
        BY <1>2, <2>1
    <2>. QED
        BY <1>0, <2>1, <2>2, SettledUndisturbed
<1>5. CASE Arrive(s, m)
    <2>1. Settle(s, m) /\ UNCHANGED late /\ balance' = [balance EXCEPT ![q] = @ + m.amount]
        BY <1>0, <1>5 DEF Arrive
    <2>2. late' = [late EXCEPT ![q] = @ + 0]
        BY <1>2, <2>1
    <2>. QED
        BY <1>0, <2>1, <2>2, SettledUndisturbed
<1>6. CASE GiveUpWaiting(s, m)
    <2>1. Settle(s, m) /\ UNCHANGED balance /\ late' = [late EXCEPT ![q] = @ + m.amount]
        BY <1>0, <1>6 DEF GiveUpWaiting
    <2>2. balance' = [balance EXCEPT ![q] = @ + 0]
        BY <1>2, <2>1
    <2>. QED
        BY <1>0, <2>1, <2>2, SettledUndisturbed
<1>7. CASE Withdraw(s, m)
    <2>1. Proceed(s, m, "withdrawing") /\ UNCHANGED <<balance, late>>
        BY <1>7 DEF Withdraw
    <2>2. /\ \E k : check' = [check EXCEPT ![s] = k] /\ k.stage \in {"executing", "idle"}
          /\ \A p : /\ Leaving(s, p)' = Leaving(s, p) \ {m}
                    /\ Coming(s, p)' # {} => Coming(s, p) # {}
                    /\ Total(Coming(s, p)') \in Nat /\ Total(Coming(s, p)') <= Total(Coming(s, p))
        BY <2>1, ProceedSets
    <2>3. ASSUME NEW p \in DOMAIN Base
          PROVE  /\ late'[p] > 0 => balance'[p] + late'[p] <= Base[p] + Slack
                 /\ Leaving(s, p)' # {} => balance'[p] + Slack >= Base[p] + Total(Leaving(s, p)')
                 /\ Coming(s, p)' # {} => balance'[p] + late'[p] + Total(Coming(s, p)') <= Base[p] + Slack
        <3>1. PICK L : L = Leaving(s, p)
            OBVIOUS
        <3>2. PICK C : C = Coming(s, p)
            OBVIOUS
        <3>3. PICK C2 : C2 = Coming(s, p)'
            OBVIOUS
        <3>4. BoundsHold(p, m, L, C)
            BY <3>1, <3>2, BoundedFacts
        <3>5. Leaving(s, p)' = L
            <4>1. m \notin L
                BY <1>7, <3>1 DEF Leaving, Withdraw
            <4>. QED
                BY <2>2, <3>1, <4>1
        <3>6. (C2 # {} => C # {}) /\ Total(C2) \in Nat /\ Total(C2) <= Total(C)
            BY <2>2, <3>2, <3>3
        <3>7. C2 # {} => balance[p] + late[p] + Total(C2) <= Base[p] + Slack
            BY <3>4, <3>6 DEF BoundsHold
        <3>. QED
            BY <2>1, <3>3, <3>4, <3>5, <3>7 DEF BoundsHold
    <2>4. check[s].stage = "executing"
        BY MoveFacts
    <2>5. Undisturbed'
        BY <2>2, <2>3, <2>4, ExecutingUndisturbed
    <2>6. \A p \in DOMAIN Base : KeepsBase(p)
        BY <2>1, ConstantFacts DEF KeepsBase, Inv, WalletInv
    <2>. QED
        BY <2>5, <2>6
<1>. QED
    BY <1>3, <1>4, <1>5, <1>6, <1>7 DEF Transfer

LEMMA LateArrivesUndisturbed ==
    ASSUME Inv, Undisturbed, NEW q \in Pairs, LateArrives(q)
    PROVE  Undisturbed' /\ \A p \in DOMAIN Base : KeepsBase(p)
<1>1. /\ late[q] > 0 /\ UNCHANGED check
      /\ \A p \in Pairs : /\ balance'[p] = IF p = q THEN balance[p] + late[p] ELSE balance[p]
                          /\ late'[p] = IF p = q THEN 0 ELSE late[p]
    BY DEF LateArrives, Inv, WalletInv
<1>2. OneCheck'
    BY <1>1 DEF Undisturbed, OneCheck
<1>3. ASSUME NEW t \in Slots PROVE StillRead(check[t])'
    <2>1. StillRead(check[t])
        BY DEF Undisturbed
    <2>2. check[t].stage \notin {"triggers", "plan"}
        BY <1>1, <2>1 DEF StillRead
    <2>. QED
        BY <1>1, <2>2 DEF StillRead
<1>4. ASSUME NEW p \in DOMAIN Base PROVE Bounded(p)' /\ KeepsBase(p)
    <2>1. /\ p \in Pairs /\ balance[p] \in Nat /\ late[p] \in Nat /\ Base[p] \in Nat /\ Slack \in Nat
        BY ConstantFacts, SlackIsNatural DEF Inv, WalletInv
    <2>2. Bounded(p)
        BY DEF Undisturbed
    <2>3. /\ balance'[p] + late'[p] = balance[p] + late[p] /\ balance'[p] >= balance[p]
          /\ balance'[p] \in Nat /\ late'[p] \in Nat
          /\ late'[p] > 0 => late[p] > 0
          /\ balance'[p] > balance[p] => late[p] > 0
        BY <1>1, <2>1
    <2>4. ASSUME NEW s \in Slots
          PROVE  /\ Leaving(s, p)' # {} => balance'[p] + Slack >= Base[p] + Total(Leaving(s, p)')
                 /\ Coming(s, p)' # {} => balance'[p] + late'[p] + Total(Coming(s, p)') <= Base[p] + Slack
        <3>1. Leaving(s, p)' = Leaving(s, p) /\ Coming(s, p)' = Coming(s, p)
            BY <1>1 DEF Leaving, Coming
        <3>2. PICK L : L = Leaving(s, p)
            OBVIOUS
        <3>3. PICK C : C = Coming(s, p)
            OBVIOUS
        <3>4. Total(L) \in Nat /\ Total(C) \in Nat
            BY <3>2, <3>3, PairTotals
        <3>5. /\ L # {} => balance[p] + Slack >= Base[p] + Total(L)
              /\ C # {} => balance[p] + late[p] + Total(C) <= Base[p] + Slack
            BY <2>2, <3>2, <3>3 DEF Bounded
        <3>6. L # {} => balance'[p] + Slack >= Base[p] + Total(L)
            BY <2>1, <2>3, <3>4, <3>5
        <3>7. C # {} => balance'[p] + late'[p] + Total(C) <= Base[p] + Slack
            BY <2>1, <2>3, <3>4, <3>5
        <3>. QED
            BY <3>1, <3>2, <3>3, <3>6, <3>7
    <2>5. late[p] > 0 => balance[p] + late[p] <= Base[p] + Slack
        BY <2>2 DEF Bounded
    <2>6. late'[p] > 0 => balance'[p] + late'[p] <= Base[p] + Slack
        BY <2>1, <2>3, <2>5
    <2>7. KeepsBase(p)
        BY <2>1, <2>3, <2>5 DEF KeepsBase
    <2>. QED
        BY <2>4, <2>6, <2>7 DEF Bounded
<1>. QED
    BY <1>2, <1>3, <1>4 DEF Undisturbed

(* What a crash of the only check leaves under way was to reach the pair.     *)
LEMMA CrashDelivers ==
    ASSUME Inv, Undisturbed, NEW p \in DOMAIN Base
    PROVE  \/ SumOfMoves(DeliveredTo(p)) = 0
           \/ \E s \in Slots : /\ Coming(s, p) # {}
                               /\ SumOfMoves(DeliveredTo(p)) <= Total(Coming(s, p))
<1>1. PICK S : S = DeliveredTo(p)
    OBVIOUS
<1>2. S \subseteq Moving /\ IsFiniteSet(S)
    BY <1>1, MovingTypes, FS_Subset DEF DeliveredTo, Delivered
<1>3. PICK e : e = [x \in S |-> x[2].amount]
    OBVIOUS
<1>4. SumOfMoves(S) = SumFunctionOnSet(e, S)
    BY <1>3 DEF SumOfMoves, SumFunction
<1>5. CASE S = {}
    <2>1. SumFunctionOnSet(e, {}) = 0
        BY SumOfNone
    <2>. QED
        BY <1>1, <1>4, <1>5, <2>1
<1>6. CASE S # {}
    <2>1. PICK y \in S : TRUE
        BY <1>6
    <2>2. PICK s \in Slots : s = y[1]
        BY <1>2, <2>1, MovingTypes
    <2>3. \A x \in S : x[1] = s /\ x[2] \in check[s].moves
        <3>1. \A x \in Moving : x[1] \in Slots /\ x[2] \in check[x[1]].moves
            BY MovingTypes
        <3>2. \A x \in Moving : check[x[1]].stage = "executing"
            BY <3>1, MoveFacts
        <3>3. \A x \in S : x[1] = s
            BY <1>2, <2>1, <2>2, <3>1, <3>2 DEF Undisturbed, OneCheck
        <3>. QED
            BY <1>2, <3>1, <3>3
    <2>4. PICK C : C = Coming(s, p)
        OBVIOUS
    <2>5. \A x \in S : x[2] \in C /\ x = <<s, x[2]>>
        <3>1. \A x \in S : p = <<x[2].to, x[2].asset>>
            BY <1>1 DEF DeliveredTo
        <3>2. \A x \in S : x = <<x[1], x[2]>>
            BY <1>2 DEF Moving
        <3>. QED
            BY <2>3, <2>4, <3>1, <3>2 DEF Coming
    <2>6. C # {}
        BY <2>1, <2>5
    <2>7. IsFiniteSet(C) /\ \A x \in C : x.amount \in Nat
        BY <2>4, PairTotals
    <2>8. PICK f : f = [x \in C |-> x.amount]
        OBVIOUS
    <2>9. PICK h : h = [x \in S |-> x[2]]
        OBVIOUS
    <2>10. PICK I : I = {x[2] : x \in S}
        OBVIOUS
    <2>11. \A x \in C : f[x] \in Nat /\ f[x] \in Int
        BY <2>7, <2>8
    <2>12. \A x \in S : h[x] \in I /\ h[x] \in C /\ f[h[x]] \in Int /\ e[x] = f[h[x]]
        BY <1>3, <2>5, <2>8, <2>9, <2>10, <2>11
    <2>13. \A x, z \in S : h[x] = h[z] => x = z
        BY <2>5, <2>9
    <2>14. \A z \in I : \E x \in S : z = h[x]
        BY <2>9, <2>10
    <2>15. SumFunctionOnSet(f, I) = SumFunctionOnSet(e, S)
        BY <1>2, <2>12, <2>13, <2>14, SumOfImage
    <2>16. I \subseteq C
        BY <2>12, <2>14
    <2>17. SumFunctionOnSet(f, I) <= SumFunctionOnSet(f, C)
        BY <2>7, <2>11, <2>16, SumOfPart
    <2>18. Total(C) = SumFunctionOnSet(f, C)
        BY <2>8, TotalIsSum
    <2>19. SumOfMoves(S) <= Total(C)
        BY <1>4, <2>15, <2>17, <2>18
    <2>. QED
        BY <1>1, <2>4, <2>6, <2>19
<1>. QED
    BY <1>5, <1>6

LEMMA CrashUndisturbed ==
    ASSUME Inv, Undisturbed, Crash
    PROVE  Undisturbed' /\ \A p \in DOMAIN Base : KeepsBase(p)
<1>1. /\ UNCHANGED balance /\ check' = [s \in Slots |-> Idle]
      /\ \A p \in Pairs : late'[p] = late[p] + SumOfMoves(DeliveredTo(p))
    <2>1. late' = [p \in Pairs |-> late[p] + SumOfMoves(DeliveredTo(p))]
        BY CrashSteps
    <2>. QED
        BY <2>1, CrashSteps
<1>2. \A t \in Slots : check'[t].stage = "idle" /\ check'[t].moves = {}
    BY <1>1 DEF Idle
<1>3. OneCheck'
    BY <1>2 DEF OneCheck
<1>4. ASSUME NEW t \in Slots PROVE StillRead(check[t])'
    BY <1>2 DEF StillRead
<1>5. ASSUME NEW p \in DOMAIN Base PROVE Bounded(p)' /\ KeepsBase(p)
    <2>1. /\ p \in Pairs /\ balance[p] \in Nat /\ late[p] \in Nat /\ Base[p] \in Nat /\ Slack \in Nat
        BY ConstantFacts, SlackIsNatural DEF Inv, WalletInv
    <2>2. \A t \in Slots : Leaving(t, p)' = {} /\ Coming(t, p)' = {}
        BY <1>2 DEF Leaving, Coming
    <2>3. PICK more : more = SumOfMoves(DeliveredTo(p))
        OBVIOUS
    <2>4. more \in Nat /\ late'[p] = late[p] + more
        <3>1. DeliveredTo(p) \in SUBSET Moving
            BY DEF DeliveredTo, Delivered
        <3>. QED
            BY <1>1, <2>1, <2>3, <3>1, SumOfMovesType
    <2>5. late'[p] > 0 => balance[p] + late'[p] <= Base[p] + Slack
        <3>1. CASE more = 0
            <4>1. late[p] > 0 => balance[p] + late[p] <= Base[p] + Slack
                BY DEF Undisturbed, Bounded
            <4>. QED
                BY <2>1, <2>4, <3>1, <4>1
        <3>2. CASE more # 0
            <4>1. PICK s \in Slots : Coming(s, p) # {} /\ more <= Total(Coming(s, p))
                BY <2>3, <3>2, CrashDelivers
            <4>2. balance[p] + late[p] + Total(Coming(s, p)) <= Base[p] + Slack
                BY <4>1 DEF Undisturbed, Bounded
            <4>3. Total(Coming(s, p)) \in Nat
                BY PairTotals
            <4>. QED
                BY <2>1, <2>4, <4>1, <4>2, <4>3
        <3>. QED
            BY <3>1, <3>2
    <2>6. KeepsBase(p)
        BY <1>1, <2>1 DEF KeepsBase
    <2>. QED
        BY <1>1, <2>2, <2>5, <2>6 DEF Bounded
<1>. QED
    BY <1>3, <1>4, <1>5 DEF Undisturbed

(* Until a check begins or an order is filled during another.                 *)
UndisturbedInv == disturbances = 0 => Undisturbed

LEMMA NoDisturbance ==
    ASSUME Inv, Disturb, disturbances' = 0
    PROVE  disturbances = 0 /\ ~Busy
BY DEF Disturb, Inv, BoundsInv

LEMMA UndisturbedStep ==
    ASSUME Inv, UndisturbedInv, [Next]_vars, disturbances' = 0
    PROVE  Undisturbed' /\ (orders' = orders => \A p \in DOMAIN Base : KeepsBase(p))
<1>1. ASSUME UNCHANGED balance PROVE \A p \in DOMAIN Base : KeepsBase(p)
    BY <1>1, ConstantFacts DEF KeepsBase, Inv, WalletInv
<1>2. ASSUME NEW s \in Slots, Work(s) PROVE Undisturbed' /\ \A p \in DOMAIN Base : KeepsBase(p)
    <2>1. CASE StartCheck(s)
        <3>1. ~Busy /\ UNCHANGED balance
            BY <2>1, NoDisturbance DEF StartCheck
        <3>. QED
            BY <1>1, <2>1, <3>1, StartCheckUndisturbed
    <2>2. CASE Look(s)
        <3>1. Undisturbed /\ UNCHANGED balance
            BY <2>2 DEF Look, UndisturbedInv
        <3>. QED
            BY <1>1, <2>2, <3>1, LookUndisturbed
    <2>3. CASE LookAgain(s)
        <3>1. Undisturbed /\ UNCHANGED balance
            BY <2>3 DEF LookAgain, UndisturbedInv
        <3>. QED
            BY <1>1, <2>3, <3>1, LookAgainUndisturbed
    <2>4. ASSUME NEW m \in check[s].moves, Transfer(s, m)
          PROVE  Undisturbed' /\ \A p \in DOMAIN Base : KeepsBase(p)
        <3>1. Undisturbed
            BY <2>4 DEF Transfer, Debit, Refuse, Withdraw, Arrive, GiveUpWaiting, Strand, UndisturbedInv
        <3>. QED
            BY <2>4, <3>1, TransferUndisturbed
    <2>. QED
        BY <1>2, <2>1, <2>2, <2>3, <2>4 DEF Work
<1>3. ASSUME NEW p \in Pairs, LateArrives(p) PROVE Undisturbed' /\ \A q \in DOMAIN Base : KeepsBase(q)
    <2>1. Undisturbed
        BY <1>3 DEF LateArrives, UndisturbedInv
    <2>. QED
        BY <1>3, <2>1, LateArrivesUndisturbed
<1>4. ASSUME NEW o \in Orders, FillOrder(o) PROVE Undisturbed' /\ orders' # orders
    <2>1. ~Busy
        BY <1>4, NoDisturbance DEF FillOrder
    <2>2. orders' # orders
        BY <1>4 DEF FillOrder
    <2>. QED
        BY <1>4, <2>1, <2>2, FillOrderUndisturbed
<1>5. ASSUME Crash PROVE Undisturbed' /\ \A p \in DOMAIN Base : KeepsBase(p)
    <2>1. Undisturbed
        BY <1>5, CrashSteps DEF UndisturbedInv
    <2>. QED
        BY <1>5, <2>1, CrashUndisturbed
<1>6. ASSUME UNCHANGED vars PROVE Undisturbed' /\ \A p \in DOMAIN Base : KeepsBase(p)
    <2>1. Undisturbed /\ UNCHANGED <<check, late, balance>>
        BY <1>6 DEF vars, UndisturbedInv
    <2>2. Undisturbed'
        <3>1. OneCheck'
            BY <2>1 DEF Undisturbed, OneCheck
        <3>2. ASSUME NEW t \in Slots PROVE StillRead(check[t])'
            BY <2>1 DEF Undisturbed, StillRead
        <3>3. ASSUME NEW p \in DOMAIN Base PROVE Bounded(p)'
            BY <2>1 DEF Undisturbed, Bounded, Leaving, Coming
        <3>. QED
            BY <3>1, <3>2, <3>3 DEF Undisturbed
    <2>. QED
        BY <1>1, <2>1, <2>2
<1>. QED
    BY <1>2, <1>3, <1>4, <1>5, <1>6 DEF Next

LEMMA UndisturbedNext ==
    ASSUME Inv, UndisturbedInv, [Next]_vars
    PROVE  /\ UndisturbedInv'
           /\ (disturbances' = 0 /\ orders' = orders) =>
                \A p \in DOMAIN Base :
                    /\ balance'[p] < balance[p] => balance'[p] + Slack >= Base[p]
                    /\ balance'[p] > balance[p] => balance'[p] <= Base[p] + Slack
<1>1. UndisturbedInv'
    BY UndisturbedStep DEF UndisturbedInv
<1>2. disturbances' = 0 /\ orders' = orders => \A p \in DOMAIN Base : KeepsBase(p)
    BY UndisturbedStep
<1>. QED
    BY <1>1, <1>2 DEF KeepsBase

LEMMA UndisturbedInvHolds == Spec => []UndisturbedInv
<1>1. Init => UndisturbedInv
    BY UndisturbedInit DEF UndisturbedInv
<1>2. Inv /\ UndisturbedInv /\ [Next]_vars => UndisturbedInv'
    BY UndisturbedNext
<1>. QED
    BY <1>1, <1>2, InvHolds, PTL DEF Spec

(* Rules.md:40 "After transfers, C'[c,a] >= B[c,a] must hold for all sources":*)
(* unless a check or an order came between, no transfer takes a source below  *)
(* its base, and none fills a destination beyond it, to within the rounding   *)
(* of each transfer to cents; failures, late arrivals and crashes included.   *)
THEOREM UndisturbedChecksKeepBase == Spec => UndisturbedKeepsBase
<1> DEFINE Step == (disturbances' = 0 /\ orders' = orders) =>
                \A p \in DOMAIN Base :
                    /\ balance'[p] < balance[p] => balance'[p] + Slack >= Base[p]
                    /\ balance'[p] > balance[p] => balance'[p] <= Base[p] + Slack
<1>1. Inv /\ UndisturbedInv /\ [Next]_vars => [Step]_vars
    BY UndisturbedNext
<1> HIDE DEF Step
<1>2. Spec => [][Step]_vars
    BY <1>1, InvHolds, UndisturbedInvHolds, PTL DEF Spec
<1>. QED
    BY <1>2 DEF UndisturbedKeepsBase, Step
=============================================================================
