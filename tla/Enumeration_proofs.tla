--------------------------- MODULE Enumeration_proofs ---------------------------
(***************************************************************************)
(* What an enumeration in order is: each element once, the smaller before  *)
(* the greater: how many are below an element tells the elements apart,    *)
(* and there are as many of those numbers as there are elements.  And that *)
(* steps taken one after the other, as a loop does, are a function.        *)
(***************************************************************************)
EXTENDS Enumeration, FiniteSetTheorems, SequenceTheorems, TLAPS

\* How many elements of S are below n.
Below(S, n) == Cardinality({m \in S : m < n})

\* More elements are below a greater one.
LEMMA BelowGrows ==
    ASSUME NEW S \in SUBSET Nat, IsFiniteSet(S), NEW a \in S, NEW b \in S, a < b
    PROVE  Below(S, a) < Below(S, b)
<1>1. {m \in S : m < a} \subseteq {m \in S : m < b}
    <2>1. a \in Nat /\ b \in Nat
        OBVIOUS
    <2>2. ASSUME NEW m \in S, m < a PROVE m < b
        <3>1. m \in Nat
            OBVIOUS
        <3> QED
            BY <2>1, <2>2, <3>1
    <2> QED
        BY <2>2
<1>2. a \in {m \in S : m < b} /\ a \notin {m \in S : m < a}
    OBVIOUS
<1>3. IsFiniteSet({m \in S : m < b})
    BY FS_Subset
<1> QED
    BY <1>1, <1>2, <1>3, FS_Subset, FS_CardinalityType DEF Below

\* Each element has its place among as many as there are.
LEMMA BelowBounds ==
    ASSUME NEW S \in SUBSET Nat, IsFiniteSet(S), NEW n \in S
    PROVE  Below(S, n) \in 0 .. Cardinality(S) - 1
<1>1. {m \in S : m < n} \subseteq S /\ n \notin {m \in S : m < n}
    OBVIOUS
<1>2. Below(S, n) \in Nat /\ Below(S, n) < Cardinality(S) /\ Cardinality(S) \in Nat
    BY <1>1, FS_Subset, FS_CardinalityType DEF Below
<1> QED
    BY <1>2

\* No place stays empty.
LEMMA BelowReaches ==
    ASSUME NEW S \in SUBSET Nat, IsFiniteSet(S), NEW i \in 0 .. Cardinality(S) - 1
    PROVE  \E n \in S : Below(S, n) = i
<1>1. PICK f : f = [n \in S |-> Below(S, n)]
    OBVIOUS
<1>2. PICK T : T = 0 .. Cardinality(S) - 1
    OBVIOUS
<1>3. Cardinality(S) \in Nat
    BY FS_CardinalityType
<1>4. IsFiniteSet(T) /\ Cardinality(T) = Cardinality(S)
    BY <1>2, <1>3, FS_Interval
<1>5. f \in [S -> T] /\ \A n \in S : f[n] = Below(S, n)
    BY <1>1, <1>2, BelowBounds
<1>6. ASSUME NEW a \in S, NEW b \in S, a # b PROVE f[a] # f[b]
    <2>1. a < b \/ b < a
        BY <1>6
    <2>2. Below(S, a) \in Nat /\ Below(S, b) \in Nat
        BY <1>3, BelowBounds
    <2>3. Below(S, a) < Below(S, b) \/ Below(S, b) < Below(S, a)
        BY <2>1, BelowGrows
    <2> QED
        BY <1>5, <2>2, <2>3
<1>7. ASSUME i \notin {f[n] : n \in S} PROVE FALSE
    <2>1. IsFiniteSet(T \ {i}) /\ Cardinality(T \ {i}) = Cardinality(T) - 1
        BY <1>2, <1>4, FS_RemoveElement
    <2>2. f \in [S -> T \ {i}]
        BY <1>5, <1>7
    <2>3. Cardinality(T \ {i}) < Cardinality(S)
        BY <1>3, <1>4, <2>1
    <2>4. \E a, b \in S : a # b /\ f[a] = f[b]
        BY <2>1, <2>2, <2>3, FS_PigeonHole
    <2> QED
        BY <1>6, <2>4
<1> QED
    BY <1>5, <1>7

\* The places and their elements: an increasing sequence of all elements, each once.
THEOREM InOrderIsSorted ==
    ASSUME NEW S \in SUBSET Nat, IsFiniteSet(S)
    PROVE  /\ InOrder(S) \in Seq(S) /\ Len(InOrder(S)) = Cardinality(S)
           /\ DOMAIN InOrder(S) = 1 .. Cardinality(S) /\ Cardinality(S) \in Nat
           /\ \A k \in 1 .. Cardinality(S) : InOrder(S)[k] \in S
           /\ \A j, k \in 1 .. Cardinality(S) : j < k => InOrder(S)[j] < InOrder(S)[k]
           /\ \A n \in S : \E k \in 1 .. Cardinality(S) : InOrder(S)[k] = n
<1>1. Cardinality(S) \in Nat
    BY FS_CardinalityType
<1>2. PICK s : s = InOrder(S)
    OBVIOUS
<1>3. s = [k \in 1 .. Cardinality(S) |-> CHOOSE n \in S : Below(S, n) = k - 1]
    BY <1>2 DEF InOrder, Below
<1>4. ASSUME NEW k \in 1 .. Cardinality(S)
      PROVE  s[k] \in S /\ Below(S, s[k]) = k - 1
    <2>1. k - 1 \in 0 .. Cardinality(S) - 1
        BY <1>1
    <2>2. \E n \in S : Below(S, n) = k - 1
        BY <2>1, BelowReaches
    <2> QED
        BY <1>3, <2>2
<1>5. s \in [1 .. Cardinality(S) -> S]
    BY <1>3, <1>4
<1>6. s \in Seq(S) /\ Len(s) = Cardinality(S) /\ DOMAIN s = 1 .. Cardinality(S)
    BY <1>1, <1>5
<1>7. ASSUME NEW j \in 1 .. Cardinality(S), NEW k \in 1 .. Cardinality(S), j < k
      PROVE  s[j] < s[k]
    <2>0. s[j] \in Nat /\ s[k] \in Nat
        BY <1>4
    <2>1. Below(S, s[j]) < Below(S, s[k]) /\ Below(S, s[j]) \in Nat /\ Below(S, s[k]) \in Nat
        BY <1>1, <1>4, <1>7
    <2>2. CASE s[j] = s[k]
        BY <2>1, <2>2
    <2>3. CASE s[k] < s[j]
        <3>1. Below(S, s[k]) < Below(S, s[j])
            BY <1>4, <2>3, BelowGrows
        <3> QED
            BY <1>1, <1>4, <2>1, <3>1
    <2> QED
        BY <2>0, <2>2, <2>3
<1>8. ASSUME NEW n \in S PROVE \E k \in 1 .. Cardinality(S) : s[k] = n
    <2>1. PICK k : k = Below(S, n) + 1
        OBVIOUS
    <2>2. k \in 1 .. Cardinality(S) /\ Below(S, n) = k - 1
        BY <1>1, <2>1, BelowBounds
    <2>3. s[k] \in S /\ Below(S, s[k]) = Below(S, n) /\ Below(S, n) \in Nat
        BY <1>1, <1>4, <2>2
    <2>4. ASSUME NEW m \in S, m < n PROVE Below(S, m) < Below(S, n)
        BY <2>4, BelowGrows
    <2>5. ASSUME NEW m \in S, n < m PROVE Below(S, n) < Below(S, m)
        BY <2>5, BelowGrows
    <2>6. ~(s[k] < n) /\ ~(n < s[k])
        <3>1. PICK b : b = Below(S, n)
            OBVIOUS
        <3>2. ~(b < b)
            BY <2>3, <3>1
        <3> QED
            BY <2>3, <2>4, <2>5, <3>1, <3>2
    <2>7. s[k] \in Nat /\ n \in Nat
        BY <2>3
    <2> QED
        BY <2>2, <2>6, <2>7
<1> QED
    BY <1>1, <1>2, <1>4, <1>6, <1>7, <1>8

\* The last of them is the greatest.
THEOREM GreatestExists ==
    ASSUME NEW S \in SUBSET Nat, IsFiniteSet(S), S # {}
    PROVE  \E n \in S : \A m \in S : m <= n
<1>1. PICK c : c = Cardinality(S)
    OBVIOUS
<1>2. c \in Nat /\ c # 0
    BY <1>1, FS_CardinalityType, FS_EmptySet
<1>3. PICK s : s = InOrder(S)
    OBVIOUS
<1>4. /\ \A k \in 1 .. c : s[k] \in S /\ s[k] \in Nat
      /\ \A j, k \in 1 .. c : j < k => s[j] < s[k]
      /\ \A n \in S : \E k \in 1 .. c : s[k] = n
    BY <1>1, <1>3, InOrderIsSorted
<1>5. c \in 1 .. c
    BY <1>2
<1>6. ASSUME NEW m \in S PROVE m <= s[c]
    <2>1. PICK k \in 1 .. c : s[k] = m
        BY <1>4
    <2>2. k = c \/ k < c
        BY <1>2
    <2> QED
        BY <1>4, <1>5, <2>1, <2>2
<1> QED
    BY <1>4, <1>5, <1>6

\* What is picked of a sequence: the elements at those places, in their order.
THEOREM PickedKeepsOrder ==
    ASSUME NEW S, NEW s \in Seq(S), NEW D \in SUBSET DOMAIN s
    PROVE  /\ Picked(s, D) \in Seq(S)
           /\ \A k \in DOMAIN Picked(s, D) : \E i \in D : Picked(s, D)[k] = s[i]
           /\ \A i \in D : \E k \in DOMAIN Picked(s, D) : Picked(s, D)[k] = s[i]
           /\ \A j, k \in DOMAIN Picked(s, D) :
                 j < k => \E a, b \in D : a < b /\ Picked(s, D)[j] = s[a] /\ Picked(s, D)[k] = s[b]
<1>1. DOMAIN s = 1 .. Len(s) /\ Len(s) \in Nat /\ \A i \in 1 .. Len(s) : s[i] \in S
    BY LenProperties, ElementOfSeq
<1>2. IsFiniteSet(D) /\ D \in SUBSET Nat
    <2>1. IsFiniteSet(1 .. Len(s)) /\ 1 .. Len(s) \subseteq Nat
        BY <1>1, FS_Interval
    <2> QED
        BY <1>1, <2>1, FS_Subset
<1>3. PICK at : at = InOrder(D)
    OBVIOUS
<1>4. PICK n : n = Cardinality(D)
    OBVIOUS
<1>5. /\ n \in Nat /\ DOMAIN at = 1 .. n /\ \A k \in 1 .. n : at[k] \in D
      /\ \A j, k \in 1 .. n : j < k => at[j] < at[k]
      /\ \A i \in D : \E k \in 1 .. n : at[k] = i
    BY <1>2, <1>3, <1>4, InOrderIsSorted
<1>6. PICK p : p = Picked(s, D)
    OBVIOUS
<1>7. p = [k \in 1 .. n |-> s[at[k]]]
    BY <1>3, <1>5, <1>6 DEF Picked
<1>8. ASSUME NEW k \in 1 .. n PROVE p[k] = s[at[k]] /\ at[k] \in D /\ p[k] \in S
    BY <1>1, <1>5, <1>7
<1>9. p \in Seq(S) /\ DOMAIN p = 1 .. n
    BY <1>5, <1>7, <1>8
<1>10. \A k \in DOMAIN p : \E i \in D : p[k] = s[i]
    BY <1>8, <1>9
<1>11. \A i \in D : \E k \in DOMAIN p : p[k] = s[i]
    BY <1>5, <1>8, <1>9
<1>12. \A j, k \in DOMAIN p : j < k => \E a, b \in D : a < b /\ p[j] = s[a] /\ p[k] = s[b]
    BY <1>5, <1>8, <1>9
<1> QED
    BY <1>6, <1>9, <1>10, <1>11, <1>12

-----------------------------------------------------------------------------
\* Steps taken one after the other.

\* A set of numbers that has 0 and with each number the next has them all.
THEOREM AllNumbers ==
    ASSUME NEW S \in SUBSET Nat, 0 \in S, \A k \in S : k + 1 \in S
    PROVE  S = Nat
<1> DEFINE R == OpToRel(<, Nat)
<1>1. IsWellFoundedOn(R, Nat)
    BY NatLessThanWellFounded
<1>2. \A a, b \in Nat : b < a => <<b, a>> \in R
    BY DEF OpToRel
<1> HIDE DEF R
<1>3. SUFFICES ASSUME Nat \ S # {} PROVE FALSE
    OBVIOUS
<1>4. PICK a \in Nat \ S : \A b \in Nat \ S : <<b, a>> \notin R
    <2>1. Nat \ S \subseteq Nat
        OBVIOUS
    <2> QED
        BY <1>1, <1>3, <2>1, WFMin
<1>5. a - 1 \in Nat /\ a - 1 < a
    <2>1. a # 0
        BY <1>4
    <2> QED
        BY <1>4, <2>1
<1>6. a - 1 \in S
    BY <1>2, <1>4, <1>5
<1>7. (a - 1) + 1 = a
    BY <1>4
<1> QED
    BY <1>4, <1>6, <1>7

\* f takes n steps from base, the k-th by the function G[k].
Steps(f, T, base, n, G) ==
    f \in [0 .. n -> T] /\ f[0] = base /\ \A k \in 1 .. n : f[k] = G[k][f[k - 1]]

\* Steps taken one after the other are a function.
THEOREM StepsExist ==
    ASSUME NEW T, NEW base \in T, NEW n \in Nat, NEW G \in [1 .. n -> [T -> T]]
    PROVE  \E f : Steps(f, T, base, n, G)
<1> DEFINE Path(f, m) == Steps(f, T, base, m, G)
           S == {m \in Nat : m <= n => \E f : Path(f, m)}
<1>1. 0 \in S
    <2>1. Path([k \in 0 .. 0 |-> base], 0)
        BY DEF Steps
    <2> QED
        BY <2>1
<1>2. ASSUME NEW m \in S PROVE m + 1 \in S
    <2>0. m \in Nat
        OBVIOUS
    <2>9. (m + 1 <= n => \E f : Path(f, m + 1)) => m + 1 \in S
        <3> HIDE DEF Path
        <3> QED
            BY <2>0
    <2> SUFFICES ASSUME m + 1 <= n PROVE \E f : Path(f, m + 1)
        BY <2>9
    <2>1. m \in Nat /\ m <= n
        BY <2>0
    <2>2. PICK f : f \in [0 .. m -> T] /\ f[0] = base /\ \A k \in 1 .. m : f[k] = G[k][f[k - 1]]
        BY <2>1 DEF Steps
    <2> DEFINE g == [k \in 0 .. m + 1 |-> IF k = m + 1 THEN G[m + 1][f[m]] ELSE f[k]]
    <2>3. G[m + 1][f[m]] \in T
        <3>1. m \in 0 .. m /\ m + 1 \in 1 .. n
            BY <2>1
        <3> QED
            BY <2>2, <3>1
    <2>4. \A k \in 0 .. m : g[k] = f[k] /\ g[k] \in T
        BY <2>1, <2>2
    <2>5. g[m + 1] = G[m + 1][f[m]]
        BY <2>1
    <2>6. g \in [0 .. m + 1 -> T]
        BY <2>1, <2>2, <2>3
    <2> HIDE DEF g
    <2>7. ASSUME NEW k \in 1 .. m + 1 PROVE g[k] = G[k][g[k - 1]]
        <3>1. CASE k = m + 1
            <4>1. k - 1 = m /\ m \in 0 .. m
                BY <2>1, <3>1
            <4> QED
                BY <2>4, <2>5, <3>1, <4>1
        <3>2. CASE k # m + 1
            <4>1. k \in 1 .. m /\ k \in 0 .. m /\ k - 1 \in 0 .. m
                BY <2>1, <3>2
            <4> QED
                BY <2>2, <2>4, <4>1
        <3> QED
            BY <3>1, <3>2
    <2>8. g[0] = base
        BY <2>1, <2>2, <2>4
    <2> QED
        BY <2>6, <2>7, <2>8 DEF Steps
<1>3. S = Nat
    <2>1. S \in SUBSET Nat
        OBVIOUS
    <2> HIDE DEF S
    <2> QED
        BY <1>1, <1>2, <2>1, AllNumbers
<1>4. n \in S /\ n <= n
    <2> HIDE DEF S
    <2> QED
        BY <1>3
<1>5. \E f : Path(f, n)
    BY <1>4
<1> QED
    BY <1>5
=================================================================================
