---------------------------- MODULE OrderTheorems ---------------------------
(***************************************************************************)
(* Facts about finite sets, their order and their extremes.                *)
(***************************************************************************)
EXTENDS Order, Sequences, FiniteSetsExt, SequenceTheorems, FiniteSetTheorems, WellFoundedInduction, TLAPS

-----------------------------------------------------------------------------
(* Extremes.                                                               *)

(* Of finite sets, one has no other below it.                              *)
LEMMA SmallestSet ==
    ASSUME NEW W, W # {}, \A T \in W : IsFiniteSet(T)
    PROVE  \E T \in W : \A V \in W : V \subseteq T => V = T
<1> DEFINE U == UNION W
<1>1. W \subseteq FiniteSubsetsOf(U)
    BY DEF FiniteSubsetsOf
<1>2. \E T \in W : \A V \in W : ~ (<<V, T>> \in StrictSubsetOrdering(U))
    BY <1>1, FS_StrictSubsetOrderingWellFounded, WFMin
<1>3. QED
    BY <1>2 DEF StrictSubsetOrdering

LEMMA LastIsThere ==
    ASSUME NEW S \in SUBSET Int, S # {}, IsFiniteSet(S)
    PROVE  \E x \in S : \A y \in S : x >= y
<1> DEFINE Above(x) == {y \in S : y > x}
           W == {Above(x) : x \in S}
<1>1. \A T \in W : IsFiniteSet(T)
    BY FS_Subset
<1>2. W # {}
    OBVIOUS
<1>3. PICK x \in S : \A V \in W : V \subseteq Above(x) => V = Above(x)
    <2>1. PICK T \in W : \A V \in W : V \subseteq T => V = T
        <3> HIDE DEF W
        <3>1. QED
            BY <1>1, <1>2, SmallestSet
    <2>2. PICK x \in S : T = Above(x)
        BY <2>1
    <2>3. QED
        BY <2>1, <2>2
<1>4. ASSUME NEW y \in S, y > x PROVE FALSE
    <2>1. Above(y) \subseteq Above(x)
        <3>1. ASSUME NEW z \in S, z > y PROVE z > x
            BY <1>4, <3>1
        <3>2. QED
            BY <3>1
    <2>2. y \in Above(x) /\ y \notin Above(y)
        BY <1>4
    <2>3. Above(y) \in W
        OBVIOUS
    <2>4. Above(y) = Above(x)
        BY <1>3, <2>1, <2>3
    <2>5. QED
        BY <2>2, <2>4
<1>5. QED
    BY <1>4

LEMMA FirstIsThere ==
    ASSUME NEW S \in SUBSET Int, S # {}, IsFiniteSet(S)
    PROVE  \E x \in S : \A y \in S : x <= y
<1> DEFINE Below(x) == {y \in S : y < x}
           W == {Below(x) : x \in S}
<1>1. \A T \in W : IsFiniteSet(T)
    BY FS_Subset
<1>2. W # {}
    OBVIOUS
<1>3. PICK x \in S : \A V \in W : V \subseteq Below(x) => V = Below(x)
    <2>1. PICK T \in W : \A V \in W : V \subseteq T => V = T
        <3> HIDE DEF W
        <3>1. QED
            BY <1>1, <1>2, SmallestSet
    <2>2. PICK x \in S : T = Below(x)
        BY <2>1
    <2>3. QED
        BY <2>1, <2>2
<1>4. ASSUME NEW y \in S, y < x PROVE FALSE
    <2>1. Below(y) \subseteq Below(x)
        <3>1. ASSUME NEW z \in S, z < y PROVE z < x
            BY <1>4, <3>1
        <3>2. QED
            BY <3>1
    <2>2. y \in Below(x) /\ y \notin Below(y)
        BY <1>4
    <2>3. Below(y) \in W
        OBVIOUS
    <2>4. Below(y) = Below(x)
        BY <1>3, <2>1, <2>3
    <2>5. QED
        BY <2>2, <2>4
<1>5. QED
    BY <1>4

LEMMA MaxIs ==
    ASSUME NEW S \in SUBSET Int, S # {}, IsFiniteSet(S)
    PROVE  Max(S) \in S /\ \A y \in S : Max(S) >= y
BY LastIsThere DEF Max

LEMMA MinIs ==
    ASSUME NEW S \in SUBSET Int, S # {}, IsFiniteSet(S)
    PROVE  Min(S) \in S /\ \A y \in S : Min(S) <= y
BY FirstIsThere DEF Min

-----------------------------------------------------------------------------
(* Sorting.  R holds the pairs of a strict total order.                    *)

Sorts(S, R) ==
    /\ \A x \in S : <<x, x>> \notin R
    /\ \A x, y \in S : x # y => <<x, y>> \in R \/ <<y, x>> \in R
    /\ \A x, y, z \in S : <<x, y>> \in R /\ <<y, z>> \in R => <<x, z>> \in R

Sorted(S, R) ==
    {s \in [1..Cardinality(S) -> S] : \A i, j \in DOMAIN s : i < j => <<s[i], s[j]>> \in R}

(* A finite set can be sorted: each element has its place, one after as    *)
(* many as come before it.                                                 *)
LEMMA SortedIsThere ==
    ASSUME NEW S, IsFiniteSet(S), NEW R, Sorts(S, R)
    PROVE  Sorted(S, R) # {}
<1> DEFINE Lower(x) == {y \in S : <<y, x>> \in R}
           n == Cardinality(S)
           place == [x \in S |-> Cardinality(Lower(x)) + 1]
<1>n. n \in Nat
    BY FS_CardinalityType
<1>1. \A x \in S : IsFiniteSet(Lower(x)) /\ Cardinality(Lower(x)) \in Nat
    BY FS_Subset, FS_CardinalityType
<1>2. ASSUME NEW x \in S PROVE place[x] \in 1..n
    <2>1. Lower(x) \subseteq S \ {x}
        BY DEF Sorts
    <2>2. IsFiniteSet(S \ {x}) /\ Cardinality(S \ {x}) = n - 1
        BY FS_RemoveElement
    <2>3. Cardinality(Lower(x)) <= n - 1
        BY <2>1, <2>2, FS_Subset
    <2>4. QED
        BY <2>3, <1>1, <1>n
<1>3. ASSUME NEW x \in S, NEW y \in S, <<x, y>> \in R PROVE place[x] < place[y]
    <2>1. Lower(x) \cup {x} \subseteq Lower(y) /\ x \notin Lower(x)
        BY <1>3 DEF Sorts
    <2>2. /\ IsFiniteSet(Lower(x) \cup {x})
          /\ Cardinality(Lower(x) \cup {x}) = Cardinality(Lower(x)) + 1
        BY <2>1, <1>1, FS_AddElement
    <2>3. Cardinality(Lower(x) \cup {x}) <= Cardinality(Lower(y))
        BY <2>1, <1>1, FS_Subset
    <2>4. QED
        BY <2>2, <2>3, <1>1
<1> HIDE DEF n, Lower
<1>4. place \in [S -> 1..n]
    BY <1>2
<1> HIDE DEF place
<1>5. place \in Injection(S, 1..n)
    <2>1. ASSUME NEW x \in S, NEW y \in S, x # y PROVE place[x] # place[y]
        <3>1. place[x] \in Int /\ place[y] \in Int
            BY <1>2, <1>n
        <3>2. CASE <<x, y>> \in R
            BY <3>1, <3>2, <1>3
        <3>3. CASE <<y, x>> \in R
            BY <3>1, <3>3, <1>3
        <3>4. QED
            BY <2>1, <3>2, <3>3 DEF Sorts
    <2>2. QED
        BY <2>1, <1>4 DEF Injection, IsInjective
<1>6. IsFiniteSet(1..n) /\ Cardinality(1..n) = n
    BY <1>n, FS_Interval
<1>7. place \in Surjection(S, 1..n)
    BY <1>5, <1>6, FS_Injection DEF n
<1> DEFINE s == [i \in 1..n |-> CHOOSE x \in S : place[x] = i]
<1>8. \A i \in 1..n : s[i] \in S /\ place[s[i]] = i
    BY <1>7 DEF Surjection
<1>9. s \in [1..n -> S]
    BY <1>8
<1> HIDE DEF s
<1>10. ASSUME NEW i \in 1..n, NEW j \in 1..n, i < j PROVE <<s[i], s[j]>> \in R
    <2>1. s[i] \in S /\ s[j] \in S /\ place[s[i]] = i /\ place[s[j]] = j
        BY <1>8
    <2>2. s[i] # s[j] /\ ~ (j < i)
        BY <2>1, <1>10, <1>n
    <2>3. <<s[j], s[i]>> \in R => j < i
        BY <2>1, <1>3
    <2>4. QED
        BY <2>1, <2>2, <2>3 DEF Sorts
<1>11. s \in Sorted(S, R)
    BY <1>9, <1>10 DEF Sorted, n
<1>12. QED
    BY <1>11

(* What is sorted is all there, once.                                      *)
LEMMA SortedIsAll ==
    ASSUME NEW S, IsFiniteSet(S), NEW R, Sorts(S, R), NEW s \in Sorted(S, R)
    PROVE  /\ s \in Seq(S) /\ Len(s) = Cardinality(S)
           /\ \A x \in S : \E i \in DOMAIN s : s[i] = x
           /\ \A i, j \in DOMAIN s : s[i] = s[j] => i = j
           /\ \A i, j \in DOMAIN s : i < j => <<s[i], s[j]>> \in R
<1> DEFINE n == Cardinality(S)
<1>n. n \in Nat
    BY FS_CardinalityType
<1>1. s \in [1..n -> S] /\ \A i, j \in DOMAIN s : i < j => <<s[i], s[j]>> \in R
    BY DEF Sorted
<1> HIDE DEF n
<1>2. ASSUME NEW i \in 1..n, NEW j \in 1..n, s[i] = s[j] PROVE i = j
    <2>1. s[i] \in S
        BY <1>1
    <2>2. ~ (i < j) /\ ~ (j < i)
        BY <2>1, <1>1, <1>2 DEF Sorts
    <2>3. QED
        BY <2>2, <1>n
<1>3. s \in Injection(1..n, S)
    BY <1>1, <1>2 DEF Injection, IsInjective
<1>4. IsFiniteSet(1..n) /\ Cardinality(1..n) = n
    BY <1>n, FS_Interval
<1>5. s \in Surjection(1..n, S)
    BY <1>3, <1>4, FS_Injection DEF n
<1>6. s \in Seq(S) /\ Len(s) = n /\ DOMAIN s = 1..n
    BY <1>1, <1>n
<1>7. \A x \in S : \E i \in DOMAIN s : s[i] = x
    BY <1>5, <1>6 DEF Surjection
<1>8. QED
    BY <1>1, <1>2, <1>6, <1>7 DEF n

-----------------------------------------------------------------------------
(* Prefixes.                                                               *)

LEMMA PrefixIs ==
    ASSUME NEW S, NEW s \in Seq(S), NEW m \in 0..Len(s)
    PROVE  /\ SubSeq(s, 1, m) \in Seq(S) /\ Len(SubSeq(s, 1, m)) = m
           /\ \A i \in 1..m : SubSeq(s, 1, m)[i] = s[i]
<1>1. m \in Int /\ 1 \in Int /\ m \in Nat /\ \A i \in 1..m : s[i] \in S
    OBVIOUS
<1>2. SubSeq(s, 1, m) \in Seq(S)
    BY <1>1, SubSeqProperties
<1>3. Len(SubSeq(s, 1, m)) = IF 1 <= m THEN m - 1 + 1 ELSE 0
    BY <1>1, SubSeqProperties
<1>4. \A i \in 1..(m - 1 + 1) : SubSeq(s, 1, m)[i] = s[1 + i - 1]
    BY <1>1, SubSeqProperties
<1>5. QED
    BY <1>1, <1>2, <1>3, <1>4
=============================================================================
