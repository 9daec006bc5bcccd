--------------------------- MODULE GeometryProofs ---------------------------
(* What the operators of Geometry compute, for any points. *)
EXTENDS Geometry, TLAPS, FiniteSetTheorems, WellFoundedInduction

-----------------------------------------------------------------------------
(* Induction and extrema.  A property is the set of the numbers that have it. *)

LEMMA SomeLeast ==
    ASSUME NEW S \in SUBSET Nat, S # {}
    PROVE  \E m \in S : \A k \in S : m <= k
<1> DEFINE R == OpToRel(<, Nat)
<1>1. IsWellFoundedOn(R, Nat)
    BY NatLessThanWellFounded
<1>2. \A x, y \in Nat : x < y => <<x, y>> \in R
    BY DEF OpToRel
<1> HIDE DEF R
<1>3. PICK m \in S : \A k \in S : <<k, m>> \notin R
    BY <1>1, WFMin
<1>4. \A k \in S : m <= k
    <2> TAKE k \in S
    <2>1. m \in Nat /\ k \in Nat /\ ~(k < m)
        BY <1>2, <1>3
    <2> QED BY <2>1
<1> QED BY <1>4

LEMMA Induction ==
    ASSUME NEW n \in Nat, NEW S, 0 \in S, \A k \in 0 .. (n - 1) : k \in S => k + 1 \in S
    PROVE  0 .. n \subseteq S
<1> SUFFICES ASSUME ~(0 .. n \subseteq S) PROVE FALSE
    OBVIOUS
<1> DEFINE T == (0 .. n) \ S
<1>0. T \in SUBSET Nat /\ T # {}
    OBVIOUS
<1>1. PICK m \in T : \A k \in T : m <= k
    <2> HIDE DEF T
    <2> QED BY <1>0, SomeLeast
<1>2. m \in 0 .. n /\ m # 0
    OBVIOUS
<1>3. m - 1 \in 0 .. (n - 1) /\ m - 1 \notin T
    BY <1>1, <1>2
<1>4. m - 1 \in S
    BY <1>3
<1>5. (m - 1) + 1 = m
    BY <1>2
<1>6. (m - 1) + 1 \in S
    BY <1>3, <1>4
<1> QED BY <1>5, <1>6

LEMMA GreatestIs ==
    ASSUME NEW S \in SUBSET Int, S # {}, NEW u \in Int, \A a \in S : a <= u
    PROVE  Greatest(S) \in S /\ \A b \in S : b <= Greatest(S)
<1> DEFINE T == {u - a : a \in S}
<1>1. T \in SUBSET Nat /\ T # {}
    <2>1. \A a \in S : u - a \in Nat
        OBVIOUS
    <2>2. PICK a \in S : u - a \in T
        OBVIOUS
    <2> QED BY <2>1, <2>2
<1>2. PICK m \in T : \A k \in T : m <= k
    <2> HIDE DEF T
    <2> QED BY <1>1, SomeLeast
<1>3. PICK a \in S : m = u - a
    OBVIOUS
<1>4. \A b \in S : b <= a
    <2> TAKE b \in S
    <2>1. u - b \in T
        OBVIOUS
    <2>2. u - a <= u - b
        BY <1>2, <1>3, <2>1
    <2>3. a \in Int /\ b \in Int
        OBVIOUS
    <2> HIDE DEF T
    <2> QED BY <2>2, <2>3
<1> QED BY <1>4 DEF Greatest

LEMMA LeastIs ==
    ASSUME NEW S \in SUBSET Int, S # {}, NEW l \in Int, \A a \in S : l <= a
    PROVE  Least(S) \in S /\ \A b \in S : Least(S) <= b
<1> DEFINE T == {a - l : a \in S}
<1>1. T \in SUBSET Nat /\ T # {}
    <2>1. \A a \in S : a - l \in Nat
        OBVIOUS
    <2>2. PICK a \in S : a - l \in T
        OBVIOUS
    <2> QED BY <2>1, <2>2
<1>2. PICK m \in T : \A k \in T : m <= k
    <2> HIDE DEF T
    <2> QED BY <1>1, SomeLeast
<1>3. PICK a \in S : m = a - l
    OBVIOUS
<1>4. \A b \in S : a <= b
    <2> TAKE b \in S
    <2>1. b - l \in T
        OBVIOUS
    <2>2. a - l <= b - l
        BY <1>2, <1>3, <2>1
    <2>3. a \in Int /\ b \in Int
        OBVIOUS
    <2> HIDE DEF T
    <2> QED BY <2>2, <2>3
<1> QED BY <1>4 DEF Least

\* Bounded from both sides by elements of their own.
LEMMA FiniteHasExtrema ==
    ASSUME NEW S \in SUBSET Int, IsFiniteSet(S), S # {}
    PROVE  /\ Least(S) \in S /\ \A b \in S : Least(S) <= b
           /\ Greatest(S) \in S /\ \A b \in S : b <= Greatest(S)
<1>1. PICK n \in Nat : ExistsBijection(1 .. n, S)
    BY FS_CardinalityType
<1>2. PICK f \in Surjection(1 .. n, S) : TRUE
    BY <1>1 DEF ExistsBijection, Bijection
<1>3. f \in [1 .. n -> S] /\ \A a \in S : \E i \in 1 .. n : f[i] = a
    BY <1>2 DEF Surjection
<1> DEFINE K == {k \in 0 .. n : \E l, u \in Int : \A i \in 1 .. k : l <= f[i] /\ f[i] <= u}
<1>4. 0 \in K
    <2>1. \A i \in 1 .. 0 : 0 <= f[i] /\ f[i] <= 0
        OBVIOUS
    <2> QED BY <1>1, <2>1
<1>5. ASSUME NEW k \in 0 .. (n - 1), k \in K PROVE k + 1 \in K
    <2>1. PICK l, u \in Int : \A i \in 1 .. k : l <= f[i] /\ f[i] <= u
        BY <1>5
    <2>2. f[k + 1] \in Int /\ k + 1 \in 0 .. n
        <3>1. k + 1 \in 1 .. n
            OBVIOUS
        <3>2. f[k + 1] \in S
            BY <1>3, <3>1
        <3>3. f[k + 1] \in Int
            BY <3>2
        <3>4. k + 1 \in 0 .. n
            OBVIOUS
        <3> QED BY <3>3, <3>4
    <2> DEFINE a == f[k + 1]
    <2>3. \A i \in 1 .. (k + 1) : i = k + 1 \/ i \in 1 .. k
        BY <1>1
    <2>4. \A i \in 1 .. k : f[i] \in Int
        <3>1. \A i \in 1 .. k : i \in 1 .. n
            OBVIOUS
        <3> QED BY <1>3, <3>1
    <2> HIDE DEF K
    <2>5. \E l2, u2 \in Int : \A i \in 1 .. (k + 1) : l2 <= f[i] /\ f[i] <= u2
        <3> DEFINE l2 == IF a < l THEN a ELSE l
                   u2 == IF a > u THEN a ELSE u
        <3>1. l2 \in Int /\ u2 \in Int /\ l2 <= a /\ l2 <= l /\ a <= u2 /\ u <= u2
            BY <2>2
        <3> HIDE DEF l2, u2
        <3>2. \A i \in 1 .. (k + 1) : l2 <= f[i] /\ f[i] <= u2
            BY <2>1, <2>3, <2>4, <3>1
        <3> QED BY <3>1, <3>2
    <2> QED BY <2>2, <2>5 DEF K
<1>6. 0 .. n \subseteq K
    <2> HIDE DEF K
    <2> QED BY <1>1, <1>4, <1>5, Induction
<1>7. n \in K
    <2> HIDE DEF K
    <2> QED BY <1>6
<1>8. PICK l, u \in Int : \A i \in 1 .. n : l <= f[i] /\ f[i] <= u
    BY <1>7
<1>9. \A a \in S : l <= a /\ a <= u
    BY <1>3, <1>8
<1> QED BY <1>9, GreatestIs, LeastIs

-----------------------------------------------------------------------------
(* Recursion.  A loop over 1 .. n whose k-th round turns x into step[<<k, x>>] *)
(* has values for all its rounds.                                             *)

Rounds(n, A) == [(1 .. n) \X A -> A]

LEMMA Recursion ==
    ASSUME NEW n \in Nat, NEW A, NEW a \in A, NEW step \in Rounds(n, A)
    PROVE  \E g : /\ \A k \in 0 .. n : g[k] \in A
                  /\ g[0] = a
                  /\ \A k \in 1 .. n : g[k] = step[<<k, g[k - 1]>>]
<1> USE DEF Rounds
<1> DEFINE Solves(g, k) == /\ g \in [0 .. k -> A]
                           /\ g[0] = a
                           /\ \A i \in 1 .. k : g[i] = step[<<i, g[i - 1]>>]
           K == {k \in 0 .. n : \E g : Solves(g, k)}
<1>1. 0 \in K
    <2> DEFINE g == [i \in 0 .. 0 |-> a]
    <2>1. Solves(g, 0)
        OBVIOUS
    <2> HIDE DEF Solves, g
    <2> QED BY <2>1
<1>2. ASSUME NEW k \in 0 .. (n - 1), k \in K PROVE k + 1 \in K
    <2>1. PICK g : Solves(g, k)
        BY <1>2
    <2> DEFINE h == [i \in 0 .. (k + 1) |-> IF i = k + 1 THEN step[<<k + 1, g[k]>>] ELSE g[i]]
    <2>2. k \in 0 .. k /\ k + 1 \in 1 .. n /\ k + 1 \in 0 .. n /\ k \in Nat
        OBVIOUS
    <2>3. step[<<k + 1, g[k]>>] \in A
        BY <2>1, <2>2
    <2>4. h \in [0 .. (k + 1) -> A]
        <3>1. \A i \in 0 .. (k + 1) : i = k + 1 \/ i \in 0 .. k
            OBVIOUS
        <3> QED BY <2>1, <2>3, <3>1
    <2>5. h[0] = a
        BY <2>1, <2>2
    <2>6. ASSUME NEW i \in 1 .. (k + 1) PROVE h[i] = step[<<i, h[i - 1]>>]
        <3>1. i \in 0 .. (k + 1) /\ i - 1 \in 0 .. k /\ i - 1 \in 0 .. (k + 1) /\ i - 1 # k + 1
            OBVIOUS
        <3>2. h[i - 1] = g[i - 1]
            BY <3>1
        <3>3. CASE i = k + 1
            <4>1. h[i] = step[<<k + 1, g[k]>>] /\ i - 1 = k
                BY <3>1, <3>3
            <4> QED BY <3>2, <3>3, <4>1
        <3>4. CASE i # k + 1
            <4>1. i \in 1 .. k
                BY <3>4
            <4>2. h[i] = g[i]
                BY <3>1, <3>4
            <4>3. g[i] = step[<<i, g[i - 1]>>]
                BY <2>1, <4>1
            <4> HIDE DEF h
            <4> QED BY <3>2, <4>2, <4>3
        <3> QED BY <3>3, <3>4
    <2>7. Solves(h, k + 1)
        <3> HIDE DEF h
        <3> QED BY <2>4, <2>5, <2>6
    <2> HIDE DEF Solves, h
    <2> QED BY <2>2, <2>7
<1>3. n \in K
    <2>1. \A k \in 0 .. (n - 1) : k \in K => k + 1 \in K
        BY <1>2
    <2> HIDE DEF K
    <2>2. 0 .. n \subseteq K
        BY <1>1, <2>1, Induction
    <2> QED BY <2>2
<1>4. PICK g : Solves(g, n)
    BY <1>3
<1> QED BY <1>4

-----------------------------------------------------------------------------
(* Headings *)

LEMMA QuotientIs ==
    ASSUME NEW a \in Int, NEW g \in Nat, g > 0, a % g = 0
    PROVE  a \div g \in Int /\ a = g * (a \div g)
OBVIOUS

LEMMA ShortestIs ==
    ASSUME NEW v \in Int \X Int, v # <<0, 0>>
    PROVE  /\ Shortest(v) \in Int \X Int /\ Shortest(v) # <<0, 0>>
           /\ Wedge(v, Shortest(v)) = 0
<1> DEFINE n == Size(v[1]) + Size(v[2])
<1>1. v[1] \in Int /\ v[2] \in Int /\ (v[1] # 0 \/ v[2] # 0)
    OBVIOUS
<1>2. n \in Nat \ {0}
    BY <1>1 DEF Size
<1>3. 1 \in CommonDivisors(v)
    <2>1. 1 \in 1 .. n
        BY <1>2
    <2>2. v[1] % 1 = 0 /\ v[2] % 1 = 0
        BY <1>1
    <2> QED BY <2>1, <2>2 DEF CommonDivisors
<1>4. CommonDivisors(v) \subseteq 1 .. n
    BY DEF CommonDivisors
<1> HIDE DEF n
<1>5. CommonDivisors(v) \in SUBSET Int /\ \A g \in CommonDivisors(v) : g <= n
    BY <1>2, <1>4
<1>6. Greatest(CommonDivisors(v)) \in CommonDivisors(v)
    <2>1. n \in Int /\ CommonDivisors(v) # {}
        BY <1>2, <1>3
    <2> QED BY <1>5, <2>1, GreatestIs
<1>7. PICK g \in CommonDivisors(v) : g = Greatest(CommonDivisors(v))
    BY <1>6
<1>8. g \in Nat /\ g > 0 /\ v[1] % g = 0 /\ v[2] % g = 0
    <2>1. g \in 1 .. n
        BY <1>4
    <2>2. g \in Nat /\ g > 0
        BY <1>2, <2>1
    <2> QED BY <2>2 DEF CommonDivisors
<1>9. PICK x \in Int, y \in Int :
        x = v[1] \div g /\ y = v[2] \div g /\ v[1] = g * x /\ v[2] = g * y
    BY <1>1, <1>8, QuotientIs
<1>10. Shortest(v) = <<x, y>>
    BY <1>7, <1>9 DEF Shortest
<1>11. x # 0 \/ y # 0
    <2> SUFFICES ASSUME x = 0, y = 0 PROVE FALSE
        OBVIOUS
    <2>1. g * x = 0 /\ g * y = 0
        BY <1>8
    <2> QED BY <1>1, <1>9, <2>1
<1>12. Wedge(v, <<x, y>>) = 0
    <2>1. Wedge(v, <<x, y>>) = v[1] * y - v[2] * x
        BY DEF Wedge
    <2>2. v[1] * y - v[2] * x = (g * x) * y - (g * y) * x
        BY <1>9
    <2>3. (g * x) * y - (g * y) * x = 0
        BY <1>8
    <2> QED BY <2>1, <2>2, <2>3
<1> QED BY <1>10, <1>11, <1>12

\* A heading has a length and lies along its vector.
LEMMA HeadingIs ==
    ASSUME NEW p \in Int \X Int, NEW q \in Int \X Int, p \in Point, q \in Point
    PROVE  /\ Heading[Minus(p, q)] \in Int \X Int /\ Heading[Minus(p, q)] # <<0, 0>>
           /\ Minus(p, q) # <<0, 0>> => Wedge(Minus(p, q), Heading[Minus(p, q)]) = 0
<1>1. PICK v \in Int \X Int : v = Minus(p, q)
    <2>1. Minus(p, q) \in Int \X Int
        BY DEF Minus
    <2> QED BY <2>1
<1>2. v \in {Minus(x, y) : x, y \in Point}
    BY <1>1
<1>3. Heading[v] = IF v = <<0, 0>> THEN <<1, 0>> ELSE Shortest(v)
    BY <1>2 DEF Heading
<1>4. CASE v = <<0, 0>>
    <2>1. Heading[v] = <<1, 0>>
        BY <1>3, <1>4
    <2>2. <<1, 0>> # <<0, 0>>
        OBVIOUS
    <2> QED BY <1>1, <1>4, <2>1, <2>2
<1>5. CASE v # <<0, 0>>
    <2>1. Heading[v] = Shortest(v)
        BY <1>3, <1>5
    <2> QED BY <1>1, <1>5, <2>1, ShortestIs
<1> QED BY <1>4, <1>5

-----------------------------------------------------------------------------
(* The points in order *)

\* Fewer points come before an earlier point.
LEMMA RankGrows ==
    ASSUME NEW S \in SUBSET (Int \X Int), IsFiniteSet(S)
    PROVE  /\ \A p \in S : Rank(S, p) \in 0 .. (Cardinality(S) - 1)
           /\ \A p, q \in S : Before(p, q) => Rank(S, p) < Rank(S, q)
<1> DEFINE Down(p) == {q \in S : Before(q, p)}
<1>1. Cardinality(S) \in Nat
    BY FS_CardinalityType
<1>2. \A p \in S : IsFiniteSet(Down(p)) /\ Cardinality(Down(p)) \in Nat
    BY FS_Subset, FS_CardinalityType
<1>3. \A p \in S : p[1] \in Int /\ p[2] \in Int
    OBVIOUS
<1>4. ASSUME NEW p \in S PROVE Rank(S, p) \in 0 .. (Cardinality(S) - 1)
    <2>1. ~Before(p, p)
        BY <1>3 DEF Before
    <2>2. Down(p) \in SUBSET (S \ {p})
        BY <2>1
    <2>3. IsFiniteSet(S \ {p}) /\ Cardinality(S \ {p}) = Cardinality(S) - 1
        BY FS_RemoveElement
    <2>4. Cardinality(Down(p)) <= Cardinality(S) - 1
        <3> HIDE DEF Down
        <3> QED BY <2>2, <2>3, FS_Subset
    <2>5. Rank(S, p) = Cardinality(Down(p))
        BY DEF Rank
    <2> HIDE DEF Down
    <2> QED BY <1>1, <1>2, <2>4, <2>5
<1>5. ASSUME NEW p \in S, NEW q \in S, Before(p, q) PROVE Rank(S, p) < Rank(S, q)
    <2>1. ~Before(p, p)
        BY <1>3 DEF Before
    <2>2. \A r \in S : Before(r, p) => Before(r, q)
        BY <1>3, <1>5 DEF Before
    <2>3. Down(p) \cup {p} \in SUBSET Down(q) /\ p \notin Down(p)
        BY <1>5, <2>1, <2>2
    <2>4. Rank(S, p) = Cardinality(Down(p)) /\ Rank(S, q) = Cardinality(Down(q))
        BY DEF Rank
    <2> HIDE DEF Down
    <2>5. Cardinality(Down(p) \cup {p}) = Cardinality(Down(p)) + 1
        BY <1>2, <2>3, FS_AddElement
    <2>6. Cardinality(Down(p) \cup {p}) <= Cardinality(Down(q))
        BY <1>2, <2>3, FS_Subset
    <2> QED BY <1>2, <2>4, <2>5, <2>6
<1> QED BY <1>4, <1>5

\* Sorting loses no point and repeats none.
LEMMA SortedIs ==
    ASSUME NEW S \in SUBSET (Int \X Int), IsFiniteSet(S)
    PROVE  /\ Sorted(S) \in [1 .. Cardinality(S) -> S]
           /\ \A i \in 1 .. Cardinality(S) : Rank(S, Sorted(S)[i]) = i - 1
           /\ \A p \in S : \E i \in 1 .. Cardinality(S) : Sorted(S)[i] = p
<1>1. PICK n \in Nat : n = Cardinality(S)
    BY FS_CardinalityType
<1> DEFINE rank == [p \in S |-> Rank(S, p) + 1]
<1>2. \A p \in S : Rank(S, p) \in 0 .. (n - 1)
    BY <1>1, RankGrows
<1>3. \A p, q \in S : p # q => Before(p, q) \/ Before(q, p)
    <2> TAKE p, q \in S
    <2>1. p = <<p[1], p[2]>> /\ q = <<q[1], q[2]>>
          /\ p[1] \in Int /\ p[2] \in Int /\ q[1] \in Int /\ q[2] \in Int
        OBVIOUS
    <2> QED BY <2>1 DEF Before
<1>4. \A p, q \in S : p # q => Rank(S, p) # Rank(S, q)
    BY <1>2, <1>3, RankGrows
<1>5. rank \in Injection(S, 1 .. n)
    <2>1. rank \in [S -> 1 .. n]
        <3>1. \A p \in S : Rank(S, p) + 1 \in 1 .. n
            BY <1>2
        <3> QED BY <3>1
    <2>2. \A p, q \in S : rank[p] = rank[q] => p = q
        BY <1>2, <1>4
    <2> HIDE DEF rank
    <2> QED BY <2>1, <2>2 DEF Injection, IsInjective
<1>6. rank \in Surjection(S, 1 .. n)
    <2>1. IsFiniteSet(1 .. n) /\ Cardinality(1 .. n) = n
        <3>1. 1 \in Int /\ n \in Int
            OBVIOUS
        <3>2. IsFiniteSet(1 .. n) /\ Cardinality(1 .. n) = IF 1 > n THEN 0 ELSE n - 1 + 1
            BY <3>1, FS_Interval
        <3> QED BY <3>2
    <2> HIDE DEF rank
    <2> QED BY <1>1, <1>5, <2>1, FS_Injection
<1>7. \A i \in 1 .. n : \E p \in S : Rank(S, p) = i - 1
    <2> TAKE i \in 1 .. n
    <2>1. PICK p \in S : rank[p] = i
        <3> HIDE DEF rank
        <3> QED BY <1>6 DEF Surjection
    <2> QED BY <1>2, <2>1
<1>8. \A i \in 1 .. n : Sorted(S)[i] \in S /\ Rank(S, Sorted(S)[i]) = i - 1
    BY <1>1, <1>7 DEF Sorted
<1>9. Sorted(S) \in [1 .. n -> S]
    BY <1>1, <1>8 DEF Sorted
<1>10. \A p \in S : \E i \in 1 .. n : Sorted(S)[i] = p
    <2> TAKE p \in S
    <2>1. Rank(S, p) + 1 \in 1 .. n /\ (Rank(S, p) + 1) - 1 = Rank(S, p)
        BY <1>2
    <2>2. Sorted(S)[Rank(S, p) + 1] = p
        BY <1>4, <1>8, <2>1
    <2> QED BY <2>1, <2>2
<1> QED BY <1>1, <1>8, <1>9, <1>10

-----------------------------------------------------------------------------
(* The chain and the hull *)

\* Trimming keeps a beginning that is not empty, and no more than turns left.
LEMMA TrimIs ==
    ASSUME NEW S, NEW chain \in Seq(S), chain # <<>>, NEW p
    PROVE  \E k \in 1 .. Len(chain) :
               /\ Trim(chain, p) = SubSeq(chain, 1, k) /\ Len(Trim(chain, p)) = k
               /\ k > 1 => Turn(chain[k - 1], chain[k], p) > 0
               /\ k < Len(chain) => ~(Turn(chain[k], chain[k + 1], p) > 0)
<1> DEFINE K == {1} \cup {k \in 2 .. Len(chain) : Turn(chain[k - 1], chain[k], p) > 0}
<1>1. PICK n \in Nat : n = Len(chain) /\ n # 0
    OBVIOUS
<1>2. K \subseteq 1 .. n /\ 1 \in K
    BY <1>1
<1>3. Trim(chain, p) = SubSeq(chain, 1, Greatest(K))
    BY DEF Trim
<1> HIDE DEF K
<1>4. Greatest(K) \in K /\ \A k \in K : k <= Greatest(K)
    <2>1. K \in SUBSET Int /\ K # {} /\ n \in Int /\ \A k \in K : k <= n
        BY <1>2
    <2> QED BY <2>1, GreatestIs
<1>5. PICK k \in 1 .. n : k = Greatest(K)
    BY <1>2, <1>4
<1>6. Len(SubSeq(chain, 1, k)) = k
    BY <1>1, <1>5
<1>7. k > 1 => Turn(chain[k - 1], chain[k], p) > 0
    BY <1>4, <1>5 DEF K
<1>8. k < n => ~(Turn(chain[k], chain[k + 1], p) > 0)
    <2> SUFFICES ASSUME k < n, Turn(chain[k], chain[k + 1], p) > 0 PROVE FALSE
        OBVIOUS
    <2>1. k + 1 \in 2 .. Len(chain) /\ (k + 1) - 1 = k
        BY <1>1, <1>5
    <2>2. k + 1 \in K
        BY <2>1 DEF K
    <2> QED BY <1>4, <1>5, <2>2
<1> QED BY <1>1, <1>3, <1>5, <1>6, <1>7, <1>8

LEMMA TrimIn ==
    ASSUME NEW S, NEW chain \in Seq(S) \ {<<>>}, NEW p \in S
    PROVE  Append(Trim(chain, p), p) \in Seq(S) \ {<<>>} /\ Len(Append(Trim(chain, p), p)) > 1
<1>1. PICK k \in 1 .. Len(chain) :
          Trim(chain, p) = SubSeq(chain, 1, k) /\ Len(Trim(chain, p)) = k
    BY TrimIs
<1>2. SubSeq(chain, 1, k) \in Seq(S)
    OBVIOUS
<1>3. Append(Trim(chain, p), p) \in Seq(S) /\ Len(Append(Trim(chain, p), p)) = k + 1
    BY <1>1, <1>2
<1> QED BY <1>3

\* The chain after each of the points.
Passes(S, n, points, chain) ==
    /\ chain[1] = <<points[1]>>
    /\ \A k \in 1 .. n : chain[k] \in Seq(S) \ {<<>>}
    /\ \A k \in 1 .. (n - 1) :
          chain[k + 1] = Append(Trim(chain[k], points[k + 1]), points[k + 1])
    /\ Chain(points) = chain[n]

LEMMA ChainSteps ==
    ASSUME NEW S, NEW n \in Nat, n > 0, NEW points \in [1 .. n -> S]
    PROVE  \E chain : Passes(S, n, points, chain)
<1> DEFINE A == Seq(S) \ {<<>>}
           Next(x, k) == IF k = 1 THEN <<points[1]>> ELSE Append(Trim(x, points[k]), points[k])
           step == [t \in (1 .. n) \X A |-> Next(t[2], t[1])]
           chain == CHOOSE c : c = [k \in 1 .. n |-> Next(c[k - 1], k)]
<1>1. points \in Seq(S) /\ Len(points) = n
    OBVIOUS
<1>2. \A k \in 1 .. n, x \in A : Next(x, k) \in A 
    <2> TAKE k \in 1 .. n, x \in A
    <2>1. points[k] \in S /\ points[1] \in S
        OBVIOUS
    <2>2. CASE k = 1
        BY <2>1, <2>2
    <2>3. CASE k # 1
        BY <2>1, <2>3, TrimIn
    <2> QED BY <2>2, <2>3
<1>3. PICK g : \A k \in 1 .. n : g[k] = Next(g[k - 1], k)
    <2>1. <<points[1]>> \in A
        OBVIOUS
    <2>2. \A k \in 1 .. n, x \in A : step[<<k, x>>] = Next(x, k)
        <3> HIDE DEF A, Next
        <3> QED OBVIOUS
    <2> DEFINE first == <<points[1]>>
    <2>3. first \in A
        BY <2>1
    <2> HIDE DEF A, Next, step, first
    <2>4. PICK g : /\ \A k \in 0 .. n : g[k] \in A
                   /\ g[0] = first
                   /\ \A k \in 1 .. n : g[k] = step[<<k, g[k - 1]>>]
        <3>1. step \in Rounds(n, A)
            BY <1>2 DEF Rounds, step
        <3> QED BY <2>3, <3>1, Recursion
    <2>5. \A k \in 1 .. n : g[k - 1] \in A
        <3>1. \A k \in 1 .. n : k - 1 \in 0 .. n
            OBVIOUS
        <3> QED BY <2>4, <3>1
    <2> QED BY <2>2, <2>4, <2>5
<1>4. chain = [k \in 1 .. n |-> Next(chain[k - 1], k)]
    <2> DEFINE c == [k \in 1 .. n |-> g[k]]
    <2>1. \A k \in 1 .. n : k = 1 \/ k - 1 \in 1 .. n
        OBVIOUS
    <2>2. \A k \in 1 .. n : Next(c[k - 1], k) = Next(g[k - 1], k)
        BY <2>1
    <2>3. c = [k \in 1 .. n |-> Next(c[k - 1], k)]
        <3>1. \A k \in 1 .. n : c[k] = Next(c[k - 1], k)
            BY <1>3, <2>2
        <3> HIDE DEF Next
        <3> QED BY <3>1
    <2> HIDE DEF c, Next
    <2> QED BY <2>3
<1>5. \A k \in 1 .. n : chain[k] = Next(chain[k - 1], k)
    <2> HIDE DEF chain, Next
    <2> QED BY <1>4
<1> DEFINE K == {k \in 0 .. n : k = 0 \/ chain[k] \in A}
<1>6. 0 .. n \subseteq K
    <2>1. 0 \in K
        OBVIOUS
    <2>2. ASSUME NEW k \in 0 .. (n - 1), k \in K PROVE k + 1 \in K
        <3>1. k + 1 \in 1 .. n /\ k + 1 \in 0 .. n /\ (k + 1) - 1 = k
            OBVIOUS
        <3>2. chain[k + 1] = Next(chain[k], k + 1)
            <4> HIDE DEF chain, Next
            <4> QED BY <1>5, <3>1
        <3>3. CASE k = 0
            <4>1. <<points[1]>> \in A
                OBVIOUS
            <4> HIDE DEF chain, A
            <4>2. chain[k + 1] = <<points[1]>>
                BY <3>2, <3>3
            <4> QED BY <3>1, <4>1, <4>2
        <3>4. CASE k # 0
            <4> HIDE DEF chain, A, Next
            <4>1. chain[k] \in A
                BY <2>2, <3>4
            <4> QED BY <1>2, <3>1, <3>2, <4>1
        <3> QED BY <3>3, <3>4
    <2>3. \A k \in 0 .. (n - 1) : k \in K => k + 1 \in K
        BY <2>2
    <2> HIDE DEF K
    <2> QED BY <2>1, <2>3, Induction
<1>7. \A k \in 1 .. n : chain[k] \in A
    <2>1. \A k \in 1 .. n : k \in 0 .. n /\ k # 0
        OBVIOUS
    <2> HIDE DEF chain, A
    <2> QED BY <1>6, <2>1
<1>8. Chain(points) = chain[n]
    BY <1>1 DEF Chain
<1>9. chain[1] = <<points[1]>>
    <2>1. 1 \in 1 .. n
        OBVIOUS
    <2> HIDE DEF chain
    <2> QED BY <1>5, <2>1
<1>10. \A k \in 1 .. (n - 1) :
          chain[k + 1] = Append(Trim(chain[k], points[k + 1]), points[k + 1])
    <2>1. \A k \in 1 .. (n - 1) : k + 1 \in 1 .. n /\ (k + 1) - 1 = k /\ k + 1 # 1
        OBVIOUS
    <2> HIDE DEF chain
    <2> QED BY <1>5, <2>1
<1> HIDE DEF chain
<1>11. Passes(S, n, points, chain)
    BY <1>7, <1>8, <1>9, <1>10 DEF Passes
<1> QED BY <1>11

LEMMA ChainIn ==
    ASSUME NEW S, NEW n \in Nat, n > 1, NEW points \in [1 .. n -> S]
    PROVE  Chain(points) \in Seq(S) /\ Len(Chain(points)) > 1
<1>1. PICK chain : Passes(S, n, points, chain)
    <2>1. n > 0
        OBVIOUS
    <2> QED BY <2>1, ChainSteps
<1>2. n - 1 \in 1 .. n /\ n - 1 \in 1 .. (n - 1) /\ (n - 1) + 1 = n /\ n \in 1 .. n
    OBVIOUS
<1>3. chain[n] = Append(Trim(chain[n - 1], points[n]), points[n])
    BY <1>1, <1>2 DEF Passes
<1>4. chain[n - 1] \in Seq(S) \ {<<>>} /\ points[n] \in S
    BY <1>1, <1>2 DEF Passes
<1>5. Chain(points) = chain[n]
    BY <1>1 DEF Passes
<1> QED BY <1>3, <1>4, <1>5, TrimIn

\* The vertices of the hull are some of the points.
LEMMA HullIn ==
    ASSUME NEW S \in SUBSET (Int \X Int), IsFiniteSet(S), S # {}
    PROVE  ConvexHull(S) \in Seq(S) /\ Len(ConvexHull(S)) > 0
<1>1. PICK n \in Nat : n = Cardinality(S) /\ n > 0
    BY FS_CardinalityType, FS_EmptySet
<1>2. PICK points \in [1 .. n -> S] : points = Sorted(S)
    BY <1>1, SortedIs
<1>3. points \in Seq(S) /\ Len(points) = n
    OBVIOUS
<1>4. CASE n <= 2
    BY <1>1, <1>2, <1>3, <1>4 DEF ConvexHull
<1>5. CASE n > 2
    <2>1. Reverse(points) \in [1 .. n -> S]
        <3>1. \A i \in 1 .. n : (n - i) + 1 \in 1 .. n
            OBVIOUS
        <3>2. \A i \in 1 .. n : points[(n - i) + 1] \in S
            BY <3>1
        <3> QED BY <1>3, <3>2 DEF Reverse
    <2>2. PICK lower \in Seq(S) : lower = Chain(points) /\ Len(lower) > 1
        BY <1>5, ChainIn
    <2>3. PICK upper \in Seq(S) : upper = Chain(Reverse(points)) /\ Len(upper) > 1
        BY SMTT(60), <1>5, <2>1, ChainIn
    <2>4. Front(lower) \in Seq(S) /\ Len(Front(lower)) > 0
        BY <2>2 DEF Front
    <2>5. Front(upper) \in Seq(S) /\ Len(Front(upper)) > 0
        BY <2>3 DEF Front
    <2>6. ConvexHull(S) = Front(lower) \o Front(upper)
        BY <1>2, <1>3, <1>5, <2>2, <2>3 DEF ConvexHull
    <2> QED BY <2>4, <2>5, <2>6
<1> QED BY <1>4, <1>5

-----------------------------------------------------------------------------
(* The rectangle of a part with many pins *)

LEMMA PointIsInt == Point \subseteq Int \X Int
BY CoordAssumption DEF Point

LEMMA EdgesIn ==
    ASSUME NEW n \in Nat, n > 0, NEW hull \in [1 .. n -> Point]
    PROVE  Edges(hull) \in [1 .. n -> Int \X Int]
<1>1. Len(hull) = n
    OBVIOUS
<1>2. ASSUME NEW i \in 1 .. n PROVE Heading[Minus(hull[(i % n) + 1], hull[i])] \in Int \X Int
    <2>1. (i % n) + 1 \in 1 .. n
        OBVIOUS
    <2>2. hull[(i % n) + 1] \in Point /\ hull[i] \in Point
        BY <2>1
    <2>3. hull[(i % n) + 1] \in Int \X Int /\ hull[i] \in Int \X Int
        BY <2>2, PointIsInt
    <2> QED BY <2>2, <2>3, HeadingIs
<1> QED BY <1>1, <1>2 DEF Edges

\* The choices that MultiPin makes: at each edge that one or an earlier one.
Chooses(S, n, edges, choice) ==
    /\ \A k \in 1 .. n : choice[k] \in 1 .. n
    /\ choice[1] = 1
    /\ \A k \in 2 .. n :
        choice[k] = IF Smaller(Rectangle(S, edges[k]), Rectangle(S, edges[choice[k - 1]]))
                    THEN k ELSE choice[k - 1]

LEMMA MultiPinSteps ==
    ASSUME NEW S, NEW n \in Nat, n > 0, NEW edges,
           edges = Edges(ConvexHull(S)), DOMAIN edges = 1 .. n, Len(edges) = n
    PROVE  \E choice : /\ Chooses(S, n, edges, choice)
                       /\ MultiPin(S) = Rectangle(S, edges[choice[n]])
<1> DEFINE Box(k) == Rectangle(S, edges[k])
           Next(x, k) == IF k = 1 THEN Box(k)
                         ELSE IF Smaller(Box(k), x) THEN Box(k) ELSE x
           Choice(i, k) == IF k = 1 THEN 1 ELSE IF Smaller(Box(k), Box(i)) THEN k ELSE i
           step == [t \in (1 .. n) \X (1 .. n) |-> Choice(t[2], t[1])]
           best == CHOOSE b : b = [k \in 1 .. n |-> Next(b[k - 1], k)]
<1>1. PICK g : /\ \A k \in 0 .. n : g[k] \in 1 .. n
               /\ \A k \in 1 .. n : g[k] = Choice(g[k - 1], k)
    <2>1. 1 \in 1 .. n
        OBVIOUS
    <2>2. \A k \in 1 .. n, i \in 1 .. n : Choice(i, k) \in 1 .. n
        <3> HIDE DEF Box
        <3> QED BY <2>1
    <2>3. \A k \in 1 .. n, i \in 1 .. n : step[<<k, i>>] = Choice(i, k)
        <3> HIDE DEF Choice
        <3> QED OBVIOUS
    <2>4. PICK A : A = 1 .. n /\ step \in Rounds(n, A)
        <3> HIDE DEF Choice
        <3> QED BY ZenonT(60), <2>2 DEF Rounds
    <2> HIDE DEF Choice, step
    <2>4a. PICK first \in A : first = 1
        BY <2>1, <2>4
    <2>5. PICK g : /\ \A k \in 0 .. n : g[k] \in A
                   /\ g[0] = first
                   /\ \A k \in 1 .. n : g[k] = step[<<k, g[k - 1]>>]
        <3>1. step \in Rounds(n, A)
            BY <2>4
        <3> QED BY <3>1, Recursion
    <2>6. \A k \in 1 .. n : g[k - 1] \in 1 .. n
        <3>1. \A k \in 1 .. n : k - 1 \in 0 .. n
            OBVIOUS
        <3> QED BY <2>4, <2>5, <3>1
    <2>7. \A k \in 1 .. n : g[k] = Choice(g[k - 1], k)
        BY <2>3, <2>5, <2>6
    <2> QED BY <2>4, <2>5, <2>7
<1>2. \A k \in 1 .. n : Box(g[k]) = Next(Box(g[k - 1]), k)
    <2> TAKE k \in 1 .. n
    <2>1. g[k] = Choice(g[k - 1], k)
        BY <1>1
    <2> HIDE DEF Box
    <2> QED BY <2>1
<1>3. best = [k \in 1 .. n |-> Next(best[k - 1], k)]
    <2> DEFINE b == [k \in 1 .. n |-> Box(g[k])]
    <2>1. \A k \in 1 .. n : k = 1 \/ k - 1 \in 1 .. n
        OBVIOUS
    <2>2. \A k \in 1 .. n : Next(b[k - 1], k) = Next(Box(g[k - 1]), k)
        <3> HIDE DEF Box
        <3> QED BY <2>1
    <2>3. b = [k \in 1 .. n |-> Next(b[k - 1], k)]
        <3>1. \A k \in 1 .. n : b[k] = Next(b[k - 1], k)
            <4> HIDE DEF Next, Box
            <4> QED BY <1>2, <2>2
        <3> HIDE DEF Next, Box
        <3> QED BY <3>1
    <2> HIDE DEF b, Next
    <2> QED BY <2>3
<1>4. \A k \in 1 .. n : best[k] = Next(best[k - 1], k)
    <2> HIDE DEF best, Next
    <2> QED BY <1>3
<1> DEFINE K == {k \in 0 .. n : k = 0 \/ best[k] = Box(g[k])}
<1>5. 0 .. n \subseteq K
    <2>1. 0 \in K
        OBVIOUS
    <2>2. ASSUME NEW k \in 0 .. (n - 1), k \in K PROVE k + 1 \in K
        <3>1. k + 1 \in 1 .. n /\ k + 1 \in 0 .. n /\ (k + 1) - 1 = k /\ (k + 1 = 1 <=> k = 0)
            OBVIOUS
        <3>2. k = 0 \/ best[k] = Box(g[k])
            BY <2>2
        <3>3. best[k + 1] = Next(best[k], k + 1) /\ Box(g[k + 1]) = Next(Box(g[k]), k + 1)
            <4> HIDE DEF best, Next, Box
            <4> QED BY <1>2, <1>4, <3>1
        <3>4. best[k + 1] = Box(g[k + 1])
            <4>1. \A x, y : k + 1 = 1 \/ x = y => Next(x, k + 1) = Next(y, k + 1)
                <5> HIDE DEF Box
                <5> QED OBVIOUS
            <4> HIDE DEF best, Next, Box
            <4> QED BY <3>1, <3>2, <3>3, <4>1
        <3> HIDE DEF best, Box
        <3> QED BY <3>1, <3>4
    <2>3. \A k \in 0 .. (n - 1) : k \in K => k + 1 \in K
        BY <2>2
    <2> HIDE DEF K
    <2> QED BY <2>1, <2>3, Induction
<1>6. best[n] = Box(g[n])
    <2>1. n \in 0 .. n /\ n # 0
        OBVIOUS
    <2> HIDE DEF best, Box
    <2> QED BY <1>5, <2>1
<1>7. MultiPin(S) = best[n]
    BY DEF MultiPin
<1>8. Chooses(S, n, edges, g)
    <2>1. \A k \in 1 .. n : k \in 0 .. n
        OBVIOUS
    <2>2. 1 \in 1 .. n /\ \A k \in 2 .. n : k \in 1 .. n /\ k # 1
        OBVIOUS
    <2>3. \A k \in 1 .. n : g[k] \in 1 .. n
        BY <1>1, <2>1
    <2>4. g[1] = 1
        BY <1>1, <2>2
    <2>5. \A k \in 2 .. n :
            g[k] = IF Smaller(Rectangle(S, edges[k]), Rectangle(S, edges[g[k - 1]]))
                   THEN k ELSE g[k - 1]
        BY <1>1, <2>2
    <2> QED BY <2>3, <2>4, <2>5 DEF Chooses
<1> HIDE DEF best
<1> QED BY <1>6, <1>7, <1>8

\* The edges of the hull, and the one whose rectangle is taken.
LEMMA MultiPinIs ==
    ASSUME NEW S \in SUBSET Point, IsFiniteSet(S), S # {}
    PROVE  \E n \in Nat \ {0} : \E choice :
              LET edges == Edges(ConvexHull(S)) IN
              /\ ConvexHull(S) \in [1 .. n -> S]
              /\ edges \in [1 .. n -> Int \X Int]
              /\ Chooses(S, n, edges, choice)
              /\ MultiPin(S) = Rectangle(S, edges[choice[n]])
<1>0. S \in SUBSET (Int \X Int)
    BY PointIsInt
<1>1. PICK hull \in Seq(S) : hull = ConvexHull(S) /\ Len(hull) > 0
    BY <1>0, HullIn
<1>2. PICK n \in Nat : n = Len(hull) /\ n > 0
    BY <1>1
<1>3. hull \in [1 .. n -> S] /\ hull \in [1 .. n -> Point]
    BY <1>1, <1>2
<1>4. PICK edges \in [1 .. n -> Int \X Int] : edges = Edges(hull)
    BY <1>2, <1>3, EdgesIn
<1>5. Len(edges) = n /\ DOMAIN edges = 1 .. n
    OBVIOUS
<1>6. edges = Edges(ConvexHull(S))
    BY <1>1, <1>4
<1>7. PICK choice : /\ Chooses(S, n, edges, choice)
                    /\ MultiPin(S) = Rectangle(S, edges[choice[n]])
    BY <1>2, <1>5, <1>6, MultiPinSteps
<1> QED BY SMTT(60), <1>1, <1>2, <1>3, <1>6, <1>7

\* The rectangle lies along a whole vector.
LEMMA MultiPinAlong ==
    ASSUME NEW S \in SUBSET Point, IsFiniteSet(S), S # {}
    PROVE  \E e \in Int \X Int : MultiPin(S) = Rectangle(S, e)
<1>0. PICK n \in Nat \ {0} :
        \E choice : LET edges == Edges(ConvexHull(S)) IN
                    /\ ConvexHull(S) \in [1 .. n -> S]
                    /\ edges \in [1 .. n -> Int \X Int]
                    /\ Chooses(S, n, edges, choice)
                    /\ MultiPin(S) = Rectangle(S, edges[choice[n]])
    BY MultiPinIs
<1>1. PICK choice : LET edges == Edges(ConvexHull(S)) IN
                    /\ edges \in [1 .. n -> Int \X Int]
                    /\ Chooses(S, n, edges, choice)
                    /\ MultiPin(S) = Rectangle(S, edges[choice[n]])
    BY <1>0
<1>2. n \in 1 .. n
    OBVIOUS
<1>3. choice[n] \in 1 .. n
    BY <1>1, <1>2 DEF Chooses
<1> QED BY <1>1, <1>3

-----------------------------------------------------------------------------
(* What each outline holds *)

LEMMA RectangleHolds ==
    ASSUME NEW S \in SUBSET (Int \X Int), IsFiniteSet(S), NEW e \in Int \X Int, NEW p \in S
    PROVE  Covers(Rectangle(S, e), p)
<1> DEFINE L == {Dot(e, q) : q \in S}
           W == {Wedge(e, q) : q \in S}
<1>1. \A q \in S : Dot(e, q) \in Int /\ Wedge(e, q) \in Int
    BY DEF Dot, Wedge
<1>2. L \subseteq Int /\ W \subseteq Int /\ Dot(e, p) \in L /\ Wedge(e, p) \in W
    BY <1>1
<1>3. IsFiniteSet(L)
    <2> DEFINE f == [q \in S |-> Dot(e, q)]
    <2>1. f \in Surjection(S, L)
        BY DEF Surjection
    <2> HIDE DEF L, f
    <2> QED BY <2>1, FS_Surjection
<1>4. IsFiniteSet(W)
    <2> DEFINE f == [q \in S |-> Wedge(e, q)]
    <2>1. f \in Surjection(S, W)
        BY DEF Surjection
    <2> HIDE DEF W, f
    <2> QED BY <2>1, FS_Surjection
<1>5. Rectangle(S, e) = [kind |-> "box", along |-> e, minx |-> Least(L), maxx |-> Greatest(L),
                         miny |-> Least(W), maxy |-> Greatest(W)]
    BY DEF Rectangle
<1> HIDE DEF L, W
<1>6. Least(L) \in Int /\ Greatest(L) \in Int /\ Dot(e, p) \in Least(L) .. Greatest(L)
    <2>1. L # {} /\ L \in SUBSET Int
        BY <1>2
    <2>2. /\ Least(L) \in L /\ \A b \in L : Least(L) <= b
          /\ Greatest(L) \in L /\ \A b \in L : b <= Greatest(L)
        BY <1>3, <2>1, FiniteHasExtrema
    <2>3. Least(L) <= Dot(e, p) /\ Dot(e, p) <= Greatest(L) /\ Dot(e, p) \in Int
        BY <1>2, <2>2
    <2>4. Least(L) \in Int /\ Greatest(L) \in Int
        BY <1>2, <2>2
    <2> QED BY <2>3, <2>4
<1>7. Least(W) \in Int /\ Greatest(W) \in Int /\ Wedge(e, p) \in Least(W) .. Greatest(W)
    <2>1. W # {} /\ W \in SUBSET Int
        BY <1>2
    <2>2. /\ Least(W) \in W /\ \A b \in W : Least(W) <= b
          /\ Greatest(W) \in W /\ \A b \in W : b <= Greatest(W)
        BY <1>4, <2>1, FiniteHasExtrema
    <2>3. Least(W) <= Wedge(e, p) /\ Wedge(e, p) <= Greatest(W) /\ Wedge(e, p) \in Int
        BY <1>2, <2>2
    <2>4. Least(W) \in Int /\ Greatest(W) \in Int
        BY <1>2, <2>2
    <2> QED BY <2>3, <2>4
<1> QED BY <1>5, <1>6, <1>7 DEF Covers

LEMMA PadHolds ==
    ASSUME NEW p \in Int \X Int
    PROVE  Covers(SinglePad(p), p)
BY DEF Covers, SinglePad, Pad

\* The strip between two pins holds both.
LEMMA StripHolds ==
    ASSUME NEW letter, NEW first \in Int \X Int, NEW last \in Int \X Int,
           NEW pins, pins = <<first, last>>, NEW p \in {first, last}
    PROVE  Covers(TwoPin(letter, pins), p)
<1> DEFINE v == Minus(last, first)
           square == Dot(v, v)
           radius == PinRadius(square)
           along == IF square = 0 THEN <<1, 0>> ELSE v
           unit == Dot(along, along)
           coil == letter = "L" /\ square > 50 * 50
           bulk == letter = "C" /\ square > 90 * 90
           army16 == CASE coil -> 4 * square [] bulk -> square [] OTHER -> 16 * radius * radius
           armx == IF coil \/ bulk THEN 15 ELSE radius
<1>1. TwoPin(letter, pins) = [kind |-> "two", at |-> first, far |-> square, along |-> along,
                              armx |-> armx, army16 |-> army16]
    BY DEF TwoPin
<1>2. PICK a \in Int, b \in Int : v = <<a, b>>
    BY DEF Minus
<1>3. square = a * a + b * b /\ square \in Nat
    <2>1. square = a * a + b * b
        BY <1>2 DEF Dot
    <2>2. a * a \in Nat /\ b * b \in Nat
        OBVIOUS
    <2> HIDE DEF square
    <2> QED BY <2>1, <2>2
<1>4. radius \in Nat
    BY DEF PinRadius, Pad
<1>5. army16 \in Nat
    <2> HIDE DEF square, radius
    <2>1. 16 * radius * radius \in Nat /\ 4 * square \in Nat
        BY <1>3, <1>4
    <2>2. CASE coil
        BY <2>1, <2>2
    <2>3. CASE ~coil /\ bulk
        BY <1>3, <2>3
    <2>4. CASE ~coil /\ ~bulk
        BY <2>1, <2>4
    <2> QED BY <2>2, <2>3, <2>4
<1>6. unit \in Nat
    <2>1. CASE square = 0
        BY <2>1 DEF Dot
    <2>2. CASE square # 0
        BY <1>3, <2>2
    <2> QED BY <2>1, <2>2
<1> HIDE DEF radius, armx, army16
<1>7. army16 * unit \in Nat
    <2> HIDE DEF unit
    <2> QED BY <1>5, <1>6
<1>8. ASSUME p = first PROVE Dot(along, Minus(p, first)) = 0 /\ Wedge(along, Minus(p, first)) = 0
    <2>1. Minus(first, first) = <<0, 0>>
        BY DEF Minus
    <2>2. PICK c \in Int, d \in Int : along = <<c, d>>
        <3> HIDE DEF square, v
        <3> QED BY <1>2
    <2> HIDE DEF along
    <2> QED BY <1>8, <2>1, <2>2 DEF Dot, Wedge
<1>9. ASSUME p = last, square # 0
      PROVE  Dot(along, Minus(p, first)) = square /\ Wedge(along, Minus(p, first)) = 0
    <2>1. along = v /\ Minus(p, first) = v
        BY <1>9
    <2>2. Wedge(v, v) = a * b - b * a
        BY <1>2 DEF Wedge
    <2>3. a * b - b * a = 0
        OBVIOUS
    <2> QED BY <2>1, <2>2, <2>3
<1>10. ASSUME square = 0 PROVE last = first
    <2>1. a * a = 0 /\ b * b = 0
        <3>1. a * a \in Nat /\ b * b \in Nat
            OBVIOUS
        <3> QED BY <1>3, <1>10, <3>1
    <2>2. a = 0 /\ b = 0
        BY <2>1
    <2>3. last[1] - first[1] = 0 /\ last[2] - first[2] = 0
        BY <1>2, <2>2 DEF Minus
    <2>4. last = <<last[1], last[2]>> /\ first = <<first[1], first[2]>>
          /\ last[1] = first[1] /\ last[2] = first[2]
        BY <2>3
    <2> QED BY <2>4
<1>11. \/ Dot(along, Minus(p, first)) = 0 /\ Wedge(along, Minus(p, first)) = 0
       \/ Dot(along, Minus(p, first)) = square /\ Wedge(along, Minus(p, first)) = 0
    <2> HIDE DEF along, square
    <2> QED BY <1>8, <1>9, <1>10
<1> DEFINE x == Dot(along, Minus(p, first))
           y == Wedge(along, Minus(p, first))
<1>12. x \in Int /\ x >= 0 /\ x <= square /\ y = 0
    <2> HIDE DEF along, square
    <2> QED BY <1>3, <1>11
<1>13. ~(x < 0) /\ ~(x > square) /\ 16 * y * y <= army16 * unit
    <2> HIDE DEF x, y, square, unit
    <2> QED BY <1>3, <1>7, <1>12
<1>14. Covers(TwoPin(letter, pins), p) <=>
           /\ x < 0 => x * x <= armx * armx * unit
           /\ x > square => (x - square) * (x - square) <= armx * armx * unit
           /\ 16 * y * y <= army16 * unit
    <2> HIDE DEF along, square
    <2>1. PICK g : g = TwoPin(letter, pins)
        OBVIOUS
    <2>2. /\ g.kind = "two" /\ g.at = first /\ g.far = square /\ g.along = along
          /\ g.armx = armx /\ g.army16 = army16
        BY <1>1, <2>1
    <2>3. Covers(g, p) <=>
              /\ x < 0 => x * x <= armx * armx * unit
              /\ x > square => (x - square) * (x - square) <= armx * armx * unit
              /\ 16 * y * y <= army16 * unit
        BY <2>2, Zenon DEF Covers
    <2> QED BY <2>1, <2>3
<1> HIDE DEF x, y, unit, square
<1> QED BY <1>13, <1>14

\* The outline of a part holds its pins, unless it is a passive with three.
LEMMA PartGeometryHolds ==
    ASSUME NEW letter, NEW pins \in Seq(Point), pins # <<>>,
           ~(Len(pins) = 3 /\ PartGeometry(letter, pins).kind = "two"),
           NEW i \in DOMAIN pins
    PROVE  Covers(PartGeometry(letter, pins), pins[i])
<1> DEFINE places == {pins[j] : j \in DOMAIN pins}
<1>1. PICK n \in Nat : n = Len(pins) /\ n # 0 /\ DOMAIN pins = 1 .. n
    OBVIOUS
<1>2. places \in SUBSET Point /\ pins[i] \in places /\ pins[1] \in places /\ Head(pins) = pins[1]
    BY <1>1
<1>3. places \in SUBSET (Int \X Int)
    BY <1>2, PointIsInt
<1>4. IsFiniteSet(places)
    <2>1. IsFiniteSet(DOMAIN pins)
        <3>1. 1 \in Int /\ n \in Int
            OBVIOUS
        <3> QED BY <1>1, <3>1, FS_Interval
    <2>2. pins \in Surjection(DOMAIN pins, places)
        BY DEF Surjection
    <2> HIDE DEF places
    <2> QED BY <2>1, <2>2, FS_Surjection
<1>5. CASE Cardinality(places) = 1
    <2>1. PICK q : places = {q}
        <3> HIDE DEF places
        <3> QED BY <1>4, <1>5, FS_Singleton
    <2>2. pins[i] = Head(pins) /\ Head(pins) \in Int \X Int
        <3> HIDE DEF places
        <3> QED BY <1>2, <1>3, <2>1
    <2>3. PartGeometry(letter, pins) = SinglePad(Head(pins))
        BY <1>5 DEF PartGeometry
    <2> QED BY <2>2, <2>3, PadHolds
<1>6. CASE Cardinality(places) # 1 /\ Cardinality(places) > 1 /\ n <= 3 /\ letter \in Passive
    <2>1. PartGeometry(letter, pins) = TwoPin(letter, pins)
        BY <1>1, <1>6 DEF PartGeometry
    <2>2. TwoPin(letter, pins).kind = "two"
        BY DEF TwoPin
    <2>3. n # 3
        BY <1>1, <2>1, <2>2
    <2>4. n # 1
        <3> SUFFICES ASSUME n = 1 PROVE FALSE
            OBVIOUS
        <3>1. \A j \in DOMAIN pins : j = 1
            <4>1. DOMAIN pins = 1 .. n
                BY <1>1
            <4>2. \A j \in 1 .. n : j = 1
                OBVIOUS
            <4> QED BY <4>1, <4>2
        <3>2. places = {pins[1]}
            BY <1>2, <3>1
        <3>3. Cardinality(places) = 1
            <4> HIDE DEF places
            <4> QED BY <3>2, FS_Singleton
        <3> QED BY <1>6, <3>3
    <2>5. n = 2
        BY <1>1, <1>6, <2>3, <2>4
    <2>6. pins = <<pins[1], pins[2]>> /\ (i = 1 \/ i = 2)
        BY <1>1, <2>5
    <2>7. pins[1] \in Int \X Int /\ pins[2] \in Int \X Int
        <3>1. pins[1] \in Point /\ pins[2] \in Point
            BY <1>1, <2>5
        <3> QED BY <3>1, PointIsInt
    <2>8. pins[i] \in {pins[1], pins[2]}
        BY <2>6
    <2> QED BY <2>1, <2>6, <2>7, <2>8, StripHolds
<1>7. CASE Cardinality(places) # 1
           /\ ~(Cardinality(places) > 1 /\ n <= 3 /\ letter \in Passive)
    <2>1. PartGeometry(letter, pins) = MultiPin(places)
        BY <1>1, <1>7 DEF PartGeometry
    <2> HIDE DEF places
    <2>2. PICK e \in Int \X Int : MultiPin(places) = Rectangle(places, e)
        BY <1>2, <1>4, MultiPinAlong
    <2> QED BY <1>2, <1>3, <1>4, <2>1, <2>2, RectangleHolds
<1> QED BY <1>5, <1>6, <1>7
=============================================================================
