----------------------------- MODULE MoneyProofs -----------------------------
(***************************************************************************)
(* Proofs about Money, for every scale, amount, rate, credit and           *)
(* agreement.  In order: a quotient is known by its remainder, and a       *)
(* rounded one is within half a divisor of what it divides; the sum of a   *)
(* finite function, taken apart element by element (the least number of a  *)
(* set stands in for induction); the places that the remainders give the   *)
(* engineers, and so what the slices add up to; the lines of the entry.    *)
(***************************************************************************)
EXTENDS Money, FiniteSetTheorems, WellFoundedInduction, TLAPS

\* A quotient and its remainder.
LEMMA Quotient ==
    ASSUME NEW n \in Nat, NEW d \in Nat \ {0}
    PROVE  /\ n \div d \in Nat
           /\ d * (n \div d) <= n
           /\ n < d * (n \div d) + d
OBVIOUS

\* Products keep an order.
LEMMA Grows ==
    ASSUME NEW a \in Nat, NEW b \in Nat, NEW c \in Nat, a <= b
    PROVE  a * c <= b * c /\ a * c \in Nat
OBVIOUS

\* A number is less than the next when a multiple of it is.
LEMMA Below ==
    ASSUME NEW a \in Nat, NEW b \in Nat, NEW d \in Nat \ {0}, d * a < d * b + d
    PROVE  a <= b
<1> SUFFICES ASSUME a >= b + 1 PROVE FALSE
    OBVIOUS
<1>1. (b + 1) * d <= a * d
    BY Grows
<1> QED BY <1>1

\* Half away from zero, from below: within half a divisor.
LEMMA Rounded ==
    ASSUME NEW n \in Nat, NEW d \in Nat \ {0}
    PROVE  /\ RoundDiv(n, d) \in Nat
           /\ 2 * (d * RoundDiv(n, d)) <= 2 * n + d
           /\ 2 * n <= 2 * (d * RoundDiv(n, d)) + d
<1> DEFINE h == d \div 2
           q == (n + h) \div d
<1>1. h \in Nat /\ 2 * h <= d /\ d <= 2 * h + 1
    OBVIOUS
<1>2. RoundDiv(n, d) = q
    BY DEF RoundDiv
<1>3. n + h \in Nat
    BY <1>1
<1> HIDE DEF h
<1>4. q \in Nat /\ d * q <= n + h /\ n + h < d * q + d
    BY <1>3, Quotient
<1> HIDE DEF q
<1>5. d * q \in Nat
    BY <1>4
<1> QED BY <1>1, <1>2, <1>4, <1>5

\* A rounded part of a whole is no more than the whole.
LEMMA RoundedPart ==
    ASSUME NEW n \in Nat, NEW d \in Nat \ {0}, NEW whole \in Nat, n <= d * whole
    PROVE  RoundDiv(n, d) \in 0..whole
<1> DEFINE r == RoundDiv(n, d)
<1>1. r \in Nat /\ 2 * (d * r) <= 2 * n + d
    BY Rounded
<1> HIDE DEF r
<1>2. d * r \in Nat /\ d * whole \in Nat
    BY <1>1
<1>3. d * r < d * whole + d
    BY <1>1, <1>2
<1>4. r <= whole
    BY <1>1, <1>3, Below
<1> QED BY <1>1, <1>4 DEF r

-----------------------------------------------------------------------------
\* A percentage of an amount is between nothing and all of it, and within half
\* a unit of the exact one (percentOf).
THEOREM PercentCorrect ==
    ASSUME NEW amount \in Nat, NEW bp \in 0..Scale
    PROVE  /\ PercentOf(amount, bp) \in 0..amount
           /\ 2 * Magnitude(PercentOf(amount, bp) * Scale - amount * bp) <= Scale
<1> DEFINE r == RoundDiv(amount * bp, Scale)
<1>1. Scale \in Nat \ {0} /\ bp \in Nat
    BY ScaleAssumption
<1>2. amount * bp \in Nat /\ amount * bp <= Scale * amount
    BY <1>1, Grows
<1>3. r \in 0..amount
    BY <1>1, <1>2, RoundedPart
<1>4. 2 * (Scale * r) <= 2 * (amount * bp) + Scale /\ 2 * (amount * bp) <= 2 * (Scale * r) + Scale
    BY <1>1, <1>2, Rounded
<1> HIDE DEF r
<1>5. r * Scale = Scale * r /\ Scale * r \in Nat
    BY <1>1, <1>3
<1>6. 2 * Magnitude(r * Scale - amount * bp) <= Scale
    BY <1>1, <1>2, <1>4, <1>5 DEF Magnitude
<1> QED BY <1>3, <1>6 DEF PercentOf, r

\* The tax inside a price is between nothing and the price, and within half a
\* unit of the exact one (extractTax).
THEOREM TaxCorrect ==
    ASSUME NEW gross \in Nat, NEW rate \in 0..Scale
    PROVE  /\ TaxIn(gross, rate) \in 0..gross
           /\ 2 * Magnitude(TaxIn(gross, rate) * (Scale + rate) - gross * rate) <= Scale + rate
<1> DEFINE d == Scale + rate
           r == RoundDiv(gross * rate, d)
<1>1. d \in Nat \ {0} /\ rate \in Nat /\ rate <= d
    BY ScaleAssumption
<1>2. r = TaxIn(gross, rate)
    BY DEF TaxIn
<1> HIDE DEF d
<1>3. gross * rate \in Nat /\ gross * rate <= d * gross
    BY <1>1, Grows
<1>4. r \in 0..gross
    BY <1>1, <1>3, RoundedPart
<1>5. 2 * (d * r) <= 2 * (gross * rate) + d /\ 2 * (gross * rate) <= 2 * (d * r) + d
    BY <1>1, <1>3, Rounded
<1> HIDE DEF r
<1>6. r * d = d * r /\ d * r \in Nat
    BY <1>1, <1>4
<1>7. 2 * Magnitude(r * d - gross * rate) <= d
    BY <1>1, <1>3, <1>5, <1>6 DEF Magnitude
<1> QED BY <1>2, <1>4, <1>7 DEF d

\* A fixed amount scaled to a slice is an amount, and no more than the slice
\* when it is no more than the base it is quoted against.
LEMMA ScaledFixed ==
    ASSUME NEW fixed \in Nat, NEW pot \in Nat, NEW base \in Nat
    PROVE  /\ ScaleFixed(fixed, pot, base) \in Nat
           /\ fixed <= base => ScaleFixed(fixed, pot, base) <= pot
<1>1. CASE base = 0 \/ pot = 0
    BY <1>1 DEF ScaleFixed
<1>2. CASE ~ (base = 0 \/ pot = 0) /\ pot = base
    BY <1>2 DEF ScaleFixed
<1>3. CASE ~ (base = 0 \/ pot = 0) /\ pot # base
    <2>1. ScaleFixed(fixed, pot, base) = RoundDiv(fixed * pot, base)
        BY <1>3 DEF ScaleFixed
    <2>2. base \in Nat \ {0} /\ fixed * pot \in Nat
        BY <1>3
    <2>3. RoundDiv(fixed * pot, base) \in Nat
        BY <2>2, Rounded
    <2>4. ASSUME fixed <= base PROVE RoundDiv(fixed * pot, base) \in 0..pot
        <3>1. fixed * pot <= base * pot
            BY <2>4, Grows
        <3> QED BY <2>2, <3>1, RoundedPart
    <2> QED BY <2>1, <2>3, <2>4
<1> QED BY <1>1, <1>2, <1>3

\* Whatever the terms, the engineer's pay is between nothing and the whole
\* slice, so the platform's is too (computeCommissionSnapshot,
\* assertSplitIsSound).
THEOREM PayCorrect ==
    ASSUME NEW a \in Agreement, NEW pot \in Nat, NEW base \in Nat
    PROVE  Pay(a, pot, base) \in 0..pot
<1>1. CASE a \in [model : {"PERCENTAGE"}, bp : 0..Scale]
    <2>1. Scale - a.bp \in 0..Scale
        BY <1>1, ScaleAssumption
    <2>2. PercentOf(pot, Scale - a.bp) \in 0..pot
        BY <2>1, PercentCorrect
    <2> QED BY <1>1, <2>2 DEF Pay
<1>2. CASE a \in [model : {"FIXED_ENGINEER"}, engineer : Nat]
    <2>1. ScaleFixed(a.engineer, pot, base) \in Nat
        BY <1>2, ScaledFixed
    <2>2. Pay(a, pot, base) = Smaller(ScaleFixed(a.engineer, pot, base), pot)
        BY <1>2 DEF Pay
    <2> QED BY <2>1, <2>2 DEF Smaller
<1>3. CASE a \in [model : {"FIXED_PLATFORM"}, platform : Nat]
    <2>1. ScaleFixed(a.platform, pot, base) \in Nat
        BY <1>3, ScaledFixed
    <2>2. Pay(a, pot, base) = pot - Smaller(ScaleFixed(a.platform, pot, base), pot)
        BY <1>3 DEF Pay
    <2> QED BY <2>1, <2>2 DEF Smaller
<1>4. CASE a \in {b \in [model : {"FIXED_BOTH"}, engineer : Nat, platform : Nat] :
                     b.engineer + b.platform # 0}
    <2> DEFINE e == a.engineer
               d == a.engineer + a.platform
    <2>1. e \in Nat /\ d \in Nat \ {0} /\ e <= d
        BY <1>4
    <2>2. Pay(a, pot, base) = RoundDiv(pot * e, d)
        BY <1>4 DEF Pay
    <2> HIDE DEF e, d
    <2>3. pot * e \in Nat /\ pot * e <= d * pot
        BY <2>1, Grows
    <2> QED BY <2>1, <2>2, <2>3, RoundedPart
<1> QED BY <1>1, <1>2, <1>3, <1>4 DEF Agreement

\* Where it is quoted against enough, a fixed part is within half a unit of
\* its exact proportion of the slice, and so is a shared one (D-02, D-03).
THEOREM PayIsFair ==
    ASSUME NEW fixed \in Nat, NEW pot \in Nat, NEW base \in Nat, fixed <= base, pot <= base
    PROVE  2 * Magnitude(Smaller(ScaleFixed(fixed, pot, base), pot) * base - fixed * pot) <= base
<1>1. Smaller(ScaleFixed(fixed, pot, base), pot) = ScaleFixed(fixed, pot, base)
    BY ScaledFixed DEF Smaller
<1>2. CASE base = 0 \/ pot = 0
    <2>1. ScaleFixed(fixed, pot, base) = 0 /\ fixed * pot = 0
        BY <1>2 DEF ScaleFixed
    <2> QED BY <1>1, <2>1 DEF Magnitude
<1>3. CASE ~ (base = 0 \/ pot = 0) /\ pot = base
    <2>1. ScaleFixed(fixed, pot, base) * base - fixed * pot = 0
        BY <1>3 DEF ScaleFixed
    <2> QED BY <1>1, <2>1 DEF Magnitude
<1>4. CASE ~ (base = 0 \/ pot = 0) /\ pot # base
    <2> DEFINE r == RoundDiv(fixed * pot, base)
    <2>1. base \in Nat \ {0} /\ fixed * pot \in Nat
        BY <1>4
    <2>2. /\ r \in Nat
          /\ 2 * (base * r) <= 2 * (fixed * pot) + base
          /\ 2 * (fixed * pot) <= 2 * (base * r) + base
        BY <2>1, Rounded
    <2>3. ScaleFixed(fixed, pot, base) = r
        BY <1>4 DEF ScaleFixed
    <2> HIDE DEF r
    <2>4. r * base = base * r /\ base * r \in Nat
        BY <2>1, <2>2
    <2> QED BY <1>1, <2>1, <2>2, <2>3, <2>4 DEF Magnitude
<1> QED BY <1>2, <1>3, <1>4

-----------------------------------------------------------------------------
\* Sums over finite sets.

\* The least number of a set: what stands in for induction.
LEMMA Least ==
    ASSUME NEW T \in SUBSET Nat, T # {}
    PROVE  \E x \in T : \A y \in T : x <= y
<1>1. PICK x \in T : \A y \in T : ~ (<<y, x>> \in OpToRel(<, Nat))
    BY NatLessThanWellFounded, WFMin
<1>2. ASSUME NEW y \in T PROVE x <= y
    <2>1. <<y, x>> \in Nat \X Nat
        OBVIOUS
    <2>2. ~ (y < x)
        BY <1>1, <2>1 DEF OpToRel
    <2>3. y \in Nat /\ x \in Nat
        OBVIOUS
    <2> QED BY <2>2, <2>3
<1> QED BY <1>2

\* What holds of the empty set and of a set when it holds of the set without
\* one of its elements, holds of every part of a finite set.
LEMMA Subsets ==
    ASSUME NEW D, IsFiniteSet(D), NEW Good \in SUBSET (SUBSET D), {} \in Good,
           \A s \in SUBSET D : s # {} /\ (\A x \in s : s \ {x} \in Good) => s \in Good
    PROVE  Good = SUBSET D
<1> DEFINE Sizes == {Cardinality(s) : s \in (SUBSET D) \ Good}
<1> SUFFICES ASSUME (SUBSET D) \ Good # {} PROVE FALSE
    OBVIOUS
<1>1. \A s \in SUBSET D : IsFiniteSet(s) /\ Cardinality(s) \in Nat
    BY FS_Subset, FS_CardinalityType
<1>2. Sizes \in SUBSET Nat /\ Sizes # {}
    BY <1>1
<1>3. PICK n \in Sizes : \A m \in Sizes : n <= m
    BY <1>2, Least
<1>4. PICK s \in (SUBSET D) \ Good : Cardinality(s) = n
    BY <1>3
<1>5. ASSUME NEW x \in s PROVE s \ {x} \in Good
    <2>1. s \ {x} \in SUBSET D /\ Cardinality(s \ {x}) = Cardinality(s) - 1
        BY <1>1, FS_RemoveElement
    <2>2. ~ (n <= Cardinality(s \ {x}))
        BY <1>1, <1>4, <2>1
    <2> QED BY <1>3, <2>1, <2>2
<1>6. s # {}
    BY <1>4
<1> QED BY <1>4, <1>5, <1>6

Pick(s) == CHOOSE x \in s : TRUE

\* g is the fold of f over the sets of S, in whatever order elements come.
IsFold(f, S, g) == g = [s \in S |-> IF s = {} THEN 0 ELSE f[Pick(s)] + g[s \ {Pick(s)}]]

\* The element a fold takes is in the set.
LEMMA Picked == ASSUME NEW s, s # {} PROVE Pick(s) \in s
BY DEF Pick

\* The parts of a set that have no more than k elements.
Small(D, k) == {s \in SUBSET D : Cardinality(s) <= k}

\* A fold over the parts of a finite set exists.
LEMMA FoldExists ==
    ASSUME NEW f, NEW D, IsFiniteSet(D)
    PROVE  \E g : IsFold(f, SUBSET D, g)
<1> DEFINE Bad == {k \in Nat : ~ \E g : IsFold(f, Small(D, k), g)}
<1>1. \A s \in SUBSET D : IsFiniteSet(s) /\ Cardinality(s) \in Nat
    BY FS_Subset, FS_CardinalityType
<1>2. Bad = {}
    <2> SUFFICES ASSUME Bad # {} PROVE FALSE
        OBVIOUS
    <2>1. PICK k \in Bad : \A m \in Bad : k <= m
        <3> HIDE DEF Bad
        <3>1. Bad \in SUBSET Nat
            BY DEF Bad
        <3> QED BY <3>1, Least
    <2>2. k \in Nat /\ ~ \E g : IsFold(f, Small(D, k), g)
        OBVIOUS
    <2>3. k # 0
        <3>1. Small(D, 0) = {{}}
            <4>1. ASSUME NEW s \in SUBSET D, Cardinality(s) <= 0 PROVE s = {}
                <5>1. Cardinality(s) = 0 /\ IsFiniteSet(s)
                    BY <1>1, <4>1
                <5> QED BY <5>1, FS_EmptySet
            <4>2. Cardinality({}) = 0 /\ {} \in SUBSET D
                BY FS_EmptySet
            <4>3. Small(D, 0) \subseteq {{}}
                BY <4>1 DEF Small
            <4>4. {} \in Small(D, 0)
                BY <4>2 DEF Small
            <4> QED BY <4>3, <4>4
        <3>2. IsFold(f, {{}}, [s \in {{}} |-> 0])
            BY DEF IsFold
        <3>3. \E g : IsFold(f, Small(D, 0), g)
            BY <3>1, <3>2
        <3> QED BY <2>2, <3>3
    <2>4. PICK g : IsFold(f, Small(D, k - 1), g)
        <3>1. k - 1 \in Nat /\ k - 1 \notin Bad
            BY <2>1, <2>2, <2>3
        <3> QED BY <3>1
    <2> DEFINE h == [s \in Small(D, k) |-> IF Cardinality(s) = k THEN f[Pick(s)] + g[s \ {Pick(s)}] ELSE g[s]]
    <2>5. ASSUME NEW s \in Small(D, k)
          PROVE  h[s] = IF s = {} THEN 0 ELSE f[Pick(s)] + h[s \ {Pick(s)}]
        <3>1. s \in SUBSET D /\ Cardinality(s) \in Nat /\ Cardinality(s) <= k
            BY <1>1 DEF Small
        <3>2. CASE s = {}
            <4>1. Cardinality(s) = 0 /\ s \in Small(D, k - 1)
                BY <2>2, <2>3, <3>1, <3>2, FS_EmptySet DEF Small
            <4>2. g[s] = 0
                BY <2>4, <3>2, <4>1 DEF IsFold
            <4> QED BY <2>3, <3>2, <4>1, <4>2
        <3>3. CASE s # {}
            <4> DEFINE t == s \ {Pick(s)}
            <4>1. Pick(s) \in s /\ t \in SUBSET D /\ Cardinality(t) = Cardinality(s) - 1
                BY <1>1, <3>1, <3>3, Picked, FS_RemoveElement
            <4> HIDE DEF t
            <4>2. t \in Small(D, k) /\ Cardinality(t) # k
                BY <2>2, <3>1, <4>1 DEF Small
            <4>3. h[t] = g[t]
                BY <4>2
            <4>4. CASE Cardinality(s) = k
                BY <3>3, <4>3, <4>4 DEF t
            <4>5. CASE Cardinality(s) # k
                <5>1. s \in Small(D, k - 1)
                    BY <2>2, <3>1, <4>5 DEF Small
                <5>2. g[s] = f[Pick(s)] + g[t]
                    BY <2>4, <3>3, <5>1 DEF IsFold, t
                <5>3. h[s] = g[s]
                    BY <4>5
                <5> QED BY <3>3, <4>3, <5>2, <5>3 DEF t
            <4> QED BY <4>4, <4>5
        <3> QED BY <3>2, <3>3
    <2>6. IsFold(f, Small(D, k), h)
        <3>1. h = [s \in Small(D, k) |-> h[s]]
            OBVIOUS
        <3> HIDE DEF h
        <3> QED BY <2>5, <3>1 DEF IsFold
    <2> QED BY <2>2, <2>6
<1>3. Small(D, Cardinality(D)) = SUBSET D
    BY FS_Subset DEF Small
<1>4. Cardinality(D) \in Nat
    BY FS_CardinalityType
<1>5. \E g : IsFold(f, Small(D, Cardinality(D)), g)
    BY <1>2, <1>4
<1> QED BY <1>3, <1>5

\* What a sum is, whichever element is taken out.
Sums(f, D, g) ==
    /\ g \in [SUBSET D -> Int]
    /\ g[{}] = 0
    /\ \A s \in SUBSET D : \A x \in s : g[s] = f[x] + g[s \ {x}]

\* A fold is a sum whatever element it takes.
LEMMA FoldSums ==
    ASSUME NEW f, NEW D, IsFiniteSet(D), \A x \in D : f[x] \in Int,
           NEW g, IsFold(f, SUBSET D, g)
    PROVE  Sums(f, D, g)
<1>1. DOMAIN g = SUBSET D /\ g[{}] = 0 /\ g = [s \in SUBSET D |-> g[s]]
    BY DEF IsFold
<1>2. ASSUME NEW s \in SUBSET D, s # {}
      PROVE  Pick(s) \in s /\ g[s] = f[Pick(s)] + g[s \ {Pick(s)}]
    BY <1>2, Picked DEF IsFold
<1>3. ASSUME NEW s \in SUBSET D PROVE g[s] \in Int
    <2> DEFINE Good == {t \in SUBSET D : g[t] \in Int}
    <2>1. {} \in Good
        BY <1>1
    <2>2. ASSUME NEW t \in SUBSET D, t # {}, \A x \in t : t \ {x} \in Good
          PROVE  t \in Good
        <3>1. Pick(t) \in t /\ g[t] = f[Pick(t)] + g[t \ {Pick(t)}]
            BY <1>2, <2>2
        <3>2. f[Pick(t)] \in Int /\ t \ {Pick(t)} \in Good
            BY <2>2, <3>1
        <3> QED BY <3>1, <3>2
    <2>3. Good = SUBSET D
        <3> HIDE DEF Good
        <3>1. Good \in SUBSET (SUBSET D)
            BY DEF Good
        <3> QED BY <2>1, <2>2, <3>1, Subsets
    <2> QED BY <2>3
<1> DEFINE Good == {s \in SUBSET D : \A x \in s : g[s] = f[x] + g[s \ {x}]}
<1>4. {} \in Good
    OBVIOUS
<1>5. ASSUME NEW s \in SUBSET D, s # {}, \A x \in s : s \ {x} \in Good
      PROVE  s \in Good
    <2> DEFINE y == Pick(s)
    <2>1. y \in s /\ g[s] = f[y] + g[s \ {y}] /\ f[y] \in Int
        BY <1>2, <1>5
    <2> HIDE DEF y
    <2>2. ASSUME NEW x \in s, x # y PROVE g[s] = f[x] + g[s \ {x}]
        <3> DEFINE t == (s \ {y}) \ {x}
        <3>1. x \in s \ {y} /\ y \in s \ {x} /\ f[x] \in Int
            BY <2>1, <2>2
        <3>2. t = (s \ {x}) \ {y} /\ t \in SUBSET D
            OBVIOUS
        <3>3. g[s \ {y}] = f[x] + g[t]
            BY <1>5, <2>1, <3>1
        <3>4. g[s \ {x}] = f[y] + g[t]
            BY <1>5, <3>1, <3>2
        <3>5. g[t] \in Int
            BY <1>3, <3>2
        <3> HIDE DEF t
        <3> QED BY <2>1, <3>1, <3>3, <3>4, <3>5
    <2> QED BY <2>1, <2>2
<1>6. Good = SUBSET D
    <2> HIDE DEF Good
    <2>1. Good \in SUBSET (SUBSET D)
        BY DEF Good
    <2> QED BY <1>4, <1>5, <2>1, Subsets
<1> QED BY <1>1, <1>3, <1>6 DEF Sums

\* Total adds the values of a function up.
LEMMA TotalSums ==
    ASSUME NEW D, IsFiniteSet(D), NEW f, DOMAIN f = D, \A x \in D : f[x] \in Int
    PROVE  \E g : Sums(f, D, g) /\ Total(f) = g[D]
<1> DEFINE g == CHOOSE h : IsFold(f, SUBSET D, h)
<1>1. IsFold(f, SUBSET D, g)
    BY FoldExists
<1>2. Total(f) = g[D]
    BY DEF Total, FoldFunction, FoldFunctionOnSet, MapThenFoldSet, IsFold, Pick
<1> HIDE DEF g
<1>3. Sums(f, D, g)
    BY <1>1, FoldSums
<1> QED BY <1>2, <1>3

\* Balance adds the amounts of some lines up.
LEMMA BalanceSums ==
    ASSUME NEW L, IsFiniteSet(L), \A l \in L : l[2] \in Int
    PROVE  \E g : Sums([l \in L |-> l[2]], L, g) /\ Balance(L) = g[L]
<1> DEFINE f == [l \in L |-> l[2]]
           g == CHOOSE h : h = [s \in SUBSET L |-> IF s = {} THEN 0 ELSE Pick(s)[2] + h[s \ {Pick(s)}]]
<1>1. ASSUME NEW h
      PROVE  [s \in SUBSET L |-> IF s = {} THEN 0 ELSE Pick(s)[2] + h[s \ {Pick(s)}]]
             = [s \in SUBSET L |-> IF s = {} THEN 0 ELSE f[Pick(s)] + h[s \ {Pick(s)}]]
    <2>1. ASSUME NEW s \in SUBSET L, s # {} PROVE Pick(s)[2] = f[Pick(s)]
        BY <2>1, Picked
    <2> HIDE DEF f
    <2> QED BY <2>1
<1>2. Balance(L) = g[L]
    BY DEF Balance, MapThenSumSet, MapThenFoldSet, Pick
<1>3. IsFold(f, SUBSET L, g)
    <2> HIDE DEF f
    <2>1. PICK h : IsFold(f, SUBSET L, h)
        BY FoldExists
    <2>2. h = [s \in SUBSET L |-> IF s = {} THEN 0 ELSE Pick(s)[2] + h[s \ {Pick(s)}]]
        BY <1>1, <2>1 DEF IsFold
    <2>3. g = [s \in SUBSET L |-> IF s = {} THEN 0 ELSE Pick(s)[2] + g[s \ {Pick(s)}]]
        BY <2>2
    <2> HIDE DEF g
    <2> QED BY <1>1, <2>3 DEF IsFold
<1>4. \A l \in L : f[l] \in Int
    OBVIOUS
<1> HIDE DEF f, g
<1>5. Sums(f, L, g)
    BY <1>3, <1>4, FoldSums
<1> QED BY <1>2, <1>5 DEF f

\* A total of integers is an integer.
LEMMA TotalInt ==
    ASSUME NEW D, IsFiniteSet(D), NEW f \in [D -> Int]
    PROVE  Total(f) \in Int
<1>1. PICK g : Sums(f, D, g) /\ Total(f) = g[D]
    BY TotalSums
<1> QED BY <1>1 DEF Sums

\* Where no value is more, neither is the total.
LEMMA TotalBelow ==
    ASSUME NEW D, IsFiniteSet(D), NEW f \in [D -> Int], NEW h \in [D -> Int],
           \A x \in D : f[x] <= h[x]
    PROVE  Total(f) <= Total(h)
<1>1. PICK g : Sums(f, D, g) /\ Total(f) = g[D]
    BY TotalSums
<1>2. PICK k : Sums(h, D, k) /\ Total(h) = k[D]
    BY TotalSums
<1> DEFINE Good == {s \in SUBSET D : g[s] <= k[s]}
<1>3. {} \in Good
    BY <1>1, <1>2 DEF Sums
<1>4. ASSUME NEW s \in SUBSET D, s # {}, \A x \in s : s \ {x} \in Good
      PROVE  s \in Good
    <2>1. PICK x \in s : TRUE
        BY <1>4
    <2>2. g[s] = f[x] + g[s \ {x}] /\ k[s] = h[x] + k[s \ {x}]
        BY <1>1, <1>2 DEF Sums
    <2>3. g[s \ {x}] <= k[s \ {x}] /\ g[s \ {x}] \in Int /\ k[s \ {x}] \in Int
        BY <1>1, <1>2, <1>4 DEF Sums
    <2>4. f[x] <= h[x] /\ f[x] \in Int /\ h[x] \in Int
        OBVIOUS
    <2> QED BY <2>2, <2>3, <2>4
<1>5. Good = SUBSET D
    <2> HIDE DEF Good
    <2>1. Good \in SUBSET (SUBSET D)
        BY DEF Good
    <2> QED BY <1>3, <1>4, <2>1, Subsets
<1> QED BY <1>1, <1>2, <1>5

\* The total of sums is the sum of the totals.
LEMMA TotalAdds ==
    ASSUME NEW D, IsFiniteSet(D), NEW f \in [D -> Int], NEW h \in [D -> Int],
           NEW p \in [D -> Int], \A x \in D : p[x] = f[x] + h[x]
    PROVE  Total(p) = Total(f) + Total(h)
<1>1. PICK g : Sums(f, D, g) /\ Total(f) = g[D]
    BY TotalSums
<1>2. PICK k : Sums(h, D, k) /\ Total(h) = k[D]
    BY TotalSums
<1>3. PICK q : Sums(p, D, q) /\ Total(p) = q[D]
    BY TotalSums
<1> DEFINE Good == {s \in SUBSET D : q[s] = g[s] + k[s]}
<1>4. {} \in Good
    BY <1>1, <1>2, <1>3 DEF Sums
<1>5. ASSUME NEW s \in SUBSET D, s # {}, \A x \in s : s \ {x} \in Good
      PROVE  s \in Good
    <2>1. PICK x \in s : TRUE
        BY <1>5
    <2>2. g[s] = f[x] + g[s \ {x}] /\ k[s] = h[x] + k[s \ {x}] /\ q[s] = p[x] + q[s \ {x}]
        BY <1>1, <1>2, <1>3 DEF Sums
    <2>3. q[s \ {x}] = g[s \ {x}] + k[s \ {x}]
        BY <1>5
    <2>4. g[s \ {x}] \in Int /\ k[s \ {x}] \in Int
        BY <1>1, <1>2 DEF Sums
    <2>5. p[x] = f[x] + h[x] /\ f[x] \in Int /\ h[x] \in Int
        OBVIOUS
    <2> QED BY <2>2, <2>3, <2>4, <2>5
<1>6. Good = SUBSET D
    <2> HIDE DEF Good
    <2>1. Good \in SUBSET (SUBSET D)
        BY DEF Good
    <2> QED BY <1>4, <1>5, <2>1, Subsets
<1> QED BY <1>1, <1>2, <1>3, <1>6

\* The total of multiples is the multiple of the total.
LEMMA TotalTimes ==
    ASSUME NEW D, IsFiniteSet(D), NEW f \in [D -> Int], NEW c \in Int,
           NEW p \in [D -> Int], \A x \in D : p[x] = c * f[x]
    PROVE  Total(p) = c * Total(f)
<1>1. PICK g : Sums(f, D, g) /\ Total(f) = g[D]
    BY TotalSums
<1>2. PICK q : Sums(p, D, q) /\ Total(p) = q[D]
    BY TotalSums
<1> DEFINE Good == {s \in SUBSET D : q[s] = c * g[s]}
<1>3. {} \in Good
    BY <1>1, <1>2 DEF Sums
<1>4. ASSUME NEW s \in SUBSET D, s # {}, \A x \in s : s \ {x} \in Good
      PROVE  s \in Good
    <2>1. PICK x \in s : TRUE
        BY <1>4
    <2> DEFINE rest == g[s \ {x}]
    <2>2. g[s] = f[x] + rest /\ q[s] = p[x] + q[s \ {x}]
        BY <1>1, <1>2 DEF Sums
    <2>3. q[s \ {x}] = c * rest
        BY <1>4
    <2>4. rest \in Int
        BY <1>1 DEF Sums
    <2>5. p[x] = c * f[x] /\ f[x] \in Int
        OBVIOUS
    <2> HIDE DEF rest
    <2>6. c * (f[x] + rest) = c * f[x] + c * rest
        BY <2>4, <2>5
    <2> QED BY <2>2, <2>3, <2>5, <2>6
<1>5. Good = SUBSET D
    <2> HIDE DEF Good
    <2>1. Good \in SUBSET (SUBSET D)
        BY DEF Good
    <2> QED BY <1>3, <1>4, <2>1, Subsets
<1> QED BY <1>1, <1>2, <1>5

\* One for each element of a part adds up to its size.
LEMMA TotalCounts ==
    ASSUME NEW D, IsFiniteSet(D), NEW A \in SUBSET D, NEW f \in [D -> Int],
           \A x \in D : f[x] = IF x \in A THEN 1 ELSE 0
    PROVE  Total(f) = Cardinality(A)
<1>1. PICK g : Sums(f, D, g) /\ Total(f) = g[D]
    BY TotalSums
<1> DEFINE Good == {s \in SUBSET D : g[s] = Cardinality(s \cap A)}
<1>2. {} \in Good
    <2>1. {} \cap A = {} /\ Cardinality({}) = 0
        BY FS_EmptySet
    <2> QED BY <1>1, <2>1 DEF Sums
<1>3. ASSUME NEW s \in SUBSET D, s # {}, \A x \in s : s \ {x} \in Good
      PROVE  s \in Good
    <2>1. PICK x \in s : TRUE
        BY <1>3
    <2>2. g[s] = f[x] + g[s \ {x}] /\ g[s \ {x}] = Cardinality((s \ {x}) \cap A)
        BY <1>1, <1>3 DEF Sums
    <2>3. IsFiniteSet(s \cap A)
        BY FS_Subset
    <2>4. (s \ {x}) \cap A = (s \cap A) \ {x} /\ (x \in A <=> x \in s \cap A)
        OBVIOUS
    <2>5. Cardinality((s \cap A) \ {x}) =
              IF x \in s \cap A THEN Cardinality(s \cap A) - 1 ELSE Cardinality(s \cap A)
        BY <2>3, FS_RemoveElement
    <2>6. f[x] = IF x \in A THEN 1 ELSE 0
        OBVIOUS
    <2>7. Cardinality(s \cap A) \in Nat
        BY <2>3, FS_CardinalityType
    <2>8. g[s \ {x}] = Cardinality((s \cap A) \ {x})
        BY <2>2, <2>4
    <2>9. CASE x \in A
        BY <2>2, <2>4, <2>5, <2>6, <2>7, <2>8, <2>9
    <2>10. CASE x \notin A
        BY <2>2, <2>4, <2>5, <2>6, <2>7, <2>8, <2>10
    <2> QED BY <2>9, <2>10
<1>4. Good = SUBSET D
    <2> HIDE DEF Good
    <2>1. Good \in SUBSET (SUBSET D)
        BY DEF Good
    <2> QED BY <1>2, <1>3, <2>1, Subsets
<1>5. D \cap A = A
    OBVIOUS
<1> QED BY <1>1, <1>4, <1>5

\* No value of a function of amounts is more than the total.
LEMMA TotalHolds ==
    ASSUME NEW D, IsFiniteSet(D), NEW f \in [D -> Nat], NEW e \in D
    PROVE  f[e] <= Total(f)
<1> DEFINE one == [x \in D |-> IF x = e THEN 1 ELSE 0]
           p == [x \in D |-> f[e] * one[x]]
<1>1. one \in [D -> Int] /\ \A x \in D : one[x] = IF x \in {e} THEN 1 ELSE 0
    OBVIOUS
<1>2. Total(one) = 1
    <2>1. Cardinality({e}) = 1
        BY FS_Singleton
    <2> HIDE DEF one
    <2> QED BY <1>1, <2>1, TotalCounts
<1>3. p \in [D -> Int] /\ \A x \in D : p[x] = f[e] * one[x] /\ p[x] <= f[x]
    OBVIOUS
<1> HIDE DEF p, one
<1>4. Total(p) = f[e] * Total(one)
    BY <1>1, <1>3, TotalTimes
<1>5. Total(p) <= Total(f)
    BY <1>3, TotalBelow
<1> QED BY <1>2, <1>4, <1>5

-----------------------------------------------------------------------------
\* The order of the remainders gives each engineer a place of its own, so as
\* many engineers have one of the first places as there are first places.
LEMMA PlacesCount ==
    ASSUME NEW D \in SUBSET Nat, IsFiniteSet(D), NEW share \in [D -> Nat], NEW net \in Nat,
           NEW k \in 0..Cardinality(D)
    PROVE  Cardinality({e \in D : Cardinality({f \in D : Before(net, share, f, e)}) < k}) = k
<1> DEFINE Ahead(e) == {f \in D : Before(net, share, f, e)}
           rank == [e \in D |-> Cardinality(Ahead(e))]
           n == Cardinality(D)
           W == {e \in D : rank[e] < k}
<1>1. n \in Nat /\ k \in 0..n
    BY FS_CardinalityType
<1>2. \A e \in D : Rest(net, share, e) \in Nat
    <2>1. ASSUME NEW e \in D PROVE Rest(net, share, e) \in Nat
        <3>1. net * share[e] \in Nat
            OBVIOUS
        <3> QED BY <3>1, ScaleAssumption DEF Rest, Exact
    <2> QED BY <2>1
<1>3. \A e \in D : IsFiniteSet(Ahead(e)) /\ Cardinality(Ahead(e)) \in Nat
    BY FS_Subset, FS_CardinalityType
<1>4. ASSUME NEW e \in D, NEW f \in D, Before(net, share, e, f)
      PROVE  rank[e] < rank[f]
    <2>1. e \notin Ahead(e) /\ e \in Ahead(f)
        BY <1>2, <1>4 DEF Before
    <2>2. Ahead(e) \subseteq Ahead(f)
        <3>1. ASSUME NEW g \in D, Before(net, share, g, e) PROVE Before(net, share, g, f)
            <4>1. e \in Nat /\ f \in Nat /\ g \in Nat
                OBVIOUS
            <4> QED BY <1>2, <1>4, <3>1, <4>1 DEF Before
        <3> QED BY <3>1
    <2> HIDE DEF Ahead
    <2>3. Cardinality(Ahead(e)) <= Cardinality(Ahead(f))
        BY <1>3, <2>2, FS_Subset
    <2>4. Cardinality(Ahead(e)) # Cardinality(Ahead(f))
        BY <1>3, <2>1, <2>2, FS_Subset
    <2> QED BY <1>3, <2>3, <2>4
<1>5. ASSUME NEW e \in D PROVE rank[e] \in 0..(n - 1)
    <2>1. Ahead(e) \subseteq D \ {e}
        BY <1>2 DEF Before
    <2>2. Cardinality(D \ {e}) = n - 1 /\ IsFiniteSet(D \ {e})
        BY FS_RemoveElement
    <2> HIDE DEF Ahead, n
    <2>3. Cardinality(Ahead(e)) <= n - 1
        BY <2>1, <2>2, FS_Subset
    <2> QED BY <1>1, <1>3, <2>3
<1>6. ASSUME NEW e \in D, NEW f \in D, e # f PROVE rank[e] # rank[f]
    <2>1. Before(net, share, e, f) \/ Before(net, share, f, e)
        BY <1>2, <1>6 DEF Before
    <2>2. rank[e] \in Nat /\ rank[f] \in Nat
        BY <1>3
    <2> HIDE DEF rank
    <2> QED BY <1>4, <2>1, <2>2
<1> HIDE DEF n
<1>7. IsFiniteSet(0..(n - 1)) /\ Cardinality(0..(n - 1)) = n
    <2>1. 0 \in Int /\ n - 1 \in Int /\ n \in Int
        BY <1>1
    <2>2. Cardinality(0..(n - 1)) = IF 0 > n - 1 THEN 0 ELSE n - 1 - 0 + 1
        BY <2>1, FS_Interval
    <2> QED BY <1>1, <2>1, <2>2, FS_Interval
<1>8. rank \in [D -> 0..(n - 1)]
    BY <1>5
<1> HIDE DEF rank
<1>9. rank \in Surjection(D, 0..(n - 1))
    <2>1. rank \in Injection(D, 0..(n - 1))
        BY <1>6, <1>8 DEF Injection, IsInjective
    <2> QED BY <1>7, <2>1, FS_Injection DEF n
<1> DEFINE first == [e \in W |-> rank[e]]
<1>10. IsFiniteSet(0..(k - 1)) /\ Cardinality(0..(k - 1)) = k
    <2>1. 0 \in Int /\ k - 1 \in Int /\ k \in Nat
        BY <1>1
    <2>2. Cardinality(0..(k - 1)) = IF 0 > k - 1 THEN 0 ELSE k - 1 - 0 + 1
        BY <2>1, FS_Interval
    <2> QED BY <2>1, <2>2, FS_Interval
<1>11. W \subseteq D /\ IsFiniteSet(W)
    BY FS_Subset
<1>12. first \in [W -> 0..(k - 1)]
    <2>1. ASSUME NEW e \in W PROVE rank[e] \in 0..(k - 1)
        <3>1. e \in D /\ rank[e] < k
            OBVIOUS
        <3>2. rank[e] \in 0..(n - 1)
            BY <1>5, <3>1
        <3> QED BY <1>1, <3>1, <3>2
    <2> HIDE DEF W
    <2> QED BY <2>1
<1>13. first \in Injection(W, 0..(k - 1))
    <2>1. \A e, f \in W : first[e] = first[f] => e = f
        BY <1>6
    <2> HIDE DEF first, W
    <2> QED BY <1>12, <2>1 DEF Injection, IsInjective
<1>14. first \in Surjection(W, 0..(k - 1))
    <2>1. ASSUME NEW t \in 0..(k - 1) PROVE \E e \in W : first[e] = t
        <3>1. t \in 0..(n - 1) /\ t < k
            BY <1>1
        <3>2. PICK e \in D : rank[e] = t
            BY <1>9, <3>1 DEF Surjection
        <3> QED BY <3>1, <3>2
    <2> HIDE DEF first, W
    <2> QED BY <1>12, <2>1 DEF Surjection
<1>15. Cardinality(W) = k
    <2> HIDE DEF first, W
    <2>1. Cardinality(W) <= k
        BY <1>10, <1>13, FS_Injection
    <2>2. k <= Cardinality(W)
        BY <1>10, <1>11, <1>14, FS_Surjection
    <2>3. Cardinality(W) \in Nat
        BY <1>11, FS_CardinalityType
    <2> QED BY <2>1, <2>2, <2>3
<1> QED BY <1>15 DEF rank

\* The slices of whole credits: amounts, together the net, each less than a
\* unit from its exact part.
LEMMA SlicesShare ==
    ASSUME NEW net \in Nat, NEW share \in Credits
    PROVE  /\ Slices(net, share) \in [DOMAIN share -> Nat]
           /\ Total(Slices(net, share)) = net
           /\ \A e \in DOMAIN share :
                Magnitude(Slices(net, share)[e] * Scale - net * share[e]) < Scale
<1> DEFINE D == DOMAIN share
           F == Floors(net, share)
           R == [e \in D |-> Rest(net, share, e)]
           X == [e \in D |-> net * share[e]]
           S == Slices(net, share)
           k == Leftover(net, share)
           W == {e \in D : Cardinality({f \in D : Before(net, share, f, e)}) < k}
           T == {e \in D : R[e] > 0}
           more == [e \in D |-> IF e \in W THEN 1 ELSE 0]
           some == [e \in D |-> IF e \in T THEN 1 ELSE 0]
<1>1. /\ D \in SUBSET Nat /\ IsFiniteSet(D)
      /\ share \in [D -> Nat] /\ Total(share) = Scale
    <2>1. PICK E \in SUBSET Engineers : share \in [E -> 1..Scale]
        BY Zenon DEF Credits
    <2>2. Total(share) = Scale
        BY Zenon DEF Credits
    <2>3. D = E /\ IsFiniteSet(E) /\ E \in SUBSET Nat
        BY <2>1, EngineersAssumption, FS_Subset
    <2> QED BY <2>1, <2>2, <2>3, ScaleAssumption
<1>2. Scale \in Nat \ {0}
    BY ScaleAssumption
<1>3. ASSUME NEW e \in D
      PROVE  X[e] \in Nat /\ F[e] \in Nat /\ R[e] \in 0..(Scale - 1) /\ X[e] = Scale * F[e] + R[e]
    <2> DEFINE x == net * share[e]
    <2>1. x \in Nat
        BY <1>1
    <2>2. F[e] = x \div Scale /\ R[e] = x % Scale /\ X[e] = x
        BY DEF Floors, Rest, Exact
    <2> HIDE DEF x, F, R, X
    <2> QED BY <1>2, <2>1, <2>2
<1>4. F \in [D -> Nat]
    <2>1. F = [e \in D |-> F[e]]
        BY DEF Floors
    <2> HIDE DEF F
    <2> QED BY <1>3, <2>1
<1>5. R \in [D -> Int] /\ X \in [D -> Int] /\ more \in [D -> Int] /\ some \in [D -> Int]
    BY <1>3
<1>6. S = [e \in D |-> F[e] + more[e]]
    BY DEF Slices
<1>7. k = net - Total(F)
    BY DEF Leftover
<1>8. W \in SUBSET D /\ T \in SUBSET D
    OBVIOUS
<1>9. \A e \in D : /\ X[e] = net * share[e]
                   /\ R[e] = Rest(net, share, e)
                   /\ more[e] = (IF e \in W THEN 1 ELSE 0)
                   /\ some[e] = (IF e \in T THEN 1 ELSE 0)
                   /\ e \in T <=> R[e] > 0
                   /\ e \in W <=> Cardinality({f \in D : Before(net, share, f, e)}) < k
    OBVIOUS
<1>10. W = {e \in D : Cardinality({f \in D : Before(net, share, f, e)}) < k}
    OBVIOUS
<1> HIDE DEF D, F, R, X, S, k, W, T, more, some
<1>11. Total(X) = net * Scale
    <2>1. net \in Int /\ IsFiniteSet(D) /\ share \in [D -> Int]
        BY <1>1
    <2>2. \A e \in D : X[e] = net * share[e]
        BY Zenon, <1>9
    <2>3. Total(X) = net * Total(share)
        BY <1>5, <2>1, <2>2, TotalTimes
    <2> QED BY <1>1, <2>3
<1>12. Total(F) \in Int /\ Total(R) \in Int
    <2>1. IsFiniteSet(D) /\ F \in [D -> Int] /\ R \in [D -> Int]
        BY <1>1, <1>4, <1>5
    <2> QED BY <2>1, TotalInt
<1>13. net * Scale = Scale * Total(F) + Total(R)
    <2> DEFINE G == [e \in D |-> Scale * F[e]]
    <2>1. /\ IsFiniteSet(D) /\ F \in [D -> Int] /\ Scale \in Int /\ G \in [D -> Int]
          /\ \A e \in D : G[e] = Scale * F[e]
        BY <1>1, <1>2, <1>4
    <2>2. /\ R \in [D -> Int] /\ X \in [D -> Int]
          /\ \A e \in D : X[e] = G[e] + R[e]
        BY <1>3, <1>5
    <2> HIDE DEF G
    <2>3. Total(G) = Scale * Total(F)
        BY <2>1, TotalTimes
    <2>4. Total(X) = Total(G) + Total(R)
        BY <2>1, <2>2, TotalAdds
    <2> QED BY <1>11, <2>3, <2>4
<1>14. Scale * k = Total(R) /\ k \in Int
    <2>1. Scale * (net - Total(F)) = Scale * net - Scale * Total(F)
        BY <1>2, <1>12
    <2>2. net * Scale = Scale * net
        BY <1>2
    <2>3. Scale * net \in Int /\ Scale * Total(F) \in Int
        BY <1>2, <1>12
    <2> QED BY <1>7, <1>12, <1>13, <2>1, <2>2, <2>3
<1>15. Cardinality(T) \in Nat /\ Cardinality(D) \in Nat /\ Cardinality(T) <= Cardinality(D)
    BY <1>1, <1>8, FS_Subset, FS_CardinalityType
<1>16. Total(R) >= 0 /\ Total(R) <= (Scale - 1) * Cardinality(T)
    <2> DEFINE none == [e \in D |-> 0]
               top == [e \in D |-> (Scale - 1) * some[e]]
    <2>1. none \in [D -> Int] /\ \A e \in D : none[e] <= R[e]
        BY <1>3
    <2>2. ASSUME NEW e \in D PROVE top[e] \in Int /\ R[e] <= top[e]
        <3>1. top[e] = (Scale - 1) * some[e] /\ R[e] \in 0..(Scale - 1)
            BY <1>3
        <3>2. CASE R[e] > 0
            <4>1. some[e] = 1
                BY <1>9, <3>2
            <4> QED BY <1>2, <3>1, <4>1
        <3>3. CASE ~ (R[e] > 0)
            <4>1. some[e] = 0
                BY <1>9, <3>3
            <4> QED BY <1>2, <3>1, <3>3, <4>1
        <3> QED BY <3>2, <3>3
    <2>3. /\ IsFiniteSet(D) /\ share \in [D -> Int] /\ 0 \in Int
          /\ \A e \in D : none[e] = 0 * share[e]
        BY <1>1
    <2>4. top \in [D -> Int] /\ some \in [D -> Int] /\ R \in [D -> Int] /\ Scale - 1 \in Int
        BY <1>2, <1>5, <2>2
    <2>5. \A e \in D : top[e] = (Scale - 1) * some[e]
        OBVIOUS
    <2> HIDE DEF none, top
    <2>6. Total(none) = 0 * Total(share)
        BY <2>1, <2>3, TotalTimes
    <2>7. Total(none) <= Total(R)
        BY <2>1, <2>3, <2>4, TotalBelow
    <2>8. Total(R) <= Total(top)
        BY <2>2, <2>3, <2>4, TotalBelow
    <2>9. Total(top) = (Scale - 1) * Total(some)
        BY <2>3, <2>4, <2>5, TotalTimes
    <2>10. Total(some) = Cardinality(T)
        <3>1. \A e \in D : some[e] = IF e \in T THEN 1 ELSE 0
            BY <1>9
        <3> QED BY <1>8, <2>3, <2>4, <3>1, TotalCounts
    <2>11. 0 * Total(share) = 0
        BY <1>1, <1>2
    <2> QED BY <1>12, <2>6, <2>7, <2>8, <2>9, <2>10, <2>11
<1>17. k \in Nat /\ k <= Cardinality(T)
    <2>1. k >= 0
        BY <1>2, <1>14, <1>16
    <2>2. Scale * k <= (Scale - 1) * Cardinality(T)
        BY <1>14, <1>16
    <2>3. k <= Cardinality(T)
        <3> SUFFICES ASSUME k >= Cardinality(T) + 1 PROVE FALSE
            BY <1>14, <1>15
        <3> DEFINE t == Cardinality(T)
        <3>1. Scale * k >= Scale * (t + 1)
            BY <1>2, <1>14, <1>15
        <3>2. Scale * (t + 1) = Scale * t + Scale /\ (Scale - 1) * t = Scale * t - t
            BY <1>2, <1>15
        <3>3. Scale * t \in Nat /\ Scale * k \in Int
            BY <1>2, <1>14, <1>15
        <3> HIDE DEF t
        <3>4. t \in Nat
            BY <1>15 DEF t
        <3>5. Scale * k <= Scale * t - t
            BY <2>2, <3>2 DEF t
        <3> QED BY <1>2, <3>1, <3>2, <3>3, <3>4, <3>5
    <2> QED BY <1>14, <2>1, <2>3
<1>18. Cardinality(W) = k
    <2>1. k \in 0..Cardinality(D)
        BY <1>15, <1>17
    <2> QED BY <1>1, <1>10, <2>1, PlacesCount
<1>19. ASSUME NEW e \in W PROVE R[e] > 0
    <2> SUFFICES ASSUME R[e] = 0 PROVE FALSE
        BY <1>3, <1>8
    <2> DEFINE A == {f \in D : Before(net, share, f, e)}
    <2>1. T \subseteq A
        BY <1>3, <1>8, <1>9 DEF Before
    <2>2. IsFiniteSet(A)
        BY <1>1, FS_Subset
    <2>3. Cardinality(A) < k
        BY <1>8, <1>9
    <2> HIDE DEF A
    <2>4. Cardinality(T) <= Cardinality(A) /\ Cardinality(A) \in Nat
        BY <2>1, <2>2, FS_Subset, FS_CardinalityType
    <2> QED BY <1>15, <1>17, <2>3, <2>4
<1>20. S \in [D -> Nat]
    <2>1. ASSUME NEW e \in D PROVE F[e] + more[e] \in Nat
        <3>1. more[e] \in {0, 1}
            BY <1>9
        <3> QED BY <1>3, <3>1
    <2> QED BY <1>6, <2>1
<1>21. Total(S) = net
    <2>1. Total(more) = k
        <3>1. \A e \in D : more[e] = IF e \in W THEN 1 ELSE 0
            BY <1>9
        <3>2. Total(more) = Cardinality(W)
            BY <1>1, <1>5, <1>8, <3>1, TotalCounts
        <3> QED BY <1>18, <3>2
    <2>2. S \in [D -> Int] /\ F \in [D -> Int] /\ more \in [D -> Int] /\ IsFiniteSet(D)
        BY <1>1, <1>4, <1>5, <1>20
    <2>3. \A e \in D : S[e] = F[e] + more[e]
        BY <1>6
    <2>4. Total(S) = Total(F) + Total(more)
        BY <2>2, <2>3, TotalAdds
    <2> QED BY <1>7, <1>12, <2>1, <2>4
<1>22. ASSUME NEW e \in D PROVE Magnitude(S[e] * Scale - net * share[e]) < Scale
    <2>1. X[e] = net * share[e] /\ S[e] = F[e] + more[e]
        BY <1>6, <1>9
    <2> DEFINE q == F[e]
    <2>2. /\ q \in Nat /\ R[e] \in 0..(Scale - 1) /\ X[e] = Scale * q + R[e]
          /\ Scale * q \in Nat /\ q * Scale = Scale * q
        BY <1>2, <1>3
    <2> HIDE DEF q
    <2>3. CASE e \in W
        <3>1. R[e] > 0 /\ S[e] = q + 1
            BY <1>9, <1>19, <2>1, <2>3 DEF q
        <3>2. (q + 1) * Scale = q * Scale + Scale
            BY <1>2, <2>2
        <3> QED BY <1>2, <2>1, <2>2, <3>1, <3>2 DEF Magnitude
    <2>4. CASE e \notin W
        <3>1. more[e] = 0
            BY <1>9, <2>4
        <3>2. S[e] = q
            BY <2>1, <2>2, <3>1 DEF q
        <3> QED BY <1>2, <2>1, <2>2, <3>2 DEF Magnitude
    <2> QED BY <2>3, <2>4
<1> QED BY <1>20, <1>21, <1>22 DEF D, S

-----------------------------------------------------------------------------
\* Less paid for is less to share: a discount never lowers the tax by more
\* than itself.
LEMMA NetGrows ==
    ASSUME NEW paid \in Nat, NEW price \in Nat, paid <= price, NEW rate \in 0..Scale
    PROVE  paid - TaxIn(paid, rate) <= price - TaxIn(price, rate)
<1> DEFINE d == Scale + rate
           h == d \div 2
           off == price - paid
           t == TaxIn(price, rate)
           u == TaxIn(paid, rate)
<1>1. /\ d \in Nat \ {0} /\ h \in Nat /\ rate \in Nat /\ rate <= d /\ off \in Nat
      /\ price = paid + off
    BY ScaleAssumption
<1>2. t = (price * rate + h) \div d /\ u = (paid * rate + h) \div d
    BY ScaleAssumption DEF TaxIn, RoundDiv
<1> HIDE DEF d, h, off, t, u
<1>3. paid * rate \in Nat /\ off * rate \in Nat /\ price * rate = paid * rate + off * rate
    BY <1>1
<1>4. off * rate <= d * off /\ d * off \in Nat
    <2>1. rate * off <= d * off /\ d * off \in Nat
        BY <1>1
    <2> QED BY <1>1, <2>1
<1>5. t \in Nat /\ d * t <= price * rate + h
    <2>1. price * rate + h \in Nat
        BY <1>1, <1>3
    <2> QED BY <1>1, <1>2, <2>1, Quotient
<1>6. u \in Nat /\ paid * rate + h < d * u + d
    <2>1. paid * rate + h \in Nat
        BY <1>1, <1>3
    <2> QED BY <1>1, <1>2, <2>1, Quotient
<1>7. d * (u + off) = d * u + d * off /\ d * u \in Nat /\ d * t \in Nat /\ u + off \in Nat
    BY <1>1, <1>5, <1>6
<1>8. d * t < d * (u + off) + d
    BY <1>1, <1>3, <1>4, <1>5, <1>6, <1>7
<1>9. t <= u + off
    BY <1>1, <1>5, <1>7, <1>8, Below
<1> QED BY <1>1, <1>5, <1>6, <1>9 DEF t, u

\* Each pay but a capped one is within half a unit of its exact part.
LEMMA PayIsNear ==
    ASSUME NEW a \in Agreement, NEW pot \in Nat, NEW base \in Nat, pot <= base
    PROVE  /\ a.model = "PERCENTAGE" =>
                2 * Magnitude(Pay(a, pot, base) * Scale - pot * a.bp) <= Scale
           /\ a.model = "FIXED_ENGINEER" /\ a.engineer <= base =>
                2 * Magnitude(Pay(a, pot, base) * base - a.engineer * pot) <= base
           /\ a.model = "FIXED_PLATFORM" /\ a.platform <= base =>
                2 * Magnitude((pot - Pay(a, pot, base)) * base - a.platform * pot) <= base
           /\ a.model = "FIXED_BOTH" =>
                2 * Magnitude(Pay(a, pot, base) * (a.engineer + a.platform) - pot * a.engineer)
                    <= a.engineer + a.platform
<1>1. ASSUME a.model = "PERCENTAGE"
      PROVE  2 * Magnitude(Pay(a, pot, base) * Scale - pot * a.bp) <= Scale
    <2> DEFINE rest == Scale - a.bp
               r == PercentOf(pot, rest)
    <2>1. a.bp \in 0..Scale /\ rest \in 0..Scale /\ a.bp = Scale - rest /\ Scale \in Nat
        BY <1>1, ScaleAssumption DEF Agreement
    <2>2. Pay(a, pot, base) = pot - r
        BY <1>1 DEF Pay
    <2> HIDE DEF rest
    <2>3. r \in 0..pot /\ 2 * Magnitude(r * Scale - pot * rest) <= Scale
        BY <2>1, PercentCorrect
    <2> HIDE DEF r
    <2>4. /\ (pot - r) * Scale = pot * Scale - r * Scale
          /\ pot * (Scale - rest) = pot * Scale - pot * rest
          /\ pot * Scale \in Int /\ r * Scale \in Int /\ pot * rest \in Int
        BY <2>1, <2>3
    <2> QED BY <2>1, <2>2, <2>3, <2>4 DEF Magnitude
<1>2. ASSUME a.model = "FIXED_ENGINEER", a.engineer <= base
      PROVE  2 * Magnitude(Pay(a, pot, base) * base - a.engineer * pot) <= base
    <2>1. a.engineer \in Nat
        BY <1>2 DEF Agreement
    <2>2. Pay(a, pot, base) = Smaller(ScaleFixed(a.engineer, pot, base), pot)
        BY <1>2 DEF Pay
    <2> QED BY <1>2, <2>1, <2>2, PayIsFair
<1>3. ASSUME a.model = "FIXED_PLATFORM", a.platform <= base
      PROVE  2 * Magnitude((pot - Pay(a, pot, base)) * base - a.platform * pot) <= base
    <2> DEFINE part == Smaller(ScaleFixed(a.platform, pot, base), pot)
    <2>1. a.platform \in Nat
        BY <1>3 DEF Agreement
    <2>2. Pay(a, pot, base) = pot - part
        BY <1>3 DEF Pay
    <2>3. part \in Nat
        BY <2>1, ScaledFixed DEF Smaller
    <2>4. 2 * Magnitude(part * base - a.platform * pot) <= base
        BY <1>3, <2>1, PayIsFair
    <2> HIDE DEF part
    <2>5. pot - Pay(a, pot, base) = part
        BY <2>2, <2>3
    <2> QED BY <2>4, <2>5
<1>4. ASSUME a.model = "FIXED_BOTH"
      PROVE  2 * Magnitude(Pay(a, pot, base) * (a.engineer + a.platform) - pot * a.engineer)
                 <= a.engineer + a.platform
    <2> DEFINE d == a.engineer + a.platform
               n == pot * a.engineer
               r == RoundDiv(n, d)
    <2>1. a.engineer \in Nat /\ d \in Nat \ {0}
        BY <1>4 DEF Agreement
    <2>2. n \in Nat
        BY <2>1
    <2>3. Pay(a, pot, base) = r
        BY <1>4 DEF Pay
    <2> HIDE DEF d, n
    <2>4. r \in Nat /\ 2 * (d * r) <= 2 * n + d /\ 2 * n <= 2 * (d * r) + d
        BY <2>1, <2>2, Rounded
    <2> HIDE DEF r
    <2>5. r * d = d * r /\ d * r \in Nat
        BY <2>1, <2>4
    <2>6. 2 * Magnitude(r * d - n) <= d
        BY <2>1, <2>2, <2>4, <2>5 DEF Magnitude
    <2> QED BY <2>3, <2>6 DEF d, n
<1> QED BY <1>1, <1>2, <1>3, <1>4

-----------------------------------------------------------------------------
\* A line of the ledger is in its entry unless its amount is zero.
Written(l) == IF l[2] = 0 THEN {} ELSE {l}
Owed(pay, e) == <<<<"ENGINEER_PAYABLE", e>>, -pay[e]>>
Payables(pay, s) == {l \in {Owed(pay, e) : e \in s} : l[2] # 0}

\* A line that was not there adds its amount, were it zero.
LEMMA LineAdds ==
    ASSUME NEW L, NEW g, Sums([l \in L |-> l[2]], L, g),
           NEW A \in SUBSET L, NEW l, l \notin A, l[2] \in Int, Written(l) \subseteq L
    PROVE  g[A \cup Written(l)] = l[2] + g[A]
<1>1. g[A] \in Int
    BY DEF Sums
<1>2. CASE l[2] = 0
    <2>1. A \cup Written(l) = A
        BY <1>2 DEF Written
    <2>2. g[A \cup Written(l)] = g[A]
        BY <2>1
    <2>3. g[A] = 0 + g[A]
        BY <1>1
    <2> QED BY <1>2, <2>2, <2>3
<1>3. CASE l[2] # 0
    <2> DEFINE B == A \cup {l}
    <2>1. Written(l) = {l} /\ l \in L
        BY <1>3 DEF Written
    <2>2. B \in SUBSET L /\ l \in B /\ B \ {l} = A
        BY <2>1
    <2> HIDE DEF B
    <2>3. g[B] = [m \in L |-> m[2]][l] + g[B \ {l}]
        BY <2>2 DEF Sums
    <2> QED BY <2>1, <2>2, <2>3 DEF B
<1> QED BY <1>2, <1>3

\* What engineers are owed adds up to their pay.
LEMMA PayablesAdd ==
    ASSUME NEW E, IsFiniteSet(E), NEW pay \in [E -> Nat],
           NEW L, NEW g, Sums([l \in L |-> l[2]], L, g), Payables(pay, E) \subseteq L
    PROVE  g[Payables(pay, E)] = -Total(pay)
<1>1. PICK k : Sums(pay, E, k) /\ Total(pay) = k[E]
    BY TotalSums
<1> DEFINE Good == {s \in SUBSET E : g[Payables(pay, s)] + k[s] = 0}
<1>2. {} \in Good
    <2>1. Payables(pay, {}) = {}
        BY DEF Payables
    <2>2. g[{}] = 0 /\ k[{}] = 0
        BY <1>1 DEF Sums
    <2>3. g[Payables(pay, {})] = 0
        BY Zenon, <2>1, <2>2
    <2>4. g[Payables(pay, {})] + k[{}] = 0
        BY <2>2, <2>3
    <2> QED BY <2>4
<1>3. ASSUME NEW s \in SUBSET E, s # {}, \A x \in s : s \ {x} \in Good
      PROVE  s \in Good
    <2>1. PICK x \in s : TRUE
        BY <1>3
    <2> DEFINE t == s \ {x}
    <2>2. k[s] = pay[x] + k[t] /\ k[t] \in Int /\ t \in SUBSET E
        BY <1>1 DEF Sums
    <2>3. g[Payables(pay, t)] + k[t] = 0 /\ g[Payables(pay, t)] \in Int
        <3>1. Payables(pay, t) \in SUBSET L
            BY <2>2 DEF Payables
        <3>2. g[Payables(pay, t)] \in Int
            BY <3>1 DEF Sums
        <3> QED BY <1>3, <3>2
    <2>4. Owed(pay, x)[2] = -pay[x] /\ pay[x] \in Nat
        BY DEF Owed
    <2>5. \A e \in E : Owed(pay, e) = Owed(pay, x) => e = x
        BY DEF Owed
    <2>6. Owed(pay, x) \notin Payables(pay, t)
        BY <2>5 DEF Payables
    <2>7. Payables(pay, s) = Payables(pay, t) \cup Written(Owed(pay, x))
        BY DEF Payables, Written
    <2>8. Payables(pay, t) \subseteq L /\ Written(Owed(pay, x)) \subseteq L
        BY <2>2, <2>7 DEF Payables
    <2> HIDE DEF t
    <2>9. g[Payables(pay, s)] = -pay[x] + g[Payables(pay, t)]
        <3>1. Owed(pay, x)[2] \in Int
            BY <2>4
        <3>2. g[Payables(pay, t) \cup Written(Owed(pay, x))] = Owed(pay, x)[2] + g[Payables(pay, t)]
            BY <2>6, <2>8, <3>1, LineAdds
        <3> QED BY <2>4, <2>7, <3>2
    <2> QED BY <2>2, <2>3, <2>4, <2>9
<1>4. Good = SUBSET E
    <2> HIDE DEF Good
    <2>1. Good \in SUBSET (SUBSET E)
        BY DEF Good
    <2> QED BY <1>2, <1>3, <2>1, Subsets
<1>5. k[E] \in Int /\ g[Payables(pay, E)] \in Int /\ g[Payables(pay, E)] + k[E] = 0
    BY <1>1, <1>4 DEF Sums
<1> QED BY <1>1, <1>5

\* An entry that gives what was received to those it is owed to, and has cash
\* in it, has two lines and adds up to nothing.
LEMMA EntryBalances ==
    ASSUME NEW E, IsFiniteSet(E), NEW pay \in [E -> Nat],
           NEW paid \in Nat \ {0}, NEW tax \in Nat, NEW platform \in Int,
           paid = tax + platform + Total(pay),
           NEW L, L = ((Payables(pay, E) \cup Written(<<<<"PLATFORM_REVENUE", None>>, -platform>>))
                        \cup Written(<<<<"TAX_PAYABLE", None>>, -tax>>))
                        \cup Written(<<<<"PLATFORM_CASH", None>>, paid>>)
    PROVE  Cardinality(L) >= 2 /\ Balance(L) = 0
<1> DEFINE revenue == <<<<"PLATFORM_REVENUE", None>>, -platform>>
           due == <<<<"TAX_PAYABLE", None>>, -tax>>
           cash == <<<<"PLATFORM_CASH", None>>, paid>>
           A == Payables(pay, E)
           B == A \cup Written(revenue)
           C == B \cup Written(due)
<1>1. revenue[2] = -platform /\ due[2] = -tax /\ cash[2] = paid
    OBVIOUS
<1>2. revenue # due /\ revenue # cash /\ due # cash
    OBVIOUS
<1>3. revenue \notin A /\ due \notin A /\ cash \notin A
    BY DEF Payables, Owed
<1>4. \A l \in A : l[2] \in Int
    BY DEF Payables, Owed
<1>5. IsFiniteSet(A)
    <2> DEFINE f == [e \in E |-> Owed(pay, e)]
               I == {Owed(pay, e) : e \in E}
    <2>1. f \in Surjection(E, I)
        BY DEF Surjection
    <2>2. IsFiniteSet(I)
        BY <2>1, FS_Surjection
    <2>3. A \in SUBSET I
        BY DEF Payables
    <2> HIDE DEF A, I
    <2> QED BY <2>2, <2>3, FS_Subset
<1>6. L = C \cup Written(cash)
    OBVIOUS
<1> HIDE DEF revenue, due, cash, A
<1>7. \A l : IsFiniteSet(Written(l)) /\ \A m \in Written(l) : m = l
    BY FS_EmptySet, FS_Singleton DEF Written
<1>8. IsFiniteSet(L)
    <2>1. IsFiniteSet(B)
        BY <1>5, <1>7, FS_Union
    <2>2. IsFiniteSet(C)
        BY <1>7, <2>1, FS_Union
    <2> HIDE DEF C
    <2>3. IsFiniteSet(Written(cash))
        BY <1>7
    <2>4. IsFiniteSet(C \cup Written(cash))
        BY <2>2, <2>3, FS_Union
    <2> QED BY <1>6, <2>4
<1>9. \A l \in L : l[2] \in Int
    BY <1>1, <1>4, <1>6, <1>7
<1>10. PICK g : Sums([l \in L |-> l[2]], L, g) /\ Balance(L) = g[L]
    BY <1>8, <1>9, BalanceSums
<1>11. Total(pay) \in Int
    <2>1. pay \in [E -> Int]
        OBVIOUS
    <2> QED BY <2>1, TotalInt
<1>12. g[A] = -Total(pay)
    BY <1>6, <1>10, PayablesAdd DEF A
<1>13. g[B] = -platform + g[A]
    BY <1>1, <1>3, <1>6, <1>10, LineAdds
<1>14. g[C] = -tax + g[B]
    <2>1. due \notin B /\ B \in SUBSET L /\ Written(due) \subseteq L
        BY <1>2, <1>3, <1>6, <1>7
    <2> HIDE DEF B
    <2> QED BY <1>1, <1>10, <2>1, LineAdds
<1>15. g[L] = paid + g[C]
    <2>1. cash \notin C /\ C \in SUBSET L /\ Written(cash) \subseteq L
        BY <1>2, <1>3, <1>6, <1>7
    <2> HIDE DEF C
    <2>2. cash[2] \in Int
        BY <1>1
    <2>3. g[C \cup Written(cash)] = cash[2] + g[C]
        BY <1>10, <2>1, <2>2, LineAdds
    <2> QED BY <1>1, <1>6, <2>3
<1>16. Balance(L) = 0
    BY <1>10, <1>11, <1>12, <1>13, <1>14, <1>15
<1>17. cash \in L
    BY <1>1, <1>6 DEF Written
<1>18. L # {cash}
    <2> SUFFICES ASSUME L = {cash} PROVE FALSE
        OBVIOUS
    <2>1. g[{cash}] = [l \in L |-> l[2]][cash] + g[{cash} \ {cash}]
        BY <1>10, <1>17 DEF Sums
    <2>2. g[{cash} \ {cash}] = 0
        <3>1. {cash} \ {cash} = {}
            OBVIOUS
        <3> QED BY <1>10, <3>1 DEF Sums
    <2>3. [l \in L |-> l[2]][cash] = paid
        BY <1>1, <1>17
    <2>4. g[{cash}] = paid + 0
        BY <2>1, <2>2, <2>3
    <2>5. g[{cash}] = 0
        BY <1>10, <1>16
    <2> QED BY <2>4, <2>5
<1>19. Cardinality(L) >= 2
    <2>1. PICK l \in L : l # cash
        BY <1>17, <1>18
    <2>2. IsFiniteSet({cash}) /\ Cardinality({cash}) = 1
        BY FS_Singleton
    <2>3. Cardinality({cash}) <= Cardinality(L) /\ Cardinality({cash}) # Cardinality(L)
        BY <1>8, <1>17, <1>18, FS_Subset
    <2>4. Cardinality(L) \in Nat
        BY <1>8, FS_CardinalityType
    <2> QED BY <2>2, <2>3, <2>4
<1> QED BY <1>16, <1>19

-----------------------------------------------------------------------------
\* The inductive invariant: a sale is what Figures makes of the line.
SaleIsFigures ==
    /\ line \in [price : Nat, discount : Nat]
    /\ line.discount <= line.price
    /\ sale = None \/ \E rate \in Rates, share \in Credits :
                        \E terms \in [DOMAIN share -> Agreements] :
                           Paid > 0 /\ sale = Figures(rate, share, terms)

\* Ordering and approving keep it.
LEMMA StepKeepsFigures == SaleIsFigures /\ [Next]_vars => SaleIsFigures'
<1> SUFFICES ASSUME SaleIsFigures, [Next]_vars PROVE SaleIsFigures'
    OBVIOUS
<1>1. ASSUME NEW price \in Prices, NEW bp \in Discounts, Order(price, bp)
      PROVE  SaleIsFigures'
    <2>1. price \in Nat /\ bp \in 0..Scale
        BY RatesAssumption
    <2>2. PercentOf(price, bp) \in 0..price
        BY <2>1, PercentCorrect
    <2> QED BY <1>1, <2>1, <2>2 DEF Order, SaleIsFigures
<1>2. ASSUME NEW rate \in Rates, NEW share \in Credits,
             NEW terms \in [DOMAIN share -> Agreements], Approve(rate, share, terms)
      PROVE  SaleIsFigures'
    <2>1. line' = line /\ Paid' = Paid /\ Paid > 0
        BY <1>2 DEF Approve, Paid
    <2>2. Figures(rate, share, terms)' = Figures(rate, share, terms)
        BY <2>1 DEF Figures
    <2>3. sale' = Figures(rate, share, terms)'
        BY <1>2, <2>2 DEF Approve
    <2> QED BY <2>1, <2>3 DEF SaleIsFigures
<1>3. CASE UNCHANGED vars
    <2>1. line' = line /\ sale' = sale /\ Paid' = Paid
        BY <1>3 DEF vars, Paid
    <2>2. \A rate, share, terms : Figures(rate, share, terms)' = Figures(rate, share, terms)
        BY <2>1 DEF Figures
    <2> QED BY <2>1, <2>2 DEF SaleIsFigures
<1> QED BY <1>1, <1>2, <1>3 DEF Next

\* A sale in any reachable state is what Figures makes of the line under some
\* rate, credits and terms (resolveTermsForSale).
THEOREM FiguresCorrect == Spec => []SaleIsFigures
<1>1. Init => SaleIsFigures
    BY DEF Init, SaleIsFigures
<1> QED BY <1>1, StepKeepsFigures, PTL DEF Spec

\* What Figures makes of a line is sound.
LEMMA FiguresReAdd ==
    ASSUME SaleIsFigures, NEW rate \in Rates, NEW share \in Credits,
           NEW terms \in [DOMAIN share -> Agreements], Paid > 0,
           sale = Figures(rate, share, terms)
    PROVE  TypeOK /\ SaleReAdds /\ PartsAreFair
<1> DEFINE tax == TaxIn(Paid, rate)
           net == Paid - tax
           base == line.price - TaxIn(line.price, rate)
           E == DOMAIN share
           slices == Slices(net, share)
           pay == [e \in E |-> Pay(terms[e], slices[e], base)]
           rest == [e \in E |-> slices[e] - pay[e]]
<1>1. /\ line.price \in Nat /\ Paid \in Nat \ {0} /\ Paid <= line.price
      /\ rate \in 0..Scale /\ Scale \in Nat \ {0}
    BY RatesAssumption, ScaleAssumption DEF SaleIsFigures, Paid
<1>2. /\ tax \in 0..Paid
      /\ 2 * Magnitude(tax * (Scale + rate) - Paid * rate) <= Scale + rate
    BY <1>1, TaxCorrect
<1>3. net \in Nat /\ base \in Nat /\ net <= base
    <2>1. TaxIn(line.price, rate) \in 0..line.price
        BY <1>1, TaxCorrect
    <2>2. net <= base
        BY <1>1, NetGrows
    <2> HIDE DEF tax
    <2> QED BY <1>1, <1>2, <2>1, <2>2
<1>4. IsFiniteSet(E)
    <2>1. PICK F \in SUBSET Engineers : share \in [F -> 1..Scale]
        BY Zenon DEF Credits
    <2>2. E = F
        BY <2>1
    <2> QED BY <2>2, EngineersAssumption, FS_Subset
<1>5. /\ sale.rate = rate /\ sale.share = share /\ sale.terms = terms
      /\ sale.tax = tax /\ sale.base = base /\ sale.slice = slices /\ sale.pay = pay
      /\ sale.platform = Total(rest)
    BY DEF Figures
<1> HIDE DEF tax, net, base
<1>6. /\ slices \in [E -> Nat] /\ Total(slices) = net
      /\ \A e \in E : Magnitude(slices[e] * Scale - net * share[e]) < Scale
    BY <1>3, SlicesShare
<1> HIDE DEF slices
<1>7. ASSUME NEW e \in E
      PROVE  /\ terms[e] \in Agreement /\ slices[e] \in Nat /\ slices[e] <= base
             /\ pay[e] = Pay(terms[e], slices[e], base) /\ pay[e] \in 0..slices[e]
    <2>1. terms[e] \in Agreement
        BY AgreementsAssumption
    <2>2. slices[e] \in Nat /\ slices[e] <= net
        BY <1>4, <1>6, TotalHolds
    <2>3. Pay(terms[e], slices[e], base) \in 0..slices[e]
        BY <1>3, <2>1, <2>2, PayCorrect
    <2>4. pay[e] = Pay(terms[e], slices[e], base)
        OBVIOUS
    <2> HIDE DEF pay, E
    <2> QED BY <1>3, <2>1, <2>2, <2>3, <2>4
<1>8. pay = [e \in E |-> pay[e]] /\ rest = [e \in E |-> slices[e] - pay[e]]
    OBVIOUS
<1> HIDE DEF pay, rest, E
<1>9. pay \in [E -> Nat]
    <2>1. \A e \in E : pay[e] \in Nat
        BY <1>7
    <2> QED BY <1>8, <2>1
<1>10. rest \in [E -> Int] /\ \A e \in E : slices[e] = rest[e] + pay[e]
    <2>1. \A e \in E : slices[e] - pay[e] \in Int /\ slices[e] = (slices[e] - pay[e]) + pay[e]
        BY <1>7
    <2> QED BY <1>8, <2>1
<1>11. Total(slices) = Total(rest) + Total(pay) /\ Total(rest) \in Int /\ Total(pay) \in Int
    <2>1. slices \in [E -> Int] /\ pay \in [E -> Int]
        BY <1>6, <1>9
    <2> QED BY <1>4, <1>10, <2>1, TotalAdds, TotalInt
<1>12. tax + Total(slices) = Paid
    BY <1>1, <1>2, <1>6 DEF net
<1>13. Cardinality(Entry) >= 2 /\ Balance(Entry) = 0
    <2>1. Paid = tax + Total(rest) + Total(pay)
        BY <1>1, <1>2, <1>11, <1>12
    <2> DEFINE P == Payables(pay, E)
               revenue == <<<<"PLATFORM_REVENUE", None>>, -Total(rest)>>
               due == <<<<"TAX_PAYABLE", None>>, -tax>>
               cash == <<<<"PLATFORM_CASH", None>>, Paid>>
               all == {cash, due, revenue} \cup {Owed(pay, e) : e \in E}
    <2>2. Entry = {l \in all : l[2] # 0}
        BY <1>5 DEF Entry, Owed, E
    <2>3. {l \in all : l[2] # 0}
             = ((P \cup Written(revenue)) \cup Written(due)) \cup Written(cash)
        <3> HIDE DEF revenue, due, cash
        <3> QED BY DEF Payables, Written
    <2>4. Entry = ((P \cup Written(revenue)) \cup Written(due)) \cup Written(cash)
        BY <2>2, <2>3
    <2>5. tax \in Nat
        BY <1>2
    <2> HIDE DEF P
    <2> QED BY <1>1, <1>4, <1>9, <1>11, <2>1, <2>4, <2>5, EntryBalances DEF P
<1>14. SaleReAdds
    BY <1>5, <1>12, <1>13 DEF SaleReAdds
<1>15. PartsAreFair
    <2>1. 2 * Magnitude(sale.tax * (Scale + sale.rate) - Paid * sale.rate) <= Scale + sale.rate
        BY <1>2, <1>5
    <2>2. ASSUME NEW e \in DOMAIN sale.share
          PROVE  LET a == sale.terms[e]
                     pot == sale.slice[e]
                     near(amount, n, d) == 2 * Magnitude(amount * d - n) <= d
                 IN  /\ Magnitude(pot * Scale - (Paid - sale.tax) * sale.share[e]) < Scale
                     /\ a.model = "PERCENTAGE" => near(sale.pay[e], pot * a.bp, Scale)
                     /\ a.model = "FIXED_ENGINEER" /\ a.engineer <= sale.base =>
                           near(sale.pay[e], a.engineer * pot, sale.base)
                     /\ a.model = "FIXED_PLATFORM" /\ a.platform <= sale.base =>
                           near(pot - sale.pay[e], a.platform * pot, sale.base)
                     /\ a.model = "FIXED_BOTH" =>
                           near(sale.pay[e], pot * a.engineer, a.engineer + a.platform)
        <3>1. e \in E /\ Paid - sale.tax = net
            BY <1>5 DEF E, net
        <3>2. Magnitude(slices[e] * Scale - net * share[e]) < Scale
            BY <1>6, <3>1
        <3>3. /\ terms[e] \in Agreement /\ slices[e] \in Nat /\ slices[e] <= base
              /\ pay[e] = Pay(terms[e], slices[e], base)
            BY <1>7, <3>1
        <3>4. /\ terms[e].model = "PERCENTAGE" =>
                   2 * Magnitude(pay[e] * Scale - slices[e] * terms[e].bp) <= Scale
              /\ terms[e].model = "FIXED_ENGINEER" /\ terms[e].engineer <= base =>
                   2 * Magnitude(pay[e] * base - terms[e].engineer * slices[e]) <= base
              /\ terms[e].model = "FIXED_PLATFORM" /\ terms[e].platform <= base =>
                   2 * Magnitude((slices[e] - pay[e]) * base - terms[e].platform * slices[e]) <= base
              /\ terms[e].model = "FIXED_BOTH" =>
                   2 * Magnitude(pay[e] * (terms[e].engineer + terms[e].platform)
                                   - slices[e] * terms[e].engineer)
                       <= terms[e].engineer + terms[e].platform
            BY <1>3, <3>3, PayIsNear
        <3> QED BY <1>5, <3>1, <3>2, <3>4
    <2> QED BY <2>1, <2>2 DEF PartsAreFair
<1>16. TypeOK
    <2>1. sale.tax \in 0..Paid
        BY <1>2, <1>5
    <2>2. \A e \in DOMAIN sale.share :
              sale.slice[e] \in Nat /\ sale.pay[e] \in 0..sale.slice[e]
        BY <1>5, <1>7 DEF E
    <2> QED BY <2>1, <2>2 DEF TypeOK, SaleIsFigures
<1> QED BY <1>14, <1>15, <1>16

\* So is every sale the invariant allows.
LEMMA SalesAreSound == SaleIsFigures => TypeOK /\ SaleReAdds /\ PartsAreFair
<1> SUFFICES ASSUME SaleIsFigures PROVE TypeOK /\ SaleReAdds /\ PartsAreFair
    OBVIOUS
<1>1. CASE sale = None
    BY <1>1 DEF SaleIsFigures, TypeOK, SaleReAdds, PartsAreFair
<1>2. CASE sale # None
    BY <1>2, FiguresReAdd DEF SaleIsFigures
<1> QED BY <1>1, <1>2

\* The tax is within what was paid, and each engineer's pay within the slice,
\* for every price, discount, rate, credit and agreement (Money.TypeOK).
THEOREM TypeCorrect == Spec => []TypeOK
<1> QED BY FiguresCorrect, SalesAreSound, PTL

\* Not a unit appears or is lost: the tax and the slices are what was paid,
\* and the entry has two lines or more that add up to nothing, so that no sale
\* that was paid for is ever refused by the assertions (Money.SaleReAdds).
THEOREM ReAddsCorrect == Spec => []SaleReAdds
<1> QED BY FiguresCorrect, SalesAreSound, PTL

\* Nobody is a whole unit away from the exact part, and nobody who divides
\* once and is not capped is more than half a unit away (Money.PartsAreFair).
THEOREM FairCorrect == Spec => []PartsAreFair
<1> QED BY FiguresCorrect, SalesAreSound, PTL
=============================================================================
