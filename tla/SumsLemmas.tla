----------------------------- MODULE SumsLemmas -----------------------------
(***************************************************************************)
(* What the provers may use about the arithmetic of the market: products   *)
(* and quotients of naturals, and SumOf. A sum is a natural number, it is  *)
(* additive, it bounds every summand, changing one summand changes it by   *)
(* the difference, and quotas of a whole add up to no more than the whole. *)
(***************************************************************************)
EXTENDS Sums, FiniteSetTheorems, FunctionTheorems, TLAPS

------------------------------------------------------------------------------
(* Products and quotients.                                                  *)

\* A product of naturals is a natural.
LEMMA TimesType ==
    ASSUME NEW a \in Nat, NEW b \in Nat
    PROVE  a * b \in Nat
  OBVIOUS

\* A natural factor keeps the order.
LEMMA TimesMono ==
    ASSUME NEW a \in Nat, NEW b \in Nat, NEW c \in Nat, a <= b
    PROVE  a * c <= b * c
  OBVIOUS

\* A positive factor can be cancelled.
LEMMA TimesCancel ==
    ASSUME NEW a \in Nat, NEW b \in Nat, NEW c \in Nat, c > 0, a * c <= b * c
    PROVE  a <= b
<1> SUFFICES ASSUME a > b PROVE FALSE
  OBVIOUS
<1>1. (b + 1) * c <= a * c
  BY TimesMono
<1>2. (b + 1) * c = b * c + c
  OBVIOUS
<1>3. a * c \in Nat /\ b * c \in Nat
  BY TimesType
<1>4. QED
  BY <1>1, <1>2, <1>3

\* The quotient is a natural and fits into the dividend.
LEMMA DivFits ==
    ASSUME NEW n \in Nat, NEW d \in Nat, d > 0
    PROVE  /\ n \div d \in Nat
           /\ (n \div d) * d <= n
  OBVIOUS

\* A quotient is bounded by whatever the dividend is bounded by, in units of the divisor.
LEMMA DivBound ==
    ASSUME NEW n \in Nat, NEW d \in Nat, d > 0, NEW k \in Nat, n <= k * d
    PROVE  n \div d <= k
<1>1. (n \div d) * d <= k * d
  <2>1. k * d \in Nat /\ (n \div d) * d \in Nat
    BY DivFits, TimesType
  <2>2. QED
    BY <2>1, DivFits
<1>2. QED
  BY <1>1, DivFits, TimesCancel

\* Quotient and remainder.
LEMMA DivMod ==
    ASSUME NEW n \in Nat, NEW d \in Nat, d > 0
    PROVE  n = (n \div d) * d + (n % d) /\ n % d \in 0 .. d - 1 /\ n \div d \in Nat
<1>1. n = (n \div d) * d + (n % d)
  OBVIOUS
<1>2. n % d \in 0 .. d - 1
  OBVIOUS
<1>3. n \div d \in Nat
  OBVIOUS
<1>4. QED
  BY <1>1, <1>2, <1>3

\* Division keeps the order.
LEMMA DivMono ==
    ASSUME NEW n \in Nat, NEW m \in Nat, NEW d \in Nat, d > 0, n <= m
    PROVE  n \div d <= m \div d
<1>1. (n \div d) * d <= n /\ n \div d \in Nat /\ m \div d \in Nat
  BY DivFits
<1>2. m < (m \div d + 1) * d
  OBVIOUS
<1>3. (n \div d) * d \in Nat /\ (m \div d + 1) * d \in Nat
  BY <1>1, TimesType
<1>4. SUFFICES ASSUME n \div d >= m \div d + 1 PROVE FALSE
  BY <1>1
<1>5. (m \div d + 1) * d <= (n \div d) * d
  BY <1>1, <1>4, TimesMono
<1>6. QED
  BY <1>1, <1>2, <1>3, <1>5

------------------------------------------------------------------------------
(* Sums.                                                                    *)

\* A cell of f is a pair of an index and a unit of the value there.
LEMMA CellsMember ==
    ASSUME NEW S, NEW f \in [S -> Nat], NEW c
    PROVE  c \in Cells(f) <=> \E x \in S : \E k \in 1 .. f[x] : c = <<x, k>>
  BY DEF Cells

\* The cells of a function on a finite set are finite in number.
LEMMA CellsFinite ==
    ASSUME NEW S, IsFiniteSet(S), NEW f \in [S -> Nat]
    PROVE  IsFiniteSet(Cells(f))
<1> DEFINE col == [x \in S |-> {x} \X (1 .. f[x])]
           T   == {{x} \X (1 .. f[x]) : x \in S}
<1>1. IsFiniteSet(T)
  <2>1. col \in Surjection(S, T)
    BY DEF Surjection
  <2>2. QED
    BY <2>1, FS_Surjection
<1>2. \A t \in T : IsFiniteSet(t)
  <2>1. ASSUME NEW x \in S
        PROVE  IsFiniteSet({x} \X (1 .. f[x]))
    <3>1. IsFiniteSet({x})
      BY FS_Singleton
    <3>2. IsFiniteSet(1 .. f[x])
      <4>1. f[x] \in Int /\ 1 \in Int
        OBVIOUS
      <4>2. QED
        BY <4>1, FS_Interval
    <3>3. QED
      BY <3>1, <3>2, FS_Product
  <2>2. QED
    BY <2>1
<1>3. IsFiniteSet(UNION T)
  BY <1>1, <1>2, FS_UNION
<1>4. Cells(f) = UNION T
  BY DEF Cells
<1>5. QED
  BY <1>3, <1>4

\* The sum of naturals is a natural.
LEMMA SumType ==
    ASSUME NEW S, IsFiniteSet(S), NEW f \in [S -> Nat]
    PROVE  SumOf(f) \in Nat
  BY CellsFinite, FS_CardinalityType DEF SumOf

\* The sum of two functions taken pointwise is the sum of their sums.
LEMMA SumPlus ==
    ASSUME NEW S, IsFiniteSet(S), NEW f \in [S -> Nat], NEW g \in [S -> Nat]
    PROVE  SumOf([x \in S |-> f[x] + g[x]]) = SumOf(f) + SumOf(g)
<1> DEFINE h     == [x \in S |-> f[x] + g[x]]
           lift  == [c \in Cells(g) |-> <<c[1], f[c[1]] + c[2]>>]
           above == {lift[c] : c \in Cells(g)}
<1>0. h \in [S -> Nat]
  OBVIOUS
<1>1. IsFiniteSet(Cells(f)) /\ IsFiniteSet(Cells(g))
  BY CellsFinite
<1>2. ASSUME NEW c \in Cells(g)
      PROVE  \E x \in S : \E k \in 1 .. g[x] : c = <<x, k>> /\ lift[c] = <<x, f[x] + k>>
  BY CellsMember
<1>3. lift \in Bijection(Cells(g), above)
  <2>1. \A c, d \in Cells(g) : lift[c] = lift[d] => c = d
    <3> SUFFICES ASSUME NEW c \in Cells(g), NEW d \in Cells(g), lift[c] = lift[d]
                 PROVE  c = d
      OBVIOUS
    <3>1. PICK x \in S : \E k \in 1 .. g[x] : c = <<x, k>> /\ lift[c] = <<x, f[x] + k>>
      BY <1>2
    <3>2. PICK k \in 1 .. g[x] : c = <<x, k>> /\ lift[c] = <<x, f[x] + k>>
      BY <3>1
    <3>3. PICK y \in S : \E l \in 1 .. g[y] : d = <<y, l>> /\ lift[d] = <<y, f[y] + l>>
      BY <1>2
    <3>4. PICK l \in 1 .. g[y] : d = <<y, l>> /\ lift[d] = <<y, f[y] + l>>
      BY <3>3
    <3>5. x = y /\ f[x] + k = f[y] + l
      BY <3>2, <3>4
    <3>6. k = l
      BY <3>5
    <3>7. QED
      BY <3>2, <3>4, <3>5, <3>6
  <2>2. lift \in [Cells(g) -> above]
    OBVIOUS
  <2>3. QED
    BY <2>1, <2>2 DEF Bijection, Injection, Surjection, IsInjective
<1>4. IsFiniteSet(above) /\ Cardinality(above) = Cardinality(Cells(g))
  BY <1>1, <1>3, FS_Bijection DEF ExistsBijection
<1>5. Cells(f) \cap above = {}
  <2> SUFFICES ASSUME NEW e, e \in Cells(f), e \in above
               PROVE  FALSE
    OBVIOUS
  <2>1. PICK c \in Cells(g) : e = lift[c]
    OBVIOUS
  <2>2. PICK x \in S : \E k \in 1 .. g[x] : c = <<x, k>> /\ lift[c] = <<x, f[x] + k>>
    BY <1>2
  <2>3. PICK k \in 1 .. g[x] : e = <<x, f[x] + k>>
    BY <2>1, <2>2
  <2>4. PICK y \in S : \E l \in 1 .. f[y] : e = <<y, l>>
    BY CellsMember
  <2>5. PICK l \in 1 .. f[y] : e = <<y, l>>
    BY <2>4
  <2>6. x = y /\ f[x] + k = l
    BY <2>3, <2>5
  <2>7. QED
    BY <2>6
<1>6. Cells(h) = Cells(f) \cup above
  <2>1. ASSUME NEW e, e \in Cells(h)
        PROVE  e \in Cells(f) \cup above
    <3>1. PICK x \in S : \E k \in 1 .. h[x] : e = <<x, k>>
      BY <1>0, <2>1, CellsMember
    <3>2. PICK k \in 1 .. h[x] : e = <<x, k>>
      BY <3>1
    <3>3. CASE k <= f[x]
      <4>1. k \in 1 .. f[x]
        BY <3>3
      <4>2. QED
        BY <3>2, <4>1, CellsMember
    <3>4. CASE ~(k <= f[x])
      <4>1. k - f[x] \in 1 .. g[x]
        BY <3>4
      <4>2. <<x, k - f[x]>> \in Cells(g)
        BY <4>1, CellsMember
      <4>3. lift[<<x, k - f[x]>>] = <<x, f[x] + (k - f[x])>>
        BY <4>2
      <4>4. f[x] + (k - f[x]) = k
        OBVIOUS
      <4>5. QED
        BY <3>2, <4>2, <4>3, <4>4
    <3>5. QED
      BY <3>3, <3>4
  <2>2. ASSUME NEW e, e \in Cells(f)
        PROVE  e \in Cells(h)
    <3>1. PICK x \in S : \E k \in 1 .. f[x] : e = <<x, k>>
      BY <2>2, CellsMember
    <3>2. PICK k \in 1 .. f[x] : e = <<x, k>>
      BY <3>1
    <3>3. k \in 1 .. h[x]
      OBVIOUS
    <3>4. QED
      BY <1>0, <3>2, <3>3, CellsMember
  <2>3. ASSUME NEW e, e \in above
        PROVE  e \in Cells(h)
    <3>1. PICK c \in Cells(g) : e = lift[c]
      BY <2>3
    <3>2. PICK x \in S : \E k \in 1 .. g[x] : c = <<x, k>> /\ lift[c] = <<x, f[x] + k>>
      BY <1>2
    <3>3. PICK k \in 1 .. g[x] : e = <<x, f[x] + k>>
      BY <3>1, <3>2
    <3>4. f[x] + k \in 1 .. h[x]
      OBVIOUS
    <3>5. QED
      BY <1>0, <3>3, <3>4, CellsMember
  <2>4. QED
    BY <2>1, <2>2, <2>3
<1>7. Cardinality(Cells(h)) = Cardinality(Cells(f)) + Cardinality(above) - Cardinality({})
  BY <1>1, <1>4, <1>5, <1>6, FS_Union
<1>8. Cardinality(Cells(f)) \in Nat /\ Cardinality(above) \in Nat
  BY <1>1, <1>4, FS_CardinalityType
<1>9. QED
  BY <1>4, <1>7, <1>8, FS_EmptySet DEF SumOf

\* A function that is n at one point and zero elsewhere sums to n.
LEMMA SumPoint ==
    ASSUME NEW S, IsFiniteSet(S), NEW a \in S, NEW n \in Nat
    PROVE  SumOf([x \in S |-> IF x = a THEN n ELSE 0]) = n
<1> DEFINE p == [x \in S |-> IF x = a THEN n ELSE 0]
<1>1. p \in [S -> Nat]
  OBVIOUS
<1>2. Cells(p) = {a} \X (1 .. n)
  <2>1. \A e : e \in Cells(p) => e \in {a} \X (1 .. n)
    <3> SUFFICES ASSUME NEW e, e \in Cells(p) PROVE e \in {a} \X (1 .. n)
      OBVIOUS
    <3>1. PICK x \in S : \E k \in 1 .. p[x] : e = <<x, k>>
      BY <1>1, CellsMember
    <3>2. x = a
      BY <3>1
    <3>3. QED
      BY <3>1, <3>2
  <2>2. \A e : e \in {a} \X (1 .. n) => e \in Cells(p)
    <3> SUFFICES ASSUME NEW k \in 1 .. n PROVE <<a, k>> \in Cells(p)
      OBVIOUS
    <3>1. p[a] = n
      OBVIOUS
    <3>2. QED
      BY <1>1, <3>1, CellsMember
  <2>3. QED
    BY <2>1, <2>2
<1>3. IsFiniteSet({a}) /\ Cardinality({a}) = 1
  BY FS_Singleton
<1>4. IsFiniteSet(1 .. n) /\ Cardinality(1 .. n) = n
  <2>1. 1 \in Int /\ n \in Int
    OBVIOUS
  <2>2. IsFiniteSet(1 .. n) /\ Cardinality(1 .. n) = IF 1 > n THEN 0 ELSE n - 1 + 1
    BY <2>1, FS_Interval
  <2>3. QED
    BY <2>2
<1>5. Cardinality({a} \X (1 .. n)) = Cardinality({a}) * Cardinality(1 .. n)
  <2>1. ASSUME NEW U, IsFiniteSet(U), NEW V, IsFiniteSet(V)
        PROVE  Cardinality(U \X V) = Cardinality(U) * Cardinality(V)
    BY <2>1, FS_Product
  <2>2. QED
    BY <1>3, <1>4, <2>1, Zenon
<1>6. SumOf(p) = n
  <2>1. Cardinality(Cells(p)) = Cardinality({a}) * Cardinality(1 .. n)
    BY <1>2, <1>5, Zenon
  <2>2. QED
    BY <1>3, <1>4, <2>1 DEF SumOf
<1>7. QED
  BY <1>6

\* Replacing one summand moves the sum by the difference.
LEMMA SumExcept ==
    ASSUME NEW S, IsFiniteSet(S), NEW f \in [S -> Nat], NEW a \in S, NEW n \in Nat
    PROVE  /\ SumOf([f EXCEPT ![a] = n]) = SumOf(f) - f[a] + n
           /\ f[a] <= SumOf(f)
<1> DEFINE rest == [x \in S |-> IF x = a THEN 0 ELSE f[x]]
           old  == [x \in S |-> IF x = a THEN f[a] ELSE 0]
           new  == [x \in S |-> IF x = a THEN n ELSE 0]
<1>1. rest \in [S -> Nat] /\ old \in [S -> Nat] /\ new \in [S -> Nat]
  OBVIOUS
<1>2. f = [x \in S |-> rest[x] + old[x]]
  <2>1. \A x \in S : f[x] = rest[x] + old[x]
    OBVIOUS
  <2>2. QED
    BY <2>1
<1>3. [f EXCEPT ![a] = n] = [x \in S |-> rest[x] + new[x]]
  <2>1. \A x \in S : [f EXCEPT ![a] = n][x] = rest[x] + new[x]
    OBVIOUS
  <2>2. QED
    BY <2>1
<1>4. SumOf(f) = SumOf(rest) + SumOf(old)
  <2> HIDE DEF rest, old
  <2>1. SumOf([x \in S |-> rest[x] + old[x]]) = SumOf(rest) + SumOf(old)
    BY <1>1, SumPlus
  <2>2. QED
    BY <1>2, <2>1
<1>5. SumOf([f EXCEPT ![a] = n]) = SumOf(rest) + SumOf(new)
  <2> HIDE DEF rest, new
  <2>1. SumOf([x \in S |-> rest[x] + new[x]]) = SumOf(rest) + SumOf(new)
    BY <1>1, SumPlus
  <2>2. QED
    BY <1>3, <2>1
<1>6. SumOf(old) = f[a] /\ SumOf(new) = n
  BY SumPoint
<1>7. SumOf(rest) \in Nat
  BY <1>1, SumType
<1> HIDE DEF rest, old, new
<1>8. QED
  BY <1>4, <1>5, <1>6, <1>7

\* A sum of zero has only zero summands.
LEMMA SumZero ==
    ASSUME NEW S, IsFiniteSet(S), NEW f \in [S -> Nat], SumOf(f) = 0
    PROVE  \A x \in S : f[x] = 0
  BY SumExcept

\* One more summand.
LEMMA SumExtend ==
    ASSUME NEW S, IsFiniteSet(S), NEW a, a \notin S, NEW g \in [S \cup {a} -> Nat]
    PROVE  SumOf(g) = SumOf([x \in S |-> g[x]]) + g[a]
<1> DEFINE f == [x \in S |-> g[x]]
<1>f. f \in [S -> Nat] /\ \A x \in S : g[x] = f[x]
  OBVIOUS
<1> HIDE DEF f
<1>1. Cells(g) = Cells(f) \cup ({a} \X (1 .. g[a]))
  <2>1. ASSUME NEW c \in Cells(g)
        PROVE  c \in Cells(f) \cup ({a} \X (1 .. g[a]))
    <3>1. PICK x \in S \cup {a} : \E k \in 1 .. g[x] : c = <<x, k>>
      BY <2>1, CellsMember
    <3>2. CASE x \in S
      BY <1>f, <3>1, <3>2, CellsMember
    <3>3. CASE x = a
      BY <3>1, <3>3
    <3>4. QED
      BY <3>2, <3>3
  <2>2. ASSUME NEW c \in Cells(f) \cup ({a} \X (1 .. g[a]))
        PROVE  c \in Cells(g)
    <3>1. CASE c \in Cells(f)
      <4>1. PICK x \in S : \E k \in 1 .. f[x] : c = <<x, k>>
        BY <1>f, <3>1, CellsMember
      <4>2. x \in S \cup {a} /\ \E k \in 1 .. g[x] : c = <<x, k>>
        BY <1>f, <4>1
      <4>3. QED
        BY <4>2, CellsMember
    <3>2. CASE c \in {a} \X (1 .. g[a])
      <4>1. \E k \in 1 .. g[a] : c = <<a, k>>
        BY <3>2
      <4>2. QED
        BY <4>1, CellsMember
    <3>3. QED
      BY <2>2, <3>1, <3>2
  <2>3. QED
    BY <2>1, <2>2
<1>2. Cells(f) \cap ({a} \X (1 .. g[a])) = {}
  BY <1>f, CellsMember
<1>0. g[a] \in Nat /\ g[a] \in Int /\ 1 \in Int
  OBVIOUS
<1>3. IsFiniteSet(Cells(f)) /\ IsFiniteSet({a}) /\ IsFiniteSet(1 .. g[a])
  BY <1>0, <1>f, CellsFinite, FS_Singleton, FS_Interval
<1>4. IsFiniteSet({a} \X (1 .. g[a]))
      /\ Cardinality({a} \X (1 .. g[a])) = Cardinality({a}) * Cardinality(1 .. g[a])
  BY <1>3, FS_Product
<1>5. Cardinality({a}) = 1 /\ Cardinality(1 .. g[a]) = g[a]
  <2>1. Cardinality(1 .. g[a]) = IF 1 > g[a] THEN 0 ELSE g[a] - 1 + 1
    BY <1>0, FS_Interval
  <2>2. Cardinality({a}) = 1
    BY FS_Singleton
  <2>3. QED
    BY <1>0, <2>1, <2>2
<1>6. Cardinality({a} \X (1 .. g[a])) = g[a]
  BY <1>4, <1>5
<1>7. Cardinality(Cells(f) \cup ({a} \X (1 .. g[a])))
         = Cardinality(Cells(f)) + Cardinality({a} \X (1 .. g[a]))
           - Cardinality(Cells(f) \cap ({a} \X (1 .. g[a])))
  BY <1>3, <1>4, FS_Union
<1>8. Cardinality(Cells(f) \cap ({a} \X (1 .. g[a]))) = 0
  BY <1>2, FS_EmptySet
<1>9. SumOf(f) \in Nat /\ g[a] \in Nat
  BY <1>f, SumType
<1>10. QED
  BY <1>1, <1>6, <1>7, <1>8, <1>9 DEF SumOf, f

\* Quotas f of B, cut out of an amount and rounded down, add up to no more than the amount.
LEMMA QuotasFit ==
    ASSUME NEW S, IsFiniteSet(S), NEW f \in [S -> Nat], NEW amount \in Nat,
           NEW B \in Nat, B > 0, SumOf(f) <= B
    PROVE  /\ [x \in S |-> (amount * f[x]) \div B] \in [S -> Nat]
           /\ SumOf([x \in S |-> (amount * f[x]) \div B]) <= amount
<1> DEFINE g == [x \in S |-> (amount * f[x]) \div B]
           P == Cells(g) \X (0 .. B - 1)
           Q == Cells(f) \X (0 .. amount - 1)
           at(p) == (p[1][2] - 1) * B + p[2]
           m == [p \in P |-> << <<p[1][1], at(p) \div amount + 1>>, at(p) % amount>>]
<1>1. ASSUME NEW x \in S
      PROVE  g[x] \in Nat /\ g[x] * B <= amount * f[x] /\ amount * f[x] \in Nat
  BY DivFits, TimesType
<1>2. g \in [S -> Nat]
  BY <1>1
<1> HIDE DEF g
<1>3. IsFiniteSet(Cells(g)) /\ IsFiniteSet(Cells(f))
  BY <1>2, CellsFinite
<1>4. /\ IsFiniteSet(0 .. B - 1) /\ Cardinality(0 .. B - 1) = B
      /\ IsFiniteSet(0 .. amount - 1) /\ Cardinality(0 .. amount - 1) = amount
  <2>1. 0 \in Int /\ B - 1 \in Int /\ amount - 1 \in Int
    OBVIOUS
  <2>2. /\ IsFiniteSet(0 .. B - 1)
        /\ Cardinality(0 .. B - 1) = IF 0 > B - 1 THEN 0 ELSE (B - 1) - 0 + 1
    BY <2>1, FS_Interval
  <2>3. /\ IsFiniteSet(0 .. amount - 1)
        /\ Cardinality(0 .. amount - 1) = IF 0 > amount - 1 THEN 0 ELSE (amount - 1) - 0 + 1
    BY <2>1, FS_Interval
  <2>4. QED
    BY <2>2, <2>3
<1>5. /\ IsFiniteSet(P) /\ Cardinality(P) = SumOf(g) * B
      /\ IsFiniteSet(Q) /\ Cardinality(Q) = SumOf(f) * amount
  BY <1>3, <1>4, FS_Product DEF SumOf
<1>6. ASSUME NEW p \in P
      PROVE  /\ p[1][1] \in S /\ p[1][2] \in 1 .. g[p[1][1]] /\ p[2] \in 0 .. B - 1
             /\ p = << <<p[1][1], p[1][2]>>, p[2]>>
             /\ amount > 0 /\ at(p) \in Nat /\ at(p) < amount * f[p[1][1]]
             /\ at(p) = (at(p) \div amount) * amount + (at(p) % amount)
             /\ at(p) \div amount \in 0 .. f[p[1][1]] - 1
             /\ at(p) % amount \in 0 .. amount - 1
  <2>1. p[1] \in Cells(g) /\ p[2] \in 0 .. B - 1 /\ p = <<p[1], p[2]>>
    OBVIOUS
  <2>2. PICK x \in S : \E k \in 1 .. g[x] : p[1] = <<x, k>>
    BY <1>2, <2>1, CellsMember
  <2>3. PICK k \in 1 .. g[x] : p[1] = <<x, k>>
    BY <2>2
  <2>4. p[1][1] = x /\ p[1][2] = k
    BY <2>3
  <2>5. /\ k \in Nat /\ k - 1 \in Nat /\ g[x] \in Nat /\ k <= g[x]
        /\ k * B <= g[x] * B /\ k * B \in Nat /\ g[x] * B \in Nat
        /\ (k - 1) * B \in Nat /\ (k - 1) * B + B = k * B
    BY <1>1, TimesMono, TimesType
  <2>6. at(p) = (k - 1) * B + p[2] /\ at(p) \in Nat /\ at(p) < k * B
    BY <2>1, <2>4, <2>5
  <2>7. at(p) < amount * f[x] /\ amount * f[x] \in Nat
    BY <1>1, <2>5, <2>6
  <2>8. amount > 0 /\ f[x] \in Nat
    <3>1. f[x] \in Nat
      OBVIOUS
    <3>2. CASE amount = 0
      BY <2>6, <2>7, <3>1, <3>2
    <3>3. QED
      BY <3>1, <3>2
  <2> HIDE DEF at
  <2>9. /\ at(p) = (at(p) \div amount) * amount + (at(p) % amount)
        /\ at(p) % amount \in 0 .. amount - 1 /\ at(p) \div amount \in Nat
    BY <2>6, <2>8, DivMod
  <2>10. at(p) \div amount < f[x]
    <3> DEFINE q == at(p) \div amount
    <3>1. q \in Nat /\ q * amount <= at(p) /\ q * amount \in Nat
      <4>1. q \in Nat /\ at(p) = q * amount + (at(p) % amount) /\ at(p) % amount \in Nat
        BY <2>9
      <4> HIDE DEF q
      <4>2. q * amount \in Nat
        BY <4>1, TimesType
      <4>3. QED
        BY <4>1, <4>2, <2>6
    <3> HIDE DEF q
    <3>2. SUFFICES ASSUME q >= f[x] PROVE FALSE
      BY <2>8, <3>1 DEF q
    <3>3. f[x] * amount <= q * amount /\ f[x] * amount = amount * f[x]
      BY <2>8, <3>1, <3>2, TimesMono
    <3>4. QED
      BY <2>6, <2>7, <3>1, <3>3
  <2>11. QED
    BY <2>1, <2>3, <2>4, <2>6, <2>7, <2>8, <2>9, <2>10
<1>7. m \in [P -> Q]
  <2>1. ASSUME NEW p \in P
        PROVE  << <<p[1][1], at(p) \div amount + 1>>, at(p) % amount>> \in Q
    <3> HIDE DEF at
    <3>1. p[1][1] \in S /\ at(p) \div amount + 1 \in 1 .. f[p[1][1]]
      BY <1>6
    <3>2. <<p[1][1], at(p) \div amount + 1>> \in Cells(f)
      BY <3>1, CellsMember
    <3>3. QED
      BY <1>6, <3>2
  <2>2. QED
    BY <2>1
<1>8. \A p, q \in P : m[p] = m[q] => p = q
  <2> SUFFICES ASSUME NEW p \in P, NEW q \in P, m[p] = m[q]
               PROVE  p = q
    OBVIOUS
  <2> DEFINE a == at(p)
             b == at(q)
  <2>1. p[1][1] = q[1][1] /\ a \div amount + 1 = b \div amount + 1 /\ a % amount = b % amount
    OBVIOUS
  <2>2. a = b
    <3> HIDE DEF at
    <3>1. a \div amount \in Nat /\ b \div amount \in Nat
      BY <1>6
    <3>2. a \div amount = b \div amount
      BY <2>1, <3>1
    <3>3. /\ a = (a \div amount) * amount + (a % amount)
          /\ b = (b \div amount) * amount + (b % amount)
      BY <1>6
    <3>4. QED
      BY <2>1, <3>2, <3>3
  <2>3. /\ p[1][2] \in Nat /\ q[1][2] \in Nat /\ p[1][2] >= 1 /\ q[1][2] >= 1
        /\ p[2] \in 0 .. B - 1 /\ q[2] \in 0 .. B - 1
    <3> HIDE DEF at, m, P
    <3>1. p[1][1] \in S /\ p[1][2] \in 1 .. g[p[1][1]] /\ p[2] \in 0 .. B - 1
      BY <1>6
    <3>2. q[1][1] \in S /\ q[1][2] \in 1 .. g[q[1][1]] /\ q[2] \in 0 .. B - 1
      BY <1>6
    <3>3. g[p[1][1]] \in Nat /\ g[q[1][1]] \in Nat
      BY <1>1, <3>1, <3>2
    <3>4. QED
      BY <3>1, <3>2, <3>3
  <2>4. (p[1][2] - 1) * B + p[2] = (q[1][2] - 1) * B + q[2]
    BY <2>2
  <2>5. ASSUME NEW i \in Nat, NEW j \in Nat, NEW c \in 0 .. B - 1, NEW d \in 0 .. B - 1,
               i * B + c = j * B + d
        PROVE  ~(i < j)
    <3>1. SUFFICES ASSUME i + 1 <= j PROVE FALSE
      OBVIOUS
    <3>2. (i + 1) * B <= j * B /\ (i + 1) * B = i * B + B
      BY <3>1, TimesMono
    <3>3. i * B \in Nat /\ j * B \in Nat
      BY TimesType
    <3>4. QED
      BY <2>5, <3>2, <3>3
  <2>6. p[1][2] - 1 = q[1][2] - 1
    <3>1. p[1][2] - 1 \in Nat /\ q[1][2] - 1 \in Nat
      BY <2>3
    <3>2. ~(p[1][2] - 1 < q[1][2] - 1) /\ ~(q[1][2] - 1 < p[1][2] - 1)
      BY <2>3, <2>4, <2>5, <3>1
    <3>3. ASSUME NEW i \in Nat, NEW j \in Nat, ~(i < j), ~(j < i)
          PROVE  i = j
      BY <3>3
    <3>4. QED
      BY <3>1, <3>2, <3>3
  <2>7. p[1][2] = q[1][2] /\ p[2] = q[2]
    <3>1. (p[1][2] - 1) * B \in Nat
      BY <2>3, TimesType
    <3>2. QED
      BY <2>3, <2>4, <2>6, <3>1
  <2>8. QED
    BY <1>6, <2>1, <2>7
<1>9. SumOf(g) * B <= SumOf(f) * amount
  <2> HIDE DEF m, P, Q
  <2>1. m \in Injection(P, Q)
    BY <1>7, <1>8 DEF Injection, IsInjective
  <2>2. QED
    BY <1>5, <2>1, FS_Injection
<1>10. SumOf(g) \in Nat /\ SumOf(f) \in Nat
  BY <1>2, SumType
<1>11. SumOf(f) * amount <= B * amount /\ SumOf(f) * amount \in Nat /\ B * amount = amount * B
       /\ SumOf(g) * B \in Nat /\ amount * B \in Nat
  BY <1>10, TimesMono, TimesType
<1>12. SumOf(g) <= amount
  BY <1>9, <1>10, <1>11, TimesCancel
<1>13. QED
  BY <1>2, <1>12 DEF g
=============================================================================
