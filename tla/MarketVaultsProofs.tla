--------------------------- MODULE MarketVaultsProofs ---------------------------
(***************************************************************************)
(* Proofs about MarketVaults, for every number of wallets and sectors and  *)
(* every width of the integers. First what the share kernels it calls are  *)
(* known for: their types, that a slice never exceeds the inventory it is  *)
(* cut from, and that the performance fee neither mints more shares than   *)
(* the vault is worth nor eats into the value of the high-water mark.      *)
(***************************************************************************)
EXTENDS MarketVaults, SumsLemmas, TLAPS

------------------------------------------------------------------------------
(* Roots, baskets and slices.                                               *)

\* An integer root is a natural.
LEMMA IsqrtType ==
    ASSUME NEW n \in Nat
    PROVE  Isqrt(n) \in Nat
<1>1. IsFiniteSet(1 .. n)
  BY FS_Interval
<1>2. {r \in 1 .. n : r * r <= n} \in SUBSET (1 .. n)
  OBVIOUS
<1>3. QED
  BY <1>1, <1>2, FS_Subset, FS_CardinalityType DEF Isqrt

\* The root of a product is at most the larger factor: L never exceeds a u64.
LEMMA IsqrtBound ==
    ASSUME NEW m \in Nat, NEW b \in 0 .. m, NEW q \in 0 .. m
    PROVE  Isqrt(b * q) <= m
<1> DEFINE R == {r \in 1 .. b * q : r * r <= b * q}
<1>1. b * q \in Nat
  BY TimesType
<1>2. b * q <= m * m
  <2>1. b * q <= m * q
    BY TimesMono
  <2>2. q * m <= m * m
    BY TimesMono
  <2>3. m * q = q * m /\ m * q \in Nat /\ m * m \in Nat
    BY TimesType
  <2>4. QED
    BY <1>1, <2>1, <2>2, <2>3
<1>3. R \in SUBSET (1 .. m)
  <2>1. ASSUME NEW r \in R, r > m
        PROVE  FALSE
    <3>1. r \in Nat /\ m * r <= r * r
      BY <2>1, <1>1, TimesMono
    <3>2. m * m < r * m
      <4>1. m * m \in Nat /\ r * m \in Nat /\ (m + 1) * m <= r * m
        BY <2>1, <3>1, TimesMono, TimesType
      <4>2. CASE m = 0
        <5>1. b * q = 0
          BY <4>2
        <5>2. QED
          BY <5>1
      <4>3. CASE m > 0
        BY <4>1, <4>3
      <4>4. QED
        BY <4>2, <4>3
    <3>3. r * r <= b * q /\ r * r \in Nat /\ m * m \in Nat /\ m * r = r * m /\ m * r \in Nat
      BY <3>1, TimesType
    <3>4. QED
      BY <1>1, <1>2, <3>1, <3>2, <3>3
  <2>2. QED
    BY <2>1, <1>1
<1>4. IsFiniteSet(1 .. m) /\ Cardinality(1 .. m) = m
  BY FS_Interval
<1>5. Cardinality(R) <= m
  BY <1>3, <1>4, FS_Subset
<1>6. QED
  BY <1>5 DEF Isqrt

------------------------------------------------------------------------------
(* Deposits and withdrawals.                                                *)

\* What a basket costs on one leg is a natural.
LEMMA BasketCostType ==
    ASSUME NEW shares \in Nat, NEW t \in Nat, t > 0, NEW a \in Nat
    PROVE  BasketCost(shares, t, a) \in Nat
<1>1. shares * a \in Nat
  BY TimesType
<1>2. shares * a + t - 1 \in Nat
  BY <1>1
<1>3. QED
  BY <1>2, DivFits DEF BasketCost, CeilDiv

\* The slice of part of the shares fits in the inventory.
LEMMA SliceFits ==
    ASSUME NEW t \in Nat, t > 0, NEW shares \in 0 .. t, NEW a \in Nat
    PROVE  SliceOf(shares, t, a) \in 0 .. a
<1>1. shares * a \in Nat /\ shares * a <= t * a /\ t * a = a * t
  BY TimesType, TimesMono
<1>2. QED
  BY <1>1, DivFits, DivBound DEF SliceOf

\* The slice of all shares is the whole inventory: a drained vault keeps no atom.
LEMMA SliceOfAll ==
    ASSUME NEW t \in Nat, t > 0, NEW a \in Nat
    PROVE  SliceOf(t, t, a) = a
<1>1. t * a = a * t /\ a * t \in Nat
  BY TimesType
<1>2. (a * t) \div t <= a /\ (a * t) \div t \in Nat
  BY <1>1, DivBound, DivFits
<1>3. (a * t) \div t >= a
  OBVIOUS
<1>4. QED
  BY <1>1, <1>2, <1>3 DEF SliceOf

\* Burning part of the shares leaves an atom of every leg that had one: only the last
\* share takes the last atom.
LEMMA SliceLeaves ==
    ASSUME NEW t \in Nat, t > 0, NEW shares \in Nat, shares < t, NEW a \in Nat, a > 0
    PROVE  SliceOf(shares, t, a) < a
<1> DEFINE q == SliceOf(shares, t, a)
<1>1. shares * a \in Nat /\ q \in Nat /\ q * t <= shares * a
  BY TimesType, DivFits DEF SliceOf
<1>2. (shares + 1) * a <= t * a
  BY TimesMono
<1>3. (shares + 1) * a = shares * a + a /\ t * a = a * t /\ a * t \in Nat
  BY TimesType
<1> HIDE DEF q
<1>4. SUFFICES ASSUME q >= a PROVE FALSE
  BY <1>1 DEF q
<1>5. a * t <= q * t /\ q * t \in Nat
  BY <1>1, <1>4, TimesMono, TimesType
<1>6. QED
  BY <1>1, <1>2, <1>3, <1>5

\* What a deposit pays rounds up: per share, the leg is worth no less than before.
LEMMA BasketKeepsValue ==
    ASSUME NEW shares \in Nat, NEW t \in Nat, t > 0, NEW a \in Nat
    PROVE  (a + BasketCost(shares, t, a)) * t >= a * (t + shares)
<1> DEFINE c == BasketCost(shares, t, a)
           p == shares * a
<1>1. p \in Nat /\ c \in Nat
  BY TimesType, BasketCostType
<1>2. c = (p + t - 1) \div t
  BY DEF BasketCost, CeilDiv
<1> HIDE DEF c, p
<1>3. c * t >= p
  BY <1>1, <1>2
<1>4. (a + c) * t = a * t + c * t /\ a * (t + shares) = a * t + a * shares
  BY <1>1
<1>5. a * shares = p /\ a * t \in Nat /\ c * t \in Nat
  BY <1>1, TimesType DEF p
<1>6. (a + c) * t >= a * (t + shares)
  BY <1>1, <1>3, <1>4, <1>5
<1>7. QED
  BY <1>6 DEF c

\* What a withdrawal pays rounds down: per share, the leg is worth no less than before.
LEMMA SliceKeepsValue ==
    ASSUME NEW t \in Nat, t > 0, NEW shares \in 0 .. t, NEW a \in Nat
    PROVE  (a - SliceOf(shares, t, a)) * t >= a * (t - shares)
<1> DEFINE q == SliceOf(shares, t, a)
<1>1. q \in Nat /\ q * t <= shares * a /\ shares * a \in Nat
  BY TimesType, DivFits DEF SliceOf
<1> HIDE DEF q
<1>2. (a - q) * t = a * t - q * t /\ a * (t - shares) = a * t - a * shares
  BY <1>1
<1>3. a * shares = shares * a /\ a * t \in Nat /\ q * t \in Nat
  BY <1>1, TimesType
<1>4. (a - q) * t >= a * (t - shares)
  BY <1>1, <1>2, <1>3
<1>5. QED
  BY <1>4 DEF q

\* The root of a positive number is positive: a seed on both legs buys a share.
LEMMA IsqrtPositive ==
    ASSUME NEW n \in Nat, n > 0
    PROVE  Isqrt(n) > 0
<1> DEFINE R == {r \in 1 .. n : r * r <= n}
<1>1. 1 \in R
  OBVIOUS
<1>2. IsFiniteSet(1 .. n) /\ R \in SUBSET (1 .. n)
  BY FS_Interval
<1>3. IsFiniteSet(R)
  BY <1>2, FS_Subset
<1>4. Cardinality(R) # 0 /\ Cardinality(R) \in Nat
  BY <1>1, <1>3, FS_EmptySet, FS_CardinalityType
<1>5. QED
  BY <1>4 DEF Isqrt

\* The product of positive numbers is positive.
LEMMA TimesPositive ==
    ASSUME NEW a \in Nat, NEW b \in Nat, a > 0, b > 0
    PROVE  a * b \in Nat /\ a * b > 0
  BY TimesType

------------------------------------------------------------------------------
(* The performance fee.                                                     *)

\* The high-water mark of all shares is a natural, and at a mark of at least one
\* there is an atom of value under every share.
LEMMA MarkType ==
    ASSUME NEW hwm \in Nat, NEW t \in Nat
    PROVE  /\ MarkOf(hwm, t) \in Nat
           /\ hwm >= QOne => MarkOf(hwm, t) >= t
<1>1. hwm * t \in Nat /\ QOne \in Nat /\ QOne > 0
  BY TimesType, QOneAssumption
<1>2. MarkOf(hwm, t) \in Nat
  BY <1>1, DivFits DEF MarkOf
<1>3. ASSUME hwm >= QOne
      PROVE  MarkOf(hwm, t) >= t
  <2>1. t * QOne <= hwm * t
    BY <1>1, <1>3, TimesMono
  <2>2. t * QOne \in Nat
    BY <1>1, TimesType
  <2>3. SUFFICES ASSUME MarkOf(hwm, t) < t
                 PROVE  FALSE
    BY <1>2
  <2>4. hwm * t < ((hwm * t) \div QOne + 1) * QOne
    BY <1>1
  <2>5. ((hwm * t) \div QOne + 1) * QOne <= t * QOne
    BY <1>1, <1>2, <2>3, TimesMono DEF MarkOf
  <2>6. ((hwm * t) \div QOne + 1) * QOne \in Nat
    BY <1>1, <1>2, TimesType DEF MarkOf
  <2>7. QED
    BY <1>1, <2>1, <2>2, <2>4, <2>5, <2>6
<1>4. QED
  BY <1>2, <1>3

\* The fee's denominator is a natural and covers the rate's part of the mark.
LEMMA DenominatorType ==
    ASSUME NEW L \in Nat, NEW mark \in Nat, NEW rate \in 0 .. PPM
    PROVE  /\ FeeDenominator(L, mark, rate) \in Nat
           /\ rate * mark <= FeeDenominator(L, mark, rate)
<1>1. PPM - rate \in Nat /\ rate \in Nat
  BY PPMAssumption
<1>2. (PPM - rate) * L \in Nat /\ rate * mark \in Nat
  BY <1>1, TimesType
<1>3. QED
  BY <1>2 DEF FeeDenominator

\* The numbers realize_perf_fee hands back are naturals.
LEMMA FeeTypes ==
    ASSUME NEW base \in Nat, NEW quote \in Nat, NEW t \in Nat, NEW hwm \in Nat,
           NEW rate \in 0 .. PPM
    PROVE  /\ PerfFeeMint(base, quote, t, hwm, rate) \in Nat
           /\ PerfFeeMark(base, quote, t, hwm, rate) \in Nat
<1> DEFINE L    == ValueOf(base, quote)
           mark == MarkOf(hwm, t)
           m    == PerfFeeMint(base, quote, t, hwm, rate)
<1>1. L \in Nat
  BY TimesType, IsqrtType DEF ValueOf
<1>2. mark \in Nat
  BY MarkType
<1>3. FeeDenominator(L, mark, rate) \in Nat
  BY <1>1, <1>2, DenominatorType
<1>4. m \in Nat
  <2>1. CASE L > mark /\ FeeDenominator(L, mark, rate) > 0
    <3>1. L - mark \in Nat /\ rate \in Nat
      BY <1>1, <1>2, <2>1, PPMAssumption
    <3>2. rate * t * (L - mark) \in Nat
      BY <3>1, TimesType
    <3>3. FeeMint(L, mark, t, rate) \in Nat
      BY <1>3, <2>1, <3>2, DivFits DEF FeeMint
    <3>4. QED
      BY <3>3 DEF PerfFeeMint
  <2>2. CASE ~(L > mark /\ FeeDenominator(L, mark, rate) > 0)
    BY <2>2 DEF PerfFeeMint
  <2>3. QED
    BY <2>1, <2>2
<1>5. PerfFeeMark(base, quote, t, hwm, rate) \in Nat
  <2>1. CASE AboveMark(L, t, hwm)
    <3>1. t > 0
      BY <2>1 DEF AboveMark
    <3>2. SatAdd(t, m) \in Nat /\ SatAdd(t, m) > 0
      BY <1>4, <3>1, U64Assumption DEF SatAdd
    <3>3. L * QOne \in Nat
      BY <1>1, QOneAssumption, TimesType
    <3>4. (L * QOne) \div SatAdd(t, m) \in Nat
      BY <3>2, <3>3, DivFits
    <3>5. QED
      BY <3>4 DEF PerfFeeMark
  <2>2. CASE ~AboveMark(L, t, hwm)
    BY <2>2 DEF PerfFeeMark
  <2>3. QED
    BY <2>1, <2>2
<1>6. QED
  BY <1>4, <1>5

\* The fee's mint is worth no more than the gain: what all shares had at the mark
\* they still have after it.
LEMMA FeeMintWithinGain ==
    ASSUME NEW L \in Nat, NEW mark \in Nat, NEW t \in Nat, NEW rate \in 0 .. PPM,
           L > mark, rate > 0, FeeDenominator(L, mark, rate) > 0
    PROVE  /\ FeeMint(L, mark, t, rate) \in Nat
           /\ FeeMint(L, mark, t, rate) * mark <= t * (L - mark)
<1> DEFINE D == FeeDenominator(L, mark, rate)
           m == FeeMint(L, mark, t, rate)
           g == L - mark
<1>1. D \in Nat /\ rate * mark <= D
  BY DenominatorType
<1>2. g \in Nat /\ rate \in Nat
  BY PPMAssumption
<1>3. rate * t * g \in Nat /\ t * g \in Nat /\ rate * mark \in Nat
  BY <1>2, TimesType
<1>4. m \in Nat /\ m * D <= rate * t * g
  <2>1. m = (rate * t * g) \div D
    BY DEF FeeMint
  <2> HIDE DEF D, m, g
  <2>2. QED
    BY <1>1, <1>3, <2>1, DivFits DEF D
<1> HIDE DEF D, m, g
<1>5. m * mark * rate <= t * g * rate
  <2>1. (rate * mark) * m <= D * m
    BY <1>1, <1>3, <1>4, TimesMono
  <2>2. (rate * mark) * m = m * mark * rate /\ D * m = m * D /\ rate * t * g = t * g * rate
    BY <1>1, <1>2, <1>4
  <2>3. m * D \in Nat /\ m * mark \in Nat /\ m * mark * rate \in Nat
    BY <1>1, <1>2, <1>4, TimesType
  <2>4. QED
    BY <1>3, <1>4, <2>1, <2>2, <2>3
<1>6. m * mark <= t * g
  <2>1. m * mark \in Nat
    BY <1>4, TimesType
  <2>2. QED
    BY <1>2, <1>3, <1>5, <2>1, TimesCancel
<1>7. QED
  BY <1>4, <1>6 DEF m, g

\* With an atom under every share at the mark, the mint never outgrows the value: the
\* supply after the fee is at most L, so it fits a u64 and no addition saturates.
LEMMA FeeMintBound ==
    ASSUME NEW L \in Nat, NEW mark \in Nat, NEW t \in Nat, NEW rate \in 0 .. PPM,
           L > mark, rate > 0, FeeDenominator(L, mark, rate) > 0, mark >= t, t > 0
    PROVE  t + FeeMint(L, mark, t, rate) <= L
<1> DEFINE m == FeeMint(L, mark, t, rate)
           g == L - mark
<1>1. m \in Nat /\ m * mark <= t * g
  BY FeeMintWithinGain
<1>2. g \in Nat
  OBVIOUS
<1> HIDE DEF m, g
<1>3. m * t <= g * t
  <2>1. t * m <= mark * m
    BY <1>1, TimesMono
  <2>2. t * m = m * t /\ mark * m = m * mark /\ t * g = g * t
    BY <1>1, <1>2
  <2>3. m * t \in Nat /\ m * mark \in Nat /\ g * t \in Nat
    BY <1>1, <1>2, TimesType
  <2>4. QED
    BY <1>1, <2>1, <2>2, <2>3
<1>4. m <= g
  BY <1>1, <1>2, <1>3, TimesCancel
<1>5. QED
  BY <1>1, <1>2, <1>4 DEF m, g

\* The floor the leader's stake is held to stays covered when shares go to the leader.
LEMMA FloorAfterMint ==
    ASSUME NEW k \in Nat, NEW t \in Nat, NEW m \in Nat, NEW f \in 0 .. PPM,
           MinLeaderShareOk(k, t, f)
    PROVE  MinLeaderShareOk(k + m, t + m, f)
<1>1. PPM \in Nat /\ f \in Nat /\ f <= PPM
  BY PPMAssumption
<1>2. f * m <= PPM * m
  BY <1>1, TimesMono
<1>3. k * PPM >= f * t
  BY DEF MinLeaderShareOk
<1>4. /\ (k + m) * PPM = k * PPM + PPM * m
      /\ f * (t + m) = f * t + f * m
  BY <1>1
<1>5. k * PPM \in Nat /\ f * t \in Nat /\ f * m \in Nat /\ PPM * m \in Nat
  BY <1>1, TimesType
<1>6. (k + m) * PPM >= f * (t + m)
  BY <1>2, <1>3, <1>4, <1>5
<1>7. QED
  BY <1>6 DEF MinLeaderShareOk

\* It also stays covered when the leader has more shares, or the vault fewer.
LEMMA FloorMono ==
    ASSUME NEW k \in Nat, NEW t \in Nat, NEW j \in Nat, NEW u \in Nat, NEW f \in 0 .. PPM,
           MinLeaderShareOk(k, t, f), k <= j, u <= t
    PROVE  MinLeaderShareOk(j, u, f)
<1>1. PPM \in Nat /\ f \in Nat
  BY PPMAssumption
<1>2. k * PPM <= j * PPM
  BY <1>1, TimesMono
<1>3. u * f <= t * f
  BY <1>1, TimesMono
<1>4. u * f = f * u /\ t * f = f * t
  BY <1>1
<1>5. k * PPM >= f * t
  BY DEF MinLeaderShareOk
<1>6. /\ k * PPM \in Nat /\ j * PPM \in Nat
      /\ f * t \in Nat /\ f * u \in Nat
  BY <1>1, TimesType
<1>7. j * PPM >= f * u
  BY <1>2, <1>3, <1>4, <1>5, <1>6
<1>8. QED
  BY <1>7 DEF MinLeaderShareOk

------------------------------------------------------------------------------
(* Types.                                                                   *)

\* The slab is finite.
LEMMA SectorsFinite == IsFiniteSet(Sectors)
<1>1. MaxSectors - 1 \in Int /\ 0 \in Int
  BY SizeAssumption, U64Assumption
<1>2. QED
  BY <1>1, FS_Interval DEF Sectors

\* What the accrual that opens every deposit and withdrawal computes has its type, and
\* it only ever adds shares.
LEMMA FeeOfVault ==
    ASSUME TypeOK, NEW s \in Sectors
    PROVE  /\ Minted(s) \in Nat
           /\ TotalAfterFee(s) \in 0 .. MaxU64
           /\ TotalAfterFee(s) >= total[s]
           /\ LeaderAfterFee(s) \in 0 .. MaxU64
           /\ MarkAfterFee(s) \in Nat
<1>1. /\ atoms["base"][s] \in Nat /\ atoms["quote"][s] \in Nat
      /\ total[s] \in 0 .. MaxU64 /\ leaderShares[s] \in 0 .. MaxU64
  BY DEF TypeOK, Leg
<1>2. vault[s].hwm \in Nat /\ vault[s].perfFee \in 0 .. PPM
  BY DEF TypeOK, VaultSettings
<1>3. FeeShares(s) \in Nat /\ FeeMark(s) \in Nat
  <2>1. total[s] \in Nat
    BY <1>1, SizeAssumption, U64Assumption
  <2>2. /\ PerfFeeMint(atoms["base"][s], atoms["quote"][s], total[s],
                       vault[s].hwm, vault[s].perfFee) \in Nat
        /\ PerfFeeMark(atoms["base"][s], atoms["quote"][s], total[s],
                       vault[s].hwm, vault[s].perfFee) \in Nat
    BY <1>1, <1>2, <2>1, FeeTypes
  <2>3. QED
    BY <2>2 DEF FeeShares, FeeMark
<1>4. Minted(s) \in Nat
  BY <1>3 DEF Minted
<1>5. MarkAfterFee(s) \in Nat
  BY <1>2, <1>3, SizeAssumption, U64Assumption DEF MarkAfterFee
<1>6. QED
  BY <1>1, <1>4, <1>5, SizeAssumption, U64Assumption DEF TotalAfterFee, LeaderAfterFee, SatAdd

\* The claim of the vaults on a treasury is a natural number.
LEMMA LegVaultSumType ==
    ASSUME TypeOK, NEW l \in Leg
    PROVE  LegVaultSum(l) \in Nat
  BY SectorsFinite, SumType DEF LegVaultSum, TypeOK

\* Marking the fee, and vacating the sector or not, leaves well-formed settings.
LEMMA SettingsAfterType ==
    ASSUME TypeOK, NEW s \in Sectors, NEW emptied \in BOOLEAN
    PROVE  SettingsAfter(s, emptied) \in [Sectors -> VaultSettings]
<1>1. MarkAfterFee(s) \in Nat
  BY FeeOfVault
<1>2. LeaderAfter(s, emptied) \in Wallets \cup {NoWallet}
  BY DEF LeaderAfter, TypeOK, VaultSettings
<1> DEFINE marked == [vault[s] EXCEPT !.hwm = MarkAfterFee(s)]
<1>3. marked \in VaultSettings
  BY ZenonT(30), <1>1 DEF TypeOK, VaultSettings
<1>4. [marked EXCEPT !.leader = LeaderAfter(s, emptied)] \in VaultSettings
  BY <1>2, <1>3 DEF VaultSettings
<1>5. SettingsAfter(s, emptied)
        = [vault EXCEPT ![s] = [marked EXCEPT !.leader = LeaderAfter(s, emptied)]]
  BY DEF SettingsAfter, TypeOK
<1>6. QED
  BY <1>4, <1>5 DEF TypeOK

\* A deposit's transfers, credit and mark leave each variable in its type.
LEMMA TakeInType ==
    ASSUME TypeOK, NEW s \in Sectors, NEW paid \in [Leg -> Nat], NEW shares \in Nat,
           TakeIn(s, paid, shares)
    PROVE  /\ treasury' \in [Leg -> 0 .. MaxU64]
           /\ atoms' \in [Leg -> [Sectors -> Nat]]
           /\ total' \in [Sectors -> 0 .. MaxU64]
           /\ vault' \in [Sectors -> VaultSettings]
<1>1. TotalAfterFee(s) \in 0 .. MaxU64
  BY FeeOfVault
<1>2. treasury' \in [Leg -> 0 .. MaxU64]
  BY SizeAssumption, U64Assumption DEF TakeIn, TypeOK
<1>3. atoms' \in [Leg -> [Sectors -> Nat]]
  BY DEF TakeIn, TypeOK
<1>4. total' \in [Sectors -> 0 .. MaxU64]
  BY <1>1, SizeAssumption, U64Assumption DEF TakeIn, TypeOK
<1>5. vault' \in [Sectors -> VaultSettings]
  BY SettingsAfterType DEF TakeIn
<1>6. QED
  BY <1>2, <1>3, <1>4, <1>5

\* What the slab looks like after a withdrawal has its type.
LEMMA SlabAfterType ==
    ASSUME TypeOK, NEW s \in Sectors, NEW emptied \in BOOLEAN, SlabAfter(s, emptied)
    PROVE  /\ list' \in [Sectors -> {"none", "active", "tombstone", "free"}]
           /\ freeStack' \in Seq(Sectors)
           /\ activeCount' \in Nat
           /\ slabLen' = slabLen
<1>1. list' \in [Sectors -> {"none", "active", "tombstone", "free"}]
  BY DEF SlabAfter, ListAfter, TypeOK
<1>2. freeStack' \in Seq(Sectors)
  <2>1. <<s>> \in Seq(Sectors)
    OBVIOUS
  <2>2. <<s>> \o freeStack \in Seq(Sectors)
    BY <2>1 DEF TypeOK
  <2>3. QED
    BY <2>2 DEF SlabAfter, FreeStackAfter, TypeOK
<1>3. activeCount' \in Nat /\ slabLen' = slabLen
  BY DEF SlabAfter, ActiveAfter, SatSub, TypeOK
<1>4. QED
  BY <1>1, <1>2, <1>3

\* A withdrawal's transfers, debit, mark and reclaim leave each variable in its type.
LEMMA PayOutType ==
    ASSUME TypeOK, NEW s \in Sectors, NEW slice \in [Leg -> Nat], NEW shares \in Nat,
           PayOut(s, slice, shares)
    PROVE  /\ treasury' \in [Leg -> 0 .. MaxU64]
           /\ atoms' \in [Leg -> [Sectors -> Nat]]
           /\ total' \in [Sectors -> 0 .. MaxU64]
           /\ vault' \in [Sectors -> VaultSettings]
           /\ SlabAfter(s, Emptied(TotalAfterFee(s) - shares))
<1>1. TotalAfterFee(s) \in 0 .. MaxU64
  BY FeeOfVault
<1>2. treasury' \in [Leg -> 0 .. MaxU64]
  BY SizeAssumption, U64Assumption DEF PayOut, TypeOK
<1>3. atoms' \in [Leg -> [Sectors -> Nat]]
  BY DEF PayOut, TypeOK
<1>4. total' \in [Sectors -> 0 .. MaxU64]
  BY <1>1, SizeAssumption, U64Assumption DEF PayOut, TypeOK
<1>5. vault' \in [Sectors -> VaultSettings]
  BY SettingsAfterType DEF PayOut, Emptied
<1>6. QED
  BY <1>2, <1>3, <1>4, <1>5 DEF PayOut

\* Settings are well formed whichever of them an instruction replaces.
LEMMA SetVaultType ==
    ASSUME TypeOK, NEW s \in Sectors, NEW settings \in VaultSettings, SetVault(s, settings)
    PROVE  TypeOK'
<1>1. vault' \in [Sectors -> VaultSettings]
  BY DEF SetVault, TypeOK
<1>2. QED
  BY <1>1 DEF SetVault, TypeOK, slabVars, shareVars, moneyVars

\* The sector a new vault gets is a sector.
LEMMA NextSectorType ==
    ASSUME TypeOK, CanAllocate
    PROVE  /\ NextSector \in Sectors
           /\ freeStack # <<>> => Tail(freeStack) \in Seq(Sectors)
           /\ freeStack = <<>> => slabLen + 1 \in 0 .. MaxSectors
  BY SizeAssumption, U64Assumption DEF TypeOK, CanAllocate, NextSector, Sectors

\* Creating a vault keeps the types.
LEMMA CreateVaultType ==
    ASSUME TypeOK, NEW w \in Wallets, NEW fee \in PerfFees, NEW allow \in BOOLEAN,
           CreateVault(w, fee, allow)
    PROVE  TypeOK'
<1>1. NextSector \in Sectors
  BY NextSectorType DEF CreateVault
<1>2. [ZeroedVault EXCEPT !.leader = w, !.perfFee = fee, !.floor = DefaultFloor,
                          !.hwm = QOne, !.allow = allow] \in VaultSettings
  BY PPMAssumption, QOneAssumption, RateAssumption
     DEF ZeroedVault, VaultSettings, PriceKind
<1>3. vault' \in [Sectors -> VaultSettings]
  BY <1>1, <1>2 DEF CreateVault, TypeOK
<1>4. /\ total' \in [Sectors -> 0 .. MaxU64]
      /\ leaderShares' \in [Sectors -> 0 .. MaxU64]
      /\ atoms' \in [Leg -> [Sectors -> Nat]]
      /\ list' \in [Sectors -> {"none", "active", "tombstone", "free"}]
  BY <1>1, SizeAssumption, U64Assumption DEF CreateVault, TypeOK
<1>5. freeStack' \in Seq(Sectors) /\ slabLen' \in 0 .. MaxSectors
  BY NextSectorType DEF CreateVault, TypeOK
<1>6. QED
  BY <1>3, <1>4, <1>5 DEF CreateVault, TypeOK, moneyVars

\* What a deposit costs is a natural on each leg.
LEMMA CostType ==
    ASSUME TypeOK, NEW s \in Sectors, total[s] > 0, NEW shares \in Nat
    PROVE  Cost(s, shares) \in [Leg -> Nat]
<1>1. TotalAfterFee(s) \in Nat /\ TotalAfterFee(s) > 0
  <2>1. total[s] \in Nat
    BY SizeAssumption, U64Assumption DEF TypeOK
  <2>2. QED
    BY <2>1, FeeOfVault, SizeAssumption, U64Assumption
<1>2. ASSUME NEW l \in Leg
      PROVE  BasketCost(shares, TotalAfterFee(s), atoms[l][s]) \in Nat
  <2>1. atoms[l][s] \in Nat
    BY DEF TypeOK
  <2>2. QED
    BY <1>1, <2>1, BasketCostType
<1>3. QED
  BY <1>2 DEF Cost

\* What a basket buys is a natural number of shares.
LEMMA BasketType ==
    ASSUME TypeOK, NEW s \in Sectors, NEW l \in Leg, NEW n \in Nat, atoms[l][s] > 0
    PROVE  Basket(s, l, n) \in Nat
<1>1. TotalAfterFee(s) \in Nat /\ atoms[l][s] \in Nat
  BY FeeOfVault, SizeAssumption, U64Assumption DEF TypeOK
<1>2. n * TotalAfterFee(s) \in Nat
  BY <1>1, TimesType
<1>3. QED
  BY <1>1, <1>2, DivFits DEF Basket, BasketShares

\* What a withdrawal pays is a natural on each leg, never more than the inventory.
LEMMA SliceType ==
    ASSUME TypeOK, NEW s \in Sectors, total[s] > 0,
           NEW shares \in Nat, shares <= TotalAfterFee(s)
    PROVE  /\ Slice(s, shares) \in [Leg -> Nat]
           /\ \A l \in Leg : Slice(s, shares)[l] <= atoms[l][s]
<1>1. /\ TotalAfterFee(s) \in Nat /\ TotalAfterFee(s) > 0
      /\ shares \in 0 .. TotalAfterFee(s)
  <2>1. total[s] \in Nat
    BY SizeAssumption, U64Assumption DEF TypeOK
  <2>2. QED
    BY <2>1, FeeOfVault, SizeAssumption, U64Assumption
<1>2. ASSUME NEW l \in Leg
      PROVE  SliceOf(shares, TotalAfterFee(s), atoms[l][s]) \in 0 .. atoms[l][s]
  <2>1. atoms[l][s] \in Nat
    BY DEF TypeOK
  <2>2. QED
    BY <1>1, <2>1, SliceFits
<1>3. ASSUME NEW l \in Leg
      PROVE  atoms[l][s] \in Nat
  BY DEF TypeOK
<1>4. QED
  BY <1>2, <1>3 DEF Slice

\* An outsider's deposit keeps the types.
LEMMA DepositType ==
    ASSUME TypeOK, NEW w \in Wallets, NEW s \in Sectors, NEW l \in Leg,
           NEW n \in 1 .. MaxU64, Deposit(w, s, l, n)
    PROVE  TypeOK'
<1> DEFINE shares == Basket(s, l, n)
<1>1. n \in Nat /\ shares \in Nat
  BY BasketType, SizeAssumption, U64Assumption DEF Deposit
<1> HIDE DEF shares
<1>2. Cost(s, shares) \in [Leg -> Nat]
  BY <1>1, CostType DEF Deposit
<1>3. TakeIn(s, Cost(s, shares), shares)
  BY DEF Deposit, shares
<1>4. /\ treasury' \in [Leg -> 0 .. MaxU64] /\ atoms' \in [Leg -> [Sectors -> Nat]]
      /\ total' \in [Sectors -> 0 .. MaxU64] /\ vault' \in [Sectors -> VaultSettings]
  BY <1>1, <1>2, <1>3, TakeInType
<1>5. leaderShares' \in [Sectors -> 0 .. MaxU64]
  BY FeeOfVault DEF Deposit, TypeOK
<1>6. position' \in [Sectors -> [Wallets -> 0 .. MaxU64]]
  <2>1. position[s][w] + shares \in 0 .. MaxU64
    BY <1>1, SizeAssumption, U64Assumption DEF Deposit, TypeOK, shares
  <2>2. position' = [position EXCEPT ![s][w] = position[s][w] + shares]
    BY DEF Deposit, shares
  <2>3. QED
    BY <2>1, <2>2 DEF TypeOK
<1>7. outstanding' \in Nat
  BY DEF Deposit, OutstandingAfterDeposit, TypeOK
<1>8. QED
  BY <1>4, <1>5, <1>6, <1>7 DEF Deposit, TypeOK, slabVars

\* Seeding a vault keeps the types.
LEMMA SeedVaultType ==
    ASSUME TypeOK, NEW s \in Sectors, NEW paid \in [Leg -> 1 .. MaxU64], SeedVault(s, paid)
    PROVE  TypeOK'
<1> DEFINE shares == ValueOf(paid["base"], paid["quote"])
<1>1. shares \in Nat /\ paid \in [Leg -> Nat]
  <2>1. paid \in [Leg -> Nat] /\ paid["base"] \in Nat /\ paid["quote"] \in Nat
    BY SizeAssumption, U64Assumption DEF Leg
  <2>2. QED
    BY <2>1, TimesType, IsqrtType DEF ValueOf
<1> HIDE DEF shares
<1>2. TakeIn(s, paid, shares)
  BY DEF SeedVault, shares
<1>3. /\ treasury' \in [Leg -> 0 .. MaxU64] /\ atoms' \in [Leg -> [Sectors -> Nat]]
      /\ total' \in [Sectors -> 0 .. MaxU64] /\ vault' \in [Sectors -> VaultSettings]
  BY <1>1, <1>2, TakeInType
<1>4. leaderShares' \in [Sectors -> 0 .. MaxU64]
  <2>1. LeaderAfterFee(s) + shares \in 0 .. MaxU64
    BY <1>1, FeeOfVault, SizeAssumption, U64Assumption DEF SeedVault, shares
  <2>2. QED
    BY <2>1 DEF SeedVault, TypeOK, shares
<1>5. QED
  BY <1>3, <1>4 DEF SeedVault, TypeOK, slabVars

\* The leader's deposit keeps the types.
LEMMA DepositLeaderType ==
    ASSUME TypeOK, NEW s \in Sectors, NEW l \in Leg, NEW n \in 1 .. MaxU64,
           DepositLeader(s, l, n)
    PROVE  TypeOK'
<1> DEFINE shares == Basket(s, l, n)
<1>1. n \in Nat /\ shares \in Nat
  BY BasketType, SizeAssumption, U64Assumption DEF DepositLeader
<1> HIDE DEF shares
<1>2. Cost(s, shares) \in [Leg -> Nat]
  BY <1>1, CostType DEF DepositLeader
<1>3. TakeIn(s, Cost(s, shares), shares)
  BY DEF DepositLeader, shares
<1>4. /\ treasury' \in [Leg -> 0 .. MaxU64] /\ atoms' \in [Leg -> [Sectors -> Nat]]
      /\ total' \in [Sectors -> 0 .. MaxU64] /\ vault' \in [Sectors -> VaultSettings]
  BY <1>1, <1>2, <1>3, TakeInType
<1>5. leaderShares' \in [Sectors -> 0 .. MaxU64]
  <2>1. LeaderAfterFee(s) + shares \in 0 .. MaxU64
    BY <1>1, FeeOfVault, SizeAssumption, U64Assumption DEF DepositLeader, shares
  <2>2. QED
    BY <2>1 DEF DepositLeader, TypeOK, shares
<1>6. QED
  BY <1>4, <1>5 DEF DepositLeader, TypeOK, slabVars

\* A position's exit keeps the types.
LEMMA ExitPositionType ==
    ASSUME TypeOK, NEW w \in Wallets, NEW s \in Sectors, NEW shares \in Nat,
           ExitPosition(w, s, shares), UNCHANGED open
    PROVE  TypeOK'
<1>1. shares <= TotalAfterFee(s) /\ total[s] > 0 /\ PayOut(s, Slice(s, shares), shares)
  BY DEF ExitPosition, PayOut
<1>2. Slice(s, shares) \in [Leg -> Nat]
  BY <1>1, SliceType
<1>3. /\ treasury' \in [Leg -> 0 .. MaxU64] /\ atoms' \in [Leg -> [Sectors -> Nat]]
      /\ total' \in [Sectors -> 0 .. MaxU64] /\ vault' \in [Sectors -> VaultSettings]
      /\ SlabAfter(s, Emptied(TotalAfterFee(s) - shares))
  BY <1>1, <1>2, PayOutType
<1>4. /\ list' \in [Sectors -> {"none", "active", "tombstone", "free"}]
      /\ freeStack' \in Seq(Sectors) /\ activeCount' \in Nat /\ slabLen' = slabLen
  BY <1>3, SlabAfterType DEF Emptied
<1>5. leaderShares' \in [Sectors -> 0 .. MaxU64]
  BY FeeOfVault DEF ExitPosition, TypeOK
<1>6. position' \in [Sectors -> [Wallets -> 0 .. MaxU64]]
  <2>1. position[s][w] - shares \in 0 .. MaxU64
    BY SizeAssumption, U64Assumption DEF ExitPosition, TypeOK
  <2>2. QED
    BY <2>1 DEF ExitPosition, TypeOK
<1>7. outstanding' \in Nat
  BY DEF ExitPosition, OutstandingAfterExit, SatSub, TypeOK
<1>8. QED
  BY <1>3, <1>4, <1>5, <1>6, <1>7 DEF ExitPosition, TypeOK

\* The leader's exit keeps the types.
LEMMA ExitLeaderType ==
    ASSUME TypeOK, NEW s \in Sectors, NEW shares \in Nat, ExitLeader(s, shares)
    PROVE  TypeOK'
<1>1. shares <= TotalAfterFee(s) /\ total[s] > 0 /\ PayOut(s, Slice(s, shares), shares)
  BY DEF ExitLeader, PayOut
<1>2. Slice(s, shares) \in [Leg -> Nat]
  BY <1>1, SliceType
<1>3. /\ treasury' \in [Leg -> 0 .. MaxU64] /\ atoms' \in [Leg -> [Sectors -> Nat]]
      /\ total' \in [Sectors -> 0 .. MaxU64] /\ vault' \in [Sectors -> VaultSettings]
      /\ SlabAfter(s, Emptied(TotalAfterFee(s) - shares))
  BY <1>1, <1>2, PayOutType
<1>4. /\ list' \in [Sectors -> {"none", "active", "tombstone", "free"}]
      /\ freeStack' \in Seq(Sectors) /\ activeCount' \in Nat /\ slabLen' = slabLen
  BY <1>3, SlabAfterType DEF Emptied
<1>5. leaderShares' \in [Sectors -> 0 .. MaxU64]
  <2>1. LeaderAfterFee(s) - shares \in 0 .. MaxU64
    BY FeeOfVault, SizeAssumption, U64Assumption DEF ExitLeader
  <2>2. QED
    BY <2>1 DEF ExitLeader, TypeOK
<1>6. QED
  BY <1>3, <1>4, <1>5 DEF ExitLeader, TypeOK

\* The admin's removal of a leader keeps the types, also of one who never seeded.
LEMMA ForceWithdrawLeaderType ==
    ASSUME TypeOK, NEW s \in Sectors, ForceWithdrawLeader(s)
    PROVE  TypeOK'
<1>1. CASE ExitLeader(s, LeaderAfterFee(s))
  <2>1. LeaderAfterFee(s) \in Nat
    BY FeeOfVault, SizeAssumption, U64Assumption
  <2>2. QED
    BY <1>1, <2>1, ExitLeaderType
<1>2. CASE ~ExitLeader(s, LeaderAfterFee(s))
  <2>1. SlabAfter(s, TRUE)
    BY <1>2 DEF ForceWithdrawLeader
  <2>2. /\ list' \in [Sectors -> {"none", "active", "tombstone", "free"}]
        /\ freeStack' \in Seq(Sectors) /\ activeCount' \in Nat /\ slabLen' = slabLen
    BY <2>1, SlabAfterType
  <2>3. vault' \in [Sectors -> VaultSettings]
    <3>1. [vault[s] EXCEPT !.leader = LeaderAfter(s, TRUE)] \in VaultSettings
      BY ZenonT(30) DEF LeaderAfter, TypeOK, VaultSettings
    <3>2. vault' = [vault EXCEPT ![s] = [vault[s] EXCEPT !.leader = LeaderAfter(s, TRUE)]]
      BY <1>2 DEF ForceWithdrawLeader, TypeOK
    <3>3. QED
      BY <3>1, <3>2 DEF TypeOK
  <2>4. UNCHANGED <<shareVars, atoms, moneyVars, open>>
    BY <1>2 DEF ForceWithdrawLeader
  <2>5. QED
    BY <2>2, <2>3, <2>4 DEF TypeOK, shareVars, moneyVars
<1>3. QED
  BY <1>1, <1>2

\* A swap keeps the types.
LEMMA SwapType ==
    ASSUME TypeOK, NEW out \in Leg, NEW outs \in [Sectors -> 0 .. MaxFill],
           NEW ins \in [Sectors -> 0 .. MaxFill], NEW fee \in 0 .. MaxFill * MaxSectors,
           NEW residue \in 0 .. MaxResidue, Swap(out, outs, ins, fee, residue)
    PROVE  TypeOK'
<1> DEFINE in == OtherLeg(out)
<1>1. in \in Leg /\ in # out
  BY DEF Leg, OtherLeg
<1>2. outs \in [Sectors -> Nat] /\ ins \in [Sectors -> Nat] /\ residue \in Nat /\ fee \in Nat
  <2>1. MaxFill * MaxSectors \in Nat
    BY SizeAssumption, U64Assumption, TimesType
  <2>2. QED
    BY <2>1, SizeAssumption, U64Assumption
<1>3. SumOf(outs) \in Nat /\ SumOf(ins) \in Nat
  BY <1>2, SectorsFinite, SumType
<1> HIDE DEF in
<1>4. treasury' \in [Leg -> 0 .. MaxU64]
  <2>1. treasury[in] + (SumOf(ins) + residue) \in 0 .. MaxU64
    BY <1>1, <1>2, <1>3, SizeAssumption, U64Assumption DEF Swap, TypeOK, in
  <2>2. treasury[out] - (SumOf(outs) - fee) \in 0 .. MaxU64
    BY <1>2, <1>3, SizeAssumption, U64Assumption DEF Swap, TypeOK
  <2>3. treasury' = [treasury EXCEPT ![in]  = treasury[in] + (SumOf(ins) + residue),
                                     ![out] = treasury[out] - (SumOf(outs) - fee)]
    BY <1>1 DEF Swap, TypeOK, in
  <2>4. QED
    BY <2>1, <2>2, <2>3 DEF TypeOK
<1>5. atoms' \in [Leg -> [Sectors -> Nat]]
  <2>1. [s \in Sectors |-> atoms[in][s] + ins[s]] \in [Sectors -> Nat]
    BY <1>1, <1>2 DEF TypeOK
  <2>2. [s \in Sectors |-> atoms[out][s] - outs[s]] \in [Sectors -> Nat]
    BY <1>2 DEF Swap, FillsOK, TypeOK
  <2>3. atoms' = [atoms EXCEPT ![in]  = [s \in Sectors |-> atoms[in][s] + ins[s]],
                               ![out] = [s \in Sectors |-> atoms[out][s] - outs[s]]]
    BY <1>1 DEF Swap, TypeOK, in
  <2>4. QED
    BY <2>1, <2>2, <2>3 DEF TypeOK
<1>6. accrued' \in [Leg -> Nat]
  BY <1>2, SizeAssumption, U64Assumption DEF Swap, AccruedAfter, SatAdd, TypeOK
<1>7. QED
  BY <1>4, <1>5, <1>6 DEF Swap, TypeOK, slabVars, shareVars

\* What happens to the treasuries outside deposits, withdrawals and swaps keeps the types.
LEMMA TreasuryTypes ==
    ASSUME TypeOK, NEW l \in Leg,
           Donate(l) \/ SweepResidual(l) \/ CloseMarketTreasury(l) \/ RecreateTreasury(l)
    PROVE  TypeOK'
<1>1. CASE Donate(l)
  BY <1>1, SizeAssumption, U64Assumption DEF Donate, TypeOK, slabVars, shareVars
<1>2. CASE SweepResidual(l)
  <2>1. LegVaultSum(l) \in Nat
    BY LegVaultSumType
  <2>2. treasury[l] - Residual(l) \in 0 .. MaxU64
    BY <2>1, SizeAssumption, U64Assumption DEF Residual, SatSub, TypeOK
  <2>3. QED
    BY <1>2, <2>2 DEF SweepResidual, TypeOK, slabVars, shareVars
<1>3. CASE CloseMarketTreasury(l)
  BY <1>3, SizeAssumption, U64Assumption DEF CloseMarketTreasury, TypeOK, slabVars, shareVars
<1>4. CASE RecreateTreasury(l)
  BY <1>4 DEF RecreateTreasury, TypeOK, slabVars, shareVars
<1>5. QED
  BY <1>1, <1>2, <1>3, <1>4

\* The initial state has its types.
LEMMA TypeOKInit == Init => TypeOK
<1> SUFFICES ASSUME Init
             PROVE  TypeOK
  OBVIOUS
<1>1. ZeroedVault \in VaultSettings
  BY PPMAssumption DEF ZeroedVault, VaultSettings, PriceKind
<1>2. treasury \in [Leg -> 0 .. MaxU64]
  BY SizeAssumption, U64Assumption DEF Init
<1>3. QED
  BY <1>1, <1>2, SizeAssumption, U64Assumption DEF Init, TypeOK

\* Every instruction keeps the types.
LEMMA TypeOKStep == TypeOK /\ [Next]_vars => TypeOK'
<1> SUFFICES ASSUME TypeOK, [Next]_vars
             PROVE  TypeOK'
  OBVIOUS
<1>1. ASSUME NEW w \in Wallets, NEW fee \in PerfFees, NEW allow \in BOOLEAN,
             CreateVault(w, fee, allow)
      PROVE  TypeOK'
  BY <1>1, CreateVaultType
<1>2. ASSUME NEW s \in Sectors, CloseVault(s)
      PROVE  TypeOK'
  <2>1. vault' \in [Sectors -> VaultSettings]
    <3>1. [vault[s] EXCEPT !.tombstoned = TRUE] \in VaultSettings
      BY ZenonT(30) DEF TypeOK, VaultSettings
    <3>2. QED
      BY <1>2, <3>1 DEF CloseVault, TypeOK
  <2>2. activeCount' \in Nat /\ list' \in [Sectors -> {"none", "active", "tombstone", "free"}]
    BY <1>2 DEF CloseVault, SatSub, TypeOK
  <2>3. QED
    BY <1>2, <2>1, <2>2 DEF CloseVault, TypeOK, shareVars, moneyVars
<1>3. ASSUME NEW s \in Sectors,
             \/ FreezeVault(s)
             \/ \E floor \in FloorShares : SetMinLeaderShare(s, floor)
             \/ \E b \in BOOLEAN : SetAllowOutsideDepositors(s, b)
             \/ \E b \in BOOLEAN : SetOutsideDepositsApproved(s, b)
             \/ \E kind \in PriceKind : SetReferencePrice(s, kind)
      PROVE  TypeOK'
  <2>1. /\ [vault[s] EXCEPT !.frozen = TRUE] \in VaultSettings
        /\ \A b \in BOOLEAN : /\ [vault[s] EXCEPT !.allow = b] \in VaultSettings
                              /\ [vault[s] EXCEPT !.approved = b] \in VaultSettings
        /\ \A kind \in PriceKind : [vault[s] EXCEPT !.price = kind] \in VaultSettings
    BY ZenonT(30) DEF TypeOK, VaultSettings
  <2>2. \A floor \in FloorShares : [vault[s] EXCEPT !.floor = floor] \in VaultSettings
    BY ZenonT(30), RateAssumption DEF TypeOK, VaultSettings
  <2>3. \E settings \in VaultSettings : SetVault(s, settings)
    BY <1>3, <2>1, <2>2
       DEF FreezeVault, SetMinLeaderShare, SetAllowOutsideDepositors,
           SetOutsideDepositsApproved, SetReferencePrice
  <2>4. QED
    BY <2>3, SetVaultType
<1>4. ASSUME NEW s \in Sectors, NEW paid \in [Leg -> 1 .. MaxU64], SeedVault(s, paid)
      PROVE  TypeOK'
  BY <1>4, SeedVaultType
<1>5. ASSUME NEW s \in Sectors, NEW l \in Leg, NEW n \in 1 .. MaxU64, DepositLeader(s, l, n)
      PROVE  TypeOK'
  BY <1>5, DepositLeaderType
<1>6. ASSUME NEW s \in Sectors, NEW n \in 1 .. MaxU64, WithdrawLeader(s, n)
      PROVE  TypeOK'
  BY <1>6, ExitLeaderType, SizeAssumption, U64Assumption DEF WithdrawLeader
<1>7. ASSUME NEW s \in Sectors, ForceWithdrawLeader(s)
      PROVE  TypeOK'
  BY <1>7, ForceWithdrawLeaderType
<1>8. ASSUME NEW s \in Sectors, NEW w \in Wallets, NEW l \in Leg, NEW n \in 1 .. MaxU64,
             Deposit(w, s, l, n)
      PROVE  TypeOK'
  BY <1>8, DepositType
<1>9. ASSUME NEW s \in Sectors, NEW w \in Wallets, NEW n \in 1 .. MaxU64, Withdraw(w, s, n)
      PROVE  TypeOK'
  <2>1. n \in Nat /\ ExitPosition(w, s, n) /\ UNCHANGED open
    BY <1>9, SizeAssumption, U64Assumption DEF Withdraw, ExitPosition
  <2>2. QED
    BY <2>1, ExitPositionType
<1>10. ASSUME NEW s \in Sectors, NEW w \in Wallets, ForceWithdrawDepositor(w, s)
       PROVE  TypeOK'
  <2>1. position[s][w] \in Nat
    BY SizeAssumption, U64Assumption DEF TypeOK
  <2>2. ExitPosition(w, s, position[s][w]) /\ UNCHANGED open
    BY <1>10 DEF ForceWithdrawDepositor, ExitPosition
  <2>3. QED
    BY <2>1, <2>2, ExitPositionType
<1>11. ASSUME NEW out \in Leg, NEW outs \in [Sectors -> 0 .. MaxFill],
              NEW ins \in [Sectors -> 0 .. MaxFill], NEW fee \in 0 .. MaxFill * MaxSectors,
              NEW residue \in 0 .. MaxResidue, Swap(out, outs, ins, fee, residue)
       PROVE  TypeOK'
  BY <1>11, SwapType
<1>12. ASSUME NEW l \in Leg,
              \/ Donate(l) \/ SweepResidual(l)
              \/ CloseMarketTreasury(l) \/ RecreateTreasury(l)
       PROVE  TypeOK'
  BY <1>12, TreasuryTypes
<1>13. CASE CloseMarket
  BY <1>13 DEF CloseMarket, TypeOK, slabVars, shareVars, moneyVars
<1>14. CASE UNCHANGED vars
  BY <1>14 DEF vars, TypeOK, slabVars, shareVars, moneyVars
<1>15. QED
  BY <1>1, <1>2, <1>3, <1>4, <1>5, <1>6, <1>7, <1>8, <1>9, <1>10, <1>11, <1>12, <1>13, <1>14,
     RateAssumption, SizeAssumption, U64Assumption DEF Next

\* Type correctness: in every reachable state of a market of any size, with integers of any
\* width, every balance fits its width and every linked sector is a sector.
THEOREM TypeCorrect == Spec => []TypeOK
<1>1. Init => TypeOK
  BY TypeOKInit
<1>2. TypeOK /\ [Next]_vars => TypeOK'
  BY TypeOKStep
<1>3. QED
  BY <1>1, <1>2, PTL DEF Spec

------------------------------------------------------------------------------
(* Custody. It is inductive with the types alone: no instruction pays out   *)
(* of a treasury anything but what it takes off a vault, the net output of  *)
(* a swap, or what nobody claims.                                           *)

\* Replacing one sector's inventory moves the vaults' claim by the difference.
LEMMA SumAfterOne ==
    ASSUME TypeOK, NEW l \in Leg, NEW s \in Sectors, NEW n \in Nat,
           atoms'[l] = [atoms[l] EXCEPT ![s] = n]
    PROVE  /\ LegVaultSum(l)' = LegVaultSum(l) - atoms[l][s] + n
           /\ atoms[l][s] <= LegVaultSum(l)
<1>1. atoms[l] \in [Sectors -> Nat]
  BY DEF TypeOK
<1>2. QED
  BY <1>1, SectorsFinite, SumExcept DEF LegVaultSum

\* What a step leaves alone keeps its custody.
LEMMA CustodyUntouched ==
    ASSUME Custody, UNCHANGED <<treasury, atoms, accrued>>
    PROVE  Custody'
  BY DEF Custody, LegVaultSum

\* A deposit raises balance and claim alike.
LEMMA CustodyTakeIn ==
    ASSUME TypeOK, Custody, NEW s \in Sectors, NEW paid \in [Leg -> Nat], NEW shares \in Nat,
           TakeIn(s, paid, shares), UNCHANGED accrued
    PROVE  Custody'
<1> SUFFICES ASSUME NEW l \in Leg
             PROVE  treasury'[l] >= LegVaultSum(l)' + accrued'[l]
  BY DEF Custody
<1>1. atoms[l][s] + paid[l] \in Nat /\ atoms[l][s] \in Nat
  BY DEF TypeOK
<1>2. atoms'[l] = [atoms[l] EXCEPT ![s] = atoms[l][s] + paid[l]]
  BY DEF TakeIn, TypeOK
<1>3. LegVaultSum(l)' = LegVaultSum(l) - atoms[l][s] + (atoms[l][s] + paid[l])
  BY <1>1, <1>2, SumAfterOne
<1>4. LegVaultSum(l) \in Nat /\ accrued[l] \in Nat /\ treasury[l] \in Nat
  BY LegVaultSumType, SizeAssumption, U64Assumption DEF TypeOK
<1>5. treasury'[l] = treasury[l] + paid[l]
  BY DEF TakeIn
<1>6. treasury[l] >= LegVaultSum(l) + accrued[l]
  BY DEF Custody
<1>7. QED
  BY <1>1, <1>3, <1>4, <1>5, <1>6

\* A withdrawal lowers balance and claim alike.
LEMMA CustodyPayOut ==
    ASSUME TypeOK, Custody, NEW s \in Sectors, NEW slice \in [Leg -> Nat], NEW shares \in Nat,
           PayOut(s, slice, shares), UNCHANGED accrued
    PROVE  Custody'
<1> SUFFICES ASSUME NEW l \in Leg
             PROVE  treasury'[l] >= LegVaultSum(l)' + accrued'[l]
  BY DEF Custody
<1>1. atoms[l][s] - slice[l] \in Nat /\ atoms[l][s] \in Nat
  BY DEF PayOut, TypeOK
<1>2. atoms'[l] = [atoms[l] EXCEPT ![s] = atoms[l][s] - slice[l]]
  BY DEF PayOut, TypeOK
<1>3. LegVaultSum(l)' = LegVaultSum(l) - atoms[l][s] + (atoms[l][s] - slice[l])
  BY <1>1, <1>2, SumAfterOne
<1>4. LegVaultSum(l) \in Nat /\ accrued[l] \in Nat /\ treasury[l] \in Nat
  BY LegVaultSumType, SizeAssumption, U64Assumption DEF TypeOK
<1>5. treasury'[l] = treasury[l] - slice[l]
  BY DEF PayOut
<1>6. treasury[l] >= LegVaultSum(l) + accrued[l]
  BY DEF Custody
<1>7. QED
  BY <1>1, <1>3, <1>4, <1>5, <1>6

\* An exit of either kind is a withdrawal of a slice.
LEMMA CustodyExit ==
    ASSUME TypeOK, Custody, NEW s \in Sectors, NEW shares \in Nat,
           \/ ExitLeader(s, shares)
           \/ \E w \in Wallets : ExitPosition(w, s, shares)
    PROVE  Custody'
<1>1. /\ shares <= TotalAfterFee(s) /\ total[s] > 0
      /\ PayOut(s, Slice(s, shares), shares) /\ UNCHANGED accrued
  BY DEF ExitLeader, ExitPosition, PayOut
<1>2. Slice(s, shares) \in [Leg -> Nat]
  BY <1>1, SliceType
<1>3. QED
  BY <1>1, <1>2, CustodyPayOut

\* A swap brings in what the vaults are credited and pays out what they are debited,
\* less the fee it accrues.
LEMMA CustodySwap ==
    ASSUME TypeOK, Custody, NEW out \in Leg, NEW outs \in [Sectors -> 0 .. MaxFill],
           NEW ins \in [Sectors -> 0 .. MaxFill], NEW fee \in 0 .. MaxFill * MaxSectors,
           NEW residue \in 0 .. MaxResidue, Swap(out, outs, ins, fee, residue)
    PROVE  Custody'
<1> DEFINE in   == OtherLeg(out)
           left == [s \in Sectors |-> atoms[out][s] - outs[s]]
<1>1. in \in Leg /\ in # out /\ \A l \in Leg : l = in \/ l = out
  BY DEF Leg, OtherLeg
<1>2. outs \in [Sectors -> Nat] /\ ins \in [Sectors -> Nat] /\ residue \in Nat /\ fee \in Nat
  <2>1. MaxFill * MaxSectors \in Nat
    BY SizeAssumption, U64Assumption, TimesType
  <2>2. QED
    BY <2>1, SizeAssumption, U64Assumption
<1>3. SumOf(outs) \in Nat /\ SumOf(ins) \in Nat
  BY <1>2, SectorsFinite, SumType
<1>4. \A l \in Leg : /\ LegVaultSum(l) \in Nat /\ accrued[l] \in Nat /\ treasury[l] \in Nat
                     /\ atoms[l] \in [Sectors -> Nat]
                     /\ treasury[l] >= LegVaultSum(l) + accrued[l]
  BY LegVaultSumType, SizeAssumption, U64Assumption DEF TypeOK, Custody
<1>5. left \in [Sectors -> Nat]
  BY <1>2 DEF Swap, FillsOK, TypeOK
<1> HIDE DEF in
<1>6. /\ atoms'[in] = [s \in Sectors |-> atoms[in][s] + ins[s]]
      /\ atoms'[out] = left
  BY <1>1 DEF Swap, TypeOK, in
<1>7. LegVaultSum(in)' = LegVaultSum(in) + SumOf(ins)
  <2>1. SumOf([s \in Sectors |-> atoms[in][s] + ins[s]]) = SumOf(atoms[in]) + SumOf(ins)
    BY <1>1, <1>2, <1>4, SectorsFinite, SumPlus
  <2>2. QED
    BY <1>6, <2>1 DEF LegVaultSum
<1>8. LegVaultSum(out) = LegVaultSum(out)' + SumOf(outs) /\ LegVaultSum(out)' \in Nat
  <2>1. SumOf([s \in Sectors |-> left[s] + outs[s]]) = SumOf(left) + SumOf(outs)
    BY <1>2, <1>5, SectorsFinite, SumPlus
  <2>2. atoms[out] = [s \in Sectors |-> left[s] + outs[s]]
    BY <1>2, <1>4
  <2>3. SumOf(left) \in Nat
    BY <1>5, SectorsFinite, SumType
  <2>4. QED
    BY <1>6, <2>1, <2>2, <2>3 DEF LegVaultSum
<1>9. treasury'[in] >= LegVaultSum(in)' + accrued'[in]
  <2>1. treasury'[in] = treasury[in] + (SumOf(ins) + residue)
    BY <1>1 DEF Swap, TypeOK, in
  <2>2. accrued'[in] = accrued[in]
    BY <1>1 DEF Swap, TypeOK
  <2>3. QED
    BY <1>1, <1>2, <1>3, <1>4, <1>7, <2>1, <2>2
<1>10. treasury'[out] >= LegVaultSum(out)' + accrued'[out]
  <2>1. treasury'[out] = treasury[out] - (SumOf(outs) - fee)
    BY <1>1 DEF Swap, TypeOK, in
  <2>2. accrued'[out] <= accrued[out] + fee /\ accrued'[out] \in Nat
    <3>1. accrued'[out] = AccruedAfter(out, fee)
      BY DEF Swap, TypeOK
    <3>2. QED
      BY <1>2, <1>4, <3>1, SizeAssumption, U64Assumption DEF AccruedAfter, SatAdd
  <2>3. QED
    BY <1>2, <1>3, <1>4, <1>8, <2>1, <2>2
<1>11. QED
  BY <1>1, <1>9, <1>10 DEF Custody

\* Sweeps leave what is claimed, donations add to it, and a closed treasury had no
\* claim on it.
LEMMA CustodyTreasury ==
    ASSUME TypeOK, Custody, NEW l \in Leg,
           Donate(l) \/ SweepResidual(l) \/ CloseMarketTreasury(l) \/ RecreateTreasury(l)
    PROVE  Custody'
<1>1. \A k \in Leg : /\ LegVaultSum(k) \in Nat /\ accrued[k] \in Nat /\ treasury[k] \in Nat
                     /\ treasury[k] >= LegVaultSum(k) + accrued[k]
  BY LegVaultSumType, SizeAssumption, U64Assumption DEF TypeOK, Custody
<1>2. UNCHANGED atoms /\ \A k \in Leg : LegVaultSum(k)' = LegVaultSum(k)
  BY DEF Donate, SweepResidual, CloseMarketTreasury, RecreateTreasury, LegVaultSum
<1>3. CASE Donate(l)
  <2>1. UNCHANGED accrued /\ \A k \in Leg : treasury'[k] >= treasury[k]
    BY <1>1, <1>3 DEF Donate, TypeOK
  <2>2. \A k \in Leg : treasury'[k] \in Nat
    BY <1>1, <1>3 DEF Donate, TypeOK
  <2>3. QED
    BY <1>1, <1>2, <2>1, <2>2 DEF Custody
<1>4. CASE SweepResidual(l)
  <2>1. treasury[l] - Residual(l) = LegVaultSum(l) + accrued[l]
    BY <1>1 DEF Residual, SatSub
  <2>2. UNCHANGED accrued /\ \A k \in Leg : treasury'[k] = IF k = l THEN LegVaultSum(l) + accrued[l]
                                                                  ELSE treasury[k]
    BY <1>4, <2>1 DEF SweepResidual, TypeOK
  <2>3. QED
    BY <1>1, <1>2, <2>2 DEF Custody
<1>5. CASE CloseMarketTreasury(l)
  <2>1. LegVaultSum(l) = 0
    BY <1>5 DEF CloseMarketTreasury, CanCloseTreasury
  <2>2. \A k \in Leg : IF k = l THEN treasury'[k] = 0 /\ accrued'[k] = 0
                                ELSE treasury'[k] = treasury[k] /\ accrued'[k] = accrued[k]
    BY <1>5 DEF CloseMarketTreasury, TypeOK
  <2>3. QED
    BY <1>1, <1>2, <2>1, <2>2 DEF Custody
<1>6. CASE RecreateTreasury(l)
  BY <1>6, CustodyUntouched DEF RecreateTreasury
<1>7. QED
  BY <1>3, <1>4, <1>5, <1>6

\* Every instruction keeps custody.
LEMMA CustodyStep == TypeOK /\ Custody /\ [Next]_vars => Custody'
<1> SUFFICES ASSUME TypeOK, Custody, [Next]_vars
             PROVE  Custody'
  OBVIOUS
<1>1. ASSUME NEW w \in Wallets, NEW fee \in PerfFees, NEW allow \in BOOLEAN,
             CreateVault(w, fee, allow)
      PROVE  Custody'
  <2>1. NextSector \in Sectors
    BY <1>1, NextSectorType DEF CreateVault
  <2>2. ASSUME NEW l \in Leg
        PROVE  treasury'[l] >= LegVaultSum(l)' + accrued'[l]
    <3>1. atoms'[l] = [atoms[l] EXCEPT ![NextSector] = 0]
      BY <1>1 DEF CreateVault
    <3>2. LegVaultSum(l)' = LegVaultSum(l) - atoms[l][NextSector] + 0
      BY <2>1, <3>1, SumAfterOne
    <3>3. /\ LegVaultSum(l) \in Nat /\ accrued[l] \in Nat /\ treasury[l] \in Nat
          /\ atoms[l][NextSector] \in Nat
      BY <2>1, LegVaultSumType, SizeAssumption, U64Assumption DEF TypeOK
    <3>4. treasury[l] >= LegVaultSum(l) + accrued[l]
      BY DEF Custody
    <3>5. treasury' = treasury /\ accrued' = accrued
      BY <1>1 DEF CreateVault, moneyVars
    <3>6. QED
      BY <3>2, <3>3, <3>4, <3>5
  <2>3. QED
    BY <2>2 DEF Custody
<1>2. ASSUME NEW s \in Sectors,
             \/ CloseVault(s)
             \/ FreezeVault(s)
             \/ \E floor \in FloorShares : SetMinLeaderShare(s, floor)
             \/ \E b \in BOOLEAN : SetAllowOutsideDepositors(s, b)
             \/ \E b \in BOOLEAN : SetOutsideDepositsApproved(s, b)
             \/ \E kind \in PriceKind : SetReferencePrice(s, kind)
      PROVE  Custody'
  <2>1. UNCHANGED <<treasury, atoms, accrued>>
    BY <1>2 DEF CloseVault, FreezeVault, SetMinLeaderShare, SetAllowOutsideDepositors,
                SetOutsideDepositsApproved, SetReferencePrice, SetVault, moneyVars
  <2>2. QED
    BY <2>1, CustodyUntouched
<1>3. ASSUME NEW s \in Sectors, NEW paid \in [Leg -> 1 .. MaxU64], SeedVault(s, paid)
      PROVE  Custody'
  <2>1. /\ paid \in [Leg -> Nat]
        /\ paid["base"] \in Nat /\ paid["quote"] \in Nat
    BY SizeAssumption, U64Assumption DEF Leg
  <2>2. ValueOf(paid["base"], paid["quote"]) \in Nat
    BY <2>1, TimesType, IsqrtType DEF ValueOf
  <2>3. QED
    BY <1>3, <2>1, <2>2, CustodyTakeIn DEF SeedVault
<1>4. ASSUME NEW s \in Sectors, NEW l \in Leg, NEW n \in 1 .. MaxU64,
             DepositLeader(s, l, n) \/ \E w \in Wallets : Deposit(w, s, l, n)
      PROVE  Custody'
  <2>1. /\ total[s] > 0 /\ atoms[l][s] > 0
        /\ TakeIn(s, Cost(s, Basket(s, l, n)), Basket(s, l, n)) /\ UNCHANGED accrued
    BY <1>4 DEF DepositLeader, Deposit
  <2>2. Basket(s, l, n) \in Nat
    BY <2>1, BasketType, SizeAssumption, U64Assumption
  <2>3. Cost(s, Basket(s, l, n)) \in [Leg -> Nat]
    BY <2>1, <2>2, CostType
  <2>4. QED
    BY <2>1, <2>2, <2>3, CustodyTakeIn
<1>5. ASSUME NEW s \in Sectors,
             \/ \E n \in 1 .. MaxU64 : WithdrawLeader(s, n)
             \/ \E w \in Wallets, n \in 1 .. MaxU64 : Withdraw(w, s, n)
             \/ \E w \in Wallets : ForceWithdrawDepositor(w, s)
             \/ ForceWithdrawLeader(s)
      PROVE  Custody'
  <2>1. /\ LeaderAfterFee(s) \in Nat
        /\ \A n \in 1 .. MaxU64 : n \in Nat
        /\ \A w \in Wallets : position[s][w] \in Nat
    BY FeeOfVault, SizeAssumption, U64Assumption DEF TypeOK
  <2>2. \/ UNCHANGED <<treasury, atoms, accrued>>
        \/ \E n \in Nat : \/ ExitLeader(s, n)
                          \/ \E w \in Wallets : ExitPosition(w, s, n)
    BY <1>5, <2>1 DEF WithdrawLeader, Withdraw, ForceWithdrawDepositor, ForceWithdrawLeader,
                      moneyVars
  <2>3. QED
    BY <2>2, CustodyUntouched, CustodyExit
<1>6. ASSUME NEW out \in Leg, NEW outs \in [Sectors -> 0 .. MaxFill],
             NEW ins \in [Sectors -> 0 .. MaxFill], NEW fee \in 0 .. MaxFill * MaxSectors,
             NEW residue \in 0 .. MaxResidue, Swap(out, outs, ins, fee, residue)
      PROVE  Custody'
  BY <1>6, CustodySwap
<1>7. ASSUME NEW l \in Leg,
             \/ Donate(l) \/ SweepResidual(l)
             \/ CloseMarketTreasury(l) \/ RecreateTreasury(l)
      PROVE  Custody'
  BY <1>7, CustodyTreasury
<1>8. CASE CloseMarket \/ UNCHANGED vars
  BY <1>8, CustodyUntouched DEF CloseMarket, vars, moneyVars
<1>9. QED
  BY <1>1, <1>2, <1>3, <1>4, <1>5, <1>6, <1>7, <1>8 DEF Next

\* Custody: a treasury always covers every vault and the accrued fee together, for any
\* number of vaults and wallets and whatever the fills are.
THEOREM CustodyHolds == Spec => []Custody
<1>1. Init => Custody
  <2> SUFFICES ASSUME Init
               PROVE  Custody
    OBVIOUS
  <2>1. ASSUME NEW l \in Leg
        PROVE  LegVaultSum(l) = 0
    <3>1. Cells(atoms[l]) = {}
      BY DEF Init, Cells
    <3>2. QED
      BY <3>1, FS_EmptySet DEF LegVaultSum, SumOf
  <2>2. QED
    BY <2>1, SizeAssumption, U64Assumption DEF Init, Custody
<1>2. TypeOK /\ Custody /\ [Next]_vars => Custody'
  BY CustodyStep
<1>3. QED
  BY <1>1, <1>2, TypeCorrect, PTL DEF Spec

------------------------------------------------------------------------------
(* Share conservation. It is not inductive alone. That the fee's two        *)
(* additions cannot saturate needs every mark to be at least one (so the    *)
(* supply after the mint is at most the vault's value L) and custody (so L  *)
(* fits a u64). That a new vault starts from zero positions needs the       *)
(* sector it is given to be vacant and vacant sectors to have no shares,    *)
(* although no instruction looks at, or resets, the positions.              *)

\* The mark of a led vault is at least one; a vacant sector has no shares and is listed as
\* free once. With conservation these are inductive.
MarksAtLeastOne == \A s \in Sectors : vault[s].leader # NoWallet => vault[s].hwm >= QOne
VacantHaveNoShares == \A s \in Sectors : vault[s].leader = NoWallet => total[s] = 0
FreeStackIsVacant ==
    /\ \A i \in 1 .. Len(freeStack) :
          /\ freeStack[i] < slabLen
          /\ vault[freeStack[i]].leader = NoWallet
          /\ \A j \in 1 .. Len(freeStack) : freeStack[i] = freeStack[j] => i = j
    /\ \A s \in Sectors : s >= slabLen => vault[s].leader = NoWallet

ShareInv == SharesConserved /\ MarksAtLeastOne /\ VacantHaveNoShares /\ FreeStackIsVacant

\* The value of a vault fits a u64: both its legs are in treasuries that do.
LEMMA ValueFits ==
    ASSUME TypeOK, Custody, NEW s \in Sectors
    PROVE  /\ ValueOf(atoms["base"][s], atoms["quote"][s]) \in Nat
           /\ ValueOf(atoms["base"][s], atoms["quote"][s]) <= MaxU64
<1>1. ASSUME NEW l \in Leg
      PROVE  atoms[l][s] \in 0 .. MaxU64
  <2>1. atoms[l] \in [Sectors -> Nat]
    BY DEF TypeOK
  <2>2. atoms[l][s] <= LegVaultSum(l) /\ LegVaultSum(l) \in Nat /\ atoms[l][s] \in Nat
    BY <2>1, SectorsFinite, SumExcept, SumType DEF LegVaultSum
  <2>3. treasury[l] >= LegVaultSum(l) + accrued[l] /\ treasury[l] \in 0 .. MaxU64 /\ accrued[l] \in Nat
    BY DEF Custody, TypeOK
  <2>4. QED
    BY <2>2, <2>3, SizeAssumption, U64Assumption
<1>2. atoms["base"][s] \in 0 .. MaxU64 /\ atoms["quote"][s] \in 0 .. MaxU64
  BY <1>1 DEF Leg
<1>3. Isqrt(atoms["base"][s] * atoms["quote"][s]) <= MaxU64
  BY <1>2, IsqrtBound, SizeAssumption, U64Assumption
<1>4. Isqrt(atoms["base"][s] * atoms["quote"][s]) \in Nat
  BY <1>2, TimesType, IsqrtType, SizeAssumption, U64Assumption
<1>5. QED
  BY <1>3, <1>4 DEF ValueOf

\* What one vault's mint is: none, or the formula's, under the formula's conditions.
LEMMA MintCases ==
    ASSUME TypeOK, NEW s \in Sectors, Minted(s) > 0
    PROVE  LET L    == ValueOf(atoms["base"][s], atoms["quote"][s])
               mark == MarkOf(vault[s].hwm, total[s])
               rate == vault[s].perfFee
           IN  /\ Minted(s) = FeeMint(L, mark, total[s], rate)
               /\ ~WindingDown(s) /\ AboveMark(L, total[s], vault[s].hwm)
               /\ L > mark /\ rate > 0 /\ FeeDenominator(L, mark, rate) > 0
  BY DEF Minted, FeeShares, PerfFeeMint

\* The supply after the fee is at most the vault's value, and its mark at least one.
LEMMA FeeSplits ==
    ASSUME TypeOK, Custody, SharesConserved, MarksAtLeastOne, MarksInRange,
           NEW s \in Sectors, vault[s].leader # NoWallet
    PROVE  /\ TotalAfterFee(s) = total[s] + Minted(s)
           /\ LeaderAfterFee(s) = leaderShares[s] + Minted(s)
           /\ MarkAfterFee(s) >= QOne
<1> DEFINE L    == ValueOf(atoms["base"][s], atoms["quote"][s])
           mark == MarkOf(vault[s].hwm, total[s])
           rate == vault[s].perfFee
           m    == Minted(s)
<1>1. /\ total[s] \in 0 .. MaxU64 /\ total[s] \in Nat /\ leaderShares[s] \in Nat
      /\ vault[s].hwm \in Nat /\ vault[s].hwm >= QOne /\ rate \in 0 .. PPM /\ m \in Nat
  <2>1. total[s] \in 0 .. MaxU64 /\ leaderShares[s] \in 0 .. MaxU64 /\ MaxU64 \in Nat
    BY SizeAssumption, U64Assumption DEF TypeOK
  <2>2. vault[s].hwm \in Nat /\ rate \in 0 .. PPM
    BY SizeAssumption, U64Assumption DEF TypeOK, VaultSettings
  <2>3. vault[s].hwm >= QOne
    BY DEF MarksAtLeastOne
  <2>4. m \in Nat
    BY FeeOfVault
  <2> HIDE DEF m, rate
  <2>5. QED
    BY <2>1, <2>2, <2>3, <2>4
<1>2. L \in Nat /\ L <= MaxU64
  BY ValueFits
<1>3. mark \in Nat /\ mark >= total[s]
  BY <1>1, MarkType
<1>4. leaderShares[s] <= total[s]
  <2>1. position[s] \in [Wallets -> Nat]
    BY SizeAssumption, U64Assumption DEF TypeOK
  <2>2. SumOf(position[s]) \in Nat
    BY <2>1, FiniteAssumption, SumType
  <2>3. QED
    BY <1>1, <2>2 DEF SharesConserved
<1>5. m > 0 => total[s] + m <= L
  <2> SUFFICES ASSUME m > 0
               PROVE  total[s] + m <= L
    OBVIOUS
  <2>1. /\ m = FeeMint(L, mark, total[s], rate)
        /\ L > mark /\ rate > 0 /\ FeeDenominator(L, mark, rate) > 0 /\ total[s] > 0
    BY MintCases DEF AboveMark
  <2> HIDE DEF L, mark, rate, m
  <2>2. QED
    BY <1>1, <1>2, <1>3, <2>1, FeeMintBound
<1>6. total[s] + m <= MaxU64 /\ leaderShares[s] + m <= MaxU64
  <2> HIDE DEF L, m
  <2>1. QED
    BY <1>1, <1>2, <1>4, <1>5, SizeAssumption, U64Assumption
<1>7. TotalAfterFee(s) = total[s] + m /\ LeaderAfterFee(s) = leaderShares[s] + m
  BY <1>1, <1>6, SizeAssumption, U64Assumption DEF TotalAfterFee, LeaderAfterFee, SatAdd
<1>8. MarkAfterFee(s) >= QOne
  <2>1. CASE WindingDown(s)
    BY <1>1, <2>1 DEF MarkAfterFee
  <2>2. CASE ~WindingDown(s)
    <3>1. FeeMark(s) >= QOne /\ FeeMark(s) \in Nat
      <4>1. m = PerfFeeMint(atoms["base"][s], atoms["quote"][s], total[s], vault[s].hwm, rate)
        BY <2>2 DEF Minted, FeeShares
      <4>2. FeeMark(s) = vault[s].hwm \/
              (AboveMark(L, total[s], vault[s].hwm) /\ FeeMark(s) = (L * QOne) \div (total[s] + m))
        <5>1. SatAdd(total[s], m) = total[s] + m
          BY <1>1, <1>6, U64Assumption DEF SatAdd
        <5>2. QED
          BY <4>1, <5>1 DEF FeeMark, PerfFeeMark
      <4>3. CASE FeeMark(s) = vault[s].hwm
        BY <1>1, <4>3
      <4>4. CASE AboveMark(L, total[s], vault[s].hwm) /\ FeeMark(s) = (L * QOne) \div (total[s] + m)
        <5>1. total[s] > 0 /\ (L * QOne) \div total[s] > vault[s].hwm
          BY <4>4 DEF AboveMark
        <5>2. L * QOne \in Nat /\ QOne \in Nat /\ QOne > 0
          BY <1>2, QOneAssumption, TimesType
        <5>3. CASE m = 0
          <6>1. FeeMark(s) = (L * QOne) \div total[s]
            BY <1>1, <4>4, <5>3
          <6>2. (L * QOne) \div total[s] \in Nat
            BY <1>1, <5>1, <5>2, DivFits
          <6>3. QED
            BY <1>1, <5>1, <5>2, <6>1, <6>2
        <5>4. CASE m > 0
          <6> HIDE DEF L, m
          <6>1. total[s] + m \in Nat /\ total[s] + m > 0 /\ total[s] + m <= L
            BY <1>1, <1>5, <5>4
          <6>2. ((total[s] + m) * QOne) <= L * QOne
            BY <1>2, <5>2, <6>1, TimesMono
          <6>3. (L * QOne) \div (total[s] + m) >= QOne /\ (L * QOne) \div (total[s] + m) \in Nat
            <7> DEFINE d == total[s] + m
                       n == L * QOne
                       k == n \div d
            <7>1. d \in Nat /\ d > 0 /\ n \in Nat /\ d * QOne <= n
              BY <5>2, <6>1, <6>2
            <7> HIDE DEF d, n
            <7>2. k \in Nat /\ n < (k + 1) * d
              BY <7>1
            <7>3. SUFFICES ASSUME k < QOne PROVE FALSE
              BY <5>2, <7>2 DEF d, n
            <7> HIDE DEF k
            <7>4. (k + 1) * d <= QOne * d
              BY <5>2, <7>1, <7>2, <7>3, TimesMono
            <7>5. QOne * d = d * QOne /\ (k + 1) * d \in Nat /\ d * QOne \in Nat
              BY <5>2, <7>1, <7>2, TimesType
            <7>6. QED
              BY <7>1, <7>2, <7>4, <7>5
          <6>4. QED
            BY <4>4, <6>3
        <5>5. QED
          BY <1>1, <5>3, <5>4
      <4>5. QED
        BY <4>2, <4>3, <4>4
    <3>2. FeeMark(s) < HwmModulus
      BY DEF MarksInRange
    <3>3. FeeMark(s) % HwmModulus = FeeMark(s)
      BY <3>1, <3>2, SizeAssumption, U64Assumption
    <3>4. QED
      BY <2>2, <3>1, <3>3 DEF MarkAfterFee
  <2>3. QED
    BY <2>1, <2>2
<1>9. QED
  BY <1>7, <1>8

\* Conservation after a step that changes one vault's ledger, given that it balances.
LEMMA ConservedAfterOne ==
    ASSUME TypeOK, SharesConserved, NEW s \in Sectors, NEW t, NEW k, NEW P,
           total' = [total EXCEPT ![s] = t],
           leaderShares' = [leaderShares EXCEPT ![s] = k],
           position' = [position EXCEPT ![s] = P],
           t = k + SumOf(P)
    PROVE  SharesConserved'
  BY DEF SharesConserved, TypeOK

\* The depositors' sum after one position has changed.
LEMMA PositionAfterOne ==
    ASSUME TypeOK, NEW s \in Sectors, NEW w \in Wallets, NEW n \in Nat
    PROVE  /\ SumOf([position[s] EXCEPT ![w] = n]) = SumOf(position[s]) - position[s][w] + n
           /\ position[s][w] <= SumOf(position[s])
           /\ position[s][w] \in Nat
           /\ SumOf(position[s]) \in Nat
<1>1. position[s] \in [Wallets -> Nat]
  BY SizeAssumption, U64Assumption DEF TypeOK
<1>2. QED
  BY <1>1, FiniteAssumption, SumExcept, SumType

\* A deposit keeps the strengthening: the vault stays occupied, at a mark of at least one.
LEMMA TakeInKeeps ==
    ASSUME TypeOK, Custody, ShareInv, MarksInRange,
           NEW s \in Sectors, Live(s), NEW paid, NEW shares, TakeIn(s, paid, shares),
           UNCHANGED slabVars
    PROVE  MarksAtLeastOne' /\ VacantHaveNoShares' /\ FreeStackIsVacant'
<1>1. vault[s].leader # NoWallet
  BY DEF Live, Occupied
<1>2. MarkAfterFee(s) >= QOne
  BY <1>1, FeeSplits DEF ShareInv
<1>3. \A x \in Sectors : /\ vault'[x].leader = vault[x].leader
                         /\ x # s => vault'[x] = vault[x] /\ total'[x] = total[x]
                         /\ x = s => vault'[x].hwm = MarkAfterFee(s)
  BY DEF TakeIn, SettingsAfter, LeaderAfter, TypeOK, VaultSettings
<1>4. \A i \in 1 .. Len(freeStack) : freeStack[i] \in Sectors
  BY DEF TypeOK
<1>5. QED
  BY <1>1, <1>2, <1>3, <1>4
     DEF ShareInv, MarksAtLeastOne, VacantHaveNoShares, FreeStackIsVacant, slabVars

\* Vacating a sector keeps it off the free list twice, and every other one as it was.
LEMMA FreeAfter ==
    ASSUME TypeOK, FreeStackIsVacant, NEW s \in Sectors, Occupied(s),
           NEW emptied \in BOOLEAN, SlabAfter(s, emptied),
           \A x \in Sectors : x # s => vault'[x].leader = vault[x].leader,
           vault'[s].leader = LeaderAfter(s, emptied)
    PROVE  FreeStackIsVacant'
<1>1. slabLen' = slabLen
  BY DEF SlabAfter
<1>2. \A x \in Sectors : x >= slabLen => x # s /\ vault'[x].leader = NoWallet
  BY DEF FreeStackIsVacant, Occupied, InSlab
<1>3. \A i \in 1 .. Len(freeStack) : freeStack[i] \in Sectors /\ freeStack[i] # s
  BY DEF TypeOK, FreeStackIsVacant, Occupied
<1>4. CASE ~emptied
  <2>1. freeStack' = freeStack
    BY <1>4 DEF SlabAfter, FreeStackAfter
  <2>2. QED
    BY <1>1, <1>2, <1>3, <2>1 DEF FreeStackIsVacant
<1>5. CASE emptied
  <2>1. freeStack' = <<s>> \o freeStack
    BY <1>5 DEF SlabAfter, FreeStackAfter
  <2>2. /\ Len(freeStack') = Len(freeStack) + 1
        /\ freeStack'[1] = s
        /\ \A i \in 2 .. Len(freeStack') : freeStack'[i] = freeStack[i - 1]
    BY <2>1 DEF TypeOK
  <2>3. Len(freeStack) \in Nat
    BY DEF TypeOK
  <2>4. ASSUME NEW i \in 1 .. Len(freeStack')
        PROVE  /\ freeStack'[i] < slabLen
               /\ vault'[freeStack'[i]].leader = NoWallet
    <3>1. CASE i = 1
      BY <1>5, <2>2, <3>1 DEF Occupied, InSlab, LeaderAfter
    <3>2. CASE i # 1
      <4>1. i \in 2 .. Len(freeStack') /\ i - 1 \in 1 .. Len(freeStack)
        BY <2>2, <2>3, <3>2
      <4>2. QED
        BY <1>3, <2>2, <4>1 DEF FreeStackIsVacant
    <3>3. QED
      BY <3>1, <3>2
  <2>5. ASSUME NEW i \in 1 .. Len(freeStack'), NEW j \in 1 .. Len(freeStack'),
               freeStack'[i] = freeStack'[j]
        PROVE  i = j
    <3>1. CASE i = 1 \/ j = 1
      <4>1. \A k \in 2 .. Len(freeStack') : freeStack'[k] # s
        BY <1>3, <2>2, <2>3
      <4>2. QED
        BY <2>2, <2>3, <2>5, <3>1, <4>1
    <3>2. CASE i # 1 /\ j # 1
      <4>1. /\ i - 1 \in 1 .. Len(freeStack) /\ j - 1 \in 1 .. Len(freeStack)
            /\ i \in 2 .. Len(freeStack') /\ j \in 2 .. Len(freeStack')
        BY <2>2, <2>3, <3>2
      <4>2. freeStack[i - 1] = freeStack[j - 1]
        BY <2>2, <2>5, <4>1
      <4>3. i - 1 = j - 1
        BY <4>1, <4>2 DEF FreeStackIsVacant
      <4>4. QED
        BY <2>2, <2>3, <4>3
    <3>3. QED
      BY <3>1, <3>2
  <2>6. QED
    BY <1>1, <1>2, <2>4, <2>5 DEF FreeStackIsVacant
<1>6. QED
  BY <1>4, <1>5

\* A withdrawal keeps the strengthening, reclaiming the sector or not.
LEMMA PayOutKeeps ==
    ASSUME TypeOK, Custody, ShareInv, MarksInRange,
           NEW s \in Sectors, Occupied(s), NEW slice, NEW shares \in Nat,
           PayOut(s, slice, shares)
    PROVE  MarksAtLeastOne' /\ VacantHaveNoShares' /\ FreeStackIsVacant'
<1> DEFINE left    == TotalAfterFee(s) - shares
           emptied == Emptied(left)
<1>1. vault[s].leader # NoWallet /\ emptied \in BOOLEAN
  BY DEF Occupied, Emptied
<1>2. MarkAfterFee(s) >= QOne
  BY <1>1, FeeSplits DEF ShareInv
<1>3. /\ total' = [total EXCEPT ![s] = left]
      /\ vault' = SettingsAfter(s, emptied)
      /\ SlabAfter(s, emptied)
  BY DEF PayOut
<1> HIDE DEF emptied
<1>4. \A x \in Sectors : /\ x # s => vault'[x] = vault[x] /\ total'[x] = total[x]
                         /\ x = s => /\ vault'[x].hwm = MarkAfterFee(s)
                                     /\ vault'[x].leader = LeaderAfter(s, emptied)
                                     /\ total'[x] = left
  BY <1>3 DEF SettingsAfter, TypeOK, VaultSettings
<1>5. emptied => left = 0
  BY DEF emptied, Emptied
<1>6. MarksAtLeastOne'
  BY <1>2, <1>4 DEF ShareInv, MarksAtLeastOne
<1>7. VacantHaveNoShares'
  BY <1>1, <1>4, <1>5 DEF ShareInv, VacantHaveNoShares, LeaderAfter
<1>8. FreeStackIsVacant'
  <2>1. FreeStackIsVacant
    BY DEF ShareInv
  <2>2. \A x \in Sectors : x # s => vault'[x].leader = vault[x].leader
    BY <1>4
  <2>3. vault'[s].leader = LeaderAfter(s, emptied)
    BY <1>4
  <2>4. QED
    BY <1>1, <1>3, <2>1, <2>2, <2>3, FreeAfter
<1>9. QED
  BY <1>6, <1>7, <1>8

\* A deposit adds its shares to the total and to one holder.
LEMMA DepositConserves ==
    ASSUME TypeOK, Custody, ShareInv, MarksInRange, NEW s \in Sectors, NEW l \in Leg,
           NEW n \in 1 .. MaxU64,
           DepositLeader(s, l, n) \/ \E w \in Wallets : Deposit(w, s, l, n)
    PROVE  ShareInv'
<1> DEFINE shares == Basket(s, l, n)
<1>1. /\ Live(s) /\ vault[s].leader # NoWallet
      /\ TakeIn(s, Cost(s, shares), shares) /\ UNCHANGED slabVars
  BY DEF DepositLeader, Deposit, Live, Occupied
<1>2. shares \in Nat
  BY BasketType, SizeAssumption, U64Assumption DEF DepositLeader, Deposit
<1> HIDE DEF shares
<1>3. MarksAtLeastOne' /\ VacantHaveNoShares' /\ FreeStackIsVacant'
  BY <1>1, TakeInKeeps
<1>4. TotalAfterFee(s) = total[s] + Minted(s) /\ LeaderAfterFee(s) = leaderShares[s] + Minted(s)
  BY <1>1, FeeSplits DEF ShareInv
<1>5. /\ total[s] \in Nat /\ leaderShares[s] \in Nat /\ Minted(s) \in Nat
      /\ total[s] = leaderShares[s] + SumOf(position[s])
  BY FeeOfVault, SizeAssumption, U64Assumption DEF TypeOK, ShareInv, SharesConserved
<1>6. total' = [total EXCEPT ![s] = TotalAfterFee(s) + shares]
  BY <1>1 DEF TakeIn
<1>7. SharesConserved'
  <2>1. CASE DepositLeader(s, l, n)
    <3>1. /\ leaderShares' = [leaderShares EXCEPT ![s] = LeaderAfterFee(s) + shares]
          /\ position' = [position EXCEPT ![s] = position[s]]
      BY <2>1 DEF DepositLeader, TypeOK, shares
    <3>2. SumOf(position[s]) \in Nat
      <4>1. position[s] \in [Wallets -> Nat]
        BY SizeAssumption, U64Assumption DEF TypeOK
      <4>2. QED
        BY <4>1, FiniteAssumption, SumType
    <3>3. TotalAfterFee(s) + shares = (LeaderAfterFee(s) + shares) + SumOf(position[s])
      BY <1>2, <1>4, <1>5, <3>2
    <3>4. QED
      BY <1>6, <3>1, <3>3, ConservedAfterOne DEF ShareInv
  <2>2. ASSUME NEW w \in Wallets, Deposit(w, s, l, n)
        PROVE  SharesConserved'
    <3> DEFINE P == [position[s] EXCEPT ![w] = position[s][w] + shares]
    <3>1. /\ leaderShares' = [leaderShares EXCEPT ![s] = LeaderAfterFee(s)]
          /\ position' = [position EXCEPT ![s] = P]
      BY <2>2 DEF Deposit, TypeOK, shares
    <3>2. /\ position[s][w] \in Nat /\ SumOf(position[s]) \in Nat
          /\ SumOf(P) = SumOf(position[s]) - position[s][w] + (position[s][w] + shares)
      <4>1. position[s][w] \in Nat
        BY SizeAssumption, U64Assumption DEF TypeOK
      <4>2. position[s][w] + shares \in Nat
        BY <1>2, <4>1
      <4>3. QED
        BY <4>1, <4>2, PositionAfterOne
    <3> HIDE DEF P
    <3>3. TotalAfterFee(s) + shares = LeaderAfterFee(s) + SumOf(P)
      BY <1>2, <1>4, <1>5, <3>2
    <3>4. QED
      BY <1>6, <3>1, <3>3, ConservedAfterOne DEF ShareInv
  <2>3. QED
    BY <2>1, <2>2
<1>8. QED
  BY <1>3, <1>7 DEF ShareInv

\* The seeding deposit gives all its shares to the leader.
LEMMA SeedConserves ==
    ASSUME TypeOK, Custody, ShareInv, MarksInRange, NEW s \in Sectors,
           NEW paid \in [Leg -> 1 .. MaxU64], SeedVault(s, paid)
    PROVE  ShareInv'
<1> DEFINE shares == ValueOf(paid["base"], paid["quote"])
<1>1. /\ Live(s) /\ vault[s].leader # NoWallet
      /\ TakeIn(s, paid, shares) /\ UNCHANGED slabVars
  BY DEF SeedVault, Live, Occupied
<1>2. shares \in Nat
  <2>1. paid["base"] \in Nat /\ paid["quote"] \in Nat
    BY SizeAssumption, U64Assumption DEF Leg
  <2>2. QED
    BY <2>1, TimesType, IsqrtType DEF ValueOf
<1>3. /\ leaderShares' = [leaderShares EXCEPT ![s] = LeaderAfterFee(s) + shares]
      /\ position' = [position EXCEPT ![s] = position[s]]
  BY DEF SeedVault, TypeOK
<1>4. total' = [total EXCEPT ![s] = TotalAfterFee(s) + shares]
  BY <1>1 DEF TakeIn
<1> HIDE DEF shares
<1>5. MarksAtLeastOne' /\ VacantHaveNoShares' /\ FreeStackIsVacant'
  BY <1>1, TakeInKeeps
<1>6. TotalAfterFee(s) = total[s] + Minted(s) /\ LeaderAfterFee(s) = leaderShares[s] + Minted(s)
  BY <1>1, FeeSplits DEF ShareInv
<1>7. /\ total[s] \in Nat /\ leaderShares[s] \in Nat /\ Minted(s) \in Nat
      /\ total[s] = leaderShares[s] + SumOf(position[s])
  BY FeeOfVault, SizeAssumption, U64Assumption DEF TypeOK, ShareInv, SharesConserved
<1>8. SumOf(position[s]) \in Nat
  <2>1. position[s] \in [Wallets -> Nat]
    BY SizeAssumption, U64Assumption DEF TypeOK
  <2>2. QED
    BY <2>1, FiniteAssumption, SumType
<1>9. TotalAfterFee(s) + shares = (LeaderAfterFee(s) + shares) + SumOf(position[s])
  BY <1>2, <1>6, <1>7, <1>8
<1>10. SharesConserved'
  BY <1>3, <1>4, <1>9, ConservedAfterOne DEF ShareInv
<1>11. QED
  BY <1>5, <1>10 DEF ShareInv

\* A withdrawal takes its shares off the total and off one holder.
LEMMA ExitConserves ==
    ASSUME TypeOK, Custody, ShareInv, MarksInRange, NEW s \in Sectors, NEW n \in Nat,
           ExitLeader(s, n) \/ \E w \in Wallets : ExitPosition(w, s, n)
    PROVE  ShareInv'
<1>1. /\ Occupied(s) /\ vault[s].leader # NoWallet /\ n <= TotalAfterFee(s)
      /\ PayOut(s, Slice(s, n), n)
  BY DEF ExitLeader, ExitPosition, PayOut, Occupied
<1>2. MarksAtLeastOne' /\ VacantHaveNoShares' /\ FreeStackIsVacant'
  BY <1>1, PayOutKeeps
<1>3. TotalAfterFee(s) = total[s] + Minted(s) /\ LeaderAfterFee(s) = leaderShares[s] + Minted(s)
  BY <1>1, FeeSplits DEF ShareInv
<1>4. /\ total[s] \in Nat /\ leaderShares[s] \in Nat /\ Minted(s) \in Nat
      /\ total[s] = leaderShares[s] + SumOf(position[s])
  BY FeeOfVault, SizeAssumption, U64Assumption DEF TypeOK, ShareInv, SharesConserved
<1>5. total' = [total EXCEPT ![s] = TotalAfterFee(s) - n]
  BY <1>1 DEF PayOut
<1>6. SharesConserved'
  <2>1. CASE ExitLeader(s, n)
    <3>1. /\ leaderShares' = [leaderShares EXCEPT ![s] = LeaderAfterFee(s) - n]
          /\ position' = [position EXCEPT ![s] = position[s]]
      BY <2>1 DEF ExitLeader, TypeOK
    <3>2. SumOf(position[s]) \in Nat
      <4>1. position[s] \in [Wallets -> Nat]
        BY SizeAssumption, U64Assumption DEF TypeOK
      <4>2. QED
        BY <4>1, FiniteAssumption, SumType
    <3>3. TotalAfterFee(s) - n = (LeaderAfterFee(s) - n) + SumOf(position[s])
      BY <1>3, <1>4, <3>2
    <3>4. QED
      BY <1>5, <3>1, <3>3, ConservedAfterOne DEF ShareInv
  <2>2. ASSUME NEW w \in Wallets, ExitPosition(w, s, n)
        PROVE  SharesConserved'
    <3> DEFINE P == [position[s] EXCEPT ![w] = position[s][w] - n]
    <3>1. /\ leaderShares' = [leaderShares EXCEPT ![s] = LeaderAfterFee(s)]
          /\ position' = [position EXCEPT ![s] = P]
          /\ position[s][w] >= n
      BY <2>2 DEF ExitPosition, TypeOK
    <3>2. /\ position[s][w] \in Nat /\ SumOf(position[s]) \in Nat
          /\ SumOf(P) = SumOf(position[s]) - position[s][w] + (position[s][w] - n)
      <4>1. position[s][w] \in Nat
        BY SizeAssumption, U64Assumption DEF TypeOK
      <4>2. position[s][w] - n \in Nat
        BY <3>1, <4>1
      <4>3. QED
        BY <4>1, <4>2, PositionAfterOne
    <3> HIDE DEF P
    <3>3. TotalAfterFee(s) - n = LeaderAfterFee(s) + SumOf(P)
      BY <1>3, <1>4, <3>2
    <3>4. QED
      BY <1>5, <3>1, <3>3, ConservedAfterOne DEF ShareInv
  <2>3. QED
    BY <2>1, <2>2
<1>7. QED
  BY <1>2, <1>6 DEF ShareInv

\* A new vault is created on a vacant sector, where the old positions sum to zero.
LEMMA CreateConserves ==
    ASSUME TypeOK, ShareInv, NEW w \in Wallets, NEW fee \in PerfFees, NEW allow \in BOOLEAN,
           CreateVault(w, fee, allow)
    PROVE  ShareInv'
<1> DEFINE s == NextSector
<1>1. s \in Sectors
  BY NextSectorType DEF CreateVault
<1>2. Len(freeStack) \in Nat /\ \A i \in 1 .. Len(freeStack) : freeStack[i] \in Sectors
  BY DEF TypeOK
<1>3. freeStack # <<>> => Len(freeStack) > 0 /\ s = freeStack[1]
  BY DEF TypeOK, NextSector
<1>4. freeStack = <<>> => s = slabLen
  BY DEF NextSector
<1>5. vault[s].leader = NoWallet
  BY <1>1, <1>2, <1>3, <1>4, SizeAssumption, U64Assumption DEF ShareInv, FreeStackIsVacant, TypeOK
<1>6. /\ total' = [total EXCEPT ![s] = 0]
      /\ leaderShares' = [leaderShares EXCEPT ![s] = 0]
      /\ position' = [position EXCEPT ![s] = position[s]]
      /\ vault' = [vault EXCEPT ![s] = [ZeroedVault EXCEPT !.leader = w, !.perfFee = fee,
                     !.floor = DefaultFloor, !.hwm = QOne, !.allow = allow]]
  BY DEF CreateVault, TypeOK
<1>7. SumOf(position[s]) = 0
  <2>1. position[s] \in [Wallets -> Nat]
    BY <1>1, SizeAssumption, U64Assumption DEF TypeOK
  <2>2. SumOf(position[s]) \in Nat
    BY <2>1, FiniteAssumption, SumType
  <2>3. total[s] = 0 /\ total[s] = leaderShares[s] + SumOf(position[s]) /\ leaderShares[s] \in Nat
    BY <1>1, <1>5, SizeAssumption, U64Assumption DEF ShareInv, VacantHaveNoShares, SharesConserved, TypeOK
  <2>4. QED
    BY <2>2, <2>3
<1>8. w # NoWallet
  BY WalletAssumption
<1> HIDE DEF s
<1>9. SharesConserved'
  <2>1. 0 = 0 + SumOf(position[s])
    BY <1>7
  <2>2. SharesConserved
    BY DEF ShareInv
  <2>3. QED
    BY <1>1, <1>6, <2>1, <2>2, ConservedAfterOne
<1>10. /\ vault'[s].leader = w /\ vault'[s].hwm = QOne
       /\ \A x \in Sectors : x # s => vault'[x] = vault[x] /\ total'[x] = total[x]
  BY <1>1, <1>6 DEF TypeOK, ZeroedVault
<1>11. MarksAtLeastOne'
  BY <1>10, QOneAssumption DEF ShareInv, MarksAtLeastOne
<1>12. VacantHaveNoShares'
  BY <1>8, <1>10 DEF ShareInv, VacantHaveNoShares
<1>13. FreeStackIsVacant'
  <2>1. CASE freeStack = <<>>
    <3>1. freeStack' = <<>> /\ slabLen' = slabLen + 1 /\ s = slabLen /\ slabLen \in Nat
      BY <1>4, <2>1, SizeAssumption, U64Assumption DEF CreateVault, TypeOK
    <3>2. \A x \in Sectors : x \in Int /\ (x >= slabLen' => x # s /\ x >= slabLen)
      BY <3>1, SizeAssumption, U64Assumption DEF Sectors
    <3>3. QED
      BY <1>10, <3>1, <3>2 DEF ShareInv, FreeStackIsVacant
  <2>2. CASE freeStack # <<>>
    <3>1. freeStack' = Tail(freeStack) /\ slabLen' = slabLen
      BY <2>2 DEF CreateVault
    <3>2. /\ Len(freeStack') = Len(freeStack) - 1
          /\ \A i \in 1 .. Len(freeStack') : freeStack'[i] = freeStack[i + 1]
      BY <2>2, <3>1 DEF TypeOK
    <3>3. s = freeStack[1] /\ s < slabLen
      BY <1>2, <1>3, <2>2 DEF ShareInv, FreeStackIsVacant
    <3>4. \A i \in 1 .. Len(freeStack') :
             /\ i + 1 \in 1 .. Len(freeStack) /\ i + 1 # 1
             /\ freeStack'[i] \in Sectors /\ freeStack'[i] # s
      <4>1. ASSUME NEW i \in 1 .. Len(freeStack')
            PROVE  i + 1 \in 1 .. Len(freeStack) /\ i + 1 # 1 /\ 1 \in 1 .. Len(freeStack)
        BY <1>2, <3>2
      <4>2. QED
        BY <1>2, <3>2, <3>3, <4>1 DEF ShareInv, FreeStackIsVacant
    <3>5. ASSUME NEW i \in 1 .. Len(freeStack')
          PROVE  /\ freeStack'[i] < slabLen' /\ vault'[freeStack'[i]].leader = NoWallet
                 /\ \A j \in 1 .. Len(freeStack') : freeStack'[i] = freeStack'[j] => i = j
      <4>1. i + 1 \in 1 .. Len(freeStack) /\ freeStack'[i] = freeStack[i + 1]
        BY <3>2, <3>4
      <4>2. freeStack'[i] < slabLen' /\ vault'[freeStack'[i]].leader = NoWallet
        BY <1>10, <3>1, <3>4, <4>1 DEF ShareInv, FreeStackIsVacant
      <4>3. ASSUME NEW j \in 1 .. Len(freeStack'), freeStack'[i] = freeStack'[j]
            PROVE  i = j
        <5>1. j + 1 \in 1 .. Len(freeStack) /\ freeStack[i + 1] = freeStack[j + 1]
          BY <3>2, <3>4, <4>1, <4>3
        <5>2. i + 1 = j + 1
          BY <4>1, <5>1 DEF ShareInv, FreeStackIsVacant
        <5>3. QED
          BY <5>2
      <4>4. QED
        BY <4>2, <4>3
    <3>6. \A x \in Sectors : x >= slabLen' => vault'[x].leader = NoWallet
      <4>1. \A x \in Sectors : x >= slabLen' => x # s
        BY <1>1, <3>1, <3>3, SizeAssumption, U64Assumption DEF Sectors, TypeOK
      <4>2. QED
        BY <1>10, <3>1, <4>1 DEF ShareInv, FreeStackIsVacant
    <3>7. QED
      BY <3>5, <3>6 DEF FreeStackIsVacant
  <2>3. QED
    BY <2>1, <2>2
<1>14. QED
  BY <1>9, <1>11, <1>12, <1>13 DEF ShareInv

\* A step that changes no share, leader, mark or list keeps the invariant.
LEMMA SharesUntouched ==
    ASSUME TypeOK, ShareInv, UNCHANGED <<total, leaderShares, position, freeStack, slabLen>>,
           \A x \in Sectors : /\ vault'[x].leader = vault[x].leader
                             /\ vault'[x].hwm = vault[x].hwm
    PROVE  ShareInv'
<1>1. \A i \in 1 .. Len(freeStack) : freeStack[i] \in Sectors
  BY DEF TypeOK
<1>2. SharesConserved'
  BY DEF ShareInv, SharesConserved
<1>3. MarksAtLeastOne' /\ VacantHaveNoShares'
  BY DEF ShareInv, MarksAtLeastOne, VacantHaveNoShares
<1>4. FreeStackIsVacant'
  BY <1>1 DEF ShareInv, FreeStackIsVacant
<1>5. QED
  BY <1>2, <1>3, <1>4 DEF ShareInv

\* Every instruction keeps the share invariant while no mark is cut off.
LEMMA ShareInvStep ==
    TypeOK /\ Custody /\ MarksInRange /\ ShareInv /\ [Next]_vars => ShareInv'
<1> SUFFICES ASSUME TypeOK, Custody, MarksInRange, ShareInv, [Next]_vars
             PROVE  ShareInv'
  OBVIOUS
<1>1. ASSUME NEW w \in Wallets, NEW fee \in PerfFees, NEW allow \in BOOLEAN,
             CreateVault(w, fee, allow)
      PROVE  ShareInv'
  BY <1>1, CreateConserves
<1>2. ASSUME NEW s \in Sectors,
             \/ CloseVault(s)
             \/ FreezeVault(s)
             \/ \E floor \in FloorShares : SetMinLeaderShare(s, floor)
             \/ \E b \in BOOLEAN : SetAllowOutsideDepositors(s, b)
             \/ \E b \in BOOLEAN : SetOutsideDepositsApproved(s, b)
             \/ \E kind \in PriceKind : SetReferencePrice(s, kind)
      PROVE  ShareInv'
  <2>1. UNCHANGED <<total, leaderShares, position, freeStack, slabLen>>
    BY <1>2 DEF CloseVault, FreezeVault, SetMinLeaderShare, SetAllowOutsideDepositors,
                SetOutsideDepositsApproved, SetReferencePrice, SetVault, slabVars, shareVars
  <2>2. vault[s] \in VaultSettings /\ vault \in [Sectors -> VaultSettings]
    BY DEF TypeOK
  <2>3. \E r \in {[vault[s] EXCEPT !.tombstoned = TRUE], [vault[s] EXCEPT !.frozen = TRUE]}
               \cup {[vault[s] EXCEPT !.floor = floor] : floor \in FloorShares}
               \cup {[vault[s] EXCEPT !.allow = b] : b \in BOOLEAN}
               \cup {[vault[s] EXCEPT !.approved = b] : b \in BOOLEAN}
               \cup {[vault[s] EXCEPT !.price = kind] : kind \in PriceKind} :
           /\ r.leader = vault[s].leader /\ r.hwm = vault[s].hwm
           /\ vault' = [vault EXCEPT ![s] = r]
    <3>1. CASE CloseVault(s)
      <4>1. vault' = [vault EXCEPT ![s] = [vault[s] EXCEPT !.tombstoned = TRUE]]
        BY <2>2, <3>1 DEF CloseVault
      <4>2. QED
        BY <2>2, <4>1 DEF VaultSettings
    <3>2. CASE FreezeVault(s)
      BY <2>2, <3>2 DEF FreezeVault, SetVault, VaultSettings
    <3>3. CASE \E floor \in FloorShares : SetMinLeaderShare(s, floor)
      BY <2>2, <3>3 DEF SetMinLeaderShare, SetVault, VaultSettings
    <3>4. CASE \E b \in BOOLEAN : SetAllowOutsideDepositors(s, b)
      BY <2>2, <3>4 DEF SetAllowOutsideDepositors, SetVault, VaultSettings
    <3>5. CASE \E b \in BOOLEAN : SetOutsideDepositsApproved(s, b)
      BY <2>2, <3>5 DEF SetOutsideDepositsApproved, SetVault, VaultSettings
    <3>6. CASE \E kind \in PriceKind : SetReferencePrice(s, kind)
      BY <2>2, <3>6 DEF SetReferencePrice, SetVault, VaultSettings
    <3>7. QED
      BY <1>2, <3>1, <3>2, <3>3, <3>4, <3>5, <3>6
  <2>4. \A x \in Sectors : vault'[x].leader = vault[x].leader /\ vault'[x].hwm = vault[x].hwm
    BY <2>2, <2>3
  <2>5. QED
    BY <2>1, <2>4, SharesUntouched
<1>3. ASSUME NEW s \in Sectors, NEW paid \in [Leg -> 1 .. MaxU64], SeedVault(s, paid)
      PROVE  ShareInv'
  BY <1>3, SeedConserves
<1>4. ASSUME NEW s \in Sectors, NEW l \in Leg, NEW n \in 1 .. MaxU64,
             DepositLeader(s, l, n) \/ \E w \in Wallets : Deposit(w, s, l, n)
      PROVE  ShareInv'
  BY <1>4, DepositConserves
<1>5. ASSUME NEW s \in Sectors,
             \/ \E n \in 1 .. MaxU64 : WithdrawLeader(s, n)
             \/ \E w \in Wallets, n \in 1 .. MaxU64 : Withdraw(w, s, n)
             \/ \E w \in Wallets : ForceWithdrawDepositor(w, s)
             \/ ExitLeader(s, LeaderAfterFee(s))
      PROVE  ShareInv'
  <2>1. /\ LeaderAfterFee(s) \in Nat
        /\ \A n \in 1 .. MaxU64 : n \in Nat
        /\ \A w \in Wallets : position[s][w] \in Nat
    BY FeeOfVault, SizeAssumption, U64Assumption DEF TypeOK
  <2>2. \E n \in Nat : ExitLeader(s, n) \/ \E w \in Wallets : ExitPosition(w, s, n)
    BY <1>5, <2>1 DEF WithdrawLeader, Withdraw, ForceWithdrawDepositor
  <2>3. QED
    BY <2>2, ExitConserves
<1>6. ASSUME NEW s \in Sectors, ForceWithdrawLeader(s), ~ExitLeader(s, LeaderAfterFee(s))
      PROVE  ShareInv'
  <2>1. /\ Occupied(s) /\ total[s] = 0
        /\ vault' = [vault EXCEPT ![s].leader = LeaderAfter(s, TRUE)]
        /\ SlabAfter(s, TRUE) /\ UNCHANGED <<total, leaderShares, position>>
    BY <1>6 DEF ForceWithdrawLeader, shareVars
  <2>2. \A x \in Sectors : /\ vault'[x].hwm = vault[x].hwm
                           /\ x # s => vault'[x].leader = vault[x].leader
                           /\ x = s => vault'[x].leader = LeaderAfter(s, TRUE)
    BY <2>1 DEF TypeOK, VaultSettings
  <2>3. LeaderAfter(s, TRUE) = NoWallet
    BY DEF LeaderAfter
  <2>4. SharesConserved'
    BY <2>1 DEF ShareInv, SharesConserved
  <2>5. MarksAtLeastOne' /\ VacantHaveNoShares'
    BY <2>1, <2>2, <2>3 DEF ShareInv, MarksAtLeastOne, VacantHaveNoShares
  <2>6. FreeStackIsVacant'
    BY <2>1, <2>2, FreeAfter DEF ShareInv
  <2>7. QED
    BY <2>4, <2>5, <2>6 DEF ShareInv
<1>7. ASSUME UNCHANGED <<vault, slabVars, shareVars>>
      PROVE  ShareInv'
  BY <1>7, SharesUntouched DEF slabVars, shareVars
<1>8. ASSUME NEW out \in Leg, NEW outs \in [Sectors -> 0 .. MaxFill],
             NEW ins \in [Sectors -> 0 .. MaxFill], NEW fee \in 0 .. MaxFill * MaxSectors,
             NEW residue \in 0 .. MaxResidue, Swap(out, outs, ins, fee, residue)
      PROVE  ShareInv'
  BY <1>7, <1>8 DEF Swap
<1>9. ASSUME NEW l \in Leg,
             \/ Donate(l) \/ SweepResidual(l)
             \/ CloseMarketTreasury(l) \/ RecreateTreasury(l)
      PROVE  ShareInv'
  BY <1>7, <1>9 DEF Donate, SweepResidual, CloseMarketTreasury, RecreateTreasury
<1>10. CASE CloseMarket \/ UNCHANGED vars
  BY <1>7, <1>10 DEF CloseMarket, vars
<1>11. QED
  BY <1>1, <1>2, <1>3, <1>4, <1>5, <1>6, <1>8, <1>9, <1>10 DEF Next

\* The initial market has no shares, no leader and no free sector.
LEMMA ShareInvInit == Init => ShareInv
<1> SUFFICES ASSUME Init
             PROVE  ShareInv
  OBVIOUS
<1>1. ASSUME NEW s \in Sectors
      PROVE  SumOf(position[s]) = 0
  <2>1. Cells(position[s]) = {}
    BY DEF Init, Cells
  <2>2. QED
    BY <2>1, FS_EmptySet DEF SumOf
<1>2. SharesConserved
  <2>1. ASSUME NEW s \in Sectors
        PROVE  total[s] = leaderShares[s] + SumOf(position[s])
    <3>1. total[s] = 0 /\ leaderShares[s] = 0
      BY DEF Init
    <3>2. SumOf(position[s]) = 0
      BY <1>1
    <3>3. QED
      BY <3>1, <3>2
  <2>2. QED
    BY <2>1 DEF SharesConserved
<1>3. MarksAtLeastOne /\ VacantHaveNoShares
  BY DEF Init, ZeroedVault, MarksAtLeastOne, VacantHaveNoShares
<1>4. FreeStackIsVacant
  BY DEF Init, ZeroedVault, FreeStackIsVacant
<1>5. QED
  BY <1>2, <1>3, <1>4 DEF ShareInv

\* Share conservation (I6): in every run in which no stored mark is cut off, each vault's
\* total is the sum of its holders' shares, for any number of vaults, wallets and atoms.
THEOREM SharesAreConserved == Spec /\ []MarksInRange => []SharesConserved
<1>1. Init => ShareInv
  BY ShareInvInit
<1>2. TypeOK /\ Custody /\ MarksInRange /\ ShareInv /\ [Next]_vars => ShareInv'
  BY ShareInvStep
<1>3. ShareInv => SharesConserved
  BY DEF ShareInv
<1>4. QED
  BY <1>1, <1>2, <1>3, TypeCorrect, CustodyHolds, PTL DEF Spec

------------------------------------------------------------------------------
(* The fee and the principal.                                               *)

\* A performance fee never eats into the mark: what all shares were worth at the
\* high-water mark the old shares are worth after the mint, at any rate and scale.
THEOREM FeesSparePrincipal == Spec => []FeeSparesPrincipal
<1>1. TypeOK => FeeSparesPrincipal
  <2> SUFFICES ASSUME TypeOK, NEW s \in Sectors, total[s] > 0, Minted(s) > 0
               PROVE  ValueOf(atoms["base"][s], atoms["quote"][s]) * total[s]
                        >= MarkOf(vault[s].hwm, total[s]) * TotalAfterFee(s)
    BY DEF FeeSparesPrincipal
  <2> DEFINE L    == ValueOf(atoms["base"][s], atoms["quote"][s])
             mark == MarkOf(vault[s].hwm, total[s])
             rate == vault[s].perfFee
             m    == Minted(s)
             t    == total[s]
             T    == TotalAfterFee(s)
  <2>1. /\ t \in Nat /\ rate \in 0 .. PPM /\ m \in Nat /\ T \in Nat
        /\ vault[s].hwm \in Nat
        /\ atoms["base"][s] \in Nat /\ atoms["quote"][s] \in Nat
    <3>1. m \in Nat /\ T \in Nat
      BY FeeOfVault, SizeAssumption, U64Assumption
    <3>2. rate \in 0 .. PPM /\ vault[s].hwm \in Nat
      BY DEF TypeOK, VaultSettings
    <3>3. t \in Nat /\ atoms["base"][s] \in Nat /\ atoms["quote"][s] \in Nat
      BY SizeAssumption, U64Assumption DEF TypeOK, Leg
    <3>4. QED
      BY <3>1, <3>2, <3>3
  <2>2. L \in Nat /\ mark \in Nat
    BY <2>1, TimesType, IsqrtType, MarkType DEF ValueOf
  <2>3. /\ m = FeeMint(L, mark, t, rate)
        /\ L > mark /\ rate > 0 /\ FeeDenominator(L, mark, rate) > 0
    BY MintCases
  <2>4. T <= t + m
    BY <2>1, SizeAssumption, U64Assumption DEF TotalAfterFee, SatAdd
  <2> HIDE DEF L, mark, rate, m, t, T
  <2>5. m * mark <= t * (L - mark)
    BY <2>1, <2>2, <2>3, FeeMintWithinGain
  <2>6. t * (L - mark) = L * t - mark * t /\ m * mark = mark * m
    BY <2>1, <2>2
  <2>7. T * mark <= (t + m) * mark
    BY <2>1, <2>2, <2>4, TimesMono
  <2>8. (t + m) * mark = mark * t + mark * m /\ T * mark = mark * T
    BY <2>1, <2>2
  <2>9. /\ L * t \in Nat /\ mark * t \in Nat /\ mark * m \in Nat /\ mark * T \in Nat
    BY <2>1, <2>2, TimesType
  <2>10. L * t >= mark * T
    BY <2>5, <2>6, <2>7, <2>8, <2>9
  <2>11. QED
    BY <2>10 DEF L, mark, t, T
<1>2. QED
  BY <1>1, TypeCorrect, PTL
=============================================================================
