------------------------- MODULE OrderMatchingProofs -------------------------
(***************************************************************************)
(* Proofs about OrderMatching, for every number of vaults and levels,      *)
(* every ladder, price, fee and amount: that a swap trades on current      *)
(* quotes only, that a flushed ladder is backed by the inventory, that     *)
(* price-time priority is kept, and that a soft revert leaves no trace.    *)
(*                                                                         *)
(* The inductive invariant relates a swap in progress to the market it     *)
(* found: the book still to walk is as collected, what was passed is       *)
(* spent, and what the snapshots hold is what the swap has changed.        *)
(***************************************************************************)
EXTENDS OrderMatching, SumsLemmas, WellFoundedInduction

------------------------------------------------------------------------------
(* Prices.                                                                  *)

\* The sizes of the slab and of a ladder, and the bounds.
LEMMA Sizes ==
    /\ MaxSectors \in Nat /\ MaxNonce \in Nat /\ MaxTime \in Nat /\ MaxAtoms \in Nat
    /\ Levels \subseteq Nat /\ IsFiniteSet(Levels) /\ IsFiniteSet(Sectors)
    /\ Sectors \subseteq Nat /\ Time \subseteq Nat /\ Prices \subseteq Nat
<1>1. MaxSectors \in Nat /\ Levels \subseteq Nat /\ IsFiniteSet(Levels)
  BY BookAssumption
<1>2. MaxNonce \in Nat /\ MaxTime \in Nat /\ MaxAtoms \in Nat
  BY AmountAssumption
<1>3. 0 \in Int /\ MaxSectors - 1 \in Int
  BY <1>1
<1>4. IsFiniteSet(Sectors)
  BY <1>3, FS_Interval DEF Sectors
<1>5. Sectors \subseteq Nat /\ Time \subseteq Nat
  BY <1>1, <1>2 DEF Sectors, Time
<1>6. Prices \subseteq Nat
  BY BookAssumption
<1>7. QED
  BY <1>1, <1>2, <1>4, <1>5, <1>6

\* The legs of a side.
LEMMA LegsOfSide ==
    ASSUME NEW side \in Side
    PROVE  /\ OutLeg(side) \in Leg /\ InLeg(side) \in Leg /\ OutLeg(side) # InLeg(side)
           /\ \A l \in Leg : l = OutLeg(side) \/ l = InLeg(side)
  BY DEF Side, Leg, OutLeg, InLeg

\* What an input buys, and what an output costs, are amounts of atoms.
LEMMA FillTypes ==
    ASSUME NEW side \in Side, NEW price \in Nat, price # 0, NEW a \in Nat
    PROVE  OutputFor(side, price, a) \in Nat /\ InputFor(side, price, a) \in Nat
<1>1. a * price \in Nat /\ a * PriceOne \in Nat /\ PriceOne \in Nat /\ PriceOne > 0 /\ price > 0
  BY TimesType, UnitAssumption
<1>2. (a * price) \div PriceOne \in Nat /\ (a * PriceOne) \div price \in Nat
  BY <1>1, DivFits
<1>3. QED
  BY <1>2 DEF OutputFor, InputFor, QuoteForBase, BaseForQuote

\* More input buys no less, and more output costs no less.
LEMMA FillsGrow ==
    ASSUME NEW side \in Side, NEW price \in Nat, price # 0, NEW a \in Nat, NEW b \in Nat, a <= b
    PROVE  /\ OutputFor(side, price, a) <= OutputFor(side, price, b)
           /\ InputFor(side, price, a) <= InputFor(side, price, b)
<1>1. /\ PriceOne \in Nat /\ PriceOne > 0 /\ price > 0
      /\ a * price \in Nat /\ a * PriceOne \in Nat /\ b * price \in Nat /\ b * PriceOne \in Nat
      /\ a * price <= b * price /\ a * PriceOne <= b * PriceOne
  BY TimesType, TimesMono, UnitAssumption
<1>2. /\ (a * price) \div PriceOne <= (b * price) \div PriceOne
      /\ (a * PriceOne) \div price <= (b * PriceOne) \div price
  BY <1>1, DivMono
<1>3. QED
  BY <1>2 DEF OutputFor, InputFor, QuoteForBase, BaseForQuote

\* What an input buys never costs more than the input: both conversions round down.
LEMMA CostFits ==
    ASSUME NEW side \in Side, NEW price \in Nat, price # 0, NEW a \in Nat, NEW out \in Nat,
           out <= OutputFor(side, price, a)
    PROVE  InputFor(side, price, out) <= a
<1>1. ASSUME NEW p \in Nat, p > 0, NEW q \in Nat, q > 0
      PROVE  (((a * p) \div q) * q) \div p <= a
  <2>1. a * p \in Nat /\ (a * p) \div q \in Nat /\ ((a * p) \div q) * q <= a * p
    BY <1>1, TimesType, DivFits
  <2>2. ((a * p) \div q) * q \in Nat
    BY <1>1, <2>1, TimesType
  <2>3. QED
    BY <1>1, <2>1, <2>2, DivBound
<1>2. InputFor(side, price, OutputFor(side, price, a)) <= a
  BY <1>1, UnitAssumption DEF OutputFor, InputFor, QuoteForBase, BaseForQuote
<1>3. InputFor(side, price, out) <= InputFor(side, price, OutputFor(side, price, a))
  BY FillTypes, FillsGrow
<1>4. QED
  BY <1>2, <1>3, FillTypes

\* Nothing is bought for nothing, and nothing costs nothing.
LEMMA NothingForNothing ==
    ASSUME NEW side \in Side, NEW price \in Nat, price # 0
    PROVE  OutputFor(side, price, 0) = 0 /\ InputFor(side, price, 0) = 0
<1>1. /\ PriceOne \in Nat /\ PriceOne > 0 /\ price > 0
      /\ 0 * price = 0 /\ 0 * PriceOne = 0
      /\ 0 \div price = 0 /\ 0 \div PriceOne = 0
  BY UnitAssumption
<1>2. QED
  BY <1>1 DEF OutputFor, InputFor, QuoteForBase, BaseForQuote

\* The tightest of three bounds.
LEMMA SmallestType ==
    ASSUME NEW a \in Nat, NEW b \in Nat
    PROVE  Smallest(a, b) \in Nat /\ Smallest(a, b) <= a /\ Smallest(a, b) <= b
           /\ (Smallest(a, b) = a \/ Smallest(a, b) = b)
  BY DEF Smallest

\* Neither fee exceeds what it is charged on.
LEMMA TakerFeeFits ==
    ASSUME NEW out \in Nat
    PROVE  TakerFeeOn(out) \in 0 .. out
<1>1. /\ TakerFee \in Nat /\ PPM \in Nat /\ PPM > 0 /\ TakerFee <= PPM
      /\ out * TakerFee \in Nat /\ TakerFee * out <= PPM * out
      /\ TakerFee * out = out * TakerFee /\ PPM * out = out * PPM
  BY RateAssumption, UnitAssumption, TimesType, TimesMono
<1>2. QED
  BY <1>1, DivFits, DivBound DEF TakerFeeOn

------------------------------------------------------------------------------
(* The front of a book.                                                     *)

\* Every nonempty set of naturals has a least element.
LEMMA LeastOf ==
    ASSUME NEW T, T \subseteq Nat, T # {}
    PROVE  \E m \in T : \A n \in T : m <= n
<1>1. PICK m \in T : \A n \in T : <<n, m>> \notin OpToRel(<, Nat)
  BY NatLessThanWellFounded, WFMin
<1>2. ASSUME NEW n \in T
      PROVE  m <= n
  <2>1. ~(n < m)
    BY <1>1 DEF OpToRel
  <2>2. QED
    BY <2>1
<1>3. QED
  BY <1>2

\* An entry's fields.
LEMMA EntryFields ==
    ASSUME NEW e \in Entry
    PROVE  /\ e.price \in Nat /\ e.stamp \in 0 .. MaxNonce /\ e.sector \in Sectors
           /\ e.level \in Levels /\ e.size \in Nat
           /\ e.stamp \in Nat /\ e.sector \in Nat /\ e.level \in Nat
<1>1. /\ e.price \in Nat /\ e.stamp \in 0 .. MaxNonce /\ e.sector \in Sectors
      /\ e.level \in Levels /\ e.size \in Nat
  BY DEF Entry
<1>2. \A n \in 0 .. MaxNonce : n \in Nat
  BY Sizes
<1>3. \A s \in Sectors : s \in Nat
  BY Sizes
<1>4. \A i \in Levels : i \in Nat
  BY Sizes
<1>5. QED
  BY <1>1, <1>2, <1>3, <1>4

\* Price, time and place are a strict order.
LEMMA GoesFirstIsAsymmetric ==
    ASSUME NEW side \in Side, NEW e \in Entry, NEW f \in Entry, GoesFirst(side, e, f)
    PROVE  ~GoesFirst(side, f, e)
<1>1. /\ e.price \in Nat /\ f.price \in Nat /\ e.stamp \in Nat /\ f.stamp \in Nat
      /\ e.sector \in Nat /\ f.sector \in Nat /\ e.level \in Nat /\ f.level \in Nat
  BY EntryFields
<1>2. QED
  BY <1>1 DEF GoesFirst, BetterPrice

\* A book in which no level stands twice, at prices the encoding can hold, has a front.
LEMMA FrontExists ==
    ASSUME NEW side \in Side, NEW book \in SUBSET Entry, book # {},
           \A e \in book : e.price < Infinity,
           \A e, f \in book : e.sector = f.sector /\ e.level = f.level => e = f
    PROVE  \E e \in book : \A f \in book \ {e} : GoesFirst(side, e, f)
<1> DEFINE cost(e) == IF side = "ask" THEN e.price ELSE Infinity - e.price
<1>1. Infinity \in Nat
  BY UnitAssumption DEF Infinity
<1>2. ASSUME NEW e \in book
      PROVE  /\ cost(e) \in Nat /\ e.price \in Nat /\ e.stamp \in Nat /\ e.sector \in Nat
             /\ e.level \in Nat /\ e.price < Infinity
  <2>1. e.price \in Nat /\ e.stamp \in Nat /\ e.sector \in Nat /\ e.level \in Nat
    BY EntryFields
  <2>2. QED
    BY <1>1, <2>1
<1>3. ASSUME NEW e \in book, NEW f \in book
      PROVE  /\ cost(e) < cost(f) => BetterPrice(side, e.price, f.price)
             /\ cost(e) = cost(f) => e.price = f.price
  BY <1>1, <1>2 DEF BetterPrice
<1> HIDE DEF cost
<1> DEFINE costs == {cost(e) : e \in book}
<1>4. PICK m \in costs : \A n \in costs : m <= n
  <2>1. costs # {} /\ costs \subseteq Nat
    BY <1>2
  <2>2. QED
    BY <2>1, LeastOf
<1> DEFINE B1 == {e \in book : cost(e) = m}
           stamps == {e.stamp : e \in B1}
<1>5. PICK t \in stamps : \A u \in stamps : t <= u
  <2>1. stamps # {} /\ stamps \subseteq Nat
    BY <1>2, <1>4
  <2>2. QED
    BY <2>1, LeastOf
<1> DEFINE B2 == {e \in B1 : e.stamp = t}
           sectors == {e.sector : e \in B2}
<1>6. PICK s \in sectors : \A u \in sectors : s <= u
  <2>1. sectors # {} /\ sectors \subseteq Nat
    BY <1>2, <1>5
  <2>2. QED
    BY <2>1, LeastOf
<1> DEFINE B3 == {e \in B2 : e.sector = s}
           levels == {e.level : e \in B3}
<1>7. PICK i \in levels : \A u \in levels : i <= u
  <2>1. levels # {} /\ levels \subseteq Nat
    BY <1>2, <1>6
  <2>2. QED
    BY <2>1, LeastOf
<1>8. PICK e \in book : cost(e) = m /\ e.stamp = t /\ e.sector = s /\ e.level = i
  BY <1>7
<1>9. ASSUME NEW f \in book \ {e}
      PROVE  GoesFirst(side, e, f)
  <2>1. f \in book /\ f # e /\ cost(e) <= cost(f) /\ cost(e) \in Nat /\ cost(f) \in Nat
    BY <1>2, <1>4, <1>8
  <2>2. CASE cost(e) < cost(f)
    BY <1>3, <2>1, <2>2 DEF GoesFirst
  <2>3. CASE cost(e) = cost(f)
    <3>1. e.price = f.price
      BY <1>3, <2>1, <2>3
    <3>2. f \in B1 /\ e.stamp <= f.stamp
      BY <1>5, <1>8, <2>1, <2>3
    <3>3. CASE e.stamp = f.stamp
      <4>1. f \in B2 /\ e.sector <= f.sector
        BY <1>6, <1>8, <3>2, <3>3
      <4>2. CASE e.sector = f.sector
        <5>1. f \in B3 /\ e.level <= f.level
          BY <1>7, <1>8, <4>1, <4>2
        <5>2. e.level # f.level
          BY <2>1, <4>2
        <5>3. e.level < f.level
          BY <1>2, <2>1, <5>1, <5>2
        <5>4. QED
          BY <3>1, <3>3, <4>2, <5>3 DEF GoesFirst
      <4>3. CASE e.sector # f.sector
        <5>1. e.sector < f.sector
          BY <1>2, <2>1, <4>1, <4>3
        <5>2. QED
          BY <3>1, <3>3, <5>1 DEF GoesFirst
      <4>4. QED
        BY <4>2, <4>3
    <3>4. CASE e.stamp # f.stamp
      <4>1. e.stamp < f.stamp
        BY <1>2, <2>1, <3>2, <3>4
      <4>2. QED
        BY <3>1, <4>1 DEF GoesFirst
    <3>5. QED
      BY <3>3, <3>4
  <2>4. QED
    BY <2>1, <2>2, <2>3
<1>10. QED
  BY <1>9

------------------------------------------------------------------------------
(* The inductive invariant.                                                 *)

\* The level a collected entry stands for.
LevelOf(e) == remaining[e.sector][swap.side][e.level]

\* What was flushed, and is not armed again, is what the leader wrote last.
QuotesAreCurrent ==
    \A s \in Sectors : ref[s].price # Zero /\ ~ref[s].flush =>
        \A side \in Side, i \in Levels :
            /\ remaining[s][side][i].price = LevelPrice(s, side, i)
            /\ remaining[s][side][i].deadline = DeadlineFromQuote(s, side, i)

\* The book still to walk is as it was collected: no fill of another level changed it.
Standing(e) ==
    /\ Trading(e.sector) /\ ~ref[e.sector].flush /\ e.stamp = ref[e.sector].stamp
    /\ LevelOf(e).price = e.price /\ LevelOf(e).size = e.size
    /\ e.price # Zero /\ e.size > 0 /\ StillLive(LevelOf(e))
BookIsCurrent == ~Idle => \A e \in swap.book : Standing(e)

\* The nonce has room for a fill of every level still to walk.
NonceFits ==
    ~Idle => /\ swap.nonce <= nonce
             /\ IsFiniteSet(swap.book) /\ nonce + Cardinality(swap.book) <= MaxNonce

\* Stamps are distinct, and earlier than the nonce that a swap would give back.
Given == IF Idle THEN nonce ELSE swap.nonce
StampsAreSpent ==
    \A s, t \in Sectors : Quoting(s) =>
        /\ ref[s].stamp < Given
        /\ Quoting(t) /\ s # t => ref[s].stamp # ref[t].stamp

\* The treasury covers inventories and accrued fees, as of before a swap in progress.
Solvent == \A l \in Leg : SumOf(CommittedAtoms[l]) + CommittedAccrued[l] <= treasury[l]

\* What a swap in progress has changed of what it found: flushes, and amounts moved.
FoundIsKept ==
    ~Idle =>
        /\ swap.nonce = before.nonce /\ swap.accrued = before.accrued
        /\ treasury = before.treasury
        /\ \A s \in swap.flushed : Trading(s) /\ before.ref[s].flush
        /\ ref = [s \in Sectors |-> IF s \in swap.flushed
                     THEN [before.ref[s] EXCEPT !.flush = FALSE] ELSE before.ref[s]]

\* What the totals of the swap say has moved, and in which direction rounding went.
Moved ==
    ~Idle =>
        /\ swap.left <= swap.amountIn /\ swap.fee <= swap.out
        /\ accrued[OutLeg(swap.side)] = before.accrued[OutLeg(swap.side)] + swap.fee
        /\ accrued[InLeg(swap.side)] = before.accrued[InLeg(swap.side)]
        /\ SumOf(atoms[OutLeg(swap.side)]) + swap.out = SumOf(before.atoms[OutLeg(swap.side)])
        /\ SumOf(atoms[InLeg(swap.side)]) + swap.left
              <= SumOf(before.atoms[InLeg(swap.side)]) + swap.amountIn

\* The snapshots of a vault's first fill, and of a level's, hold what the swap found.
FirstOfVault(k) == \A j \in 1 .. k - 1 : swap.fills[j].of.sector # swap.fills[k].of.sector
Snapshots ==
    ~Idle =>
        /\ \A s \in Sectors : FillsOf(s) = {} => \A l \in Leg : atoms[l][s] = before.atoms[l][s]
        /\ \A k \in DOMAIN swap.fills : FirstOfVault(k) =>
              /\ swap.fills[k].base = before.atoms["base"][swap.fills[k].of.sector]
              /\ swap.fills[k].quote = before.atoms["quote"][swap.fills[k].of.sector]

\* The first fill of a level; it recorded the size the level had.
FirstOfLevel(k) ==
    \A j \in 1 .. k - 1 : ~(/\ swap.fills[j].of.sector = swap.fills[k].of.sector
                            /\ swap.fills[j].of.level = swap.fills[k].of.level)
LevelSnapshots ==
    ~Idle => \A s \in Sectors \ swap.flushed :
        /\ \A side \in Side, i \in Levels :
              /\ side # swap.side \/ FillsAt(s, i) = {}
                    => remaining[s][side][i] = before.remaining[s][side][i]
              /\ remaining[s][side][i].price = before.remaining[s][side][i].price
              /\ remaining[s][side][i].deadline = before.remaining[s][side][i].deadline
        /\ \A k \in FillsOf(s) : FirstOfLevel(k) =>
              swap.fills[k].size = before.remaining[s][swap.side][swap.fills[k].of.level].size

\* A level no longer in the book has nothing left that the taker's change could pay for.
Takeable(s, i, left) ==
    Smallest(Smallest(remaining[s][swap.side][i].size, atoms[OutLeg(swap.side)][s]),
             OutputFor(swap.side, remaining[s][swap.side][i].price, left))
\* Nothing of the level could be had that the taker would pay for.
Spent(s, i, left) ==
    InputFor(swap.side, remaining[s][swap.side][i].price, Takeable(s, i, left)) = 0
\* A level that a swap may take.
Offered(s, i) ==
    /\ Trading(s) /\ StillLive(remaining[s][swap.side][i])
    /\ remaining[s][swap.side][i].price # Zero
\* A level that is still to walk.
InBook(s, i) == \E e \in swap.book : e.sector = s /\ e.level = i
PassedAreSpent ==
    ~Idle => \A s \in Sectors, i \in Levels :
        Offered(s, i) /\ ~InBook(s, i) => Spent(s, i, swap.left)

\* Fills came in order, and used up what they were priced at and the change.
FillsCameFirst ==
    ~Idle => \A k \in DOMAIN swap.fills, e \in swap.book : GoesFirst(swap.side, swap.fills[k].of, e)
\* What is left of the taker's input is what the fills did not use.
LeftIsCounted == ~Idle => swap.left = LeftBefore(Len(swap.fills) + 1)

\* The inductive invariant, in four parts: quotes, amounts, traces, walk.
QuoteInv == QuotesAreCurrent /\ BookIsCurrent /\ StampsAreSpent
MoneyInv == NonceFits /\ Solvent /\ FoundIsKept /\ Moved
TraceInv == Snapshots /\ LevelSnapshots
WalkInv  == PassedAreSpent /\ FillsCameFirst /\ LeftIsCounted
OrderInv == QuoteInv /\ MoneyInv /\ TraceInv /\ WalkInv

------------------------------------------------------------------------------
(* Types.                                                                   *)

\* No walk is the absence of one.
LEMMA WalkFields ==
    ASSUME NEW w \in Walk
    PROVE  /\ w # NoSwap
           /\ w.side \in Side /\ w.amountIn \in Nat /\ w.left \in Nat
           /\ w.limit \in Limits /\ w.minOut \in Nat /\ w.platform \in 0 .. MaxPlatformFee
           /\ w.flushed \in SUBSET Sectors /\ w.book \in SUBSET Entry
           /\ w.out \in Nat /\ w.fee \in Nat /\ w.fills \in Seq(Fill)
           /\ w.nonce \in 0 .. MaxNonce /\ w.nonce \in Nat /\ w.accrued \in [Leg -> Nat]
<1>1. /\ w.side \in Side /\ w.amountIn \in Amounts /\ w.left \in Nat
      /\ w.limit \in Limits /\ w.minOut \in MinOuts /\ w.platform \in 0 .. MaxPlatformFee
      /\ w.flushed \in SUBSET Sectors /\ w.book \in SUBSET Entry
      /\ w.out \in Nat /\ w.fee \in Nat /\ w.fills \in Seq(Fill)
      /\ w.nonce \in 0 .. MaxNonce /\ w.accrued \in [Leg -> Nat]
  BY DEF Walk
<1>2. w # NoSwap
  BY <1>1 DEF NoSwap, Side
<1>3. w.amountIn \in Nat /\ w.minOut \in Nat
  BY <1>1, AmountAssumption
<1>4. w.nonce \in Nat
  BY <1>1, Sizes
<1>5. QED
  BY <1>1, <1>2, <1>3, <1>4

\* A swap is in progress, or nothing is remembered of one.
LEMMA InProgress ==
    ASSUME TypeOK
    PROVE  /\ Idle => swap = NoSwap /\ before = NoBefore
           /\ ~Idle => swap \in Walk /\ before \in Found
  BY WalkFields DEF TypeOK, Idle

\* What the market is made of.
LEMMA Fields ==
    ASSUME TypeOK
    PROVE  /\ ref \in [Sectors -> Quote] /\ remaining \in Books /\ atoms \in Ledger
           /\ accrued \in [Leg -> Nat] /\ treasury \in [Leg -> Nat]
           /\ nonce \in 0 .. MaxNonce /\ nonce \in Nat
           /\ \A s \in Sectors : /\ ref[s] \in Quote /\ ref[s].price \in Nat
                                 /\ ref[s].stamp \in 0 .. MaxNonce /\ ref[s].stamp \in Nat
                                 /\ ref[s].flush \in BOOLEAN
                                 /\ ref[s].at \in [Domain -> Nat]
           /\ \A s \in Sectors, side \in Side, i \in Levels :
                 /\ remaining[s] \in [Side -> [Levels -> Position]]
                 /\ remaining[s][side] \in [Levels -> Position]
                 /\ remaining[s][side][i] \in Position
                 /\ remaining[s][side][i].price \in Nat /\ remaining[s][side][i].size \in Nat
                 /\ remaining[s][side][i].deadline \in [Domain -> Nat]
           /\ \A l \in Leg : atoms[l] \in [Sectors -> Nat] /\ accrued[l] \in Nat
                             /\ treasury[l] \in Nat
           /\ \A l \in Leg, s \in Sectors : atoms[l][s] \in Nat
<1>1. /\ ref \in [Sectors -> Quote] /\ remaining \in Books /\ atoms \in Ledger
      /\ accrued \in [Leg -> Nat] /\ treasury \in [Leg -> Nat] /\ nonce \in 0 .. MaxNonce
  BY DEF TypeOK
<1>2. nonce \in Nat
  BY <1>1, Sizes
<1>3. ASSUME NEW s \in Sectors
      PROVE  /\ ref[s] \in Quote /\ ref[s].price \in Nat
             /\ ref[s].stamp \in 0 .. MaxNonce /\ ref[s].stamp \in Nat
             /\ ref[s].flush \in BOOLEAN /\ ref[s].at \in [Domain -> Nat]
  <2>1. ref[s] \in Quote
    BY <1>1
  <2>2. /\ ref[s].price \in Prices \cup {Zero} /\ ref[s].stamp \in 0 .. MaxNonce
        /\ ref[s].flush \in BOOLEAN /\ ref[s].at \in [Domain -> Time]
    BY <2>1 DEF Quote
  <2>3. ref[s].price \in Nat
    <3>1. Prices \cup {Zero} \subseteq Nat
      BY Sizes DEF Zero
    <3>2. QED
      BY <2>2, <3>1
  <2>4. ref[s].stamp \in Nat
    BY <2>2, Sizes
  <2>5. ref[s].at \in [Domain -> Nat]
    BY <2>2, Sizes
  <2>6. QED
    BY <2>1, <2>2, <2>3, <2>4, <2>5
<1>4. ASSUME NEW s \in Sectors, NEW side \in Side, NEW i \in Levels
      PROVE  /\ remaining[s] \in [Side -> [Levels -> Position]]
             /\ remaining[s][side] \in [Levels -> Position]
             /\ remaining[s][side][i] \in Position
             /\ remaining[s][side][i].price \in Nat /\ remaining[s][side][i].size \in Nat
             /\ remaining[s][side][i].deadline \in [Domain -> Nat]
  <2>1. remaining[s] \in [Side -> [Levels -> Position]]
    BY <1>1 DEF Books
  <2>2. remaining[s][side] \in [Levels -> Position]
    BY <2>1
  <2>3. remaining[s][side][i] \in Position
    BY <2>2
  <2>4. QED
    BY <2>1, <2>2, <2>3 DEF Position
<1>5. ASSUME NEW l \in Leg
      PROVE  atoms[l] \in [Sectors -> Nat] /\ accrued[l] \in Nat /\ treasury[l] \in Nat
  BY <1>1 DEF Ledger
<1>6. ASSUME NEW l \in Leg, NEW s \in Sectors
      PROVE  atoms[l][s] \in Nat
  BY <1>5
<1>7. QED
  BY <1>1, <1>2, <1>3, <1>4, <1>5, <1>6

\* A ladder, and what becomes of it.
LEMMA LadderFields ==
    ASSUME TypeOK, NEW s \in Sectors, NEW side \in Side, NEW i \in Levels
    PROVE  /\ ladder[s] \in [Side -> [Levels -> LevelShape]]
           /\ ladder[s][side][i].offset \in Nat /\ ladder[s][side][i].bps \in Nat
           /\ ladder[s][side][i].span \in [Domain -> Nat]
<1>1. ladder[s] \in Ladders \cup {EmptyLadder}
  BY DEF TypeOK
<1>2. Ladders \subseteq [Side -> [Levels -> LevelShape]]
  BY BookAssumption
<1>3. EmptyLevel \in LevelShape
  BY DEF EmptyLevel, LevelShape
<1>4. EmptyLadder \in [Side -> [Levels -> LevelShape]]
  BY <1>3 DEF EmptyLadder
<1>5. ladder[s] \in [Side -> [Levels -> LevelShape]]
  BY <1>1, <1>2, <1>4
<1>6. ladder[s][side][i] \in LevelShape
  <2>1. ladder[s][side] \in [Levels -> LevelShape]
    BY <1>5
  <2>2. QED
    BY <2>1
<1>7. QED
  BY <1>5, <1>6 DEF LevelShape

\* What a write makes of a level is a price and a deadline.
LEMMA LevelTypes ==
    ASSUME TypeOK, NEW s \in Sectors, NEW side \in Side, NEW i \in Levels
    PROVE  /\ LevelPrice(s, side, i) \in Nat /\ LevelPrice(s, side, i) < Infinity
           /\ LevelSize(s, side, i) \in Nat
           /\ DeadlineFromQuote(s, side, i) \in [Domain -> Nat]
<1>1. LevelPrice(s, side, i) \in Nat /\ LevelPrice(s, side, i) < Infinity
  <2> DEFINE offset == ladder[s][side][i].offset
             factor == IF side = "ask" THEN PPM + offset
                       ELSE IF offset > PPM THEN 0 ELSE PPM - offset
             scaled == (ref[s].price * factor) \div PPM
  <2>1. PPM \in Nat /\ PPM > 0 /\ offset \in Nat /\ ref[s].price \in Nat
    BY LadderFields, UnitAssumption, Fields
  <2>2. factor \in Nat
    BY <2>1
  <2> HIDE DEF factor
  <2>3. ref[s].price * factor \in Nat
    BY <2>1, <2>2, TimesType
  <2>4. scaled \in Nat
    BY <2>1, <2>3, DivFits
  <2> HIDE DEF scaled
  <2>5. Infinity \in Nat /\ Infinity > 0
    BY UnitAssumption DEF Infinity
  <2>6. LevelPrice(s, side, i) = IF scaled < Infinity THEN scaled ELSE Zero
    BY DEF LevelPrice, scaled, factor
  <2>7. QED
    BY <2>4, <2>5, <2>6 DEF Zero
<1>2. LevelSize(s, side, i) \in Nat
  <2>1. /\ BPS \in Nat /\ BPS > 0 /\ atoms[OutLeg(side)][s] \in Nat
        /\ ladder[s][side][i].bps \in Nat
    BY UnitAssumption, LadderFields, LegsOfSide, Fields
  <2>2. (atoms[OutLeg(side)][s] * ladder[s][side][i].bps) \div BPS \in Nat
    BY <2>1, TimesType, DivFits
  <2>3. QED
    BY <2>2 DEF LevelSize
<1>3. DeadlineFromQuote(s, side, i) \in [Domain -> Nat]
  <2>1. ASSUME NEW d \in Domain
        PROVE  (IF ladder[s][side][i].span[d] = 0 THEN 0
                ELSE ref[s].at[d] + ladder[s][side][i].span[d]) \in Nat
    <3>1. ref[s].at \in [Domain -> Nat] /\ ladder[s][side][i].span \in [Domain -> Nat]
      BY Fields, LadderFields
    <3>2. QED
      BY <3>1
  <2>2. QED
    BY <2>1 DEF DeadlineFromQuote
<1>4. QED
  BY <1>1, <1>2, <1>3

\* What a walk meets, flushed or not, is a vault's levels.
LEMMA MetType ==
    ASSUME TypeOK, NEW s \in Sectors
    PROVE  /\ Materialized(s) \in [Side -> [Levels -> Position]]
           /\ Met(s) \in [Side -> [Levels -> Position]]
<1>1. ASSUME NEW side \in Side, NEW i \in Levels
      PROVE  [price |-> LevelPrice(s, side, i), size |-> LevelSize(s, side, i),
              deadline |-> DeadlineFromQuote(s, side, i)] \in Position
  BY LevelTypes DEF Position
<1>2. Materialized(s) \in [Side -> [Levels -> Position]]
  BY <1>1 DEF Materialized
<1>3. remaining[s] \in [Side -> [Levels -> Position]]
  BY DEF TypeOK, Books
<1>4. QED
  BY <1>2, <1>3 DEF Met

\* What a flush makes of a level.
LEMMA MaterializedFields ==
    ASSUME NEW s \in Sectors, NEW side \in Side, NEW i \in Levels
    PROVE  /\ Materialized(s)[side][i].price = LevelPrice(s, side, i)
           /\ Materialized(s)[side][i].size = LevelSize(s, side, i)
           /\ Materialized(s)[side][i].deadline = DeadlineFromQuote(s, side, i)
  BY DEF Materialized

\* Prices and deadlines follow from the quote and the ladder as written, and nothing else.
LEMMA SameQuote ==
    ASSUME NEW s \in Sectors, NEW side \in Side, NEW i \in Levels,
           ladder'[s] = ladder[s], ref'[s].price = ref[s].price, ref'[s].at = ref[s].at
    PROVE  /\ LevelPrice(s, side, i)' = LevelPrice(s, side, i)
           /\ DeadlineFromQuote(s, side, i)' = DeadlineFromQuote(s, side, i)
  BY DEF LevelPrice, DeadlineFromQuote

------------------------------------------------------------------------------
(* What happens between swaps.                                              *)

\* Between swaps the invariant is about quotes and the treasury alone.
LEMMA RestInv ==
    ASSUME swap' = NoSwap, QuotesAreCurrent', StampsAreSpent', Solvent'
    PROVE  OrderInv'
<1>1. Idle'
  BY DEF Idle
<1>2. BookIsCurrent' /\ NonceFits' /\ FoundIsKept' /\ Moved'
  BY <1>1 DEF BookIsCurrent, NonceFits, FoundIsKept, Moved
<1>3. Snapshots' /\ LevelSnapshots' /\ PassedAreSpent' /\ FillsCameFirst' /\ LeftIsCounted'
  BY <1>1 DEF Snapshots, LevelSnapshots, PassedAreSpent, FillsCameFirst, LeftIsCounted
<1>4. QED
  BY <1>2, <1>3 DEF OrderInv, QuoteInv, MoneyInv, TraceInv, WalkInv

\* The ledgers of a market at rest.
LEMMA SolventAtRest ==
    ASSUME swap' = NoSwap
    PROVE  Solvent' <=> \A l \in Leg : SumOf(atoms'[l]) + accrued'[l] <= treasury'[l]
<1>1. Idle'
  BY DEF Idle
<1>2. CommittedAtoms' = atoms' /\ CommittedAccrued' = accrued'
  BY <1>1 DEF CommittedAtoms, CommittedAccrued
<1>3. QED
  BY <1>2 DEF Solvent

\* Between swaps, what is committed is what is there.
LEMMA SolventNow ==
    ASSUME Idle, Solvent, NEW l \in Leg
    PROVE  SumOf(atoms[l]) + accrued[l] <= treasury[l]
<1>1. CommittedAtoms = atoms /\ CommittedAccrued = accrued
  BY DEF CommittedAtoms, CommittedAccrued
<1>2. QED
  BY <1>1 DEF Solvent

\* A quote write: the quote it replaces is armed, and stamped later than every other.
LEMMA QuoteWriteInv ==
    ASSUME TypeOK, OrderInv, NEW s \in Sectors, NEW key, QuoteWrite(s, key),
           NEW r \in Quote, ref' = [ref EXCEPT ![s] = r], r.stamp = nonce, r.flush,
           ladder' \in [Sectors -> Ladders \cup {EmptyLadder}],
           \A t \in Sectors : t # s => ladder'[t] = ladder[t]
    PROVE  TypeOK' /\ OrderInv'
<1>1. /\ Idle /\ swap = NoSwap /\ before = NoBefore /\ nonce < MaxNonce /\ nonce' = nonce + 1
      /\ UNCHANGED <<phase, authority, remaining, atoms, accrued, treasury, now, swap, before>>
  BY InProgress DEF QuoteWrite, NonceAfterWrite
<1>2. ref' \in [Sectors -> Quote] /\ ref'[s] = r /\ \A t \in Sectors : t # s => ref'[t] = ref[t]
  BY Fields
<1>3. nonce \in Nat /\ nonce + 1 \in 0 .. MaxNonce
  BY <1>1, Fields, Sizes
<1>4. TypeOK'
  BY <1>1, <1>2, <1>3 DEF TypeOK
<1>5. QuotesAreCurrent'
  <2> SUFFICES ASSUME NEW t \in Sectors, ref'[t].price # Zero, ~ref'[t].flush,
                      NEW side \in Side, NEW i \in Levels
               PROVE  /\ remaining'[t][side][i].price = LevelPrice(t, side, i)'
                      /\ remaining'[t][side][i].deadline = DeadlineFromQuote(t, side, i)'
    BY DEF QuotesAreCurrent
  <2>1. t # s /\ ref'[t] = ref[t] /\ ladder'[t] = ladder[t]
    BY <1>2
  <2>2. /\ LevelPrice(t, side, i)' = LevelPrice(t, side, i)
        /\ DeadlineFromQuote(t, side, i)' = DeadlineFromQuote(t, side, i)
    BY <2>1, SameQuote
  <2>3. QED
    BY <1>1, <2>1, <2>2 DEF OrderInv, QuoteInv, QuotesAreCurrent
<1>6. StampsAreSpent'
  <2>1. Given' = nonce + 1
    BY <1>1 DEF Given, Idle
  <2>2. ASSUME NEW t \in Sectors, t # s, Quoting(t)'
        PROVE  ref'[t].stamp < nonce /\ ref'[t].stamp \in Nat
    <3>1. Quoting(t) /\ ref'[t] = ref[t]
      BY <1>2, <2>2 DEF Quoting
    <3>2. QED
      BY <1>1, <3>1, Fields DEF OrderInv, QuoteInv, StampsAreSpent, Given
  <2>3. ASSUME NEW t \in Sectors, NEW u \in Sectors, t # u, Quoting(t)', Quoting(u)'
        PROVE  ref'[t].stamp # ref'[u].stamp
    <3>1. CASE t # s /\ u # s
      <4>1. Quoting(t) /\ Quoting(u) /\ ref'[t] = ref[t] /\ ref'[u] = ref[u]
        BY <1>2, <2>3, <3>1 DEF Quoting
      <4>2. QED
        BY <2>3, <4>1 DEF OrderInv, QuoteInv, StampsAreSpent
    <3>2. CASE t = s
      BY <1>2, <1>3, <2>2, <2>3, <3>2
    <3>3. CASE u = s
      BY <1>2, <1>3, <2>2, <2>3, <3>3
    <3>4. QED
      BY <3>1, <3>2, <3>3
  <2>4. ASSUME NEW t \in Sectors, Quoting(t)'
        PROVE  ref'[t].stamp < nonce + 1
    <3>1. CASE t = s
      BY <1>2, <1>3, <3>1
    <3>2. CASE t # s
      BY <1>3, <2>2, <2>4, <3>2
    <3>3. QED
      BY <3>1, <3>2
  <2>5. QED
    BY <2>1, <2>3, <2>4 DEF StampsAreSpent
<1>7. Solvent'
  BY <1>1, SolventAtRest, SolventNow DEF OrderInv, MoneyInv
<1>8. QED
  BY <1>1, <1>4, <1>5, <1>6, <1>7, RestInv

\* A price write, and a profile write, are quote writes.
LEMMA SetReferencePriceInv ==
    ASSUME TypeOK, OrderInv, NEW s \in Sectors, NEW key \in Keys,
           NEW price \in Prices \cup {Zero}, NEW at \in [Domain -> Time],
           SetReferencePrice(s, key, price, at)
    PROVE  TypeOK' /\ OrderInv'
<1> DEFINE r == [Stamped(s) EXCEPT !.price = price, !.at = at]
<1>1. ref[s] \in Quote /\ nonce \in 0 .. MaxNonce
  BY Fields
<1>2. Stamped(s) \in Quote /\ Stamped(s).stamp = nonce /\ Stamped(s).flush
  BY <1>1 DEF Stamped, FlushAfterWrite, Quote
<1>3. r \in Quote /\ r.stamp = nonce /\ r.flush
  BY <1>2 DEF Quote
<1>4. QuoteWrite(s, key) /\ ref' = [ref EXCEPT ![s] = r] /\ ladder' = ladder
  BY DEF SetReferencePrice
<1>5. ladder' \in [Sectors -> Ladders \cup {EmptyLadder}]
  BY <1>4 DEF TypeOK
<1> HIDE DEF r
<1>6. QED
  BY <1>3, <1>4, <1>5, QuoteWriteInv

LEMMA SetLiquidityProfileInv ==
    ASSUME TypeOK, OrderInv, NEW s \in Sectors, NEW key \in Keys, NEW l \in Ladders,
           SetLiquidityProfile(s, key, l)
    PROVE  TypeOK' /\ OrderInv'
<1>1. ref[s] \in Quote /\ nonce \in 0 .. MaxNonce
  BY Fields
<1>2. Stamped(s) \in Quote /\ Stamped(s).stamp = nonce /\ Stamped(s).flush
  BY <1>1 DEF Stamped, FlushAfterWrite, Quote
<1>3. QuoteWrite(s, key) /\ ref' = [ref EXCEPT ![s] = Stamped(s)]
      /\ ladder' = [ladder EXCEPT ![s] = l]
  BY DEF SetLiquidityProfile
<1>4. /\ ladder' \in [Sectors -> Ladders \cup {EmptyLadder}]
      /\ \A t \in Sectors : t # s => ladder'[t] = ladder[t]
  BY <1>3 DEF TypeOK
<1>5. QED
  BY <1>2, <1>3, <1>4, QuoteWriteInv

\* Other steps between swaps leave all quotes alone but that of a vault made anew.
LEMMA QuotesAtRest ==
    ASSUME TypeOK, OrderInv, Idle, swap' = NoSwap, nonce' = nonce,
           \A t \in Sectors : ref'[t] = NoQuote \/
               (ref'[t] = ref[t] /\ ladder'[t] = ladder[t] /\ remaining'[t] = remaining[t])
    PROVE  QuotesAreCurrent' /\ StampsAreSpent'
<1>1. QuotesAreCurrent'
  <2> SUFFICES ASSUME NEW t \in Sectors, ref'[t].price # Zero, ~ref'[t].flush,
                      NEW side \in Side, NEW i \in Levels
               PROVE  /\ remaining'[t][side][i].price = LevelPrice(t, side, i)'
                      /\ remaining'[t][side][i].deadline = DeadlineFromQuote(t, side, i)'
    BY DEF QuotesAreCurrent
  <2>1. ref'[t] = ref[t] /\ ladder'[t] = ladder[t] /\ remaining'[t] = remaining[t]
    BY DEF NoQuote
  <2>2. /\ LevelPrice(t, side, i)' = LevelPrice(t, side, i)
        /\ DeadlineFromQuote(t, side, i)' = DeadlineFromQuote(t, side, i)
    BY <2>1, SameQuote
  <2>3. QED
    BY <2>1, <2>2 DEF OrderInv, QuoteInv, QuotesAreCurrent
<1>2. StampsAreSpent'
  <2>1. Given' = nonce /\ Given = nonce
    BY DEF Given, Idle
  <2>2. ASSUME NEW t \in Sectors, Quoting(t)'
        PROVE  ref'[t] = ref[t] /\ Quoting(t)
    BY <2>2 DEF Quoting, NoQuote
  <2>3. QED
    BY <2>1, <2>2 DEF OrderInv, QuoteInv, StampsAreSpent
<1>3. QED
  BY <1>1, <1>2

\* A new authority, a freeze and a close touch neither quotes nor atoms.
LEMMA AuthorityInv ==
    ASSUME TypeOK, OrderInv, Idle,
           phase' \in [Sectors -> {"active", "frozen", "tombstoned", "free"}],
           authority' \in [Sectors -> Keys \cup {NoKey}], now' \in [Domain -> Time],
           UNCHANGED <<ref, ladder, remaining, atoms, treasury, accrued, nonce, swap, before>>
    PROVE  TypeOK' /\ OrderInv'
<1>1. swap = NoSwap /\ swap' = NoSwap /\ before' = NoBefore
  BY InProgress
<1>2. TypeOK'
  BY <1>1 DEF TypeOK
<1>3. QuotesAreCurrent' /\ StampsAreSpent'
  BY <1>1, QuotesAtRest
<1>4. Solvent'
  BY <1>1, SolventAtRest, SolventNow DEF OrderInv, MoneyInv
<1>5. QED
  BY <1>1, <1>2, <1>3, <1>4, RestInv

\* What moves inventory between swaps moves the treasury by as much.
LEMMA LedgersMove ==
    ASSUME TypeOK, OrderInv, Idle, NEW s \in Sectors, NEW n \in [Leg -> Nat],
           atoms' = [l \in Leg |-> [atoms[l] EXCEPT ![s] = n[l]]],
           NEW t \in [Leg -> Int], treasury' = t,
           \A l \in Leg : t[l] >= treasury[l] - atoms[l][s] + n[l],
           accrued' = accrued
    PROVE  /\ atoms' \in Ledger /\ treasury' \in [Leg -> Nat]
           /\ swap' = NoSwap => Solvent'
<1>1. ASSUME NEW l \in Leg
      PROVE  /\ atoms'[l] = [atoms[l] EXCEPT ![s] = n[l]] /\ atoms'[l] \in [Sectors -> Nat]
             /\ treasury'[l] \in Nat
             /\ SumOf(atoms'[l]) + accrued'[l] <= treasury'[l]
  <2>1. /\ atoms[l] \in [Sectors -> Nat] /\ atoms[l][s] \in Nat /\ accrued[l] \in Nat
        /\ treasury[l] \in Nat /\ n[l] \in Nat /\ IsFiniteSet(Sectors)
    BY Fields, Sizes
  <2>2. /\ SumOf([atoms[l] EXCEPT ![s] = n[l]]) = SumOf(atoms[l]) - atoms[l][s] + n[l]
        /\ atoms[l][s] <= SumOf(atoms[l]) /\ SumOf(atoms[l]) \in Nat
    BY <2>1, SumExcept, SumType
  <2>3. SumOf(atoms[l]) + accrued[l] <= treasury[l]
    BY SolventNow DEF OrderInv, MoneyInv
  <2>4. atoms'[l] = [atoms[l] EXCEPT ![s] = n[l]]
    OBVIOUS
  <2>5. treasury'[l] \in Int /\ treasury'[l] >= treasury[l] - atoms[l][s] + n[l]
    OBVIOUS
  <2>6. atoms'[l] \in [Sectors -> Nat]
    BY <2>1, <2>4
  <2>7. SumOf(atoms'[l]) = SumOf(atoms[l]) - atoms[l][s] + n[l]
    BY <2>2, <2>4
  <2>8. QED
    BY <2>1, <2>2, <2>3, <2>4, <2>5, <2>6, <2>7
<1>2. atoms' \in Ledger
  <2>1. atoms' = [l \in Leg |-> atoms'[l]]
    OBVIOUS
  <2>2. QED
    BY <1>1, <2>1 DEF Ledger
<1>3. treasury' \in [Leg -> Nat]
  <2>1. treasury' = [l \in Leg |-> treasury'[l]]
    OBVIOUS
  <2>2. QED
    BY <1>1, <2>1
<1>4. swap' = NoSwap => Solvent'
  BY <1>1, SolventAtRest
<1>5. QED
  BY <1>2, <1>3, <1>4

\* A vault that ends takes its inventory along, from vault and treasury alike.
LEMMA ReclaimVaultInv ==
    ASSUME TypeOK, OrderInv, NEW s \in Sectors, ReclaimVault(s)
    PROVE  TypeOK' /\ OrderInv'
<1>1. /\ Idle /\ phase' = [phase EXCEPT ![s] = "free"]
      /\ treasury' = [l \in Leg |-> treasury[l] - atoms[l][s]]
      /\ atoms' = [l \in Leg |-> [atoms[l] EXCEPT ![s] = 0]]
      /\ UNCHANGED <<authority, ref, ladder, remaining, accrued, nonce, now, swap, before>>
  BY DEF ReclaimVault, AtRest
<1>2. swap = NoSwap /\ swap' = NoSwap /\ before' = NoBefore
  BY <1>1, InProgress
<1> DEFINE n == [l \in Leg |-> 0]
           t == [l \in Leg |-> treasury[l] - atoms[l][s]]
<1>3. /\ n \in [Leg -> Nat] /\ atoms' = [l \in Leg |-> [atoms[l] EXCEPT ![s] = n[l]]]
      /\ t \in [Leg -> Int] /\ treasury' = t
      /\ \A l \in Leg : t[l] >= treasury[l] - atoms[l][s] + n[l]
  BY <1>1, Fields
<1> HIDE DEF n, t
<1>4. atoms' \in Ledger /\ treasury' \in [Leg -> Nat] /\ Solvent'
  BY <1>1, <1>2, <1>3, LedgersMove
<1>5. TypeOK'
  BY <1>1, <1>2, <1>4 DEF TypeOK
<1>6. QuotesAreCurrent' /\ StampsAreSpent'
  BY <1>1, <1>2, QuotesAtRest
<1>7. QED
  BY <1>2, <1>4, <1>5, <1>6, RestInv

\* A new vault starts without a quote, whatever its sector held before.
LEMMA CreateVaultInv ==
    ASSUME TypeOK, OrderInv, NEW s \in Sectors, NEW key \in Keys, NEW k \in Inventories,
           CreateVault(s, key, k)
    PROVE  TypeOK' /\ OrderInv'
<1>1. /\ Idle /\ phase' = [phase EXCEPT ![s] = "active"]
      /\ authority' = [authority EXCEPT ![s] = key]
      /\ ref' = [ref EXCEPT ![s] = NoQuote]
      /\ ladder' = [ladder EXCEPT ![s] = EmptyLadder]
      /\ remaining' = [remaining EXCEPT ![s] = NothingLeft]
      /\ atoms' = [l \in Leg |-> [atoms[l] EXCEPT ![s] = k]]
      /\ treasury' = [l \in Leg |-> treasury[l] + k]
      /\ UNCHANGED <<accrued, nonce, now, swap, before>>
  BY DEF CreateVault, AtRest
<1>2. swap = NoSwap /\ swap' = NoSwap /\ before' = NoBefore /\ k \in Nat
  BY <1>1, InProgress, AmountAssumption
<1> DEFINE n == [l \in Leg |-> k]
           t == [l \in Leg |-> treasury[l] + k]
<1>3. /\ n \in [Leg -> Nat] /\ atoms' = [l \in Leg |-> [atoms[l] EXCEPT ![s] = n[l]]]
      /\ t \in [Leg -> Int] /\ treasury' = t
      /\ \A l \in Leg : t[l] >= treasury[l] - atoms[l][s] + n[l]
  BY <1>1, <1>2, Fields
<1> HIDE DEF n, t
<1>4. atoms' \in Ledger /\ treasury' \in [Leg -> Nat] /\ Solvent'
  BY <1>1, <1>2, <1>3, LedgersMove
<1>5. NoQuote \in Quote
  <2>1. [d \in Domain |-> 0] \in [Domain -> Time] /\ 0 \in 0 .. MaxNonce
    BY Sizes DEF Time
  <2>2. QED
    BY <2>1 DEF NoQuote, Quote, Zero
<1>6. NothingLeft \in [Side -> [Levels -> Position]]
  <2>1. [price |-> Zero, size |-> 0, deadline |-> [d \in Domain |-> 0]] \in Position
    BY DEF Position, Zero
  <2>2. QED
    BY <2>1 DEF NothingLeft
<1>7. ref' \in [Sectors -> Quote] /\ remaining' \in Books
      /\ ladder' \in [Sectors -> Ladders \cup {EmptyLadder}]
  <2>1. ref' \in [Sectors -> Quote]
    BY <1>1, <1>5, Fields
  <2>2. remaining' \in Books
    BY <1>1, <1>6, Fields DEF Books
  <2>3. ladder' \in [Sectors -> Ladders \cup {EmptyLadder}]
    BY <1>1 DEF TypeOK
  <2>4. QED
    BY <2>1, <2>2, <2>3
<1>8. phase' \in [Sectors -> {"active", "frozen", "tombstoned", "free"}]
      /\ authority' \in [Sectors -> Keys \cup {NoKey}]
  BY <1>1 DEF TypeOK
<1>9. TypeOK'
  BY <1>1, <1>2, <1>4, <1>7, <1>8 DEF TypeOK
<1>10. QuotesAreCurrent' /\ StampsAreSpent'
  <2>1. ASSUME NEW u \in Sectors
        PROVE  ref'[u] = NoQuote \/
                 (ref'[u] = ref[u] /\ ladder'[u] = ladder[u] /\ remaining'[u] = remaining[u])
    <3>1. CASE u = s
      BY <1>1, <3>1, Fields
    <3>2. CASE u # s
      <4>1. ref'[u] = ref[u]
        BY <1>1, <3>2, Fields
      <4>2. remaining'[u] = remaining[u]
        BY <1>1, <3>2, Fields DEF Books
      <4>3. ladder'[u] = ladder[u]
        BY <1>1, <3>2 DEF TypeOK
      <4>4. QED
        BY <4>1, <4>2, <4>3
    <3>3. QED
      BY <3>1, <3>2
  <2>2. QED
    BY <1>1, <1>2, <2>1, QuotesAtRest
<1>11. QED
  BY <1>2, <1>4, <1>9, <1>10, RestInv

\* Deposits and withdrawals move vault and treasury by the same amount.
LEMMA MoveInventoryInv ==
    ASSUME TypeOK, OrderInv, NEW s \in Sectors, NEW leg \in Leg, NEW k \in Inventories,
           MoveInventory(s, leg, k)
    PROVE  TypeOK' /\ OrderInv'
<1>1. /\ Idle
      /\ treasury' = [treasury EXCEPT ![leg] = treasury[leg] + k - atoms[leg][s]]
      /\ atoms' = [atoms EXCEPT ![leg] = [atoms[leg] EXCEPT ![s] = k]]
      /\ UNCHANGED <<phase, authority, ladder, ref, remaining, accrued, nonce, now, swap, before>>
  BY DEF MoveInventory, AtRest, vaultVars
<1>2. swap = NoSwap /\ swap' = NoSwap /\ before' = NoBefore /\ k \in Nat
  BY <1>1, InProgress, AmountAssumption
<1> DEFINE n == [l \in Leg |-> IF l = leg THEN k ELSE atoms[l][s]]
           t == [l \in Leg |-> IF l = leg THEN treasury[leg] + k - atoms[leg][s] ELSE treasury[l]]
<1>3. n \in [Leg -> Nat]
  BY <1>2, Fields
<1>4. atoms' = [l \in Leg |-> [atoms[l] EXCEPT ![s] = n[l]]]
  <2>1. ASSUME NEW l \in Leg
        PROVE  atoms'[l] = [atoms[l] EXCEPT ![s] = n[l]]
    <3>1. atoms[l] \in [Sectors -> Nat] /\ atoms \in [Leg -> [Sectors -> Nat]]
      BY Fields DEF Ledger
    <3>2. QED
      BY <1>1, <3>1
  <2>2. atoms' = [l \in Leg |-> atoms'[l]]
    BY <1>1, Fields DEF Ledger
  <2> HIDE DEF n
  <2>3. QED
    BY <2>1, <2>2
<1>5. /\ t \in [Leg -> Int] /\ treasury' = t
      /\ \A l \in Leg : t[l] >= treasury[l] - atoms[l][s] + n[l]
  <2>1. treasury \in [Leg -> Nat]
    BY Fields
  <2>2. ASSUME NEW l \in Leg
        PROVE  /\ t[l] \in Int /\ treasury'[l] = t[l]
               /\ t[l] >= treasury[l] - atoms[l][s] + n[l]
    <3>1. treasury[l] \in Nat /\ atoms[l][s] \in Nat
      BY Fields
    <3>2. CASE l = leg
      <4>1. t[l] = treasury[l] + k - atoms[l][s] /\ n[l] = k
        BY <3>2
      <4>2. treasury'[l] = treasury[l] + k - atoms[l][s]
        BY <1>1, <2>1, <3>2
      <4> HIDE DEF t, n
      <4>3. QED
        BY <1>2, <3>1, <4>1, <4>2
    <3>3. CASE l # leg
      <4>1. t[l] = treasury[l] /\ n[l] = atoms[l][s]
        BY <3>3
      <4>2. treasury'[l] = treasury[l]
        BY <1>1, <2>1, <3>3
      <4> HIDE DEF t, n
      <4>3. QED
        BY <3>1, <4>1, <4>2
    <3>4. QED
      BY <3>2, <3>3
  <2>3. t = [l \in Leg |-> t[l]]
    OBVIOUS
  <2>4. treasury' = [l \in Leg |-> treasury'[l]]
    BY <1>1, <2>1
  <2> HIDE DEF t, n
  <2>5. t \in [Leg -> Int]
    BY <2>2, <2>3
  <2>6. treasury' = t
    BY <2>2, <2>3, <2>4
  <2>7. QED
    BY <2>2, <2>5, <2>6
<1> HIDE DEF n, t
<1>6. atoms' \in Ledger /\ treasury' \in [Leg -> Nat] /\ Solvent'
  BY <1>1, <1>2, <1>3, <1>4, <1>5, LedgersMove
<1>7. TypeOK'
  BY <1>1, <1>2, <1>6 DEF TypeOK
<1>8. QuotesAreCurrent' /\ StampsAreSpent'
  BY <1>1, <1>2, QuotesAtRest
<1>9. QED
  BY <1>2, <1>6, <1>7, <1>8, RestInv

\* Clocks, authorities and the end of trading of a vault keep the invariant.
LEMMA RestStepsInv ==
    ASSUME TypeOK, OrderInv,
           \/ \E s \in Sectors, key \in Keys : SetQuoteAuthority(s, key)
           \/ \E s \in Sectors : FreezeVault(s) \/ CloseVault(s)
           \/ \E d \in Domain : Tick(d)
    PROVE  TypeOK' /\ OrderInv'
<1>1. CASE \E s \in Sectors, key \in Keys : SetQuoteAuthority(s, key)
  <2>1. PICK s \in Sectors, key \in Keys : SetQuoteAuthority(s, key)
    BY <1>1
  <2>2. /\ Idle /\ authority' = [authority EXCEPT ![s] = key]
        /\ UNCHANGED <<phase, now, ref, ladder, remaining, atoms, treasury, accrued, nonce, swap,
                       before>>
    BY <2>1 DEF SetQuoteAuthority, AtRest
  <2>3. /\ phase' \in [Sectors -> {"active", "frozen", "tombstoned", "free"}]
        /\ authority' \in [Sectors -> Keys \cup {NoKey}] /\ now' \in [Domain -> Time]
    BY <2>2 DEF TypeOK
  <2>4. QED
    BY <2>2, <2>3, AuthorityInv
<1>2. CASE \E s \in Sectors : FreezeVault(s) \/ CloseVault(s)
  <2>1. PICK s \in Sectors : FreezeVault(s) \/ CloseVault(s)
    BY <1>2
  <2>2. /\ Idle /\ phase' \in {[phase EXCEPT ![s] = "frozen"], [phase EXCEPT ![s] = "tombstoned"]}
        /\ UNCHANGED <<authority, now, ref, ladder, remaining, atoms, treasury, accrued, nonce,
                       swap, before>>
    BY <2>1 DEF FreezeVault, CloseVault, AtRest
  <2>3. /\ phase' \in [Sectors -> {"active", "frozen", "tombstoned", "free"}]
        /\ authority' \in [Sectors -> Keys \cup {NoKey}] /\ now' \in [Domain -> Time]
    BY <2>2 DEF TypeOK
  <2>4. QED
    BY <2>2, <2>3, AuthorityInv
<1>3. CASE \E d \in Domain : Tick(d)
  <2>1. PICK d \in Domain : Tick(d)
    BY <1>3
  <2>2. /\ Idle /\ now' = [now EXCEPT ![d] = now[d] + 1] /\ now[d] < MaxTime
        /\ UNCHANGED <<phase, authority, ref, ladder, remaining, atoms, treasury, accrued, nonce,
                       swap, before>>
    BY <2>1 DEF Tick, vaultVars
  <2>3. now \in [Domain -> Time] /\ now[d] + 1 \in Time
    BY <2>2, Sizes DEF TypeOK, Time
  <2>4. /\ phase' \in [Sectors -> {"active", "frozen", "tombstoned", "free"}]
        /\ authority' \in [Sectors -> Keys \cup {NoKey}] /\ now' \in [Domain -> Time]
    BY <2>2, <2>3 DEF TypeOK
  <2>5. QED
    BY <2>2, <2>4, AuthorityInv
<1>4. QED
  BY <1>1, <1>2, <1>3

------------------------------------------------------------------------------
(* A swap flushes and collects.                                             *)

\* An entry as collected.
LEMMA EntryOfFields ==
    ASSUME NEW side, NEW s, NEW i
    PROVE  /\ EntryOf(side, s, i).price = Met(s)[side][i].price
           /\ EntryOf(side, s, i).size = Met(s)[side][i].size
           /\ EntryOf(side, s, i).stamp = ref[s].stamp
           /\ EntryOf(side, s, i).sector = s /\ EntryOf(side, s, i).level = i
  BY DEF EntryOf

\* A book is a finite set of entries.
LEMMA BookType ==
    ASSUME TypeOK, NEW side \in Side
    PROVE  Book(side) \in SUBSET Entry /\ IsFiniteSet(Book(side))
<1> DEFINE entry == [x \in Collected(side) |-> EntryOf(side, x[1], x[2])]
<1>1. ASSUME NEW x \in Sectors \X Levels
      PROVE  EntryOf(side, x[1], x[2]) \in Entry
  <2>1. /\ x[1] \in Sectors /\ x[2] \in Levels
        /\ Met(x[1])[side][x[2]] \in Position /\ ref[x[1]].stamp \in 0 .. MaxNonce
    BY MetType, Fields
  <2>2. QED
    BY <2>1 DEF EntryOf, Entry, Position
<1>2. IsFiniteSet(Collected(side))
  <2>1. IsFiniteSet(Sectors \X Levels)
    BY Sizes, FS_Product
  <2>2. Collected(side) \subseteq Sectors \X Levels
    BY DEF Collected
  <2>3. QED
    BY <2>1, <2>2, FS_Subset
<1>3. entry \in Surjection(Collected(side), Book(side))
  BY DEF Book, Surjection
<1>4. IsFiniteSet(Book(side))
  BY <1>2, <1>3, FS_Surjection
<1>5. Book(side) \in SUBSET Entry
  <2>1. Collected(side) \subseteq Sectors \X Levels
    BY DEF Collected
  <2>2. QED
    BY <1>1, <2>1 DEF Book
<1>6. QED
  BY <1>4, <1>5

\* Nothing was used up before the first fill.
LEMMA NoSum ==
    ASSUME NEW f, DOMAIN f = {}
    PROVE  SumOf(f) = 0
<1>1. Cells(f) = {}
  BY DEF Cells
<1>2. QED
  BY <1>1, FS_EmptySet DEF SumOf

\* What a swap starts from.
LEMMA StartSwapDetail ==
    ASSUME TypeOK, NEW side \in Side, NEW amountIn \in Amounts, NEW limit \in Limits,
           NEW min \in MinOuts, NEW p \in PlatformFees,
           StartSwap(side, amountIn, limit, min, p)
    PROVE  /\ Idle /\ ~Idle' /\ swap' \in Walk /\ before' \in Found
           /\ swap'.side = side /\ swap'.amountIn = amountIn /\ swap'.left = amountIn
           /\ swap'.flushed = Flushed /\ swap'.book = Book(side) /\ swap'.out = 0
           /\ swap'.fee = 0 /\ swap'.fills = << >> /\ swap'.nonce = nonce
           /\ swap'.accrued = accrued
           /\ before'.atoms = atoms /\ before'.ref = ref /\ before'.remaining = remaining
           /\ before'.accrued = accrued /\ before'.treasury = treasury /\ before'.nonce = nonce
           /\ nonce + Cardinality(Book(side)) <= MaxNonce
           /\ remaining' \in Books /\ ref' \in [Sectors -> Quote]
           /\ \A s \in Sectors :
                /\ remaining'[s] = Met(s)
                /\ ref'[s] = IF s \in Flushed THEN [ref[s] EXCEPT !.flush = FALSE] ELSE ref[s]
                /\ ref'[s].price = ref[s].price /\ ref'[s].stamp = ref[s].stamp
                /\ ref'[s].at = ref[s].at
                /\ ref'[s].flush = (ref[s].flush /\ s \notin Flushed)
           /\ UNCHANGED <<phase, authority, ladder, atoms, accrued, treasury, nonce, now>>
<1>1. /\ Idle /\ nonce + Cardinality(Book(side)) <= MaxNonce
      /\ remaining' = [s \in Sectors |-> Met(s)]
      /\ ref' = [s \in Sectors |->
                    IF s \in Flushed THEN [ref[s] EXCEPT !.flush = FALSE] ELSE ref[s]]
      /\ UNCHANGED <<phase, authority, ladder, atoms, accrued, treasury, nonce, now>>
  BY DEF StartSwap, vaultVars
<1>2. swap' = [side |-> side, amountIn |-> amountIn, left |-> amountIn, limit |-> limit,
               minOut |-> min, platform |-> p, flushed |-> Flushed,
               book |-> Book(side), out |-> 0, fee |-> 0, fills |-> << >>,
               nonce |-> nonce, accrued |-> accrued]
  BY DEF StartSwap
<1>3. before' = [atoms |-> atoms, ref |-> ref, remaining |-> remaining, accrued |-> accrued,
                 treasury |-> treasury, nonce |-> nonce]
  BY DEF StartSwap
<1>4. swap' \in Walk
  <2>1. /\ amountIn \in Nat /\ nonce \in 0 .. MaxNonce /\ accrued \in [Leg -> Nat]
        /\ Flushed \in SUBSET Sectors /\ Book(side) \in SUBSET Entry /\ << >> \in Seq(Fill)
    BY AmountAssumption, Fields, BookType DEF Flushed
  <2>2. p \in 0 .. MaxPlatformFee
    BY RateAssumption DEF StartSwap
  <2>3. QED
    BY <1>2, <2>1, <2>2 DEF Walk
<1>5. before' \in Found
  BY <1>3, Fields DEF Found
<1>6. ~Idle'
  BY <1>4, WalkFields DEF Idle
<1>7. ASSUME NEW s \in Sectors
      PROVE  /\ remaining'[s] = Met(s) /\ Met(s) \in [Side -> [Levels -> Position]]
             /\ ref'[s] = IF s \in Flushed THEN [ref[s] EXCEPT !.flush = FALSE] ELSE ref[s]
             /\ ref'[s] \in Quote
             /\ ref'[s].price = ref[s].price /\ ref'[s].stamp = ref[s].stamp
             /\ ref'[s].at = ref[s].at
             /\ ref'[s].flush = (ref[s].flush /\ s \notin Flushed)
  <2>1. remaining'[s] = Met(s) /\ Met(s) \in [Side -> [Levels -> Position]]
    BY <1>1, MetType
  <2>2. ref[s] \in Quote
    BY Fields
  <2>3. ref'[s] = IF s \in Flushed THEN [ref[s] EXCEPT !.flush = FALSE] ELSE ref[s]
    BY <1>1
  <2>4. CASE s \in Flushed
    <3>1. ref'[s] = [ref[s] EXCEPT !.flush = FALSE]
      BY <2>3, <2>4
    <3>2. [ref[s] EXCEPT !.flush = FALSE] \in Quote
      BY <2>2 DEF Quote
    <3>3. /\ ref'[s].price = ref[s].price /\ ref'[s].stamp = ref[s].stamp
          /\ ref'[s].at = ref[s].at /\ ref'[s].flush = FALSE
      BY <2>2, <3>1 DEF Quote
    <3>4. QED
      BY <2>1, <2>3, <2>4, <3>1, <3>2, <3>3
  <2>5. CASE s \notin Flushed
    <3>1. ref'[s] = ref[s] /\ ref[s].flush \in BOOLEAN
      BY <2>3, <2>5, Fields
    <3>2. QED
      BY <2>1, <2>2, <2>3, <2>5, <3>1
  <2>6. QED
    BY <2>4, <2>5
<1>8. remaining' \in Books
  BY <1>1, <1>7 DEF Books
<1>9. ref' \in [Sectors -> Quote]
  <2>1. ref' = [s \in Sectors |-> ref'[s]]
    BY <1>1
  <2>2. QED
    BY <1>7, <2>1
<1>10. /\ swap'.side = side /\ swap'.amountIn = amountIn /\ swap'.left = amountIn
       /\ swap'.flushed = Flushed /\ swap'.book = Book(side) /\ swap'.out = 0
       /\ swap'.fee = 0 /\ swap'.fills = << >> /\ swap'.nonce = nonce
       /\ swap'.accrued = accrued
  BY <1>2
<1>11. /\ before'.atoms = atoms /\ before'.ref = ref /\ before'.remaining = remaining
       /\ before'.accrued = accrued /\ before'.treasury = treasury /\ before'.nonce = nonce
  BY <1>3
<1>12. QED
  BY <1>1, <1>4, <1>5, <1>6, <1>7, <1>8, <1>9, <1>10, <1>11

\* After the flush the quotes are current, and the book holds exactly the live levels.
LEMMA StartSwapQuotes ==
    ASSUME TypeOK, OrderInv, NEW side \in Side, NEW amountIn \in Amounts, NEW limit \in Limits,
           NEW min \in MinOuts, NEW p \in PlatformFees,
           StartSwap(side, amountIn, limit, min, p)
    PROVE  QuoteInv'
<1>1. QuotesAreCurrent'
  <2> SUFFICES ASSUME NEW t \in Sectors, ref'[t].price # Zero, ~ref'[t].flush,
                      NEW d \in Side, NEW i \in Levels
               PROVE  /\ remaining'[t][d][i].price = LevelPrice(t, d, i)'
                      /\ remaining'[t][d][i].deadline = DeadlineFromQuote(t, d, i)'
    BY DEF QuotesAreCurrent
  <2>1. /\ remaining'[t] = Met(t) /\ ladder'[t] = ladder[t]
        /\ ref'[t].price = ref[t].price /\ ref'[t].at = ref[t].at
        /\ ref'[t].flush = (ref[t].flush /\ t \notin Flushed)
    BY StartSwapDetail
  <2>2. /\ LevelPrice(t, d, i)' = LevelPrice(t, d, i)
        /\ DeadlineFromQuote(t, d, i)' = DeadlineFromQuote(t, d, i)
    BY <2>1, SameQuote
  <2>3. CASE t \in Flushed
    BY <2>1, <2>2, <2>3, MaterializedFields DEF Met
  <2>4. CASE t \notin Flushed
    <3>1. remaining'[t] = remaining[t] /\ ~ref[t].flush /\ ref[t].price # Zero
      BY <2>1, <2>4 DEF Met
    <3>2. QED
      BY <2>2, <3>1 DEF OrderInv, QuoteInv, QuotesAreCurrent
  <2>5. QED
    BY <2>3, <2>4
<1>2. BookIsCurrent'
  <2> SUFFICES ASSUME NEW e \in Book(side)
               PROVE  Standing(e)'
    BY StartSwapDetail DEF BookIsCurrent
  <2>1. PICK x \in Collected(side) : e = EntryOf(side, x[1], x[2])
    BY DEF Book
  <2> DEFINE s == x[1]
             i == x[2]
  <2>2. /\ s \in Sectors /\ i \in Levels /\ Trading(s) /\ Met(s)[side][i].size > 0
        /\ StillLive(Met(s)[side][i]) /\ Met(s)[side][i].price # Zero
    BY <2>1 DEF Collected
  <2>3. /\ e.price = Met(s)[side][i].price /\ e.size = Met(s)[side][i].size
        /\ e.stamp = ref[s].stamp /\ e.sector = s /\ e.level = i
    BY <2>1, EntryOfFields
  <2> HIDE DEF s, i
  <2>4. /\ remaining'[s] = Met(s) /\ swap'.side = side /\ phase' = phase /\ now' = now
        /\ ref'[s].price = ref[s].price /\ ref'[s].stamp = ref[s].stamp
        /\ ref'[s].flush = (ref[s].flush /\ s \notin Flushed)
    BY <2>2, StartSwapDetail
  <2>5. LevelOf(e)' = Met(s)[side][i]
    BY <2>3, <2>4 DEF LevelOf
  <2>6. Trading(s)' /\ ~ref'[s].flush
    BY <2>2, <2>4 DEF Trading, Flushed
  <2>7. StillLive(LevelOf(e))'
    BY <2>2, <2>4, <2>5 DEF StillLive
  <2>8. QED
    BY <2>2, <2>3, <2>4, <2>5, <2>6, <2>7 DEF Standing
<1>3. StampsAreSpent'
  <2>1. Given' = nonce /\ Given = nonce
    BY StartSwapDetail DEF Given
  <2>2. ASSUME NEW t \in Sectors
        PROVE  ref'[t].stamp = ref[t].stamp /\ (Quoting(t)' => Quoting(t))
    <3>1. /\ ref'[t].stamp = ref[t].stamp /\ ref'[t].price = ref[t].price
          /\ ref'[t].flush = (ref[t].flush /\ t \notin Flushed)
      BY StartSwapDetail
    <3>2. QED
      BY <3>1 DEF Quoting
  <2>3. QED
    BY <2>1, <2>2 DEF OrderInv, QuoteInv, StampsAreSpent
<1>4. QED
  BY <1>1, <1>2, <1>3 DEF QuoteInv

\* Nothing has moved yet.
LEMMA StartSwapMoney ==
    ASSUME TypeOK, OrderInv, NEW side \in Side, NEW amountIn \in Amounts, NEW limit \in Limits,
           NEW min \in MinOuts, NEW p \in PlatformFees,
           StartSwap(side, amountIn, limit, min, p)
    PROVE  MoneyInv' /\ TraceInv'
<1>1. NonceFits'
  <2>1. nonce \in Nat
    BY Fields
  <2>2. QED
    BY <2>1, StartSwapDetail, BookType DEF NonceFits
<1>2. Solvent'
  <2>1. CommittedAtoms' = atoms /\ CommittedAccrued' = accrued /\ treasury' = treasury
    BY StartSwapDetail DEF CommittedAtoms, CommittedAccrued
  <2>2. QED
    BY <2>1, StartSwapDetail, SolventNow DEF Solvent, OrderInv, MoneyInv
<1>3. FoundIsKept'
  <2>1. ASSUME NEW s \in Flushed
        PROVE  Trading(s)' /\ before'.ref[s].flush
    <3>1. s \in Sectors /\ Trading(s) /\ ref[s].flush
      BY DEF Flushed
    <3>2. ref'[s].price = ref[s].price /\ phase' = phase /\ before'.ref = ref
      BY <3>1, StartSwapDetail
    <3>3. QED
      BY <3>1, <3>2 DEF Trading
  <2>2. ref' = [s \in Sectors |-> IF s \in Flushed THEN [ref[s] EXCEPT !.flush = FALSE] ELSE ref[s]]
    BY DEF StartSwap
  <2>3. /\ swap'.nonce = nonce /\ before'.nonce = nonce /\ swap'.accrued = accrued
        /\ before'.accrued = accrued /\ treasury' = treasury /\ before'.treasury = treasury
        /\ swap'.flushed = Flushed /\ before'.ref = ref
    BY StartSwapDetail
  <2>4. QED
    BY <2>1, <2>2, <2>3 DEF FoundIsKept
<1>4. Moved'
  <2>1. ASSUME NEW l \in Leg
        PROVE  SumOf(atoms[l]) \in Nat /\ accrued[l] \in Nat
    BY Fields, Sizes, SumType
  <2>2. amountIn \in Nat
    BY AmountAssumption
  <2>3. /\ swap'.side = side /\ swap'.amountIn = amountIn /\ swap'.left = amountIn
        /\ swap'.out = 0 /\ swap'.fee = 0 /\ atoms' = atoms /\ accrued' = accrued
        /\ before'.atoms = atoms /\ before'.accrued = accrued
    BY StartSwapDetail
  <2>4. /\ SumOf(atoms[OutLeg(side)]) \in Nat /\ SumOf(atoms[InLeg(side)]) \in Nat
        /\ accrued[OutLeg(side)] \in Nat
    BY <2>1, LegsOfSide
  <2>5. QED
    BY <2>2, <2>3, <2>4 DEF Moved
<1>5. ASSUME NEW s \in Sectors
      PROVE  FillsOf(s)' = {}
  BY StartSwapDetail DEF FillsOf
<1>6. Snapshots'
  BY StartSwapDetail DEF Snapshots
<1>7. LevelSnapshots'
  <2>1. ASSUME NEW s \in Sectors, s \notin Flushed
        PROVE  remaining'[s] = before'.remaining[s] /\ FillsOf(s)' = {}
    BY <1>5, <2>1, StartSwapDetail DEF Met
  <2>2. QED
    BY <2>1, StartSwapDetail DEF LevelSnapshots
<1>8. QED
  BY <1>1, <1>2, <1>3, <1>4, <1>6, <1>7 DEF MoneyInv, TraceInv

\* A live level that was not collected has no size.
LEMMA StartSwapWalk ==
    ASSUME TypeOK, OrderInv, NEW side \in Side, NEW amountIn \in Amounts, NEW limit \in Limits,
           NEW min \in MinOuts, NEW p \in PlatformFees,
           StartSwap(side, amountIn, limit, min, p), TypeOK'
    PROVE  WalkInv'
<1>1. PassedAreSpent'
  <2> SUFFICES ASSUME NEW s \in Sectors, NEW i \in Levels, Offered(s, i)', ~InBook(s, i)'
               PROVE  Spent(s, i, swap.left)'
    BY DEF PassedAreSpent
  <2>1. /\ remaining'[s] = Met(s) /\ swap'.side = side /\ swap'.book = Book(side)
        /\ swap'.left = amountIn /\ phase' = phase /\ now' = now
        /\ ref'[s].price = ref[s].price /\ atoms' = atoms
    BY StartSwapDetail
  <2> DEFINE q == Met(s)[side][i]
  <2>2. Trading(s) /\ StillLive(q) /\ q.price # Zero
    BY <2>1 DEF Offered, Trading, StillLive
  <2>3. <<s, i>> \notin Collected(side)
    <3> SUFFICES ASSUME <<s, i>> \in Collected(side)
                 PROVE  FALSE
      OBVIOUS
    <3>1. EntryOf(side, s, i) \in Book(side)
      BY DEF Book
    <3>2. EntryOf(side, s, i).sector = s /\ EntryOf(side, s, i).level = i
      BY EntryOfFields
    <3>3. QED
      BY <2>1, <3>1, <3>2 DEF InBook
  <2>4. q \in Position
    BY MetType
  <2>5. q.size = 0 /\ q.price \in Nat
    BY <2>2, <2>3, <2>4 DEF Collected, Position
  <2>6. amountIn \in Nat /\ atoms[OutLeg(side)][s] \in Nat /\ q.price # 0
    BY <2>2, AmountAssumption, Fields, LegsOfSide DEF Zero
  <2>7. OutputFor(side, q.price, amountIn) \in Nat
    BY <2>5, <2>6, FillTypes
  <2>8. Smallest(Smallest(0, atoms[OutLeg(side)][s]), OutputFor(side, q.price, amountIn)) = 0
    BY <2>6, <2>7 DEF Smallest
  <2>9. Takeable(s, i, swap.left)' = 0
    BY <2>1, <2>5, <2>8 DEF Takeable
  <2>10. InputFor(side, q.price, 0) = 0
    BY <2>5, <2>6, NothingForNothing
  <2>11. QED
    BY <2>1, <2>9, <2>10 DEF Spent
<1>2. FillsCameFirst'
  BY StartSwapDetail DEF FillsCameFirst
<1>3. LeftIsCounted'
  <2>1. LeftBefore(1)' = amountIn - SumOf([j \in 1 .. 0 |-> swap'.fills[j].in + swap'.fills[j].residue])
    BY StartSwapDetail DEF LeftBefore
  <2>2. DOMAIN [j \in 1 .. 0 |-> swap'.fills[j].in + swap'.fills[j].residue] = {}
    OBVIOUS
  <2>3. SumOf([j \in 1 .. 0 |-> swap'.fills[j].in + swap'.fills[j].residue]) = 0
    BY <2>2, NoSum
  <2>4. amountIn \in Nat /\ swap'.left = amountIn /\ Len(swap'.fills) + 1 = 1
    BY AmountAssumption, StartSwapDetail
  <2>5. QED
    BY <2>1, <2>3, <2>4 DEF LeftIsCounted
<1>4. QED
  BY <1>1, <1>2, <1>3 DEF WalkInv

\* A swap that starts has flushed what was armed, and has taken nothing.
LEMMA StartSwapInv ==
    ASSUME TypeOK, OrderInv, NEW side \in Side, NEW amountIn \in Amounts, NEW limit \in Limits,
           NEW min \in MinOuts, NEW p \in PlatformFees,
           StartSwap(side, amountIn, limit, min, p)
    PROVE  TypeOK' /\ OrderInv'
<1>1. TypeOK'
  BY StartSwapDetail DEF TypeOK
<1>2. QED
  BY <1>1, StartSwapQuotes, StartSwapMoney, StartSwapWalk DEF OrderInv

------------------------------------------------------------------------------
(* The walk.                                                                *)

\* A level stands in the book once: what an entry holds is what its level holds.
LEMMA BookIsKeyed ==
    ASSUME TypeOK, OrderInv, ~Idle
    PROVE  /\ \A e \in swap.book : e.price < Infinity
           /\ \A e, f \in swap.book : e.sector = f.sector /\ e.level = f.level => e = f
<1>1. swap \in Walk /\ swap.side \in Side /\ swap.book \in SUBSET Entry
  BY InProgress, WalkFields
<1>2. ASSUME NEW e \in swap.book
      PROVE  e \in Entry /\ Standing(e) /\ e.sector \in Sectors /\ e.level \in Levels
  BY <1>1, EntryFields DEF OrderInv, QuoteInv, BookIsCurrent
<1>3. ASSUME NEW e \in swap.book
      PROVE  e.price < Infinity
  <2>1. /\ ref[e.sector].price # Zero /\ ~ref[e.sector].flush
        /\ remaining[e.sector][swap.side][e.level].price = e.price
    BY <1>2 DEF Standing, Trading, LevelOf
  <2>2. e.price = LevelPrice(e.sector, swap.side, e.level)
    BY <1>1, <1>2, <2>1 DEF OrderInv, QuoteInv, QuotesAreCurrent
  <2>3. QED
    BY <1>1, <1>2, <2>2, LevelTypes
<1>4. ASSUME NEW e \in swap.book, NEW f \in swap.book, e.sector = f.sector, e.level = f.level
      PROVE  e = f
  <2>1. e.price = f.price /\ e.size = f.size /\ e.stamp = f.stamp
    BY <1>2, <1>4 DEF Standing, LevelOf
  <2>2. e \in Entry /\ f \in Entry
    BY <1>2
  <2>3. QED
    BY <1>4, <2>1, <2>2 DEF Entry
<1>5. QED
  BY <1>3, <1>4

\* What stands at the front, and what filling it would move.
LEMMA FrontOfBook ==
    ASSUME TypeOK, OrderInv, ~Idle, WalkGoesOn
    PROVE  /\ Front \in swap.book /\ Front \in Entry /\ First(Front) /\ Standing(Front)
           /\ Front.sector \in Sectors /\ Front.level \in Levels
           /\ Front.price \in Nat /\ Front.price # 0
           /\ swap.side \in Side /\ swap.left \in Nat
           /\ atoms[OutLeg(swap.side)][Front.sector] \in Nat
           /\ FillOut(Front) \in Nat /\ FillIn(Front) \in Nat /\ Residue(Front) \in Nat
           /\ FillOut(Front) <= Front.size
           /\ FillOut(Front) <= atoms[OutLeg(swap.side)][Front.sector]
           /\ FillIn(Front) + Residue(Front) <= swap.left
           /\ \/ FillOut(Front) = Front.size
              \/ FillOut(Front) = atoms[OutLeg(swap.side)][Front.sector]
              \/ FillIn(Front) + Residue(Front) = swap.left
           /\ Takeable(Front.sector, Front.level, swap.left) = FillOut(Front)
<1>1. /\ swap \in Walk /\ swap.side \in Side /\ swap.book \in SUBSET Entry /\ swap.left \in Nat
      /\ swap.book # {}
  BY InProgress, WalkFields DEF WalkGoesOn
<1>2. \E e \in swap.book : First(e)
  BY <1>1, BookIsKeyed, FrontExists DEF First
<1>3. Front \in swap.book /\ First(Front)
  BY <1>2 DEF Front
<1> DEFINE e == Front
           a == atoms[OutLeg(swap.side)][e.sector]
           b == Affordable(e)
<1>4. /\ e \in Entry /\ e.sector \in Sectors /\ e.level \in Levels /\ e.price \in Nat
      /\ e.size \in Nat
  BY <1>1, <1>3, EntryFields
<1>5. Standing(e) /\ e.price # 0
  BY <1>3 DEF OrderInv, QuoteInv, BookIsCurrent, Standing, Zero
<1>6. a \in Nat
  BY <1>1, <1>4, LegsOfSide, Fields
<1> HIDE DEF e
<1>7. b \in Nat /\ b = OutputFor(swap.side, e.price, swap.left)
  BY <1>1, <1>4, <1>5, FillTypes DEF Affordable
<1>8. FillOut(e) = Smallest(Smallest(b, e.size), a)
  BY DEF FillOut
<1>9. remaining[e.sector][swap.side][e.level].size = e.size
      /\ remaining[e.sector][swap.side][e.level].price = e.price
  BY <1>5 DEF Standing, LevelOf
<1>10. Takeable(e.sector, e.level, swap.left) = Smallest(Smallest(e.size, a), b)
  BY <1>7, <1>9 DEF Takeable
<1> HIDE DEF a, b
<1>11. /\ FillOut(e) \in Nat /\ FillOut(e) <= e.size /\ FillOut(e) <= a /\ FillOut(e) <= b
       /\ FillOut(e) = e.size \/ FillOut(e) = a \/ FillOut(e) = b
       /\ Takeable(e.sector, e.level, swap.left) = FillOut(e)
  BY <1>4, <1>6, <1>7, <1>8, <1>10 DEF Smallest
<1>12. FillIn(e) \in Nat /\ FillIn(e) <= swap.left
  BY <1>1, <1>4, <1>5, <1>7, <1>11, FillTypes, CostFits DEF FillIn
<1>13. Residue(e) = IF FillOut(e) = b THEN swap.left - FillIn(e) ELSE 0
  BY DEF Residue, b
<1>14. /\ Residue(e) \in Nat /\ FillIn(e) + Residue(e) <= swap.left
       /\ FillOut(e) = b => FillIn(e) + Residue(e) = swap.left
  BY <1>1, <1>12, <1>13
<1>15. /\ FillOut(e) <= a /\ a \in Nat
       /\ \/ FillOut(e) = e.size
          \/ FillOut(e) = a
          \/ FillIn(e) + Residue(e) = swap.left
  BY <1>6, <1>11, <1>14
<1>16. QED
  BY <1>1, <1>3, <1>4, <1>5, <1>11, <1>12, <1>14, <1>15 DEF e, a

\* Steps of the walk leave what the swap found, and the quotes, as they are.
LEMMA WalkFrame ==
    ASSUME TypeOK, OrderInv, ~Idle, swap' \in Walk, swap'.flushed = swap.flushed,
           swap'.nonce = swap.nonce, swap'.accrued = swap.accrued, swap'.side = swap.side,
           UNCHANGED <<phase, authority, ladder, ref, treasury, now, before>>,
           \A s \in Sectors, side \in Side, i \in Levels :
              /\ remaining'[s][side][i].price = remaining[s][side][i].price
              /\ remaining'[s][side][i].deadline = remaining[s][side][i].deadline
    PROVE  /\ ~Idle' /\ QuotesAreCurrent' /\ StampsAreSpent' /\ Solvent' /\ FoundIsKept'
           /\ \A s \in Sectors, i \in Levels :
                 /\ Trading(s)' = Trading(s) /\ Offered(s, i)' = Offered(s, i)
<1>1. ~Idle'
  BY WalkFields DEF Idle
<1>2. QuotesAreCurrent'
  <2> SUFFICES ASSUME NEW t \in Sectors, ref'[t].price # Zero, ~ref'[t].flush,
                      NEW d \in Side, NEW i \in Levels
               PROVE  /\ remaining'[t][d][i].price = LevelPrice(t, d, i)'
                      /\ remaining'[t][d][i].deadline = DeadlineFromQuote(t, d, i)'
    BY DEF QuotesAreCurrent
  <2>1. /\ LevelPrice(t, d, i)' = LevelPrice(t, d, i)
        /\ DeadlineFromQuote(t, d, i)' = DeadlineFromQuote(t, d, i)
    BY SameQuote
  <2>2. QED
    BY <2>1 DEF OrderInv, QuoteInv, QuotesAreCurrent
<1>3. StampsAreSpent'
  <2>1. Given' = Given
    BY <1>1 DEF Given
  <2>2. ASSUME NEW t \in Sectors
        PROVE  Quoting(t)' = Quoting(t)
    BY DEF Quoting
  <2>3. QED
    BY <2>1, <2>2 DEF OrderInv, QuoteInv, StampsAreSpent
<1>4. Solvent'
  <2>1. CommittedAtoms' = CommittedAtoms /\ CommittedAccrued' = CommittedAccrued
    BY <1>1 DEF CommittedAtoms, CommittedAccrued
  <2>2. QED
    BY <2>1 DEF OrderInv, MoneyInv, Solvent
<1>5. FoundIsKept'
  BY <1>1 DEF OrderInv, MoneyInv, FoundIsKept, Trading
<1>6. ASSUME NEW s \in Sectors, NEW i \in Levels
      PROVE  Trading(s)' = Trading(s) /\ Offered(s, i)' = Offered(s, i)
  <2>1. swap.side \in Side
    BY InProgress, WalkFields
  <2>2. Trading(s)' = Trading(s)
    BY DEF Trading
  <2>3. StillLive(remaining[s][swap.side][i])' = StillLive(remaining[s][swap.side][i])
    BY <2>1 DEF StillLive
  <2>4. remaining'[s][swap'.side][i].price = remaining[s][swap.side][i].price
    BY <2>1
  <2>5. QED
    BY <2>2, <2>3, <2>4 DEF Offered
<1>7. QED
  BY <1>1, <1>2, <1>3, <1>4, <1>5, <1>6

\* What the levels' snapshots say stands while quotes, fills and the state found do.
LEMMA LevelSnapshotsKept ==
    ASSUME LevelSnapshots, ~Idle, remaining' = remaining, before' = before,
           swap'.side = swap.side, swap'.flushed = swap.flushed, swap'.fills = swap.fills
    PROVE  LevelSnapshots'
<1>1. ASSUME NEW k
      PROVE  FirstOfLevel(k)' = FirstOfLevel(k)
  BY DEF FirstOfLevel
<1>2. ASSUME NEW s
      PROVE  FillsOf(s)' = FillsOf(s) /\ \A i : FillsAt(s, i)' = FillsAt(s, i)
  BY DEF FillsOf, FillsAt
<1>3. ASSUME NEW s \in Sectors \ swap.flushed, NEW side \in Side, NEW i \in Levels
      PROVE  /\ side # swap.side \/ FillsAt(s, i) = {}
                   => remaining[s][side][i] = before.remaining[s][side][i]
             /\ remaining[s][side][i].price = before.remaining[s][side][i].price
             /\ remaining[s][side][i].deadline = before.remaining[s][side][i].deadline
  BY DEF LevelSnapshots
<1>4. ASSUME NEW s \in Sectors \ swap.flushed, NEW k \in FillsOf(s), FirstOfLevel(k)
      PROVE  swap.fills[k].size = before.remaining[s][swap.side][swap.fills[k].of.level].size
  BY <1>4 DEF LevelSnapshots
<1>5. ASSUME NEW s \in Sectors \ swap.flushed, NEW k \in FillsOf(s)', FirstOfLevel(k)'
      PROVE  swap'.fills[k].size = before'.remaining[s][swap'.side][swap'.fills[k].of.level].size
  BY <1>1, <1>2, <1>4, <1>5
<1>6. ASSUME NEW s \in Sectors \ swap.flushed, NEW side \in Side, NEW i \in Levels
      PROVE  /\ side # swap'.side \/ FillsAt(s, i)' = {}
                   => remaining'[s][side][i] = before'.remaining[s][side][i]
             /\ remaining'[s][side][i].price = before'.remaining[s][side][i].price
             /\ remaining'[s][side][i].deadline = before'.remaining[s][side][i].deadline
  BY <1>2, <1>3
<1>7. Sectors \ swap'.flushed = Sectors \ swap.flushed
  OBVIOUS
<1>8. QED
  BY ZenonT(30), <1>5, <1>6, <1>7 DEF LevelSnapshots

\* A level passed over has nothing left the taker could have paid for.
LEMMA SkipLevelInv ==
    ASSUME TypeOK, OrderInv, SkipLevel
    PROVE  TypeOK' /\ OrderInv'
<1>1. /\ ~Idle /\ WalkGoesOn /\ (FillOut(Front) = 0 \/ FillIn(Front) = 0)
      /\ swap' = [swap EXCEPT !.book = swap.book \ {Front}]
      /\ UNCHANGED <<phase, authority, ladder, ref, remaining, atoms, accrued, treasury, nonce,
                     now, before>>
  BY DEF SkipLevel, vaultVars
<1>2. swap \in Walk /\ before \in Found /\ swap.book \in SUBSET Entry
  BY <1>1, InProgress, WalkFields
<1>3. /\ swap'.side = swap.side /\ swap'.amountIn = swap.amountIn /\ swap'.left = swap.left
      /\ swap'.flushed = swap.flushed /\ swap'.book = swap.book \ {Front}
      /\ swap'.out = swap.out /\ swap'.fee = swap.fee /\ swap'.fills = swap.fills
      /\ swap'.nonce = swap.nonce /\ swap'.accrued = swap.accrued
      /\ swap' \in Walk
  <2>1. swap.book \ {Front} \in SUBSET Entry
    BY <1>2
  <2>2. [swap EXCEPT !.book = swap.book \ {Front}] \in Walk
    BY <1>2, <2>1 DEF Walk
  <2>3. QED
    BY <1>1, <1>2, <2>2 DEF Walk
<1>4. TypeOK'
  BY <1>1, <1>2, <1>3 DEF TypeOK
<1>5. /\ ~Idle' /\ QuotesAreCurrent' /\ StampsAreSpent' /\ Solvent' /\ FoundIsKept'
      /\ \A s \in Sectors, i \in Levels : Offered(s, i)' = Offered(s, i)
  <2>1. \A s \in Sectors, side \in Side, i \in Levels :
           /\ remaining'[s][side][i].price = remaining[s][side][i].price
           /\ remaining'[s][side][i].deadline = remaining[s][side][i].deadline
    BY <1>1
  <2>2. QED
    BY <1>1, <1>3, <2>1, WalkFrame
<1>6. BookIsCurrent'
  <2>1. ASSUME NEW e \in swap.book
        PROVE  Standing(e)'
    <3>1. Standing(e) /\ LevelOf(e)' = LevelOf(e)
      BY <1>1, <1>3 DEF OrderInv, QuoteInv, BookIsCurrent, LevelOf
    <3>2. QED
      BY <1>1, <3>1 DEF Standing, Trading, StillLive
  <2>2. QED
    BY <1>3, <2>1 DEF BookIsCurrent
<1>7. NonceFits'
  <2>1. /\ swap.nonce <= nonce /\ IsFiniteSet(swap.book)
        /\ nonce + Cardinality(swap.book) <= MaxNonce /\ Front \in swap.book /\ nonce \in Nat
    BY <1>1, FrontOfBook, Fields DEF OrderInv, MoneyInv, NonceFits
  <2>2. /\ IsFiniteSet(swap.book \ {Front}) /\ Cardinality(swap.book) \in Nat
        /\ Cardinality(swap.book \ {Front}) = Cardinality(swap.book) - 1
    BY <2>1, FS_RemoveElement, FS_CardinalityType
  <2>3. QED
    BY <1>1, <1>3, <2>1, <2>2, Sizes DEF NonceFits
<1>8. Moved'
  BY <1>1, <1>3 DEF OrderInv, MoneyInv, Moved
<1>9. ASSUME NEW s
      PROVE  FillsOf(s)' = FillsOf(s) /\ \A i : FillsAt(s, i)' = FillsAt(s, i)
  BY <1>3 DEF FillsOf, FillsAt
<1>10. Snapshots'
  BY <1>1, <1>3, <1>9 DEF OrderInv, TraceInv, Snapshots, FirstOfVault
<1>11. LevelSnapshots'
  <2>1. LevelSnapshots /\ ~Idle
    BY <1>1 DEF OrderInv, TraceInv
  <2>2. /\ remaining' = remaining /\ before' = before /\ swap'.side = swap.side
        /\ swap'.flushed = swap.flushed /\ swap'.fills = swap.fills
    BY <1>1, <1>3
  <2>3. QED
    BY <2>1, <2>2, LevelSnapshotsKept
<1>12. PassedAreSpent'
  <2> SUFFICES ASSUME NEW s \in Sectors, NEW i \in Levels, Offered(s, i), ~InBook(s, i)'
               PROVE  Spent(s, i, swap.left)'
    BY <1>5 DEF PassedAreSpent
  <2>1. Spent(s, i, swap.left)
    <3>1. CASE s = Front.sector /\ i = Front.level
      <4>1. /\ Takeable(s, i, swap.left) = FillOut(Front) /\ Front.price \in Nat
            /\ Front.price # 0 /\ swap.side \in Side /\ Standing(Front)
        BY <1>1, <3>1, FrontOfBook
      <4>2. remaining[s][swap.side][i].price = Front.price
        BY <3>1, <4>1 DEF Standing, LevelOf
      <4>3. InputFor(swap.side, Front.price, FillOut(Front)) = 0
        BY <1>1, <4>1, NothingForNothing DEF FillIn
      <4>4. QED
        BY <4>1, <4>2, <4>3 DEF Spent
    <3>2. CASE ~(s = Front.sector /\ i = Front.level)
      <4>1. ~InBook(s, i)
        BY <1>3, <3>2 DEF InBook
      <4>2. QED
        BY <1>1, <4>1 DEF OrderInv, WalkInv, PassedAreSpent
    <3>3. QED
      BY <3>1, <3>2
  <2>2. QED
    BY <1>1, <1>3, <2>1 DEF Spent, Takeable
<1>13. FillsCameFirst' /\ LeftIsCounted'
  <2>1. FillsCameFirst'
    BY <1>1, <1>3 DEF OrderInv, WalkInv, FillsCameFirst
  <2>2. LeftIsCounted'
    BY <1>1, <1>3 DEF OrderInv, WalkInv, LeftIsCounted, LeftBefore
  <2>3. QED
    BY <2>1, <2>2
<1>14. QED
  BY <1>4, <1>5, <1>6, <1>7, <1>8, <1>10, <1>11, <1>12, <1>13
     DEF OrderInv, QuoteInv, MoneyInv, TraceInv, WalkInv

\* Fills are appended.
LEMMA AppendFacts ==
    ASSUME NEW fills \in Seq(Fill), NEW x \in Fill
    PROVE  /\ Append(fills, x) \in Seq(Fill)
           /\ Len(fills) \in Nat /\ DOMAIN fills = 1 .. Len(fills)
           /\ Len(Append(fills, x)) = Len(fills) + 1
           /\ DOMAIN Append(fills, x) = 1 .. Len(fills) + 1
           /\ \A j \in 1 .. Len(fills) : Append(fills, x)[j] = fills[j]
           /\ Append(fills, x)[Len(fills) + 1] = x
  OBVIOUS

\* What a fill holds and moves.
FillOfFront ==
    [of |-> Front, out |-> FillOut(Front), in |-> FillIn(Front), residue |-> Residue(Front),
     base |-> atoms["base"][Front.sector], quote |-> atoms["quote"][Front.sector],
     size |-> remaining[Front.sector][swap.side][Front.level].size]

\* A fill moves amounts of one vault and one of its levels, and nothing else.
LEMMA FillLevelDetail ==
    ASSUME TypeOK, OrderInv, FillLevel
    PROVE  /\ ~Idle /\ WalkGoesOn /\ FillOut(Front) > 0 /\ FillIn(Front) > 0
           /\ FillOfFront \in Fill /\ swap' \in Walk
           /\ swap'.side = swap.side /\ swap'.amountIn = swap.amountIn
           /\ swap'.left = swap.left - FillIn(Front) - Residue(Front)
           /\ swap'.flushed = swap.flushed /\ swap'.book = swap.book \ {Front}
           /\ swap'.out = swap.out + FillOut(Front)
           /\ swap'.fee = swap.fee + TakerFeeOn(FillOut(Front))
           /\ swap'.fills = Append(swap.fills, FillOfFront)
           /\ swap'.nonce = swap.nonce /\ swap'.accrued = swap.accrued
           /\ nonce' = nonce + 1
           /\ UNCHANGED <<phase, authority, ladder, ref, treasury, now, before>>
<1>1. /\ ~Idle /\ WalkGoesOn /\ FillOut(Front) > 0 /\ FillIn(Front) > 0 /\ nonce' = nonce + 1
      /\ UNCHANGED <<phase, authority, ladder, ref, treasury, now, before>>
  BY DEF FillLevel, vaultVars
<1>2. swap' = [swap EXCEPT !.book = swap.book \ {Front},
                           !.left = swap.left - FillIn(Front) - Residue(Front),
                           !.out = swap.out + FillOut(Front),
                           !.fee = swap.fee + TakerFeeOn(FillOut(Front)),
                           !.fills = Append(swap.fills, FillOfFront)]
  BY DEF FillLevel, FillOfFront
<1>3. /\ swap \in Walk /\ swap.side \in Side /\ swap.left \in Nat /\ swap.out \in Nat
      /\ swap.fee \in Nat /\ swap.book \in SUBSET Entry /\ swap.fills \in Seq(Fill)
  BY <1>1, InProgress, WalkFields
<1>4. /\ Front \in Entry /\ FillOut(Front) \in Nat /\ FillIn(Front) \in Nat
      /\ Residue(Front) \in Nat /\ Front.sector \in Sectors /\ Front.level \in Levels
      /\ FillIn(Front) + Residue(Front) <= swap.left
  BY <1>1, FrontOfBook
<1>5. FillOfFront \in Fill
  <2>1. "base" \in Leg /\ "quote" \in Leg
    BY DEF Leg
  <2>2. /\ atoms["base"][Front.sector] \in Nat /\ atoms["quote"][Front.sector] \in Nat
        /\ remaining[Front.sector][swap.side][Front.level].size \in Nat
    BY <1>3, <1>4, <2>1, Fields
  <2>3. QED
    BY <1>4, <2>2 DEF FillOfFront, Fill
<1>6. /\ swap.left - FillIn(Front) - Residue(Front) \in Nat
      /\ swap.out + FillOut(Front) \in Nat
      /\ swap.fee + TakerFeeOn(FillOut(Front)) \in Nat
      /\ swap.book \ {Front} \in SUBSET Entry
      /\ Append(swap.fills, FillOfFront) \in Seq(Fill)
  <2>1. TakerFeeOn(FillOut(Front)) \in 0 .. FillOut(Front)
    BY <1>4, TakerFeeFits
  <2>2. TakerFeeOn(FillOut(Front)) \in Nat
    BY <1>4, <2>1
  <2>3. Append(swap.fills, FillOfFront) \in Seq(Fill)
    BY <1>3, <1>5, AppendFacts
  <2>4. QED
    BY <1>3, <1>4, <2>2, <2>3
<1> HIDE DEF FillOfFront
<1>7. /\ swap'.side = swap.side /\ swap'.amountIn = swap.amountIn
      /\ swap'.left = swap.left - FillIn(Front) - Residue(Front)
      /\ swap'.flushed = swap.flushed /\ swap'.book = swap.book \ {Front}
      /\ swap'.out = swap.out + FillOut(Front)
      /\ swap'.fee = swap.fee + TakerFeeOn(FillOut(Front))
      /\ swap'.fills = Append(swap.fills, FillOfFront)
      /\ swap'.nonce = swap.nonce /\ swap'.accrued = swap.accrued
      /\ swap' \in Walk
  BY <1>2, <1>3, <1>6 DEF Walk
<1>8. QED
  BY <1>1, <1>5, <1>7

\* What a fill moves: one vault's two inventories, the fee, and one level's size.
LEMMA FillLevelMoves ==
    ASSUME TypeOK, OrderInv, FillLevel
    PROVE  /\ atoms' \in Ledger /\ remaining' \in Books /\ accrued' \in [Leg -> Nat]
           /\ atoms'[OutLeg(swap.side)] = [atoms[OutLeg(swap.side)] EXCEPT
                 ![Front.sector] = atoms[OutLeg(swap.side)][Front.sector] - FillOut(Front)]
           /\ atoms'[InLeg(swap.side)] = [atoms[InLeg(swap.side)] EXCEPT
                 ![Front.sector] = atoms[InLeg(swap.side)][Front.sector] + FillIn(Front)]
           /\ \A l \in Leg, t \in Sectors : t # Front.sector => atoms'[l][t] = atoms[l][t]
           /\ accrued'[OutLeg(swap.side)] = accrued[OutLeg(swap.side)] + TakerFeeOn(FillOut(Front))
           /\ accrued'[InLeg(swap.side)] = accrued[InLeg(swap.side)]
           /\ \A t \in Sectors, d \in Side, j \in Levels :
                 /\ remaining'[t][d][j].price = remaining[t][d][j].price
                 /\ remaining'[t][d][j].deadline = remaining[t][d][j].deadline
                 /\ ~(t = Front.sector /\ d = swap.side /\ j = Front.level)
                       => remaining'[t][d][j] = remaining[t][d][j]
           /\ remaining'[Front.sector][swap.side][Front.level].size = Front.size - FillOut(Front)
<1> DEFINE s   == Front.sector
           i   == Front.level
           out == OutLeg(swap.side)
           in  == InLeg(swap.side)
           fee == TakerFeeOn(FillOut(Front))
<1>1. ~Idle /\ WalkGoesOn
  BY DEF FillLevel
<1>2. /\ s \in Sectors /\ i \in Levels /\ swap.side \in Side /\ out \in Leg /\ in \in Leg
      /\ out # in /\ FillOut(Front) \in Nat /\ FillIn(Front) \in Nat
      /\ FillOut(Front) <= atoms[out][s] /\ FillOut(Front) <= Front.size
      /\ LevelOf(Front).size = Front.size
  BY <1>1, FrontOfBook, LegsOfSide DEF Standing
<1>3. remaining[s][swap.side][i].size = Front.size
  BY <1>2 DEF LevelOf
<1>4. /\ atoms' = [atoms EXCEPT ![out][s] = @ - FillOut(Front), ![in][s] = @ + FillIn(Front)]
      /\ remaining' = [remaining EXCEPT ![s][swap.side][i].size = @ - FillOut(Front)]
      /\ accrued' = [accrued EXCEPT ![out] = @ + fee]
  BY DEF FillLevel
<1> HIDE DEF s, i, out, in, fee
<1>5. /\ atoms \in [Leg -> [Sectors -> Nat]] /\ atoms[out] \in [Sectors -> Nat]
      /\ atoms[in] \in [Sectors -> Nat] /\ atoms[out][s] \in Nat /\ atoms[in][s] \in Nat
  BY <1>2, Fields DEF Ledger
<1>6. /\ atoms'[out] = [atoms[out] EXCEPT ![s] = atoms[out][s] - FillOut(Front)]
      /\ atoms'[in] = [atoms[in] EXCEPT ![s] = atoms[in][s] + FillIn(Front)]
      /\ atoms' = [l \in Leg |-> atoms'[l]]
  BY <1>2, <1>4, <1>5
<1>7. atoms'[out] \in [Sectors -> Nat] /\ atoms'[in] \in [Sectors -> Nat]
  <2>1. atoms[out][s] - FillOut(Front) \in Nat /\ atoms[in][s] + FillIn(Front) \in Nat
    BY <1>2, <1>5
  <2>2. QED
    BY ZenonT(30), <1>5, <1>6, <2>1
<1>8. Leg = {out, in}
  BY <1>2 DEF Leg
<1>9. /\ atoms' \in Ledger
      /\ \A l \in Leg, t \in Sectors : t # s => atoms'[l][t] = atoms[l][t]
  <2>1. \A l \in Leg : atoms'[l] \in [Sectors -> Nat]
    BY <1>7, <1>8
  <2>2. atoms' \in Ledger
    BY <1>6, <2>1 DEF Ledger
  <2>3. \A l \in Leg, t \in Sectors : t # s => atoms'[l][t] = atoms[l][t]
    BY <1>5, <1>6, <1>8
  <2>4. QED
    BY <2>2, <2>3
<1>10. /\ accrued' \in [Leg -> Nat] /\ accrued'[out] = accrued[out] + fee
       /\ accrued'[in] = accrued[in]
  <2>1. accrued \in [Leg -> Nat] /\ accrued[out] \in Nat
    BY <1>2, Fields
  <2>2. fee \in 0 .. FillOut(Front)
    BY <1>2, TakerFeeFits DEF fee
  <2>3. accrued[out] + fee \in Nat
    BY <1>2, <2>1, <2>2
  <2>4. QED
    BY <1>2, <1>4, <2>1, <2>3
<1>11. /\ remaining \in [Sectors -> [Side -> [Levels -> Position]]]
       /\ remaining[s][swap.side][i] \in Position
  BY <1>2, Fields DEF Books
<1> DEFINE q == [remaining[s][swap.side][i] EXCEPT !.size = Front.size - FillOut(Front)]
<1>12. /\ q \in Position /\ q.size = Front.size - FillOut(Front)
       /\ q.price = remaining[s][swap.side][i].price
       /\ q.deadline = remaining[s][swap.side][i].deadline
  <2>1. Front.size - FillOut(Front) \in Nat
    <3>1. Front.size \in Nat
      BY <1>3, <1>11 DEF Position
    <3>2. QED
      BY <1>2, <3>1
  <2>2. QED
    BY <1>11, <2>1 DEF Position
<1>13. remaining' = [remaining EXCEPT ![s] = [remaining[s] EXCEPT ![swap.side] =
                        [remaining[s][swap.side] EXCEPT ![i] = q]]]
  BY <1>3, <1>4
<1> HIDE DEF q
<1>14. /\ remaining' \in Books /\ remaining'[s][swap.side][i] = q
       /\ \A t \in Sectors, d \in Side, j \in Levels :
             ~(t = s /\ d = swap.side /\ j = i) => remaining'[t][d][j] = remaining[t][d][j]
  <2>1. /\ remaining[s] \in [Side -> [Levels -> Position]]
        /\ remaining[s][swap.side] \in [Levels -> Position]
    BY <1>2, <1>11
  <2> DEFINE row == [remaining[s][swap.side] EXCEPT ![i] = q]
             vault == [remaining[s] EXCEPT ![swap.side] = row]
  <2>2. /\ row \in [Levels -> Position] /\ row[i] = q
        /\ \A j \in Levels : j # i => row[j] = remaining[s][swap.side][j]
    BY <1>2, <1>12, <2>1
  <2> HIDE DEF row
  <2>3. /\ vault \in [Side -> [Levels -> Position]] /\ vault[swap.side] = row
        /\ \A d \in Side : d # swap.side => vault[d] = remaining[s][d]
    BY <1>2, <2>1, <2>2
  <2>4. remaining' = [remaining EXCEPT ![s] = vault]
    BY <1>13 DEF row
  <2> HIDE DEF vault
  <2>5. /\ remaining' \in [Sectors -> [Side -> [Levels -> Position]]] /\ remaining'[s] = vault
        /\ \A t \in Sectors : t # s => remaining'[t] = remaining[t]
    BY <1>2, <1>11, <2>3, <2>4
  <2>6. remaining'[s][swap.side][i] = q
    BY <2>2, <2>3, <2>5
  <2>7. ASSUME NEW t \in Sectors, NEW d \in Side, NEW j \in Levels,
               ~(t = s /\ d = swap.side /\ j = i)
        PROVE  remaining'[t][d][j] = remaining[t][d][j]
    BY <2>2, <2>3, <2>5, <2>7
  <2>8. QED
    BY <2>5, <2>6, <2>7 DEF Books
<1>15. \A t \in Sectors, d \in Side, j \in Levels :
          /\ remaining'[t][d][j].price = remaining[t][d][j].price
          /\ remaining'[t][d][j].deadline = remaining[t][d][j].deadline
  BY <1>12, <1>14
<1>16. /\ atoms'[OutLeg(swap.side)] = [atoms[OutLeg(swap.side)] EXCEPT
             ![Front.sector] = atoms[OutLeg(swap.side)][Front.sector] - FillOut(Front)]
       /\ atoms'[InLeg(swap.side)] = [atoms[InLeg(swap.side)] EXCEPT
             ![Front.sector] = atoms[InLeg(swap.side)][Front.sector] + FillIn(Front)]
  BY <1>6 DEF s, out, in
<1>17. /\ accrued'[OutLeg(swap.side)] = accrued[OutLeg(swap.side)] + TakerFeeOn(FillOut(Front))
       /\ accrued'[InLeg(swap.side)] = accrued[InLeg(swap.side)]
  BY <1>10 DEF out, in, fee
<1>18. remaining'[Front.sector][swap.side][Front.level].size = Front.size - FillOut(Front)
  BY <1>12, <1>14 DEF s, i
<1>19. QED
  BY <1>9, <1>10, <1>14, <1>15, <1>16, <1>17, <1>18 DEF s, i

\* A fill leaves the quotes alone, and every other level that stands in the book.
LEMMA FillLevelQuotes ==
    ASSUME TypeOK, OrderInv, FillLevel
    PROVE  /\ TypeOK' /\ QuoteInv' /\ NonceFits' /\ Solvent' /\ FoundIsKept' /\ ~Idle'
           /\ \A s \in Sectors, i \in Levels : Offered(s, i)' = Offered(s, i)
<1>1. /\ ~Idle /\ WalkGoesOn /\ swap' \in Walk /\ nonce' = nonce + 1
      /\ swap'.book = swap.book \ {Front} /\ swap'.flushed = swap.flushed
      /\ swap'.nonce = swap.nonce /\ swap'.accrued = swap.accrued /\ swap'.side = swap.side
      /\ UNCHANGED <<phase, authority, ladder, ref, treasury, now, before>>
  BY FillLevelDetail
<1>2. /\ Front \in swap.book /\ swap.side \in Side /\ Front.sector \in Sectors
      /\ Front.level \in Levels /\ swap.book \in SUBSET Entry /\ before \in Found
  BY <1>1, FrontOfBook, InProgress, WalkFields
<1>3. /\ ~Idle' /\ QuotesAreCurrent' /\ StampsAreSpent' /\ Solvent' /\ FoundIsKept'
      /\ \A s \in Sectors, i \in Levels : Offered(s, i)' = Offered(s, i)
  <2>1. \A s \in Sectors, side \in Side, i \in Levels :
           /\ remaining'[s][side][i].price = remaining[s][side][i].price
           /\ remaining'[s][side][i].deadline = remaining[s][side][i].deadline
    BY FillLevelMoves
  <2>2. QED
    BY <1>1, <2>1, WalkFrame
<1>4. NonceFits' /\ nonce' \in 0 .. MaxNonce
  <2>1. /\ swap.nonce <= nonce /\ IsFiniteSet(swap.book) /\ swap.nonce \in Nat
        /\ nonce + Cardinality(swap.book) <= MaxNonce /\ nonce \in Nat
    BY <1>1, Fields, InProgress, WalkFields DEF OrderInv, MoneyInv, NonceFits
  <2>2. /\ IsFiniteSet(swap.book \ {Front}) /\ Cardinality(swap.book) \in Nat
        /\ Cardinality(swap.book \ {Front}) = Cardinality(swap.book) - 1
        /\ Cardinality(swap.book \ {Front}) \in Nat
    BY <1>2, <2>1, FS_RemoveElement, FS_CardinalityType
  <2>3. QED
    BY <1>1, <2>1, <2>2, Sizes DEF NonceFits
<1>5. TypeOK'
  <2>1. atoms' \in Ledger /\ remaining' \in Books /\ accrued' \in [Leg -> Nat]
    BY FillLevelMoves
  <2>2. QED
    BY <1>1, <1>2, <1>4, <2>1 DEF TypeOK
<1>6. BookIsCurrent'
  <2>1. ASSUME NEW f \in swap.book, f # Front
        PROVE  Standing(f)'
    <3>1. Standing(f) /\ f.sector \in Sectors /\ f.level \in Levels
      BY <1>1, <1>2, EntryFields DEF OrderInv, QuoteInv, BookIsCurrent
    <3>2. ~(f.sector = Front.sector /\ f.level = Front.level)
      BY <1>1, <1>2, <2>1, BookIsKeyed
    <3>3. remaining'[f.sector][swap.side][f.level] = remaining[f.sector][swap.side][f.level]
      BY <1>2, <3>1, <3>2, FillLevelMoves
    <3>4. LevelOf(f)' = LevelOf(f)
      BY <1>1, <3>3 DEF LevelOf
    <3>5. QED
      BY <1>1, <3>1, <3>4 DEF Standing, Trading, StillLive
  <2>2. QED
    BY <1>1, <2>1 DEF BookIsCurrent
<1>7. QED
  BY <1>3, <1>4, <1>5, <1>6 DEF QuoteInv

\* Atoms only change hands: out of a vault to the taker, and into it.
LEMMA FillLevelMoney ==
    ASSUME TypeOK, OrderInv, FillLevel
    PROVE  Moved'
<1> DEFINE out == OutLeg(swap.side)
           in  == InLeg(swap.side)
           s   == Front.sector
           fee == TakerFeeOn(FillOut(Front))
<1>1. /\ ~Idle /\ WalkGoesOn /\ swap'.side = swap.side /\ swap'.amountIn = swap.amountIn
      /\ swap'.left = swap.left - FillIn(Front) - Residue(Front)
      /\ swap'.out = swap.out + FillOut(Front) /\ swap'.fee = swap.fee + fee /\ before' = before
  BY FillLevelDetail
<1>2. /\ FillOut(Front) \in Nat /\ FillIn(Front) \in Nat /\ Residue(Front) \in Nat
      /\ FillIn(Front) + Residue(Front) <= swap.left /\ FillOut(Front) <= atoms[out][s]
      /\ s \in Sectors /\ swap.side \in Side
  BY <1>1, FrontOfBook
<1>3. /\ swap.left \in Nat /\ swap.amountIn \in Nat /\ swap.out \in Nat /\ swap.fee \in Nat
      /\ before \in Found
  BY <1>1, InProgress, WalkFields
<1>4. out \in Leg /\ in \in Leg /\ fee \in Nat /\ fee <= FillOut(Front)
  <2>1. fee \in 0 .. FillOut(Front)
    BY <1>2, TakerFeeFits
  <2>2. QED
    BY <1>2, <2>1, LegsOfSide
<1>5. /\ atoms[out] \in [Sectors -> Nat] /\ atoms[in] \in [Sectors -> Nat]
      /\ atoms[out][s] \in Nat /\ atoms[in][s] \in Nat
      /\ accrued[out] \in Nat /\ accrued[in] \in Nat
  BY <1>2, <1>4, Fields
<1>6. /\ atoms'[out] = [atoms[out] EXCEPT ![s] = atoms[out][s] - FillOut(Front)]
      /\ atoms'[in] = [atoms[in] EXCEPT ![s] = atoms[in][s] + FillIn(Front)]
      /\ accrued'[out] = accrued[out] + fee /\ accrued'[in] = accrued[in]
  BY FillLevelMoves
<1>7. /\ swap.left <= swap.amountIn /\ swap.fee <= swap.out
      /\ accrued[out] = before.accrued[out] + swap.fee
      /\ accrued[in] = before.accrued[in]
      /\ SumOf(atoms[out]) + swap.out = SumOf(before.atoms[out])
      /\ SumOf(atoms[in]) + swap.left <= SumOf(before.atoms[in]) + swap.amountIn
  BY <1>1 DEF OrderInv, MoneyInv, Moved
<1>8. /\ before.atoms[out] \in [Sectors -> Nat] /\ before.atoms[in] \in [Sectors -> Nat]
      /\ before.accrued[out] \in Nat
  BY <1>3, <1>4 DEF Found, Ledger
<1> HIDE DEF out, in, s, fee
<1>9. /\ SumOf(before.atoms[out]) \in Nat /\ SumOf(before.atoms[in]) \in Nat
      /\ SumOf(atoms[out]) \in Nat /\ SumOf(atoms[in]) \in Nat
  BY <1>5, <1>8, Sizes, SumType
<1>10. /\ SumOf(atoms'[out]) = SumOf(atoms[out]) - FillOut(Front)
       /\ SumOf(atoms'[in]) = SumOf(atoms[in]) + FillIn(Front)
  <2>1. atoms[out][s] - FillOut(Front) \in Nat /\ atoms[in][s] + FillIn(Front) \in Nat
    BY <1>2, <1>5
  <2>2. IsFiniteSet(Sectors)
    BY Sizes
  <2>3. SumOf(atoms'[out]) = SumOf(atoms[out]) - atoms[out][s] + (atoms[out][s] - FillOut(Front))
    BY <1>2, <1>5, <1>6, <2>1, <2>2, SumExcept
  <2>4. SumOf(atoms'[in]) = SumOf(atoms[in]) - atoms[in][s] + (atoms[in][s] + FillIn(Front))
    BY <1>2, <1>5, <1>6, <2>1, <2>2, SumExcept
  <2>5. QED
    BY <1>2, <1>5, <1>9, <2>3, <2>4
<1>11. /\ swap'.left <= swap'.amountIn /\ swap'.fee <= swap'.out
       /\ accrued'[out] = before.accrued[out] + swap'.fee
       /\ accrued'[in] = before.accrued[in]
       /\ SumOf(atoms'[out]) + swap'.out = SumOf(before.atoms[out])
       /\ SumOf(atoms'[in]) + swap'.left <= SumOf(before.atoms[in]) + swap'.amountIn
  BY <1>1, <1>2, <1>3, <1>4, <1>5, <1>6, <1>7, <1>8, <1>9, <1>10
<1>12. QED
  BY <1>1, <1>11 DEF Moved, out, in

\* The first fill of a vault, and of a level, remembers what it found there.
LEMMA FillLevelTrace ==
    ASSUME TypeOK, OrderInv, FillLevel
    PROVE  TraceInv'
<1> DEFINE n == Len(swap.fills)
           s == Front.sector
           i == Front.level
<1>1. /\ ~Idle /\ WalkGoesOn /\ swap'.side = swap.side /\ swap'.flushed = swap.flushed
      /\ swap'.fills = Append(swap.fills, FillOfFront) /\ FillOfFront \in Fill /\ before' = before
  BY FillLevelDetail
<1>2. /\ swap.fills \in Seq(Fill) /\ swap.side \in Side /\ s \in Sectors /\ i \in Levels
  BY <1>1, InProgress, WalkFields, FrontOfBook
<1>3. /\ n \in Nat /\ DOMAIN swap.fills = 1 .. n /\ DOMAIN swap'.fills = 1 .. n + 1
      /\ \A j \in 1 .. n : swap'.fills[j] = swap.fills[j]
      /\ swap'.fills[n + 1] = FillOfFront
  BY <1>1, <1>2, AppendFacts
<1>4. /\ FillOfFront.of = Front /\ FillOfFront.base = atoms["base"][s]
      /\ FillOfFront.quote = atoms["quote"][s]
      /\ FillOfFront.size = remaining[s][swap.side][i].size
      /\ Front.sector = s /\ Front.level = i
  BY DEF FillOfFront
<1> HIDE DEF n, s, i
<1>5. ASSUME NEW t \in Sectors
      PROVE  /\ FillsOf(t) \subseteq FillsOf(t)' /\ (t = s => n + 1 \in FillsOf(t)')
             /\ \A k \in FillsOf(t)' : k \in FillsOf(t) \/ (k = n + 1 /\ t = s)
             /\ \A j : FillsAt(t, j) \subseteq FillsAt(t, j)'
             /\ \A j : t = s /\ j = i => n + 1 \in FillsAt(t, j)'
  <2>1. /\ FillsOf(t) = {k \in 1 .. n : swap.fills[k].of.sector = t}
        /\ FillsOf(t)' = {k \in 1 .. n + 1 : swap'.fills[k].of.sector = t}
    BY <1>3 DEF FillsOf
  <2>2. /\ \A j : FillsAt(t, j) = {k \in FillsOf(t) : swap.fills[k].of.level = j}
        /\ \A j : FillsAt(t, j)' = {k \in FillsOf(t)' : swap'.fills[k].of.level = j}
    BY DEF FillsAt
  <2>3. n + 1 \in 1 .. n + 1 /\ (\A k \in 1 .. n : k \in 1 .. n + 1)
        /\ \A k \in 1 .. n + 1 : k \in 1 .. n \/ k = n + 1
    BY <1>3
  <2>4. FillsOf(t) \subseteq FillsOf(t)'
    BY <1>3, <2>1, <2>3
  <2>5. t = s => n + 1 \in FillsOf(t)'
    BY <1>3, <1>4, <2>1, <2>3
  <2>6. \A k \in FillsOf(t)' : k \in FillsOf(t) \/ (k = n + 1 /\ t = s)
    BY <1>3, <1>4, <2>1, <2>3
  <2>7. \A j : FillsAt(t, j) \subseteq FillsAt(t, j)'
    BY <1>3, <2>1, <2>2, <2>4
  <2>8. \A j : t = s /\ j = i => n + 1 \in FillsAt(t, j)'
    BY <1>3, <1>4, <2>2, <2>5
  <2>9. QED
    BY <2>4, <2>5, <2>6, <2>7, <2>8
<1>6. Snapshots'
  <2>1. ASSUME NEW t \in Sectors, FillsOf(t)' = {}, NEW l \in Leg
        PROVE  atoms'[l][t] = before.atoms[l][t]
    <3>1. t # s /\ FillsOf(t) = {}
      BY <1>5, <2>1
    <3>2. atoms'[l][t] = atoms[l][t]
      BY <3>1, FillLevelMoves DEF s
    <3>3. QED
      BY <1>1, <3>1, <3>2 DEF OrderInv, TraceInv, Snapshots
  <2>2. ASSUME NEW k \in DOMAIN swap'.fills, FirstOfVault(k)'
        PROVE  /\ swap'.fills[k].base = before.atoms["base"][swap'.fills[k].of.sector]
               /\ swap'.fills[k].quote = before.atoms["quote"][swap'.fills[k].of.sector]
    <3>1. CASE k \in 1 .. n
      <4>1. \A j \in 1 .. k - 1 : j \in 1 .. n
        BY <1>3, <3>1
      <4>2. FirstOfVault(k)
        BY <1>3, <2>2, <3>1, <4>1 DEF FirstOfVault
      <4>3. QED
        BY <1>1, <1>3, <3>1, <4>2 DEF OrderInv, TraceInv, Snapshots
    <3>2. CASE k = n + 1
      <4>1. \A j \in 1 .. n : swap.fills[j].of.sector # s
        <5>1. 1 .. k - 1 = 1 .. n
          BY <1>3, <3>2
        <5>2. QED
          BY <1>3, <1>4, <2>2, <3>2, <5>1 DEF FirstOfVault, s
      <4>2. FillsOf(s) = {}
        BY <1>3, <4>1 DEF FillsOf
      <4>3. "base" \in Leg /\ "quote" \in Leg
        BY DEF Leg
      <4>4. atoms["base"][s] = before.atoms["base"][s] /\ atoms["quote"][s] = before.atoms["quote"][s]
        BY <1>1, <1>2, <4>2, <4>3 DEF OrderInv, TraceInv, Snapshots
      <4>5. QED
        BY <1>3, <1>4, <3>2, <4>4 DEF s
    <3>3. QED
      BY <1>3, <2>2, <3>1, <3>2
  <2>3. QED
    BY <1>1, <2>1, <2>2 DEF Snapshots
<1>7. LevelSnapshots'
  <2> SUFFICES ASSUME NEW t \in Sectors \ swap.flushed
               PROVE  /\ \A side \in Side, j \in Levels :
                            /\ (side # swap'.side \/ FillsAt(t, j)' = {}
                                  => remaining'[t][side][j] = before'.remaining[t][side][j])
                            /\ remaining'[t][side][j].price = before'.remaining[t][side][j].price
                            /\ remaining'[t][side][j].deadline
                                 = before'.remaining[t][side][j].deadline
                      /\ \A k \in FillsOf(t)' : FirstOfLevel(k)' =>
                            swap'.fills[k].size
                              = before'.remaining[t][swap'.side][swap'.fills[k].of.level].size
    <3>1. swap'.flushed = swap.flushed
      BY <1>1
    <3>2. QED
      BY <3>1 DEF LevelSnapshots
  <2>0. t \in Sectors
    OBVIOUS
  <2>1. ASSUME NEW side \in Side, NEW j \in Levels
        PROVE  /\ side # swap.side \/ FillsAt(t, j)' = {}
                     => remaining'[t][side][j] = before.remaining[t][side][j]
               /\ remaining'[t][side][j].price = before.remaining[t][side][j].price
               /\ remaining'[t][side][j].deadline = before.remaining[t][side][j].deadline
    <3>1. /\ remaining'[t][side][j].price = remaining[t][side][j].price
          /\ remaining'[t][side][j].deadline = remaining[t][side][j].deadline
          /\ ~(t = s /\ side = swap.side /\ j = i) => remaining'[t][side][j] = remaining[t][side][j]
      BY <2>0, FillLevelMoves DEF s, i
    <3>2. /\ side # swap.side \/ FillsAt(t, j) = {}
                => remaining[t][side][j] = before.remaining[t][side][j]
          /\ remaining[t][side][j].price = before.remaining[t][side][j].price
          /\ remaining[t][side][j].deadline = before.remaining[t][side][j].deadline
      BY <1>1, <2>0 DEF OrderInv, TraceInv, LevelSnapshots
    <3>3. ASSUME FillsAt(t, j)' = {}
          PROVE  FillsAt(t, j) = {} /\ ~(t = s /\ j = i)
      BY <1>5, <2>0, <3>3
    <3>4. QED
      BY <3>1, <3>2, <3>3
  <2>2. ASSUME NEW k \in FillsOf(t)', FirstOfLevel(k)'
        PROVE  swap'.fills[k].size
                 = before'.remaining[t][swap'.side][swap'.fills[k].of.level].size
    <3>1. CASE k \in FillsOf(t)
      <4>1. k \in 1 .. n /\ swap'.fills[k] = swap.fills[k]
        BY <1>3, <3>1 DEF FillsOf
      <4>2. \A j \in 1 .. k - 1 : j \in 1 .. n
        BY <1>3, <4>1
      <4>3. FirstOfLevel(k)
        BY <1>3, <2>2, <4>1, <4>2 DEF FirstOfLevel
      <4>4. LevelSnapshots /\ ~Idle
        BY <1>1 DEF OrderInv, TraceInv
      <4>5. swap.fills[k].size = before.remaining[t][swap.side][swap.fills[k].of.level].size
        BY <1>1, <2>0, <3>1, <4>3, <4>4 DEF LevelSnapshots
      <4>6. QED
        BY <1>1, <4>1, <4>5
    <3>2. CASE k = n + 1 /\ t = s
      <4>1. \A j \in 1 .. n : ~(swap.fills[j].of.sector = s /\ swap.fills[j].of.level = i)
        <5>1. 1 .. k - 1 = 1 .. n
          BY <1>3, <3>2
        <5>2. QED
          BY <1>3, <1>4, <2>2, <3>2, <5>1 DEF FirstOfLevel, s, i
      <4>2. FillsAt(s, i) = {}
        BY <1>3, <4>1 DEF FillsAt, FillsOf
      <4>3. remaining[s][swap.side][i] = before.remaining[s][swap.side][i]
        BY <1>1, <1>2, <3>2, <4>2 DEF OrderInv, TraceInv, LevelSnapshots
      <4>4. QED
        BY <1>1, <1>3, <1>4, <3>2, <4>3
    <3>3. QED
      BY <1>5, <2>0, <2>2, <3>1, <3>2
  <2>3. QED
    BY <1>1, <2>1, <2>2
<1>8. QED
  BY <1>6, <1>7 DEF TraceInv

\* What all fills used up, and one more.
LEMMA SumOneMore ==
    ASSUME NEW n \in Nat, NEW f \in [1 .. n -> Nat], NEW g \in [1 .. n + 1 -> Nat],
           \A j \in 1 .. n : g[j] = f[j]
    PROVE  SumOf(g) = SumOf(f) + g[n + 1] /\ SumOf(f) \in Nat
<1>1. 1 .. n + 1 = (1 .. n) \cup {n + 1} /\ n + 1 \notin 1 .. n
  OBVIOUS
<1>2. IsFiniteSet(1 .. n)
  <2>1. 1 \in Int /\ n \in Int
    OBVIOUS
  <2>2. QED
    BY <2>1, FS_Interval
<1>3. g \in [(1 .. n) \cup {n + 1} -> Nat]
  BY <1>1
<1>4. SumOf(g) = SumOf([x \in 1 .. n |-> g[x]]) + g[n + 1]
  BY <1>1, <1>2, <1>3, SumExtend
<1>5. [x \in 1 .. n |-> g[x]] = f
  OBVIOUS
<1>6. SumOf(f) \in Nat
  BY <1>2, SumType
<1>7. QED
  BY <1>4, <1>5, <1>6

\* A level just filled is spent, and a spent one stays so: nothing it needs grows.
LEMMA FillLevelWalk ==
    ASSUME TypeOK, OrderInv, FillLevel, TypeOK'
    PROVE  WalkInv'
<1> DEFINE n == Len(swap.fills)
           s == Front.sector
           i == Front.level
           out == OutLeg(swap.side)
<1>1. /\ ~Idle /\ WalkGoesOn /\ swap'.side = swap.side /\ swap'.amountIn = swap.amountIn
      /\ swap'.left = swap.left - FillIn(Front) - Residue(Front)
      /\ swap'.book = swap.book \ {Front}
      /\ swap'.fills = Append(swap.fills, FillOfFront) /\ FillOfFront \in Fill
      /\ FillOfFront.of = Front /\ FillOfFront.in = FillIn(Front)
      /\ FillOfFront.residue = Residue(Front)
  BY FillLevelDetail DEF FillOfFront
<1>2. /\ swap.fills \in Seq(Fill) /\ swap.side \in Side /\ swap.left \in Nat
      /\ swap.amountIn \in Nat /\ swap'.left \in Nat
  <2>1. swap' \in Walk
    BY FillLevelDetail
  <2>2. QED
    BY <1>1, <2>1, InProgress, WalkFields
<1>3. /\ n \in Nat /\ DOMAIN swap.fills = 1 .. n /\ DOMAIN swap'.fills = 1 .. n + 1
      /\ \A j \in 1 .. n : swap'.fills[j] = swap.fills[j]
      /\ swap'.fills[n + 1] = FillOfFront /\ Len(swap'.fills) = n + 1
  BY <1>1, <1>2, AppendFacts
<1>4. /\ Front \in swap.book /\ First(Front) /\ Standing(Front)
      /\ s \in Sectors /\ i \in Levels /\ out \in Leg
      /\ Front.price \in Nat /\ Front.price # 0
      /\ FillOut(Front) \in Nat /\ FillIn(Front) \in Nat /\ Residue(Front) \in Nat
      /\ FillOut(Front) <= Front.size /\ FillOut(Front) <= atoms[out][s]
      /\ FillIn(Front) + Residue(Front) <= swap.left
      /\ \/ FillOut(Front) = Front.size \/ FillOut(Front) = atoms[out][s]
         \/ FillIn(Front) + Residue(Front) = swap.left
  BY <1>1, FrontOfBook, LegsOfSide
<1>5. /\ remaining'[s][swap.side][i].size = Front.size - FillOut(Front)
      /\ remaining'[s][swap.side][i].price = Front.price
      /\ atoms'[out][s] = atoms[out][s] - FillOut(Front)
      /\ \A t \in Sectors : t # s => atoms'[out][t] = atoms[out][t]
      /\ \A t \in Sectors, j \in Levels :
            ~(t = s /\ j = i) => remaining'[t][swap.side][j] = remaining[t][swap.side][j]
  <2>1. atoms'[out] = [atoms[out] EXCEPT ![s] = atoms[out][s] - FillOut(Front)]
    BY FillLevelMoves
  <2>2. atoms[out] \in [Sectors -> Nat]
    BY <1>4, Fields
  <2>3. atoms'[out][s] = atoms[out][s] - FillOut(Front)
    BY <1>4, <2>1, <2>2
  <2>4. LevelOf(Front).price = Front.price
    BY <1>4 DEF Standing
  <2>5. remaining'[s][swap.side][i].price = Front.price
    BY <1>2, <1>4, <2>4, FillLevelMoves DEF LevelOf
  <2>6. remaining'[s][swap.side][i].size = Front.size - FillOut(Front)
    BY FillLevelMoves
  <2>7. \A t \in Sectors : t # s => atoms'[out][t] = atoms[out][t]
    BY <1>4, FillLevelMoves
  <2>8. \A t \in Sectors, j \in Levels :
           ~(t = s /\ j = i) => remaining'[t][swap.side][j] = remaining[t][swap.side][j]
    BY <1>2, FillLevelMoves
  <2>9. QED
    BY <2>3, <2>5, <2>6, <2>7, <2>8
<1>6. Front.sector = s /\ Front.level = i
  OBVIOUS
<1> HIDE DEF n, s, i
<1>7. PassedAreSpent'
  <2> SUFFICES ASSUME NEW t \in Sectors, NEW j \in Levels, Offered(t, j)', ~InBook(t, j)'
               PROVE  Spent(t, j, swap.left)'
    BY DEF PassedAreSpent
  <2>1. /\ remaining'[t][swap.side][j].price # 0
        /\ remaining'[t][swap.side][j].price \in Nat /\ remaining'[t][swap.side][j].size \in Nat
        /\ atoms'[out][t] \in Nat /\ atoms[out][t] \in Nat
        /\ remaining'[t][swap.side][j] \in Position
    <3>1. remaining' \in [Sectors -> [Side -> [Levels -> Position]]]
          /\ atoms' \in [Leg -> [Sectors -> Nat]]
      BY FillLevelMoves DEF Books, Ledger
    <3>2. remaining'[t][swap.side][j] \in Position /\ atoms'[out][t] \in Nat
      BY <1>2, <1>4, <3>1
    <3>3. remaining'[t][swap.side][j].price # 0
      BY <1>1 DEF Offered, Zero
    <3>4. atoms[out][t] \in Nat
      BY <1>4, Fields
    <3>5. QED
      BY <3>2, <3>3, <3>4 DEF Position
  <2> DEFINE p == remaining'[t][swap.side][j].price
             q == remaining'[t][swap.side][j].size
             a == atoms'[out][t]
  <2>2. Takeable(t, j, swap.left)' = Smallest(Smallest(q, a), OutputFor(swap.side, p, swap'.left))
    BY <1>1 DEF Takeable
  <2>3. OutputFor(swap.side, p, swap'.left) \in Nat /\ InputFor(swap.side, p, 0) = 0
        /\ OutputFor(swap.side, p, 0) = 0
    BY <1>2, <2>1, FillTypes, NothingForNothing
  <2>4. CASE t = s /\ j = i
    <3>1. q = Front.size - FillOut(Front) /\ a = atoms[out][s] - FillOut(Front)
      BY <1>5, <2>4
    <3>2. q = 0 \/ a = 0 \/ swap'.left = 0
      <4>1. atoms[out][s] \in Nat
        BY <1>4, Fields
      <4>2. CASE FillOut(Front) = Front.size
        BY <1>4, <3>1, <4>2
      <4>3. CASE FillOut(Front) = atoms[out][s]
        BY <1>4, <3>1, <4>1, <4>3
      <4>4. CASE FillIn(Front) + Residue(Front) = swap.left
        BY <1>1, <1>2, <1>4, <4>4
      <4>5. QED
        BY <1>4, <4>2, <4>3, <4>4
    <3>3. Smallest(Smallest(q, a), OutputFor(swap.side, p, swap'.left)) = 0
      <4>1. q \in Nat /\ a \in Nat
        BY <2>1
      <4>2. CASE q = 0 \/ a = 0
        BY <2>3, <4>1, <4>2 DEF Smallest
      <4>3. CASE swap'.left = 0
        BY <2>3, <4>1, <4>3 DEF Smallest
      <4>4. QED
        BY <3>2, <4>2, <4>3
    <3>4. QED
      BY <1>1, <2>2, <2>3, <3>3 DEF Spent
  <2>5. CASE ~(t = s /\ j = i)
    <3>1. remaining'[t][swap.side][j] = remaining[t][swap.side][j]
      BY <1>5, <2>5
    <3>2. Offered(t, j)
      BY FillLevelQuotes
    <3>3. ~InBook(t, j)
      <4> SUFFICES ASSUME NEW e \in swap.book, e.sector = t, e.level = j
                   PROVE  FALSE
        BY DEF InBook
      <4>1. e # Front
        BY <1>6, <2>5
      <4>2. e \in swap'.book
        BY <1>1, <4>1
      <4>3. QED
        BY <4>2 DEF InBook
    <3>4. Spent(t, j, swap.left)
      BY <1>1, <3>2, <3>3 DEF OrderInv, WalkInv, PassedAreSpent
    <3> DEFINE b == atoms[out][t]
    <3>5. InputFor(swap.side, p, Smallest(Smallest(q, b), OutputFor(swap.side, p, swap.left))) = 0
      BY <3>1, <3>4 DEF Spent, Takeable
    <3>6. a <= b /\ swap'.left <= swap.left
      <4>1. a <= b
        <5>1. CASE t = s
          BY <1>4, <1>5, <2>1, <5>1
        <5>2. CASE t # s
          BY <1>5, <2>1, <5>2
        <5>3. QED
          BY <5>1, <5>2
      <4>2. QED
        BY <1>1, <1>2, <1>4, <4>1
    <3> HIDE DEF p, q, a, b
    <3>7. p \in Nat /\ p # 0 /\ q \in Nat /\ a \in Nat /\ b \in Nat
      BY <2>1 DEF p, q, a, b
    <3>8. /\ OutputFor(swap.side, p, swap'.left) <= OutputFor(swap.side, p, swap.left)
          /\ OutputFor(swap.side, p, swap'.left) \in Nat
          /\ OutputFor(swap.side, p, swap.left) \in Nat
      BY <1>2, <3>6, <3>7, FillsGrow, FillTypes
    <3> DEFINE x == Smallest(Smallest(q, a), OutputFor(swap.side, p, swap'.left))
               y == Smallest(Smallest(q, b), OutputFor(swap.side, p, swap.left))
    <3>9. x \in Nat /\ y \in Nat /\ x <= y
      BY <3>6, <3>7, <3>8 DEF Smallest
    <3> HIDE DEF x, y
    <3>10. InputFor(swap.side, p, x) <= InputFor(swap.side, p, y)
           /\ InputFor(swap.side, p, x) \in Nat
      BY <1>2, <3>7, <3>9, FillsGrow, FillTypes
    <3>11. InputFor(swap.side, p, x) = 0
      BY <3>5, <3>10 DEF y
    <3>12. QED
      BY <1>1, <2>2, <3>11 DEF Spent, x, p
  <2>6. QED
    BY <2>4, <2>5
<1>8. FillsCameFirst'
  <2> SUFFICES ASSUME NEW k \in 1 .. n + 1, NEW e \in swap.book, e # Front
               PROVE  GoesFirst(swap.side, swap'.fills[k].of, e)
    BY <1>1, <1>3 DEF FillsCameFirst
  <2>1. CASE k = n + 1
    BY <1>1, <1>3, <1>4, <2>1 DEF First
  <2>2. CASE k \in 1 .. n
    BY <1>1, <1>3, <2>2 DEF OrderInv, WalkInv, FillsCameFirst
  <2>3. QED
    BY <1>3, <2>1, <2>2
<1>9. LeftIsCounted'
  <2> DEFINE f == [j \in 1 .. n |-> swap.fills[j].in + swap.fills[j].residue]
             g == [j \in 1 .. n + 1 |-> swap'.fills[j].in + swap'.fills[j].residue]
  <2>1. /\ f \in [1 .. n -> Nat] /\ g \in [(1 .. n) \cup {n + 1} -> Nat]
        /\ (\A j \in 1 .. n : g[j] = f[j]) /\ g[n + 1] = FillIn(Front) + Residue(Front)
    <3>1. ASSUME NEW j \in 1 .. n
          PROVE  swap.fills[j].in + swap.fills[j].residue \in Nat /\ swap'.fills[j] = swap.fills[j]
      <4>1. swap.fills[j] \in Fill
        BY <1>2, <1>3
      <4>2. swap.fills[j].in \in Nat /\ swap.fills[j].residue \in Nat
        BY <4>1 DEF Fill
      <4>3. swap'.fills[j] = swap.fills[j]
        BY <1>3
      <4>4. QED
        BY <4>2, <4>3
    <3>2. swap'.fills[n + 1].in + swap'.fills[n + 1].residue = FillIn(Front) + Residue(Front)
      BY <1>1, <1>3
    <3>3. 1 .. n + 1 = (1 .. n) \cup {n + 1} /\ FillIn(Front) + Residue(Front) \in Nat
      BY <1>3, <1>4
    <3>4. f \in [1 .. n -> Nat]
      BY <3>1
    <3>5. \A j \in 1 .. n + 1 : swap'.fills[j].in + swap'.fills[j].residue \in Nat
      BY <3>1, <3>2, <3>3
    <3>6. g \in [(1 .. n) \cup {n + 1} -> Nat]
      BY <3>3, <3>5
    <3>7. QED
      BY <1>3, <3>1, <3>2, <3>3, <3>4, <3>6
  <2>2. 1 .. (n + 1) - 1 = 1 .. n /\ 1 .. (n + 1 + 1) - 1 = 1 .. n + 1
    BY <1>3
  <2>3. LeftBefore(Len(swap.fills) + 1) = swap.amountIn - SumOf(f)
    BY <2>2 DEF LeftBefore, n
  <2>4. LeftBefore(Len(swap.fills) + 1)' = swap.amountIn - SumOf(g)
    <3>1. LeftBefore(Len(swap.fills) + 1)' = swap'.amountIn
             - SumOf([j \in 1 .. (Len(swap'.fills) + 1) - 1 |-> swap'.fills[j].in + swap'.fills[j].residue])
      BY DEF LeftBefore
    <3>2. 1 .. (Len(swap'.fills) + 1) - 1 = 1 .. n + 1
      BY <1>3, <2>2
    <3>3. QED
      BY <1>1, <3>1, <3>2
  <2> HIDE DEF f, g
  <2>5. f \in [1 .. n -> Nat] /\ g \in [1 .. n + 1 -> Nat] /\ \A j \in 1 .. n : g[j] = f[j]
    <3>1. 1 .. n + 1 = (1 .. n) \cup {n + 1}
      BY <1>3
    <3>2. QED
      BY <2>1, <3>1
  <2>6. SumOf(g) = SumOf(f) + g[n + 1] /\ SumOf(f) \in Nat
    BY <1>3, <2>5, SumOneMore
  <2>8. swap.left = swap.amountIn - SumOf(f)
    BY <1>1, <2>3 DEF OrderInv, WalkInv, LeftIsCounted
  <2>9. swap'.left = LeftBefore(Len(swap.fills) + 1)'
    <3>1. swap'.left = swap.left - FillIn(Front) - Residue(Front)
      BY <1>1
    <3>2. g[n + 1] = FillIn(Front) + Residue(Front)
      BY <2>1
    <3>3. swap.amountIn \in Nat /\ FillIn(Front) \in Nat /\ Residue(Front) \in Nat
      BY <1>2, <1>4
    <3>4. QED
      BY <2>4, <2>6, <2>8, <3>1, <3>2, <3>3
  <2>10. QED
    BY <2>9 DEF LeftIsCounted
<1>10. QED
  BY <1>7, <1>8, <1>9 DEF WalkInv

\* A fill keeps the invariant.
LEMMA FillLevelInv ==
    ASSUME TypeOK, OrderInv, FillLevel
    PROVE  TypeOK' /\ OrderInv'
  BY FillLevelQuotes, FillLevelMoney, FillLevelTrace, FillLevelWalk DEF OrderInv, MoneyInv

------------------------------------------------------------------------------
(* Settlement.                                                              *)

\* What a commit moves is covered: the taker's output came out of the vaults, and what
\* the vaults were credited with was charged.
LEMMA CommitInv ==
    ASSUME TypeOK, OrderInv, Commit
    PROVE  TypeOK' /\ OrderInv'
<1> DEFINE out == OutLeg(swap.side)
           in  == InLeg(swap.side)
<1>1. /\ ~Idle /\ swap' = NoSwap /\ before' = NoBefore
      /\ treasury' = [treasury EXCEPT ![in] = @ + Charged, ![out] = @ - (NetOut + PlatformFee)]
      /\ UNCHANGED <<phase, authority, ladder, ref, remaining, atoms, accrued, nonce, now>>
  BY DEF Commit, vaultVars
<1>2. /\ swap.side \in Side /\ swap.left \in Nat /\ swap.amountIn \in Nat /\ swap.out \in Nat
      /\ swap.fee \in Nat /\ swap.platform \in 0 .. MaxPlatformFee /\ before \in Found
  BY <1>1, InProgress, WalkFields
<1>3. out \in Leg /\ in \in Leg /\ out # in /\ Leg = {out, in}
  <2>1. out \in Leg /\ in \in Leg /\ out # in
    BY <1>2, LegsOfSide
  <2>2. QED
    BY <2>1 DEF Leg
<1>4. /\ swap.left <= swap.amountIn /\ swap.fee <= swap.out
      /\ accrued[out] = before.accrued[out] + swap.fee
      /\ accrued[in] = before.accrued[in]
      /\ SumOf(atoms[out]) + swap.out = SumOf(before.atoms[out])
      /\ SumOf(atoms[in]) + swap.left <= SumOf(before.atoms[in]) + swap.amountIn
  BY <1>1 DEF OrderInv, MoneyInv, Moved
<1>5. Charged \in Nat /\ Charged = swap.amountIn - swap.left
  BY <1>2, <1>4 DEF Charged
<1>6. NetOut + PlatformFee = swap.out - swap.fee /\ swap.out - swap.fee \in Nat
  <2>1. NetAfterTakerFee \in Nat /\ NetAfterTakerFee = swap.out - swap.fee
    BY <1>2, <1>4 DEF NetAfterTakerFee
  <2>2. /\ BPS \in Nat /\ BPS > 0 /\ \A r \in 0 .. BPS : r \in Nat
    BY UnitAssumption
  <2>3. swap.platform \in Nat
    BY <1>2, <2>2, RateAssumption
  <2>4. NetAfterTakerFee * swap.platform \in Nat
    BY <2>1, <2>3, TimesType
  <2>5. PlatformFee \in Nat
    BY <2>2, <2>4, DivFits DEF PlatformFee, PlatformFeeOn
  <2>6. NetOut = NetAfterTakerFee - PlatformFee
    BY DEF NetOut
  <2>7. QED
    BY <2>1, <2>5, <2>6
<1>7. ASSUME NEW l \in Leg
      PROVE  /\ SumOf(before.atoms[l]) + before.accrued[l] <= treasury[l]
             /\ SumOf(before.atoms[l]) \in Nat /\ before.accrued[l] \in Nat
             /\ SumOf(atoms[l]) \in Nat /\ accrued[l] \in Nat /\ treasury[l] \in Nat
  <2>1. before.atoms[l] \in [Sectors -> Nat] /\ before.accrued[l] \in Nat
    BY <1>2 DEF Found, Ledger
  <2>2. atoms[l] \in [Sectors -> Nat] /\ accrued[l] \in Nat /\ treasury[l] \in Nat
    BY Fields
  <2>3. SumOf(before.atoms[l]) \in Nat /\ SumOf(atoms[l]) \in Nat
    BY <2>1, <2>2, Sizes, SumType
  <2>4. CommittedAtoms = before.atoms /\ CommittedAccrued = before.accrued
    BY <1>1 DEF CommittedAtoms, CommittedAccrued
  <2>5. SumOf(before.atoms[l]) + before.accrued[l] <= treasury[l]
    BY <2>4 DEF OrderInv, MoneyInv, Solvent
  <2>6. QED
    BY <2>1, <2>2, <2>3, <2>5
<1> HIDE DEF out, in
<1>8. /\ treasury'[in] = treasury[in] + Charged
      /\ treasury'[out] = treasury[out] - (swap.out - swap.fee)
      /\ treasury' = [l \in Leg |-> treasury'[l]]
  <2>1. treasury \in [Leg -> Nat]
    BY Fields
  <2>2. QED
    BY <1>1, <1>3, <1>6, <2>1
<1>9. /\ treasury'[in] \in Nat /\ SumOf(atoms[in]) + accrued[in] <= treasury'[in]
      /\ treasury'[out] \in Nat /\ SumOf(atoms[out]) + accrued[out] <= treasury'[out]
  <2>1. treasury'[in] \in Nat /\ SumOf(atoms[in]) + accrued[in] <= treasury'[in]
    BY <1>2, <1>3, <1>4, <1>5, <1>7, <1>8
  <2>2. treasury'[out] \in Nat /\ SumOf(atoms[out]) + accrued[out] <= treasury'[out]
    BY <1>2, <1>3, <1>4, <1>6, <1>7, <1>8
  <2>3. QED
    BY <2>1, <2>2
<1>10. TypeOK'
  <2>1. treasury' \in [Leg -> Nat]
    BY <1>3, <1>8, <1>9
  <2>2. QED
    BY <1>1, <2>1 DEF TypeOK
<1>11. Solvent'
  <2>1. \A l \in Leg : SumOf(atoms'[l]) + accrued'[l] <= treasury'[l]
    BY <1>1, <1>3, <1>9
  <2>2. QED
    BY <1>1, <2>1, SolventAtRest
<1>12. QuotesAreCurrent'
  <2> SUFFICES ASSUME NEW t \in Sectors, ref'[t].price # Zero, ~ref'[t].flush,
                      NEW d \in Side, NEW i \in Levels
               PROVE  /\ remaining'[t][d][i].price = LevelPrice(t, d, i)'
                      /\ remaining'[t][d][i].deadline = DeadlineFromQuote(t, d, i)'
    BY DEF QuotesAreCurrent
  <2>1. /\ LevelPrice(t, d, i)' = LevelPrice(t, d, i)
        /\ DeadlineFromQuote(t, d, i)' = DeadlineFromQuote(t, d, i)
    BY <1>1, SameQuote
  <2>2. QED
    BY <1>1, <2>1 DEF OrderInv, QuoteInv, QuotesAreCurrent
<1>13. StampsAreSpent'
  <2>1. Given = swap.nonce /\ Given' = nonce
    BY <1>1 DEF Given, Idle
  <2>2. swap.nonce <= nonce /\ swap.nonce \in Nat /\ nonce \in Nat
    BY <1>1, Fields, InProgress, WalkFields DEF OrderInv, MoneyInv, NonceFits
  <2>3. ASSUME NEW t \in Sectors
        PROVE  Quoting(t)' = Quoting(t) /\ ref'[t] = ref[t] /\ ref[t].stamp \in Nat
    BY <1>1, Fields DEF Quoting
  <2>4. QED
    BY <2>1, <2>2, <2>3 DEF OrderInv, QuoteInv, StampsAreSpent
<1>14. QED
  BY <1>1, <1>10, <1>11, <1>12, <1>13, RestInv

\* The first of some fills.
LEMMA FirstOfFills ==
    ASSUME NEW fills, fills \subseteq Nat, fills # {}
    PROVE  FirstOf(fills) \in fills /\ \A j \in fills : FirstOf(fills) <= j
<1>1. \E k \in fills : \A j \in fills : k <= j
  BY LeastOf
<1>2. QED
  BY <1>1 DEF FirstOf

\* Replayed backwards, the snapshots give back what the swap found.
LEMMA SoftRevertDetail ==
    ASSUME TypeOK, OrderInv, SoftRevert
    PROVE  /\ ~Idle /\ swap' = NoSwap /\ before' = NoBefore /\ before \in Found
           /\ swap.side \in Side
           /\ atoms' = before.atoms /\ accrued' = before.accrued /\ treasury' = treasury
           /\ nonce' = before.nonce /\ nonce' = swap.nonce /\ ref' = before.ref
           /\ remaining' \in Books
           /\ \A s \in Sectors, side \in Side, i \in Levels :
                 /\ remaining'[s][side][i].price = remaining[s][side][i].price
                 /\ remaining'[s][side][i].deadline = remaining[s][side][i].deadline
           /\ \A s \in Sectors : ~ref'[s].flush => remaining'[s] = before.remaining[s]
           /\ UNCHANGED <<phase, authority, ladder, now>>
<1>1. /\ ~Idle /\ swap' = NoSwap /\ before' = NoBefore /\ treasury' = treasury
      /\ nonce' = swap.nonce /\ accrued' = swap.accrued
      /\ UNCHANGED <<phase, authority, ladder, now>>
  BY DEF SoftRevert, vaultVars
<1>2. /\ before \in Found /\ swap.side \in Side /\ swap.fills \in Seq(Fill)
      /\ swap.flushed \in SUBSET Sectors
  BY <1>1, InProgress, WalkFields
<1>3. /\ DOMAIN swap.fills = 1 .. Len(swap.fills) /\ Len(swap.fills) \in Nat
      /\ \A k \in DOMAIN swap.fills : swap.fills[k] \in Fill /\ k \in Nat
  BY <1>2
<1>4. /\ swap.nonce = before.nonce /\ swap.accrued = before.accrued
      /\ \A s \in swap.flushed : before.ref[s].flush
      /\ ref = [s \in Sectors |-> IF s \in swap.flushed
                   THEN [before.ref[s] EXCEPT !.flush = FALSE] ELSE before.ref[s]]
  BY <1>1 DEF OrderInv, MoneyInv, FoundIsKept
<1>5. atoms' = before.atoms
  <2>1. ASSUME NEW l \in Leg, NEW s \in Sectors
        PROVE  atoms'[l][s] = before.atoms[l][s]
    <3>1. atoms'[l][s] = IF FillsOf(s) = {} THEN atoms[l][s]
                         ELSE IF l = "base" THEN SnapshotOf(s).base ELSE SnapshotOf(s).quote
      BY DEF SoftRevert
    <3>2. CASE FillsOf(s) = {}
      BY <1>1, <3>1, <3>2 DEF OrderInv, TraceInv, Snapshots
    <3>3. CASE FillsOf(s) # {}
      <4> DEFINE k == FirstOf(FillsOf(s))
      <4>1. FillsOf(s) \subseteq Nat
        BY <1>3 DEF FillsOf
      <4>2. k \in FillsOf(s) /\ \A j \in FillsOf(s) : k <= j
        BY <3>3, <4>1, FirstOfFills
      <4> HIDE DEF k
      <4>3. k \in DOMAIN swap.fills /\ swap.fills[k].of.sector = s
        BY <4>2 DEF FillsOf
      <4>4. FirstOfVault(k)
        <5> SUFFICES ASSUME NEW j \in 1 .. k - 1, swap.fills[j].of.sector = s
                     PROVE  FALSE
          BY <4>3 DEF FirstOfVault
        <5>1. j \in DOMAIN swap.fills /\ j < k /\ j \in Nat /\ k \in Nat
          BY <1>3, <4>3
        <5>2. j \in FillsOf(s)
          BY <5>1 DEF FillsOf
        <5>3. QED
          BY <4>2, <5>1, <5>2
      <4>5. /\ swap.fills[k].base = before.atoms["base"][s]
            /\ swap.fills[k].quote = before.atoms["quote"][s]
        BY <1>1, <4>3, <4>4 DEF OrderInv, TraceInv, Snapshots
      <4>6. SnapshotOf(s) = swap.fills[k]
        BY DEF SnapshotOf, k
      <4>7. l = "base" \/ l = "quote"
        BY DEF Leg
      <4>8. QED
        BY <3>1, <3>3, <4>5, <4>6, <4>7
    <3>4. QED
      BY <3>2, <3>3
  <2>2. atoms' = [l \in Leg |-> [s \in Sectors |-> atoms'[l][s]]]
    BY DEF SoftRevert
  <2>3. before.atoms = [l \in Leg |-> [s \in Sectors |-> before.atoms[l][s]]]
    BY <1>2 DEF Found, Ledger
  <2>4. QED
    BY <2>1, <2>2, <2>3
<1>6. ref' = before.ref
  <2>1. before.ref \in [Sectors -> Quote]
    BY <1>2 DEF Found
  <2>2. ASSUME NEW s \in Sectors
        PROVE  ref'[s] = before.ref[s]
    <3>1. ref'[s] = [ref[s] EXCEPT !.flush = ref[s].flush \/ s \in swap.flushed]
      BY DEF SoftRevert
    <3>2. before.ref[s] \in Quote
      BY <2>1
    <3>3. CASE s \in swap.flushed
      <4>1. ref[s] = [before.ref[s] EXCEPT !.flush = FALSE] /\ before.ref[s].flush
        BY <1>4, <3>3
      <4>2. before.ref[s].flush = TRUE
        BY <3>2, <4>1 DEF Quote
      <4>3. ref'[s] = [ref[s] EXCEPT !.flush = TRUE]
        BY <3>1, <3>3
      <4>4. QED
        BY <3>2, <4>1, <4>2, <4>3 DEF Quote
    <3>4. CASE s \notin swap.flushed
      <4>1. ref[s] = before.ref[s]
        BY <1>4, <3>4
      <4>2. (ref[s].flush \/ s \in swap.flushed) = ref[s].flush
        BY <3>2, <3>4, <4>1 DEF Quote
      <4>3. ref'[s] = [ref[s] EXCEPT !.flush = ref[s].flush]
        BY <3>1, <4>2
      <4>4. QED
        BY <3>2, <4>1, <4>3 DEF Quote
    <3>5. QED
      BY <3>3, <3>4
  <2>3. ref' = [s \in Sectors |-> ref'[s]]
    BY DEF SoftRevert
  <2>4. QED
    BY <2>1, <2>2, <2>3
<1> DEFINE back(s, i) ==
               IF FillsAt(s, i) = {} THEN remaining[s][swap.side][i]
               ELSE [remaining[s][swap.side][i] EXCEPT
                        !.size = swap.fills[FirstOf(FillsAt(s, i))].size]
           row(s) == [i \in Levels |-> back(s, i)]
<1>7. remaining' = [s \in Sectors |-> [remaining[s] EXCEPT ![swap.side] = row(s)]]
  BY DEF SoftRevert
<1>8. ASSUME NEW s \in Sectors, NEW i \in Levels
      PROVE  /\ back(s, i) \in Position
             /\ back(s, i).price = remaining[s][swap.side][i].price
             /\ back(s, i).deadline = remaining[s][swap.side][i].deadline
             /\ FillsAt(s, i) # {} =>
                   /\ FirstOf(FillsAt(s, i)) \in FillsOf(s)
                   /\ swap.fills[FirstOf(FillsAt(s, i))].of.level = i
                   /\ FirstOfLevel(FirstOf(FillsAt(s, i)))
                   /\ back(s, i).size = swap.fills[FirstOf(FillsAt(s, i))].size
  <2>1. remaining[s][swap.side][i] \in Position
    BY <1>2, Fields
  <2>2. CASE FillsAt(s, i) = {}
    BY <2>1, <2>2
  <2>3. CASE FillsAt(s, i) # {}
    <3> DEFINE k == FirstOf(FillsAt(s, i))
    <3>1. FillsAt(s, i) \subseteq Nat
      BY <1>3 DEF FillsAt, FillsOf
    <3>2. k \in FillsAt(s, i) /\ \A j \in FillsAt(s, i) : k <= j
      BY <2>3, <3>1, FirstOfFills
    <3>3. back(s, i) = [remaining[s][swap.side][i] EXCEPT !.size = swap.fills[k].size]
      BY <2>3
    <3> HIDE DEF k, back
    <3>4. /\ k \in DOMAIN swap.fills /\ k \in FillsOf(s) /\ swap.fills[k].of.sector = s
          /\ swap.fills[k].of.level = i
      BY <3>2 DEF FillsAt, FillsOf
    <3>5. swap.fills[k].size \in Nat
      BY <1>3, <3>4 DEF Fill
    <3>6. FirstOfLevel(k)
      <4> SUFFICES ASSUME NEW j \in 1 .. k - 1, swap.fills[j].of.sector = s,
                          swap.fills[j].of.level = i
                   PROVE  FALSE
        BY <3>4 DEF FirstOfLevel
      <4>1. j \in DOMAIN swap.fills /\ j < k /\ j \in Nat /\ k \in Nat
        BY <1>3, <3>4
      <4>2. j \in FillsAt(s, i)
        BY <4>1 DEF FillsAt, FillsOf
      <4>3. QED
        BY <3>2, <4>1, <4>2
    <3>7. /\ back(s, i) \in Position /\ back(s, i).size = swap.fills[k].size
          /\ back(s, i).price = remaining[s][swap.side][i].price
          /\ back(s, i).deadline = remaining[s][swap.side][i].deadline
      BY <2>1, <3>3, <3>5 DEF Position
    <3>8. QED
      BY <3>4, <3>6, <3>7 DEF k
  <2>4. QED
    BY <2>2, <2>3
<1> HIDE DEF back
<1>9. ASSUME NEW s \in Sectors
      PROVE  /\ remaining'[s] \in [Side -> [Levels -> Position]]
             /\ \A side \in Side, i \in Levels :
                   remaining'[s][side][i] = IF side = swap.side THEN back(s, i)
                                            ELSE remaining[s][side][i]
  <2>1. remaining[s] \in [Side -> [Levels -> Position]]
    BY Fields DEF Books
  <2>2. row(s) \in [Levels -> Position]
    BY <1>8
  <2>3. remaining'[s] = [remaining[s] EXCEPT ![swap.side] = row(s)]
    BY <1>7
  <2>4. \A i \in Levels : row(s)[i] = back(s, i)
    OBVIOUS
  <2> HIDE DEF row
  <2>5. QED
    BY <1>2, <2>1, <2>2, <2>3, <2>4
<1>10. remaining' \in Books
  <2>1. remaining' = [s \in Sectors |-> remaining'[s]]
    BY <1>7
  <2>2. QED
    BY <1>9, <2>1 DEF Books
<1>11. \A s \in Sectors, side \in Side, i \in Levels :
          /\ remaining'[s][side][i].price = remaining[s][side][i].price
          /\ remaining'[s][side][i].deadline = remaining[s][side][i].deadline
  BY <1>8, <1>9
<1>12. ASSUME NEW s \in Sectors, ~ref'[s].flush
       PROVE  remaining'[s] = before.remaining[s]
  <2>1. s \notin swap.flushed
    BY <1>4, <1>6, <1>12
  <2>2. before.remaining[s] \in [Side -> [Levels -> Position]]
    BY <1>2 DEF Found, Books
  <2>3. ASSUME NEW side \in Side, NEW i \in Levels
        PROVE  remaining'[s][side][i] = before.remaining[s][side][i]
    <3>1. /\ (side # swap.side \/ FillsAt(s, i) = {}
                => remaining[s][side][i] = before.remaining[s][side][i])
          /\ remaining[s][side][i].price = before.remaining[s][side][i].price
          /\ remaining[s][side][i].deadline = before.remaining[s][side][i].deadline
          /\ \A k \in FillsOf(s) : FirstOfLevel(k) =>
                swap.fills[k].size = before.remaining[s][swap.side][swap.fills[k].of.level].size
      <4>1. LevelSnapshots /\ ~Idle
        BY <1>1 DEF OrderInv, TraceInv
      <4>2. QED
        BY ZenonT(30), <2>1, <4>1 DEF LevelSnapshots
    <3>2. CASE side # swap.side
      BY <1>9, <3>1, <3>2
    <3>3. CASE side = swap.side /\ FillsAt(s, i) = {}
      <4>1. back(s, i) = remaining[s][swap.side][i]
        BY <3>3 DEF back
      <4>2. remaining[s][swap.side][i] = before.remaining[s][swap.side][i]
        BY <3>1, <3>3
      <4>3. remaining'[s][swap.side][i] = back(s, i)
        BY <1>9, <3>3
      <4>4. QED
        BY <3>3, <4>1, <4>2, <4>3
    <3>4. CASE side = swap.side /\ FillsAt(s, i) # {}
      <4>1. back(s, i).size = before.remaining[s][side][i].size
        BY ZenonT(30), <1>8, <3>1, <3>4
      <4>2. /\ back(s, i).price = before.remaining[s][side][i].price
            /\ back(s, i).deadline = before.remaining[s][side][i].deadline
        BY <1>8, <3>1, <3>4
      <4>3. back(s, i) \in Position /\ before.remaining[s][side][i] \in Position
        BY <1>8, <2>2
      <4>4. back(s, i) = before.remaining[s][side][i]
        BY <4>1, <4>2, <4>3 DEF Position
      <4>5. QED
        BY <1>9, <3>4, <4>4
    <3>5. QED
      BY <3>2, <3>3, <3>4
  <2>4. remaining'[s] \in [Side -> [Levels -> Position]]
    BY <1>9
  <2>5. ASSUME NEW side \in Side
        PROVE  remaining'[s][side] = before.remaining[s][side]
    <3>1. remaining'[s][side] \in [Levels -> Position]
          /\ before.remaining[s][side] \in [Levels -> Position]
      BY <2>2, <2>4
    <3>2. QED
      BY <2>3, <3>1
  <2>6. QED
    BY <2>2, <2>4, <2>5
<1>13. QED
  BY <1>1, <1>2, <1>4, <1>5, <1>6, <1>10, <1>11, <1>12

\* A soft revert restores what it must for the invariant to hold of the state before.
LEMMA SoftRevertInv ==
    ASSUME TypeOK, OrderInv, SoftRevert
    PROVE  TypeOK' /\ OrderInv'
<1>1. /\ ~Idle /\ swap' = NoSwap /\ before' = NoBefore /\ before \in Found
      /\ atoms' = before.atoms /\ accrued' = before.accrued /\ treasury' = treasury
      /\ nonce' = before.nonce /\ nonce' = swap.nonce /\ ref' = before.ref
      /\ remaining' \in Books
      /\ UNCHANGED <<phase, authority, ladder, now>>
  BY SoftRevertDetail
<1>2. TypeOK'
  <2>1. /\ before.atoms \in Ledger /\ before.ref \in [Sectors -> Quote]
        /\ before.accrued \in [Leg -> Nat] /\ before.nonce \in 0 .. MaxNonce
    BY <1>1 DEF Found
  <2>2. QED
    BY <1>1, <2>1 DEF TypeOK
<1>3. ASSUME NEW t \in Sectors
      PROVE  /\ ref'[t].price = ref[t].price /\ ref'[t].at = ref[t].at
             /\ ref'[t].stamp = ref[t].stamp
             /\ (ref'[t].flush => ref[t].flush \/ t \in swap.flushed)
             /\ (ref[t].flush => ref'[t].flush)
  <2>1. ref'[t] = [ref[t] EXCEPT !.flush = ref[t].flush \/ t \in swap.flushed]
    BY DEF SoftRevert
  <2>2. ref[t] \in Quote
    BY Fields
  <2>3. QED
    BY <2>1, <2>2 DEF Quote
<1>4. QuotesAreCurrent'
  <2> SUFFICES ASSUME NEW t \in Sectors, ref'[t].price # Zero, ~ref'[t].flush,
                      NEW d \in Side, NEW i \in Levels
               PROVE  /\ remaining'[t][d][i].price = LevelPrice(t, d, i)'
                      /\ remaining'[t][d][i].deadline = DeadlineFromQuote(t, d, i)'
    BY DEF QuotesAreCurrent
  <2>1. /\ LevelPrice(t, d, i)' = LevelPrice(t, d, i)
        /\ DeadlineFromQuote(t, d, i)' = DeadlineFromQuote(t, d, i)
    BY <1>1, <1>3, SameQuote
  <2>2. ref[t].price # Zero /\ ~ref[t].flush
    BY <1>3
  <2>3. /\ remaining'[t][d][i].price = remaining[t][d][i].price
        /\ remaining'[t][d][i].deadline = remaining[t][d][i].deadline
    BY SoftRevertDetail
  <2>4. QED
    BY <2>1, <2>2, <2>3 DEF OrderInv, QuoteInv, QuotesAreCurrent
<1>5. StampsAreSpent'
  <2>1. Given = swap.nonce /\ Given' = swap.nonce
    BY <1>1 DEF Given, Idle
  <2>2. ASSUME NEW t \in Sectors, Quoting(t)'
        PROVE  Quoting(t)
    <3>1. CASE t \in swap.flushed
      BY <1>1, <3>1 DEF OrderInv, MoneyInv, FoundIsKept, Trading, Quoting
    <3>2. CASE t \notin swap.flushed
      BY <1>3, <2>2, <3>2 DEF Quoting
    <3>3. QED
      BY <3>1, <3>2
  <2>3. QED
    BY <1>3, <2>1, <2>2 DEF OrderInv, QuoteInv, StampsAreSpent
<1>6. Solvent'
  <2>1. CommittedAtoms = before.atoms /\ CommittedAccrued = before.accrued
    BY <1>1 DEF CommittedAtoms, CommittedAccrued
  <2>2. \A l \in Leg : SumOf(atoms'[l]) + accrued'[l] <= treasury'[l]
    BY <1>1, <2>1 DEF OrderInv, MoneyInv, Solvent
  <2>3. QED
    BY <1>1, <2>2, SolventAtRest
<1>7. QED
  BY <1>1, <1>2, <1>4, <1>5, <1>6, RestInv

------------------------------------------------------------------------------
(* The invariant holds throughout.                                          *)

\* The invariant holds at first.
LEMMA InitInv ==
    ASSUME Init
    PROVE  TypeOK /\ OrderInv
<1>1. /\ phase = [s \in Sectors |-> "active"] /\ authority \in [Sectors -> Keys]
      /\ ref = [s \in Sectors |-> NoQuote] /\ ladder = [s \in Sectors |-> EmptyLadder]
      /\ remaining = [s \in Sectors |-> NothingLeft]
      /\ atoms = [l \in Leg |-> [s \in Sectors |-> MaxAtoms]]
      /\ accrued = [l \in Leg |-> 0] /\ treasury = [l \in Leg |-> SumOf(atoms[l])]
      /\ nonce = 0 /\ now = [d \in Domain |-> 0] /\ swap = NoSwap /\ before = NoBefore
  BY DEF Init
<1>2. NoQuote \in Quote /\ 0 \in 0 .. MaxNonce /\ 0 \in Time
  <2>1. [d \in Domain |-> 0] \in [Domain -> Time] /\ 0 \in 0 .. MaxNonce /\ 0 \in Time
    BY Sizes DEF Time
  <2>2. QED
    BY <2>1 DEF NoQuote, Quote, Zero
<1>3. NothingLeft \in [Side -> [Levels -> Position]]
  <2>1. [price |-> Zero, size |-> 0, deadline |-> [d \in Domain |-> 0]] \in Position
    BY DEF Position, Zero
  <2>2. QED
    BY <2>1 DEF NothingLeft
<1>4. /\ atoms \in Ledger /\ treasury \in [Leg -> Nat]
      /\ \A l \in Leg : SumOf(atoms[l]) + accrued[l] <= treasury[l]
  <2>1. ASSUME NEW l \in Leg
        PROVE  atoms[l] \in [Sectors -> Nat] /\ SumOf(atoms[l]) \in Nat
    <3>1. atoms[l] \in [Sectors -> Nat]
      BY <1>1, Sizes
    <3>2. QED
      BY <3>1, Sizes, SumType
  <2>2. atoms \in Ledger
    BY <1>1, Sizes DEF Ledger
  <2>3. treasury \in [Leg -> Nat]
    BY <1>1, <2>1
  <2>4. QED
    BY <1>1, <2>1, <2>2, <2>3
<1>5. TypeOK
  <2>1. /\ phase \in [Sectors -> {"active", "frozen", "tombstoned", "free"}]
        /\ authority \in [Sectors -> Keys \cup {NoKey}]
        /\ ladder \in [Sectors -> Ladders \cup {EmptyLadder}]
        /\ accrued \in [Leg -> Nat] /\ now \in [Domain -> Time]
    BY <1>1, <1>2
  <2>2. ref \in [Sectors -> Quote] /\ remaining \in Books
    BY <1>1, <1>2, <1>3 DEF Books
  <2>3. QED
    BY <1>1, <1>2, <1>4, <2>1, <2>2 DEF TypeOK
<1>6. Idle
  BY <1>1 DEF Idle
<1>7. QuotesAreCurrent /\ StampsAreSpent
  BY <1>1 DEF QuotesAreCurrent, StampsAreSpent, Quoting, NoQuote
<1>8. Solvent
  BY <1>4, <1>6 DEF Solvent, CommittedAtoms, CommittedAccrued
<1>9. BookIsCurrent /\ NonceFits /\ FoundIsKept /\ Moved
  BY <1>6 DEF BookIsCurrent, NonceFits, FoundIsKept, Moved
<1>10. Snapshots /\ LevelSnapshots /\ PassedAreSpent /\ FillsCameFirst /\ LeftIsCounted
  BY <1>6 DEF Snapshots, LevelSnapshots, PassedAreSpent, FillsCameFirst, LeftIsCounted
<1>11. QED
  BY <1>5, <1>7, <1>8, <1>9, <1>10 DEF OrderInv, QuoteInv, MoneyInv, TraceInv, WalkInv

\* What happens between swaps, or between the steps of one.
RestStep ==
    \/ \E s \in Sectors, key \in Keys :
          \/ \E p \in Prices \cup {Zero}, at \in [Domain -> Time] :
                SetReferencePrice(s, key, p, at)
          \/ \E l \in Ladders : SetLiquidityProfile(s, key, l)
          \/ SetQuoteAuthority(s, key)
          \/ \E n \in Inventories : CreateVault(s, key, n)
    \/ \E s \in Sectors :
          \/ FreezeVault(s) \/ CloseVault(s) \/ ReclaimVault(s)
          \/ \E leg \in Leg, n \in Inventories : MoveInventory(s, leg, n)
    \/ \E d \in Domain : Tick(d)
\* A swap starts, on either side, for any amount.
Starts ==
    \E side \in Side, a \in Amounts, limit \in Limits, min \in MinOuts, p \in PlatformFees :
        StartSwap(side, a, limit, min, p)

\* Nothing else happens while a swap is walked.
LEMMA RestStepsAreIdle ==
    ASSUME RestStep
    PROVE  Idle /\ UNCHANGED <<swap, before>>
  BY DEF RestStep, SetReferencePrice, SetLiquidityProfile, QuoteWrite, SetQuoteAuthority,
         CreateVault, FreezeVault, CloseVault, ReclaimVault, MoveInventory, Tick, AtRest

\* The steps outside a walk, those of a walk, and those that end it.
LEMMA NextSteps ==
    Next <=> RestStep \/ Starts \/ SkipLevel \/ FillLevel \/ Commit \/ SoftRevert
  BY DEF Next, RestStep, Starts

\* So does every step outside a walk.
LEMMA RestStepInv ==
    ASSUME TypeOK, OrderInv, RestStep
    PROVE  TypeOK' /\ OrderInv'
<1>1. CASE \E s \in Sectors, key \in Keys :
              \/ \E p \in Prices \cup {Zero}, at \in [Domain -> Time] :
                    SetReferencePrice(s, key, p, at)
              \/ \E l \in Ladders : SetLiquidityProfile(s, key, l)
              \/ \E n \in Inventories : CreateVault(s, key, n)
  BY <1>1, SetReferencePriceInv, SetLiquidityProfileInv, CreateVaultInv
<1>2. CASE \E s \in Sectors :
              \/ ReclaimVault(s)
              \/ \E leg \in Leg, n \in Inventories : MoveInventory(s, leg, n)
  BY <1>2, ReclaimVaultInv, MoveInventoryInv
<1>3. CASE \/ \E s \in Sectors, key \in Keys : SetQuoteAuthority(s, key)
           \/ \E s \in Sectors : FreezeVault(s) \/ CloseVault(s)
           \/ \E d \in Domain : Tick(d)
  BY <1>3, RestStepsInv
<1>4. QED
  BY <1>1, <1>2, <1>3 DEF RestStep

\* Nothing is lost by doing nothing.
LEMMA StutterInv ==
    ASSUME TypeOK, OrderInv, UNCHANGED vars
    PROVE  TypeOK' /\ OrderInv'
<1>1. UNCHANGED <<phase, authority, ladder, ref, remaining, atoms, accrued, treasury, nonce, now,
                  swap, before>>
  BY DEF vars, vaultVars
<1>2. TypeOK'
  BY <1>1 DEF TypeOK
<1>3. QuoteInv'
  <2>1. QuoteInv
    BY DEF OrderInv
  <2>2. QuotesAreCurrent'
    BY <1>1, <2>1 DEF QuoteInv, QuotesAreCurrent, LevelPrice, DeadlineFromQuote, Quoting, Given
  <2>3. BookIsCurrent'
    BY <1>1, <2>1 DEF QuoteInv, BookIsCurrent, Idle, Standing, LevelOf, Trading, StillLive
  <2>4. StampsAreSpent'
    <3>1. StampsAreSpent /\ Given' = Given
      BY <1>1, <2>1 DEF QuoteInv, Given, Idle
    <3>2. QED
      BY <1>1, <3>1 DEF StampsAreSpent, Quoting
  <2>5. QED
    BY <2>2, <2>3, <2>4 DEF QuoteInv
<1>4. MoneyInv'
  BY <1>1 DEF OrderInv, MoneyInv, NonceFits, Solvent, FoundIsKept, Moved, CommittedAtoms,
              CommittedAccrued, Idle, Trading
<1>5. TraceInv'
  <2>1. Snapshots /\ LevelSnapshots
    BY DEF OrderInv, TraceInv
  <2>2. Snapshots'
    BY <1>1, <2>1 DEF Snapshots, FirstOfVault, FillsOf, Idle
  <2>3. LevelSnapshots'
    <3>1. CASE Idle
      BY <1>1, <3>1 DEF LevelSnapshots, Idle
    <3>2. CASE ~Idle
      BY <1>1, <2>1, <3>2, LevelSnapshotsKept
    <3>3. QED
      BY <3>1, <3>2
  <2>4. QED
    BY <2>2, <2>3 DEF TraceInv
<1>6. WalkInv'
  BY <1>1 DEF OrderInv, WalkInv, PassedAreSpent, FillsCameFirst, LeftIsCounted, LeftBefore, Spent,
              Takeable, Offered, InBook, Trading, StillLive, Idle
<1>7. QED
  BY <1>2, <1>3, <1>4, <1>5, <1>6 DEF OrderInv

\* Every step keeps the invariant, so it always holds.
LEMMA NextInv ==
    TypeOK /\ OrderInv /\ [Next]_vars => TypeOK' /\ OrderInv'
<1> SUFFICES ASSUME TypeOK, OrderInv, [Next]_vars
             PROVE  TypeOK' /\ OrderInv'
  OBVIOUS
<1>1. CASE RestStep
  BY <1>1, RestStepInv
<1>2. CASE Starts
  BY <1>2, StartSwapInv DEF Starts
<1>3. CASE SkipLevel
  BY <1>3, SkipLevelInv
<1>4. CASE FillLevel
  BY <1>4, FillLevelInv
<1>5. CASE Commit
  BY <1>5, CommitInv
<1>6. CASE SoftRevert
  BY <1>6, SoftRevertInv
<1>7. CASE UNCHANGED vars
  BY <1>7, StutterInv
<1>8. QED
  BY <1>1, <1>2, <1>3, <1>4, <1>5, <1>6, <1>7, NextSteps

LEMMA OrderInvHolds == Spec => [](TypeOK /\ OrderInv)
<1>1. Init => TypeOK /\ OrderInv
  BY InitInv
<1>2. QED
  BY <1>1, NextInv, PTL DEF Spec

------------------------------------------------------------------------------
(* What a swap trades on.                                                   *)

\* A swap takes current quotes only: the level's latest price, by the latest stamp,
\* strictly before its deadline in both clocks (swap.rs collects after it flushes, and
\* nothing is written between the collection and the walk).
THEOREM SwapsTakeCurrentQuotes == Spec => []FillsAreCurrent
<1>1. TypeOK /\ OrderInv => FillsAreCurrent
  <2> SUFFICES ASSUME TypeOK, OrderInv, ~Idle, NEW e \in swap.book
               PROVE  /\ e.price = LevelPrice(e.sector, swap.side, e.level)
                      /\ e.stamp = ref[e.sector].stamp
                      /\ \A d \in Domain :
                            LET span == ladder[e.sector][swap.side][e.level].span[d]
                            IN  span > 0 /\ now[d] < ref[e.sector].at[d] + span
    BY DEF FillsAreCurrent, FillsFollowLatestQuote, NothingOutlivesItsQuote
  <2>1. /\ e.sector \in Sectors /\ e.level \in Levels /\ swap.side \in Side
        /\ Standing(e)
    BY InProgress, WalkFields, EntryFields DEF OrderInv, QuoteInv, BookIsCurrent
  <2>2. ref[e.sector].price # Zero /\ ~ref[e.sector].flush /\ e.stamp = ref[e.sector].stamp
        /\ LevelOf(e).price = e.price /\ StillLive(LevelOf(e))
    BY <2>1 DEF Standing, Trading
  <2>3. /\ LevelOf(e).price = LevelPrice(e.sector, swap.side, e.level)
        /\ LevelOf(e).deadline = DeadlineFromQuote(e.sector, swap.side, e.level)
    BY <2>1, <2>2 DEF OrderInv, QuoteInv, QuotesAreCurrent, LevelOf
  <2>4. ASSUME NEW d \in Domain
        PROVE  LET span == ladder[e.sector][swap.side][e.level].span[d]
               IN  span > 0 /\ now[d] < ref[e.sector].at[d] + span
    <3> DEFINE span == ladder[e.sector][swap.side][e.level].span[d]
    <3>1. /\ span \in Nat /\ ref[e.sector].at[d] \in Nat /\ now[d] \in Nat
      BY <2>1, Fields, LadderFields DEF TypeOK, Time
    <3>2. now[d] < (IF span = 0 THEN 0 ELSE ref[e.sector].at[d] + span)
      BY <2>2, <2>3 DEF StillLive, DeadlineFromQuote
    <3>3. QED
      BY <3>1, <3>2
  <2>5. QED
    BY <2>2, <2>3, <2>4
<1>2. QED
  BY <1>1, OrderInvHolds, PTL

------------------------------------------------------------------------------
(* What a flushed ladder offers.                                            *)

\* Sizes that are all zero offer nothing.
LEMMA ZeroSum ==
    ASSUME NEW f \in [Levels -> Nat], \A i \in Levels : f[i] = 0
    PROVE  SumOf(f) = 0
<1>1. ASSUME NEW c \in Cells(f)
      PROVE  FALSE
  <2>1. PICK i \in Levels : \E k \in 1 .. f[i] : c = <<i, k>>
    BY CellsMember
  <2>2. QED
    BY <2>1
<1>2. Cells(f) = {}
  BY <1>1
<1>3. QED
  BY <1>2, FS_EmptySet DEF SumOf

\* The sizes a flush computes add up to no more than the inventory they are shares of.
LEMMA LadderIsBacked ==
    ASSUME TypeOK, NEW s \in Sectors, NEW side \in Side
    PROVE  SumOf([i \in Levels |-> LevelSize(s, side, i)]) <= atoms[OutLeg(side)][s]
<1> DEFINE amount == atoms[OutLeg(side)][s]
           bps == [i \in Levels |-> ladder[s][side][i].bps]
           sizes == [i \in Levels |-> LevelSize(s, side, i)]
<1>1. /\ amount \in Nat /\ bps \in [Levels -> Nat] /\ IsFiniteSet(Levels)
      /\ BPS \in Nat /\ BPS > 0 /\ sizes \in [Levels -> Nat]
  BY LegsOfSide, Fields, LadderFields, LevelTypes, Sizes, UnitAssumption
<1>2. CASE SideSizesOk(s, side)
  <2>1. SumOf(bps) <= BPS
    BY <1>2 DEF SideSizesOk
  <2>2. sizes = [i \in Levels |-> (amount * bps[i]) \div BPS]
    BY <1>2 DEF LevelSize
  <2> HIDE DEF amount, bps, sizes
  <2>3. SumOf([i \in Levels |-> (amount * bps[i]) \div BPS]) <= amount
    BY <1>1, <2>1, QuotasFit
  <2>4. QED
    BY <2>2, <2>3 DEF sizes, amount
<1>3. CASE ~SideSizesOk(s, side)
  <2>1. \A i \in Levels : sizes[i] = 0
    BY <1>3 DEF LevelSize
  <2> HIDE DEF sizes
  <2>2. SumOf(sizes) = 0
    BY <1>1, <2>1, ZeroSum
  <2>3. QED
    BY <1>1, <2>2 DEF sizes
<1>4. QED
  BY <1>2, <1>3

\* A swap that starts flushes such a ladder, and none of what it flushed has moved.
LEMMA StartSwapBacks ==
    ASSUME TypeOK, Starts
    PROVE  FreshLaddersAreBacked'
<1>1. PICK side \in Side, a \in Amounts, limit \in Limits, min \in MinOuts, p \in PlatformFees :
         StartSwap(side, a, limit, min, p)
  BY DEF Starts
<1>2. ASSUME NEW s \in Flushed, NEW d \in Side
      PROVE  SumOf([i \in Levels |-> remaining'[s][d][i].size]) <= atoms'[OutLeg(d)][s]
  <2>1. s \in Sectors
    BY DEF Flushed
  <2>2. remaining'[s] = Materialized(s) /\ atoms' = atoms
    BY <1>1, <2>1, StartSwapDetail DEF Met
  <2>3. \A i \in Levels : remaining'[s][d][i].size = LevelSize(s, d, i)
    BY <2>1, <2>2, MaterializedFields
  <2>4. [i \in Levels |-> remaining'[s][d][i].size] = [i \in Levels |-> LevelSize(s, d, i)]
    BY <2>3
  <2>5. QED
    BY <2>1, <2>2, <2>4, LadderIsBacked
<1>3. swap'.flushed = Flushed
  BY <1>1, StartSwapDetail
<1>4. QED
  BY <1>2, <1>3 DEF FreshLaddersAreBacked

\* A fill takes the same from the level as from the vault, and only adds to the other leg.
LEMMA FillLevelBacks ==
    ASSUME TypeOK, OrderInv, FillLevel, FreshLaddersAreBacked
    PROVE  FreshLaddersAreBacked'
<1>1. ~Idle /\ WalkGoesOn /\ swap'.flushed = swap.flushed /\ swap'.side = swap.side
  BY FillLevelDetail
<1>2. /\ Front.sector \in Sectors /\ Front.level \in Levels /\ swap.side \in Side
      /\ FillOut(Front) \in Nat /\ FillIn(Front) \in Nat /\ Standing(Front)
      /\ FillOut(Front) <= Front.size /\ swap.flushed \in SUBSET Sectors
      /\ FillOut(Front) <= atoms[OutLeg(swap.side)][Front.sector]
  BY <1>1, FrontOfBook, InProgress, WalkFields
<1>3. ASSUME NEW s \in swap.flushed, NEW d \in Side
      PROVE  SumOf([i \in Levels |-> remaining'[s][d][i].size]) <= atoms'[OutLeg(d)][s]
  <2> DEFINE f == [i \in Levels |-> remaining[s][d][i].size]
             g == [i \in Levels |-> remaining'[s][d][i].size]
  <2>1. s \in Sectors /\ OutLeg(d) \in Leg /\ SumOf(f) <= atoms[OutLeg(d)][s]
    BY <1>1, <1>2, LegsOfSide DEF FreshLaddersAreBacked
  <2>2. f \in [Levels -> Nat] /\ IsFiniteSet(Levels) /\ SumOf(f) \in Nat
    <3>1. f \in [Levels -> Nat] /\ IsFiniteSet(Levels)
      BY <2>1, Fields, Sizes
    <3>2. QED
      BY <3>1, SumType
  <2>3. CASE s # Front.sector
    <3>1. \A i \in Levels : remaining'[s][d][i] = remaining[s][d][i]
      BY <2>1, <2>3, FillLevelMoves
    <3>2. g = f
      BY <3>1
    <3>3. atoms'[OutLeg(d)][s] = atoms[OutLeg(d)][s]
      BY <2>1, <2>3, FillLevelMoves
    <3> HIDE DEF f
    <3>4. QED
      BY <2>1, <3>2, <3>3
  <2>4. CASE s = Front.sector /\ d # swap.side
    <3>1. \A i \in Levels : remaining'[s][d][i] = remaining[s][d][i]
      BY <2>1, <2>4, FillLevelMoves
    <3>2. g = f
      BY <3>1
    <3>3. OutLeg(d) = InLeg(swap.side)
      BY <1>2, <2>4 DEF Side, OutLeg, InLeg
    <3>4. atoms'[InLeg(swap.side)]
            = [atoms[InLeg(swap.side)] EXCEPT ![s] = atoms[InLeg(swap.side)][s] + FillIn(Front)]
      BY <2>4, FillLevelMoves
    <3>5. atoms[InLeg(swap.side)] \in [Sectors -> Nat] /\ atoms[InLeg(swap.side)][s] \in Nat
      BY <2>1, <3>3, Fields
    <3>6. atoms'[OutLeg(d)][s] = atoms[OutLeg(d)][s] + FillIn(Front)
      BY <2>1, <3>3, <3>4, <3>5
    <3> HIDE DEF f, g
    <3>7. SumOf(g) <= atoms'[OutLeg(d)][s]
      BY <1>2, <2>1, <2>2, <3>2, <3>3, <3>5, <3>6
    <3>8. QED
      BY <3>7 DEF g
  <2>5. CASE s = Front.sector /\ d = swap.side
    <3>1. f[Front.level] = Front.size /\ Front.size \in Nat
      <4>1. remaining[s][d][Front.level].size = Front.size
        BY <1>2, <2>5 DEF Standing, LevelOf
      <4>2. QED
        BY <1>2, <2>2, <4>1
    <3>2. g = [f EXCEPT ![Front.level] = Front.size - FillOut(Front)]
      <4>1. ASSUME NEW i \in Levels
            PROVE  remaining'[s][d][i].size
                     = IF i = Front.level THEN Front.size - FillOut(Front)
                       ELSE remaining[s][d][i].size
        BY <1>2, <2>1, <2>5, FillLevelMoves
      <4>2. QED
        BY <4>1
    <3>3. atoms'[OutLeg(d)]
            = [atoms[OutLeg(d)] EXCEPT ![s] = atoms[OutLeg(d)][s] - FillOut(Front)]
      BY <2>5, FillLevelMoves
    <3>4. atoms[OutLeg(d)] \in [Sectors -> Nat] /\ atoms[OutLeg(d)][s] \in Nat
      BY <2>1, Fields
    <3>5. atoms'[OutLeg(d)][s] = atoms[OutLeg(d)][s] - FillOut(Front)
      BY <2>1, <3>3, <3>4
    <3> HIDE DEF f, g
    <3>6. Front.size - FillOut(Front) \in Nat
      BY <1>2, <3>1
    <3>7. SumOf(g) = SumOf(f) - Front.size + (Front.size - FillOut(Front))
      <4> DEFINE j == Front.level
                 left == Front.size - FillOut(Front)
      <4>1. j \in Levels /\ left \in Nat /\ f[j] = Front.size
            /\ g = [f EXCEPT ![j] = left]
        BY <1>2, <3>1, <3>2, <3>6
      <4> HIDE DEF j, left
      <4>2. SumOf([f EXCEPT ![j] = left]) = SumOf(f) - f[j] + left
        BY <2>2, <4>1, SumExcept
      <4>3. QED
        BY <4>1, <4>2 DEF left
    <3>8. SumOf(g) <= atoms'[OutLeg(d)][s]
      BY <1>2, <2>1, <2>2, <3>1, <3>4, <3>5, <3>7
    <3>9. QED
      BY <3>8 DEF g
  <2>6. QED
    BY <2>3, <2>4, <2>5
<1>4. QED
  BY <1>1, <1>3 DEF FreshLaddersAreBacked

\* A ladder just flushed offers no more than the vault holds, whatever sizes its leader
\* wrote, and no fill of the same swap changes that (vault.rs sums the shares of a side
\* in bps before it multiplies, and rounds each size down).
THEOREM FlushedLaddersAreBacked == Spec => []FreshLaddersAreBacked
<1>1. Init => FreshLaddersAreBacked
  BY DEF Init, FreshLaddersAreBacked, Idle
<1>2. TypeOK /\ OrderInv /\ FreshLaddersAreBacked /\ [Next]_vars => FreshLaddersAreBacked'
  <2> SUFFICES ASSUME TypeOK, OrderInv, FreshLaddersAreBacked, [Next]_vars
               PROVE  FreshLaddersAreBacked'
    OBVIOUS
  <2>1. CASE RestStep
    BY <2>1, RestStepsAreIdle DEF FreshLaddersAreBacked, Idle
  <2>2. CASE Starts
    BY <2>2, StartSwapBacks
  <2>3. CASE SkipLevel
    <3>1. /\ ~Idle /\ swap' = [swap EXCEPT !.book = @ \ {Front}]
          /\ remaining' = remaining /\ atoms' = atoms
      BY <2>3 DEF SkipLevel
    <3>2. swap'.flushed = swap.flushed
      BY <3>1, InProgress DEF Walk
    <3>3. QED
      BY <3>1, <3>2 DEF FreshLaddersAreBacked
  <2>4. CASE FillLevel
    BY <2>4, FillLevelBacks
  <2>5. CASE Commit \/ SoftRevert
    BY <2>5 DEF Commit, SoftRevert, FreshLaddersAreBacked, Idle
  <2>6. CASE UNCHANGED vars
    BY <2>6 DEF vars, FreshLaddersAreBacked, Idle
  <2>7. QED
    BY <2>1, <2>2, <2>3, <2>4, <2>5, <2>6, NextSteps
<1>3. QED
  BY <1>1, <1>2, OrderInvHolds, PTL DEF Spec

------------------------------------------------------------------------------
(* Priority.                                                                *)

\* What could not be paid for once cannot be later: sizes and inventory shrink.
LEMMA SpentStays ==
    ASSUME NEW side \in Side, NEW p \in Nat, p # 0, NEW l \in Nat, NEW q \in Nat, NEW a \in Nat,
           NEW r \in Nat, r <= q, NEW b \in Nat, b <= a
    PROVE  /\ InputFor(side, p, Smallest(Smallest(r, b), OutputFor(side, p, l))) \in Nat
           /\ InputFor(side, p, Smallest(Smallest(r, b), OutputFor(side, p, l)))
                <= InputFor(side, p, Smallest(Smallest(q, a), OutputFor(side, p, l)))
<1>1. OutputFor(side, p, l) \in Nat
  BY FillTypes
<1> DEFINE x == Smallest(Smallest(r, b), OutputFor(side, p, l))
           y == Smallest(Smallest(q, a), OutputFor(side, p, l))
<1>2. x \in Nat /\ y \in Nat /\ x <= y
  BY <1>1 DEF Smallest
<1> HIDE DEF x, y
<1>3. InputFor(side, p, x) <= InputFor(side, p, y) /\ InputFor(side, p, x) \in Nat
  BY <1>2, FillTypes, FillsGrow
<1>4. QED
  BY <1>3 DEF x, y

\* What the taker had left before each fill is an amount.
ChangeIsAnAmount == ~Idle => \A k \in DOMAIN swap.fills : LeftBefore(k) \in Nat
\* The invariant behind price and time priority, on top of OrderInv.
PriorityInv == NobodyIsTradedThrough /\ ChangeIsAnAmount

\* The level a quote would put in the book, as matching orders it.
Rival(s, i) == [price |-> remaining[s][swap.side][i].price, stamp |-> ref[s].stamp,
                sector |-> s, level |-> i]
\* Fill k passed over a level that goes first and could give the taker something.
TradedPast(k) ==
    \E s \in Sectors, i \in Levels :
        /\ Offered(s, i) /\ GoesFirst(swap.side, Rival(s, i), swap.fills[k].of)
        /\ ~Spent(s, i, LeftBefore(k))

\* Priority as the property states it, from fills that traded past nobody.
LEMMA TradedPastNobody ==
    ASSUME ~Idle
    PROVE  NobodyIsTradedThrough <=> \A k \in DOMAIN swap.fills : ~TradedPast(k)
  BY DEF NobodyIsTradedThrough, TradedPast, Rival, Offered, Spent, Takeable

\* A level that goes before the front is not in the book: it was passed.
LEMMA RivalsWerePassed ==
    ASSUME TypeOK, OrderInv, ~Idle, WalkGoesOn, NEW s \in Sectors, NEW i \in Levels,
           GoesFirst(swap.side, Rival(s, i), Front)
    PROVE  ~InBook(s, i)
<1> SUFFICES ASSUME NEW f \in swap.book, f.sector = s, f.level = i
             PROVE  FALSE
  BY DEF InBook
<1>1. /\ Front \in swap.book /\ First(Front) /\ swap.side \in Side
      /\ swap.book \in SUBSET Entry
  BY FrontOfBook, InProgress, WalkFields
<1>2. Standing(f) /\ f \in Entry
  BY <1>1 DEF OrderInv, QuoteInv, BookIsCurrent
<1>3. f.price = remaining[s][swap.side][i].price /\ f.stamp = ref[s].stamp
  BY <1>2 DEF Standing, LevelOf
<1>4. GoesFirst(swap.side, f, Front)
  BY <1>3 DEF GoesFirst, Rival
<1>5. CASE f = Front
  BY <1>1, <1>2, <1>4, <1>5, GoesFirstIsAsymmetric
<1>6. CASE f # Front
  <2>1. GoesFirst(swap.side, Front, f)
    BY <1>1, <1>6 DEF First
  <2>2. Front \in Entry
    BY <1>1
  <2>3. QED
    BY <1>1, <1>2, <1>4, <2>1, <2>2, GoesFirstIsAsymmetric
<1>7. QED
  BY <1>5, <1>6

\* A fill is made when everything that goes before it is spent, and spends no more later.
LEMMA FillLevelKeepsPriority ==
    ASSUME TypeOK, OrderInv, FillLevel, PriorityInv
    PROVE  PriorityInv'
<1> DEFINE n == Len(swap.fills)
           out == OutLeg(swap.side)
<1>1. /\ ~Idle /\ WalkGoesOn /\ swap'.side = swap.side /\ swap'.amountIn = swap.amountIn
      /\ swap'.fills = Append(swap.fills, FillOfFront) /\ FillOfFront \in Fill
      /\ FillOfFront.of = Front /\ ref' = ref
  BY FillLevelDetail DEF FillOfFront
<1>2. /\ swap.fills \in Seq(Fill) /\ swap.side \in Side /\ swap.left \in Nat /\ out \in Leg
  BY <1>1, InProgress, WalkFields, LegsOfSide
<1>3. /\ n \in Nat /\ DOMAIN swap.fills = 1 .. n /\ DOMAIN swap'.fills = 1 .. n + 1
      /\ \A j \in 1 .. n : swap'.fills[j] = swap.fills[j]
      /\ swap'.fills[n + 1] = FillOfFront
  BY <1>1, <1>2, AppendFacts
<1>4. ~Idle'
  BY FillLevelQuotes
<1> HIDE DEF n
<1>5. ASSUME NEW k \in 1 .. n + 1
      PROVE  /\ swap'.amountIn - SumOf([j \in 1 .. k - 1 |-> swap'.fills[j].in + swap'.fills[j].residue])
                  = LeftBefore(k)
             /\ LeftBefore(k) \in Nat
  <2>1. \A j \in 1 .. k - 1 : j \in 1 .. n
    BY <1>3
  <2>2. [j \in 1 .. k - 1 |-> swap'.fills[j].in + swap'.fills[j].residue]
          = [j \in 1 .. k - 1 |-> swap.fills[j].in + swap.fills[j].residue]
    BY <1>3, <2>1
  <2>3. CASE k \in 1 .. n
    <3>1. LeftBefore(k) \in Nat
      BY <1>1, <1>3, <2>3 DEF PriorityInv, ChangeIsAnAmount
    <3>2. QED
      BY <1>1, <2>2, <3>1 DEF LeftBefore
  <2>4. CASE k = n + 1
    <3>1. LeftBefore(k) = swap.left
      BY <1>1, <2>4 DEF OrderInv, WalkInv, LeftIsCounted, n
    <3>2. QED
      BY <1>1, <1>2, <2>2, <3>1 DEF LeftBefore
  <2>5. QED
    BY <1>3, <2>3, <2>4
<1>6. ChangeIsAnAmount'
  <2> SUFFICES ASSUME NEW k \in 1 .. n + 1
               PROVE  swap'.amountIn
                        - SumOf([j \in 1 .. k - 1 |-> swap'.fills[j].in + swap'.fills[j].residue]) \in Nat
    BY <1>3 DEF ChangeIsAnAmount, LeftBefore
  <2>1. QED
    BY <1>5
<1>7. ASSUME NEW k \in 1 .. n + 1, NEW s \in Sectors, NEW i \in Levels,
             Offered(s, i), GoesFirst(swap.side, Rival(s, i), swap'.fills[k].of)
      PROVE  Spent(s, i, LeftBefore(k))
  <2>1. CASE k \in 1 .. n
    <3>1. ~TradedPast(k) /\ swap'.fills[k] = swap.fills[k]
      BY <1>1, <1>3, <2>1, TradedPastNobody DEF PriorityInv
    <3>2. QED
      BY <1>7, <3>1 DEF TradedPast
  <2>2. CASE k = n + 1
    <3>1. GoesFirst(swap.side, Rival(s, i), Front)
      BY <1>1, <1>3, <1>7, <2>2
    <3>2. ~InBook(s, i)
      BY <1>1, <3>1, RivalsWerePassed
    <3>3. Spent(s, i, swap.left)
      BY <1>1, <1>7, <3>2 DEF OrderInv, WalkInv, PassedAreSpent
    <3>4. LeftBefore(k) = swap.left
      BY <1>1, <2>2 DEF OrderInv, WalkInv, LeftIsCounted, n
    <3>5. QED
      BY <3>3, <3>4
  <2>3. QED
    BY <1>3, <2>1, <2>2
<1>8. ASSUME NEW k \in 1 .. n + 1, NEW s \in Sectors, NEW i \in Levels,
             Offered(s, i)', GoesFirst(swap'.side, Rival(s, i)', swap'.fills[k].of)
      PROVE  Spent(s, i, LeftBefore(k))'
  <2>1. /\ Offered(s, i) /\ Rival(s, i)' = Rival(s, i)
        /\ remaining'[s][swap.side][i].price = remaining[s][swap.side][i].price
    <3>1. remaining'[s][swap.side][i].price = remaining[s][swap.side][i].price
      BY <1>2, FillLevelMoves
    <3>2. Offered(s, i)
      BY <1>8, FillLevelQuotes
    <3>3. QED
      BY <1>1, <3>1, <3>2 DEF Rival
  <2>2. Spent(s, i, LeftBefore(k))
    BY <1>1, <1>7, <1>8, <2>1
  <2> DEFINE p == remaining[s][swap.side][i].price
             q == remaining[s][swap.side][i].size
             r == remaining'[s][swap.side][i].size
             a == atoms[out][s]
             b == atoms'[out][s]
             l == LeftBefore(k)
  <2>3. p \in Nat /\ p # 0 /\ q \in Nat /\ a \in Nat /\ l \in Nat
    BY <1>2, <1>5, <2>1, Fields DEF Offered, Zero
  <2>4. r \in Nat /\ r <= q /\ b \in Nat /\ b <= a
    <3>1. /\ FillOut(Front) \in Nat /\ FillOut(Front) <= Front.size /\ Standing(Front)
          /\ FillOut(Front) <= atoms[out][Front.sector] /\ Front.sector \in Sectors
          /\ Front.level \in Levels
      BY <1>1, FrontOfBook
    <3>2. r \in Nat /\ r <= q
      <4>1. CASE s = Front.sector /\ i = Front.level
        <5>1. r = Front.size - FillOut(Front) /\ q = Front.size
          BY <3>1, <4>1, FillLevelMoves DEF Standing, LevelOf
        <5>2. QED
          BY <2>3, <3>1, <5>1
      <4>2. CASE ~(s = Front.sector /\ i = Front.level)
        BY <1>2, <2>3, <4>2, FillLevelMoves
      <4>3. QED
        BY <4>1, <4>2
    <3>3. b \in Nat /\ b <= a
      <4>1. CASE s = Front.sector
        <5>1. atoms'[out] = [atoms[out] EXCEPT ![s] = atoms[out][s] - FillOut(Front)]
          BY <4>1, FillLevelMoves
        <5>2. atoms[out] \in [Sectors -> Nat]
          BY <1>2, Fields
        <5>3. QED
          BY <2>3, <3>1, <4>1, <5>1, <5>2
      <4>2. CASE s # Front.sector
        BY <1>2, <2>3, <4>2, FillLevelMoves
      <4>3. QED
        BY <4>1, <4>2
    <3>4. QED
      BY <3>2, <3>3
  <2>5. InputFor(swap.side, p, Smallest(Smallest(q, a), OutputFor(swap.side, p, l))) = 0
    BY <2>2 DEF Spent, Takeable
  <2> HIDE DEF p, q, r, a, b, l
  <2>6. InputFor(swap.side, p, Smallest(Smallest(r, b), OutputFor(swap.side, p, l))) = 0
    <3> DEFINE after  == InputFor(swap.side, p, Smallest(Smallest(r, b), OutputFor(swap.side, p, l)))
               former == InputFor(swap.side, p, Smallest(Smallest(q, a), OutputFor(swap.side, p, l)))
    <3>1. after \in Nat /\ after <= former
      BY <1>2, <2>3, <2>4, SpentStays
    <3>2. former = 0
      BY <2>5
    <3> HIDE DEF after, former
    <3>3. after = 0
      BY <3>1, <3>2
    <3>4. QED
      BY <3>3 DEF after
  <2>7. LeftBefore(k)' = l
    BY <1>5 DEF LeftBefore, l
  <2>8. remaining'[s][swap'.side][i].price = p
    BY <1>1, <2>1 DEF p
  <2>9. QED
    BY <1>1, <2>6, <2>7, <2>8 DEF Spent, Takeable, r, b
<1>9. NobodyIsTradedThrough'
  BY <1>3, <1>4, <1>8 DEF NobodyIsTradedThrough, Rival, Offered, Spent, Takeable
<1>10. QED
  BY <1>6, <1>9 DEF PriorityInv

\* Skipping a level that gives the taker nothing passes nobody over.
LEMMA SkipLevelKeepsPriority ==
    ASSUME TypeOK, OrderInv, SkipLevel, PriorityInv
    PROVE  PriorityInv'
<1>1. /\ ~Idle /\ swap' = [swap EXCEPT !.book = swap.book \ {Front}]
      /\ UNCHANGED <<phase, ref, remaining, atoms, now>>
  BY DEF SkipLevel, vaultVars
<1>2. swap \in Walk
  BY <1>1, InProgress
<1>3. /\ swap'.side = swap.side /\ swap'.amountIn = swap.amountIn /\ swap'.fills = swap.fills
  BY <1>1, <1>2 DEF Walk
<1>4. ChangeIsAnAmount'
  BY <1>1, <1>3 DEF PriorityInv, ChangeIsAnAmount, LeftBefore
<1>5. NobodyIsTradedThrough'
  BY <1>1, <1>3 DEF PriorityInv, NobodyIsTradedThrough, LeftBefore, Trading, StillLive
<1>6. QED
  BY <1>4, <1>5 DEF PriorityInv

\* Stamps decide time priority: they differ, and the next one is later than all.
LEMMA StampsOrder ==
    ASSUME TypeOK, OrderInv
    PROVE  StampsOrderQuotes
<1>1. Given <= nonce /\ Given \in Nat /\ nonce \in Nat
  <2>1. CASE Idle
    BY <2>1, Fields DEF Given
  <2>2. CASE ~Idle
    BY <2>2, Fields, InProgress, WalkFields DEF Given, OrderInv, MoneyInv, NonceFits
  <2>3. QED
    BY <2>1, <2>2
<1>2. ASSUME NEW s \in Sectors, NEW t \in Sectors, Quoting(s)
      PROVE  /\ ref[s].stamp < nonce
             /\ Quoting(t) /\ s # t => ref[s].stamp # ref[t].stamp
  <2>1. ref[s].stamp \in Nat /\ ref[s].stamp < Given
    BY <1>2, Fields DEF OrderInv, QuoteInv, StampsAreSpent
  <2>2. QED
    BY <1>1, <1>2, <2>1 DEF OrderInv, QuoteInv, StampsAreSpent
<1>3. QED
  BY <1>2 DEF StampsOrderQuotes

\* Price comes first, then time: no fill is made while a level that goes before it has
\* anything left that the taker could have paid for, and stamps order all quotes although
\* soft reverts give nonces back (the sort and the walk of swap.rs).
THEOREM NobodyJumpsTheQueue == Spec => []PriceTimePriority
<1>1. Init => PriorityInv
  BY DEF Init, PriorityInv, NobodyIsTradedThrough, ChangeIsAnAmount, Idle
<1>2. TypeOK /\ OrderInv /\ PriorityInv /\ [Next]_vars => PriorityInv'
  <2> SUFFICES ASSUME TypeOK, OrderInv, PriorityInv, [Next]_vars
               PROVE  PriorityInv'
    OBVIOUS
  <2>1. ASSUME Idle'
        PROVE  PriorityInv'
    BY <2>1 DEF PriorityInv, NobodyIsTradedThrough, ChangeIsAnAmount
  <2>2. CASE RestStep
    BY <2>1, <2>2, RestStepsAreIdle DEF Idle
  <2>3. CASE Starts
    <3>1. swap'.fills = << >>
      BY <2>3, StartSwapDetail DEF Starts
    <3>2. QED
      BY <3>1 DEF PriorityInv, NobodyIsTradedThrough, ChangeIsAnAmount
  <2>4. CASE SkipLevel
    BY <2>4, SkipLevelKeepsPriority
  <2>5. CASE FillLevel
    BY <2>5, FillLevelKeepsPriority
  <2>6. CASE Commit \/ SoftRevert
    BY <2>1, <2>6 DEF Commit, SoftRevert, Idle
  <2>7. CASE UNCHANGED vars
    BY <2>7 DEF vars, vaultVars, PriorityInv, NobodyIsTradedThrough, ChangeIsAnAmount, LeftBefore,
                Trading, StillLive, Idle
  <2>8. QED
    BY <2>2, <2>3, <2>4, <2>5, <2>6, <2>7, NextSteps
<1>3. TypeOK /\ OrderInv /\ PriorityInv => PriceTimePriority
  BY StampsOrder DEF PriceTimePriority, PriorityInv
<1>4. QED
  BY <1>1, <1>2, <1>3, OrderInvHolds, PTL DEF Spec

------------------------------------------------------------------------------
(* The taker's terms, and the soft revert.                                  *)

\* What the fills were priced at, while change is left, is all that was used up; once
\* there is none, the rest is change too small for one more atom at the last price.
ChangeIsSmall(change) ==
    OutputFor(swap.side, LastPrice, change) <= 1 \/ InputFor(swap.side, LastPrice, 1) = 0
\* What a walk charges is what its fills cost, and change that buys at most an atom.
TermsInv ==
    ~Idle => /\ PricedIn \in Nat /\ PricedIn + swap.left <= swap.amountIn
             /\ swap.left > 0 => PricedIn + swap.left = swap.amountIn
             /\ swap.fills # << >> =>
                   /\ swap.left < swap.amountIn
                   /\ ChangeIsSmall(swap.amountIn - swap.left - PricedIn)

\* The change left once nothing more can be bought is worth at most one atom, unless an
\* atom costs less than one.
LEMMA ResidueIsSmall ==
    ASSUME NEW side \in Side, NEW price \in Nat, price # 0, NEW left \in Nat,
           NEW o \in Nat, o = OutputFor(side, price, left),
           NEW c \in Nat, c = InputFor(side, price, o), c <= left
    PROVE  OutputFor(side, price, left - c) <= 1 \/ InputFor(side, price, 1) = 0
<1>1. ASSUME NEW p \in Nat, p > 0, NEW q \in Nat, q > 0,
             o = (left * p) \div q, c = (o * q) \div p
      PROVE  ((left - c) * p) \div q <= 1 \/ (1 * q) \div p = 0
  <2>1. left * p \in Nat /\ o * q \in Nat /\ c * p \in Nat /\ (left - c) * p \in Nat
    BY TimesType, <1>1
  <2>2. left * p < o * q + q
    <3>1. left * p = o * q + ((left * p) % q) /\ (left * p) % q \in 0 .. q - 1
      BY <1>1, <2>1, DivMod
    <3>2. QED
      BY <1>1, <2>1, <3>1
  <2>3. o * q < c * p + p
    <3>1. o * q = c * p + ((o * q) % p) /\ (o * q) % p \in 0 .. p - 1
      BY <1>1, <2>1, DivMod
    <3>2. QED
      BY <1>1, <2>1, <3>1
  <2>4. (left - c) * p = left * p - c * p
    <3> DEFINE r == left - c
    <3>1. r \in Nat /\ left = c + r
      OBVIOUS
    <3> HIDE DEF r
    <3>2. (c + r) * p = c * p + r * p /\ r * p \in Nat
      BY <1>1, <3>1
    <3>3. left * p = c * p + r * p
      BY <3>1, <3>2
    <3>4. r * p = left * p - c * p
      BY <2>1, <3>2, <3>3
    <3>5. QED
      BY <3>4 DEF r
  <2>5. (left - c) * p < q + p
    BY <1>1, <2>1, <2>2, <2>3, <2>4
  <2>6. CASE q < p
    <3>1. q = (q \div p) * p + (q % p) /\ q % p \in 0 .. p - 1 /\ q \div p \in Nat
      BY <1>1, DivMod
    <3>2. q \div p = 0
      BY <1>1, <2>6
    <3>3. 1 * q = q
      BY <1>1
    <3>4. QED
      BY <3>2, <3>3
  <2>7. CASE p <= q
    <3> DEFINE x == (left - c) * p
               d == x \div q
    <3>1. x = d * q + (x % q) /\ x % q \in 0 .. q - 1 /\ d \in Nat
      BY <1>1, <2>1, DivMod
    <3>2. x < q + q
      BY <1>1, <2>1, <2>5, <2>7
    <3> HIDE DEF x, d
    <3>3. ASSUME d >= 2
          PROVE  FALSE
      <4>1. 2 * q <= d * q
        BY <1>1, <3>1, <3>3, TimesMono
      <4>2. x % q \in Nat
        BY <1>1, <3>1
      <4>3. d * q \in Nat /\ 2 * q = q + q
        BY <1>1, <3>1, TimesType
      <4>4. QED
        BY <1>1, <3>1, <3>2, <4>1, <4>2, <4>3
    <3>4. d <= 1
      BY <3>1, <3>3
    <3>5. QED
      BY <3>4 DEF d, x
  <2>8. QED
    BY <1>1, <2>6, <2>7
<1>2. CASE side = "ask"
  <2>1. o = (left * PriceOne) \div price /\ c = (o * price) \div PriceOne
    BY <1>2 DEF OutputFor, InputFor, QuoteForBase, BaseForQuote
  <2>2. PriceOne \in Nat /\ PriceOne > 0 /\ price > 0
    BY UnitAssumption
  <2>3. ((left - c) * PriceOne) \div price <= 1 \/ (1 * price) \div PriceOne = 0
    BY <1>1, <2>1, <2>2
  <2>4. QED
    BY <1>2, <2>3 DEF OutputFor, InputFor, QuoteForBase, BaseForQuote
<1>3. CASE side # "ask"
  <2>1. o = (left * price) \div PriceOne /\ c = (o * PriceOne) \div price
    BY <1>3 DEF OutputFor, InputFor, QuoteForBase, BaseForQuote
  <2>2. PriceOne \in Nat /\ PriceOne > 0 /\ price > 0
    BY UnitAssumption
  <2>3. ((left - c) * price) \div PriceOne <= 1 \/ (1 * PriceOne) \div price = 0
    BY <1>1, <2>1, <2>2
  <2>4. QED
    BY <1>3, <2>3 DEF OutputFor, InputFor, QuoteForBase, BaseForQuote
<1>4. QED
  BY <1>2, <1>3

\* A fill charges what it costs, and the change only when it uses up the budget.
LEMMA FillLevelKeepsTerms ==
    ASSUME TypeOK, OrderInv, FillLevel, TermsInv
    PROVE  TermsInv'
<1> DEFINE n == Len(swap.fills)
           f == [k \in 1 .. n |-> swap.fills[k].in]
           g == [k \in 1 .. n + 1 |-> swap'.fills[k].in]
<1>1. /\ ~Idle /\ WalkGoesOn /\ swap'.side = swap.side /\ swap'.amountIn = swap.amountIn
      /\ swap'.left = swap.left - FillIn(Front) - Residue(Front)
      /\ swap'.fills = Append(swap.fills, FillOfFront) /\ FillOfFront \in Fill
      /\ FillOfFront.of = Front /\ FillOfFront.in = FillIn(Front) /\ FillIn(Front) > 0
      /\ swap.left > 0
  BY FillLevelDetail DEF FillOfFront, WalkGoesOn
<1>2. /\ swap.fills \in Seq(Fill) /\ swap.side \in Side /\ swap.left \in Nat
      /\ swap.amountIn \in Nat
  BY <1>1, InProgress, WalkFields
<1>3. /\ n \in Nat /\ DOMAIN swap.fills = 1 .. n /\ DOMAIN swap'.fills = 1 .. n + 1
      /\ \A j \in 1 .. n : swap'.fills[j] = swap.fills[j]
      /\ swap'.fills[n + 1] = FillOfFront /\ Len(swap'.fills) = n + 1
  BY <1>1, <1>2, AppendFacts
<1>4. /\ FillIn(Front) \in Nat /\ Residue(Front) \in Nat /\ FillOut(Front) \in Nat
      /\ FillIn(Front) + Residue(Front) <= swap.left
      /\ Front.price \in Nat /\ Front.price # 0
  BY <1>1, FrontOfBook
<1> HIDE DEF n
<1>5. PricedIn = SumOf(f) /\ PricedIn' = SumOf(g)
  BY <1>3 DEF PricedIn
<1>6. /\ f \in [1 .. n -> Nat] /\ g \in [1 .. n + 1 -> Nat] /\ g[n + 1] = FillIn(Front)
      /\ \A j \in 1 .. n : g[j] = f[j]
  <2>1. ASSUME NEW j \in 1 .. n
        PROVE  swap.fills[j].in \in Nat /\ swap'.fills[j].in = swap.fills[j].in /\ j \in 1 .. n + 1
    <3>1. swap.fills[j] \in Fill
      BY <1>2, <1>3
    <3>2. swap.fills[j].in \in Nat
      BY <3>1 DEF Fill
    <3>3. swap'.fills[j] = swap.fills[j] /\ j \in 1 .. n + 1
      BY <1>3
    <3>4. QED
      BY <3>2, <3>3, Zenon
  <2>2. swap'.fills[n + 1].in = FillIn(Front) /\ n + 1 \in 1 .. n + 1
    BY <1>1, <1>3
  <2>3. \A j \in 1 .. n + 1 : j \in 1 .. n \/ j = n + 1
    BY <1>3
  <2>4. f \in [1 .. n -> Nat]
    BY <2>1
  <2>5. \A j \in 1 .. n + 1 : swap'.fills[j].in \in Nat
    BY <1>4, <2>1, <2>2, <2>3
  <2>6. QED
    BY <2>1, <2>2, <2>4, <2>5
<1> HIDE DEF f, g
<1>7. PricedIn' = PricedIn + FillIn(Front) /\ PricedIn \in Nat
  BY <1>3, <1>5, <1>6, SumOneMore
<1>8. PricedIn + swap.left = swap.amountIn
  BY <1>1 DEF TermsInv
<1>9. Residue(Front) = IF FillOut(Front) = Affordable(Front) THEN swap.left - FillIn(Front) ELSE 0
  BY DEF Residue
<1>10. /\ PricedIn' \in Nat /\ PricedIn' + swap'.left <= swap'.amountIn
       /\ (swap'.left > 0 => PricedIn' + swap'.left = swap'.amountIn)
       /\ swap'.left < swap'.amountIn
       /\ swap'.amountIn - swap'.left - PricedIn' = Residue(Front)
  <2> DEFINE i == FillIn(Front)
             r == Residue(Front)
             l == swap.left
             m == swap'.left
             p == PricedIn
  <2>1. /\ i \in Nat /\ i > 0 /\ r \in Nat /\ l \in Nat /\ p \in Nat /\ p + l = swap.amountIn
        /\ m = l - i - r /\ i + r <= l /\ swap'.amountIn = swap.amountIn
        /\ PricedIn' = p + i /\ (r = 0 \/ r = l - i)
    BY <1>1, <1>2, <1>4, <1>7, <1>8, <1>9
  <2> HIDE DEF i, r, l, m, p
  <2>2. /\ m \in Nat /\ m + i + r = l /\ p + i \in Nat
        /\ p + i + m <= p + l /\ (m > 0 => p + i + m = p + l)
        /\ m < p + l /\ (p + l) - m - (p + i) = r
    BY <2>1
  <2>3. QED
    BY <2>1, <2>2 DEF m, r
<1>11. LastPrice' = Front.price
  BY <1>1, <1>3 DEF LastPrice
<1>12. \/ OutputFor(swap.side, Front.price, Residue(Front)) <= 1
       \/ InputFor(swap.side, Front.price, 1) = 0
  <2>1. CASE FillOut(Front) = Affordable(Front)
    <3>1. /\ FillOut(Front) = OutputFor(swap.side, Front.price, swap.left)
          /\ FillIn(Front) = InputFor(swap.side, Front.price, FillOut(Front))
          /\ FillIn(Front) <= swap.left /\ Residue(Front) = swap.left - FillIn(Front)
      BY <1>2, <1>4, <1>9, <2>1 DEF Affordable, FillIn
    <3>2. QED
      BY <1>2, <1>4, <3>1, ResidueIsSmall
  <2>2. CASE FillOut(Front) # Affordable(Front)
    <3>1. Residue(Front) = 0
      BY <1>9, <2>2
    <3>2. OutputFor(swap.side, Front.price, 0) = 0
      BY <1>2, <1>4, NothingForNothing
    <3>3. QED
      BY <3>1, <3>2
  <2>3. QED
    BY <2>1, <2>2
<1>13. ChangeIsSmall(swap.amountIn - swap.left - PricedIn)'
  BY <1>1, <1>10, <1>11, <1>12 DEF ChangeIsSmall
<1>14. QED
  BY <1>10, <1>13 DEF TermsInv

\* The terms hold throughout every walk.
LEMMA TermsHold == Spec => []TermsInv
<1>1. Init => TermsInv
  BY DEF Init, TermsInv, Idle
<1>2. TypeOK /\ OrderInv /\ TermsInv /\ [Next]_vars => TermsInv'
  <2> SUFFICES ASSUME TypeOK, OrderInv, TermsInv, [Next]_vars
               PROVE  TermsInv'
    OBVIOUS
  <2>1. ASSUME Idle'
        PROVE  TermsInv'
    BY <2>1 DEF TermsInv
  <2>2. CASE RestStep
    BY <2>1, <2>2, RestStepsAreIdle DEF Idle
  <2>3. CASE Starts
    <3>1. /\ swap'.fills = << >> /\ swap'.left = swap'.amountIn /\ swap'.amountIn \in Nat
      BY <2>3, StartSwapDetail, WalkFields DEF Starts
    <3>2. PricedIn' = 0
      <4>1. DOMAIN [k \in DOMAIN swap'.fills |-> swap'.fills[k].in] = {}
        BY <3>1
      <4>2. PricedIn' = SumOf([k \in DOMAIN swap'.fills |-> swap'.fills[k].in])
        BY DEF PricedIn
      <4>3. QED
        BY <4>1, <4>2, NoSum
    <3>3. QED
      BY <3>1, <3>2 DEF TermsInv
  <2>4. CASE SkipLevel
    <3>1. ~Idle /\ swap' = [swap EXCEPT !.book = swap.book \ {Front}]
      BY <2>4 DEF SkipLevel
    <3>2. /\ swap'.side = swap.side /\ swap'.amountIn = swap.amountIn /\ swap'.left = swap.left
          /\ swap'.fills = swap.fills
      BY <3>1, InProgress DEF Walk
    <3>3. QED
      BY <3>1, <3>2 DEF TermsInv, ChangeIsSmall, PricedIn, LastPrice
  <2>5. CASE FillLevel
    BY <2>5, FillLevelKeepsTerms
  <2>6. CASE Commit \/ SoftRevert
    BY <2>1, <2>6 DEF Commit, SoftRevert, Idle
  <2>7. CASE UNCHANGED vars
    BY <2>7 DEF vars, TermsInv, ChangeIsSmall, PricedIn, LastPrice, Idle
  <2>8. QED
    BY <2>2, <2>3, <2>4, <2>5, <2>6, <2>7, NextSteps
<1>3. QED
  BY <1>1, <1>2, OrderInvHolds, PTL DEF Spec

\* A swap ends in a commit, which charges the taker, or in a soft revert, which does not.
LEMMA SettlingSteps ==
    ASSUME TypeOK, OrderInv, TermsInv, [Next]_vars, Settles
    PROVE  (Commit /\ ~Reverts) \/ (SoftRevert /\ Reverts)
<1>1. ~Idle /\ swap' = NoSwap
  BY DEF Settles
<1>2. ~UNCHANGED vars
  BY <1>1 DEF vars, Idle
<1>3. ~RestStep /\ ~Starts
  BY <1>1, RestStepsAreIdle DEF Starts, StartSwap
<1>4. ~SkipLevel
  <2> SUFFICES ASSUME SkipLevel
               PROVE  FALSE
    OBVIOUS
  <2>1. swap' = [swap EXCEPT !.book = swap.book \ {Front}] /\ swap \in Walk
    BY <1>1, InProgress DEF SkipLevel
  <2>2. swap'.side \in Side
    BY <2>1 DEF Walk
  <2>3. QED
    BY <1>1, <2>2 DEF NoSwap, Side
<1>5. ~FillLevel
  BY <1>1, FillLevelDetail, WalkFields
<1>6. CASE Commit
  <2>1. swap.fills # << >>
    BY <1>6 DEF Commit, Acceptable
  <2>2. /\ swap.side \in Side /\ swap.left \in Nat /\ swap.amountIn \in Nat
    BY <1>1, InProgress, WalkFields
  <2>3. Charged > 0 /\ Charged \in Nat
    BY <1>1, <2>1, <2>2 DEF TermsInv, Charged
  <2>4. treasury'[InLeg(swap.side)] = treasury[InLeg(swap.side)] + Charged
    <3>1. treasury' = [treasury EXCEPT ![InLeg(swap.side)] = @ + Charged,
                                      ![OutLeg(swap.side)] = @ - (NetOut + PlatformFee)]
      BY <1>6 DEF Commit
    <3>2. treasury \in [Leg -> Nat]
      BY Fields
    <3>3. QED
      BY <2>2, <3>1, <3>2, LegsOfSide
  <2>5. treasury[InLeg(swap.side)] \in Nat
    BY <2>2, Fields, LegsOfSide
  <2>6. treasury' # treasury
    BY <2>3, <2>4, <2>5
  <2>7. QED
    BY <1>6, <2>6 DEF Reverts
<1>7. CASE SoftRevert
  BY <1>7 DEF SoftRevert, Reverts, Settles
<1>8. QED
  BY <1>2, <1>3, <1>4, <1>5, <1>6, <1>7, NextSteps

\* A swap that misses its minimum, or fills nothing, leaves no trace: inventories, accrued
\* fees, the nonce and every quote are as it found them, and a ladder it flushed will be
\* flushed again (the undo log of swap.rs, replayed backwards).
THEOREM SoftRevertsLeaveNoTrace == Spec => SoftRevertLeavesNoTrace
<1>1. TypeOK /\ OrderInv /\ TermsInv /\ [Next]_vars =>
         [Settles /\ Reverts =>
             /\ atoms' = before.atoms /\ accrued' = before.accrued /\ nonce' = before.nonce
             /\ ref' = before.ref
             /\ \A s \in Sectors : ~ref'[s].flush => remaining'[s] = before.remaining[s]]_vars
  <2> SUFFICES ASSUME TypeOK, OrderInv, TermsInv, [Next]_vars, Settles, Reverts
               PROVE  /\ atoms' = before.atoms /\ accrued' = before.accrued
                      /\ nonce' = before.nonce /\ ref' = before.ref
                      /\ \A s \in Sectors : ~ref'[s].flush => remaining'[s] = before.remaining[s]
    OBVIOUS
  <2>1. SoftRevert
    BY SettlingSteps
  <2>2. QED
    BY <2>1, SoftRevertDetail
<1>2. QED
  BY <1>1, OrderInvHolds, TermsHold, PTL DEF Spec, SoftRevertLeavesNoTrace

\* What a taker is charged beyond the priced fills is at most the cost of one more atom at
\* the last price, never more than they offered, and what reaches them after both fees is
\* at least what they asked for (the residual and the two fee floors of swap.rs).
THEOREM TakersGetTheirTerms == Spec => TakersTermsHold
<1>1. TypeOK /\ OrderInv /\ TermsInv /\ [Next]_vars =>
         [Settles /\ ~Reverts =>
             /\ treasury'[InLeg(swap.side)] - treasury[InLeg(swap.side)] <= swap.amountIn
             /\ \/ OutputFor(swap.side, LastPrice,
                       treasury'[InLeg(swap.side)] - treasury[InLeg(swap.side)] - PricedIn) <= 1
                \/ InputFor(swap.side, LastPrice, 1) = 0
             /\ treasury[OutLeg(swap.side)] - treasury'[OutLeg(swap.side)] - PlatformFee
                   >= swap.minOut]_vars
  <2> SUFFICES ASSUME TypeOK, OrderInv, TermsInv, [Next]_vars, Settles, ~Reverts
               PROVE  /\ treasury'[InLeg(swap.side)] - treasury[InLeg(swap.side)] <= swap.amountIn
                      /\ \/ OutputFor(swap.side, LastPrice,
                                treasury'[InLeg(swap.side)] - treasury[InLeg(swap.side)] - PricedIn) <= 1
                         \/ InputFor(swap.side, LastPrice, 1) = 0
                      /\ treasury[OutLeg(swap.side)] - treasury'[OutLeg(swap.side)] - PlatformFee
                            >= swap.minOut
    OBVIOUS
  <2> DEFINE out == OutLeg(swap.side)
             in  == InLeg(swap.side)
  <2>1. Commit
    BY SettlingSteps
  <2>2. /\ ~Idle /\ Acceptable
        /\ treasury' = [treasury EXCEPT ![in] = @ + Charged, ![out] = @ - (NetOut + PlatformFee)]
    BY <2>1 DEF Commit
  <2>3. /\ swap.side \in Side /\ swap.left \in Nat /\ swap.amountIn \in Nat /\ swap.out \in Nat
        /\ swap.fee \in Nat /\ swap.platform \in 0 .. MaxPlatformFee /\ swap.minOut \in Nat
    BY <2>2, InProgress, WalkFields
  <2>4. /\ out \in Leg /\ in \in Leg /\ out # in /\ treasury \in [Leg -> Nat]
        /\ treasury[in] \in Nat /\ treasury[out] \in Nat
    BY <2>3, LegsOfSide, Fields
  <2>5. Charged = swap.amountIn - swap.left
    BY DEF Charged
  <2> HIDE DEF out, in
  <2>6. /\ treasury'[in] = treasury[in] + Charged
        /\ treasury'[out] = treasury[out] - (NetOut + PlatformFee)
    BY <2>2, <2>4
  <2>7. /\ NetOut \in Int /\ PlatformFee \in Int /\ NetOut >= swap.minOut
    <3>1. swap.out - swap.fee \in Nat
      BY <2>2, <2>3 DEF OrderInv, MoneyInv, Moved
    <3>2. /\ BPS \in Nat /\ BPS > 0 /\ \A r \in 0 .. BPS : r \in Nat
      BY UnitAssumption
    <3>3. swap.platform \in Nat
      BY <2>3, <3>2, RateAssumption
    <3>4. (swap.out - swap.fee) * swap.platform \in Nat
      BY <3>1, <3>3, TimesType
    <3>5. PlatformFee \in Nat
      BY <3>2, <3>4, DivFits DEF PlatformFee, PlatformFeeOn, NetAfterTakerFee
    <3>6. NetOut \in Int
      BY <3>1, <3>5 DEF NetOut, NetAfterTakerFee
    <3>7. QED
      BY <2>2, <3>5, <3>6 DEF Acceptable
  <2>8. /\ PricedIn \in Nat /\ ChangeIsSmall(swap.amountIn - swap.left - PricedIn)
    BY <2>2 DEF TermsInv, Acceptable
  <2>9. treasury'[in] - treasury[in] = swap.amountIn - swap.left
    BY <2>3, <2>4, <2>5, <2>6
  <2>10. treasury[out] - treasury'[out] - PlatformFee = NetOut
    BY <2>4, <2>6, <2>7
  <2>11. swap.amountIn - swap.left <= swap.amountIn
    BY <2>3
  <2>12. QED
    BY <2>7, <2>8, <2>9, <2>10, <2>11 DEF ChangeIsSmall, out, in
<1>2. QED
  BY <1>1, OrderInvHolds, TermsHold, PTL DEF Spec, TakersTermsHold
=============================================================================
