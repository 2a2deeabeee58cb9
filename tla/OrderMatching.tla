---------------------------- MODULE OrderMatching ----------------------------
(***************************************************************************)
(* Quoting and taking on one Dropset market (instructions/swap.rs,          *)
(* state/market/quote_write.rs and accrual.rs, math-core/matching_math.rs). *)
(*                                                                         *)
(* A vault's leader writes a reference price and a ladder of levels. Both   *)
(* writes are cheap: they stamp the market's nonce and arm a flush, and the *)
(* first swap that meets the vault turns the ladder into absolute prices,   *)
(* sizes and deadlines ("remaining"). A swap collects the live levels of    *)
(* all trading vaults, walks them best price first, and either settles or   *)
(* takes everything back and succeeds with no effect (the soft revert).     *)
(*                                                                         *)
(* The swap is one atomic instruction that changes the market level by      *)
(* level: here each level is a step, and nothing else happens in between.   *)
(***************************************************************************)
EXTENDS Naturals, Sequences, FiniteSets, Sums

CONSTANTS MaxSectors,   \* how many sectors the slab has
          Keys,         \* the keys that quote for vaults
          NoKey,        \* the zeroed quote authority
          Levels,       \* level indices on each side of a ladder (N_LEVELS = 8)
          Ladders,      \* the liquidity profiles leaders write
          Prices,       \* the reference prices leaders write, in units of 1/PriceOne
          PriceOne,     \* the price of one
          PPM,          \* scale of price offsets and of the taker fee
          BPS,          \* scale of level sizes and of the platform fee
          TakerFee,     \* market.taker_fee
          PlatformFees, \* the rates callers declare
          MaxPlatformFee, \* market.max_platform_fee
          Amounts,      \* the amounts takers put in
          Limits,       \* the limit prices takers name, the two of the encoding's ends included
          MinOuts,      \* the least outputs takers accept
          MaxAtoms,     \* atoms of each leg a vault is first funded with
          Inventories,  \* bound: what deposits and withdrawals leave of a leg
          MaxNonce,     \* bound: quote writes and fills (u64 in the code)
          MaxTime       \* bound: readings of either clock

Sectors == 0 .. MaxSectors - 1
Leg     == {"base", "quote"}
Domain  == {"wall", "slot"}   \* each level expires in unix seconds and in slots
Time    == 0 .. MaxTime

\* A taker's side is named for the side of the ladders it consumes: a buyer takes
\* asks and is paid in base, a seller takes bids and is paid in quote.
Side == {"ask", "bid"}
OutLeg(side) == IF side = "ask" THEN "base" ELSE "quote"
InLeg(side)  == IF side = "ask" THEN "quote" ELSE "base"

\* Offsets, sizes and spans of a level are unsigned; how large is up to the leader.
LevelShape == [offset : Nat, bps : Nat, span : [Domain -> Nat]]

ASSUME BookAssumption == /\ MaxSectors \in Nat /\ Levels \subseteq Nat /\ IsFiniteSet(Levels)
                         /\ Ladders \subseteq [Side -> [Levels -> LevelShape]]
                         /\ Prices \subseteq Nat
ASSUME UnitAssumption == PriceOne \in Nat \ {0} /\ PPM \in Nat \ {0} /\ BPS \in Nat \ {0}
\* A taker fee is a u16 of millionths, and the platform fee's ceiling is checked to be at
\* most all.
ASSUME RateAssumption ==
    TakerFee \in 0 .. PPM /\ PlatformFees \subseteq Nat /\ MaxPlatformFee \in 0 .. BPS
ASSUME AmountAssumption == /\ Amounts \subseteq Nat /\ Limits \subseteq Nat
                           /\ MinOuts \subseteq Nat /\ Inventories \subseteq Nat
                           /\ MaxAtoms \in Nat /\ MaxNonce \in Nat /\ MaxTime \in Nat

VARIABLES
    phase,      \* per sector: "active", "frozen", "tombstoned" or "free"
    authority,  \* per sector: quote_authority
    ref,        \* per sector: the reference price, its own clock readings, stamp and flush bit
    ladder,     \* per sector: the liquidity profile as written
    remaining,  \* per sector, side and level: what the last flush left to take
    atoms,      \* per leg and sector: inventory
    accrued,    \* per leg: accrued taker fee
    treasury,   \* per leg: balance of the market's token account
    nonce,      \* MarketHeader.nonce
    now,        \* per domain: the clock sysvar
    swap,       \* the swap being walked, or NoSwap
    before      \* what the swap found (a history variable)

vaultVars == <<phase, authority, ladder>>
vars == <<vaultVars, ref, remaining, atoms, accrued, treasury, nonce, now, swap, before>>

NoSwap   == [side |-> "none"]
NoBefore == [atoms |-> "none"]
Idle     == swap = NoSwap

Zero        == 0                       \* Price::ZERO
Infinity    == PriceOne * 1000         \* Price::INFINITY
EmptyLevel  == [offset |-> 0, bps |-> 0, span |-> [d \in Domain |-> 0]]
EmptyLadder == [side \in Side |-> [i \in Levels |-> EmptyLevel]]
NothingLeft == [side \in Side |-> [i \in Levels |->
                   [price |-> Zero, size |-> 0, deadline |-> [d \in Domain |-> 0]]]]
NoQuote     == [price |-> Zero, at |-> [d \in Domain |-> 0], stamp |-> 0, flush |-> FALSE]

Quote    == [price : Prices \cup {Zero}, at : [Domain -> Time], stamp : 0 .. MaxNonce,
             flush : BOOLEAN]
Position == [price : Nat, size : Nat, deadline : [Domain -> Nat]]
Books    == [Sectors -> [Side -> [Levels -> Position]]]
Ledger   == [Leg -> [Sectors -> Nat]]

\* A level as a swap collects it, a fill with its snapshots, a walk, and what it found.
Entry == [price : Nat, stamp : 0 .. MaxNonce, sector : Sectors, level : Levels, size : Nat]
Fill  == [of : Entry, out : Nat, in : Nat, residue : Nat, base : Nat, quote : Nat, size : Nat]
Walk  == [side : Side, amountIn : Amounts, left : Nat, limit : Limits, minOut : MinOuts,
          platform : 0 .. MaxPlatformFee, flushed : SUBSET Sectors, book : SUBSET Entry,
          out : Nat, fee : Nat, fills : Seq(Fill), nonce : 0 .. MaxNonce,
          accrued : [Leg -> Nat]]
Found == [atoms : Ledger, ref : [Sectors -> Quote], remaining : Books,
          accrued : [Leg -> Nat], treasury : [Leg -> Nat], nonce : 0 .. MaxNonce]

TypeOK ==
    /\ phase \in [Sectors -> {"active", "frozen", "tombstoned", "free"}]
    /\ authority \in [Sectors -> Keys \cup {NoKey}]
    /\ ref \in [Sectors -> Quote]
    /\ ladder \in [Sectors -> Ladders \cup {EmptyLadder}]
    /\ remaining \in Books
    /\ atoms \in Ledger
    /\ accrued \in [Leg -> Nat] /\ treasury \in [Leg -> Nat]
    /\ nonce \in 0 .. MaxNonce
    /\ now \in [Domain -> Time]
    /\ \/ swap = NoSwap /\ before = NoBefore
       \/ swap \in Walk /\ before \in Found

\* Every sector holds a fresh, funded vault that has not quoted yet.
Init ==
    /\ phase = [s \in Sectors |-> "active"]
    /\ authority \in [Sectors -> Keys]
    /\ ref = [s \in Sectors |-> NoQuote]
    /\ ladder = [s \in Sectors |-> EmptyLadder]
    /\ remaining = [s \in Sectors |-> NothingLeft]
    /\ atoms = [l \in Leg |-> [s \in Sectors |-> MaxAtoms]]
    /\ accrued = [l \in Leg |-> 0]
    /\ treasury = [l \in Leg |-> SumOf(atoms[l])]
    /\ nonce = 0
    /\ now = [d \in Domain |-> 0]
    /\ swap = NoSwap
    /\ before = NoBefore

------------------------------------------------------------------------------
(* Quote writes. The signer is the sector's quote authority, and that is    *)
(* all that is asked: not that the vault trades, nor even that it exists.   *)

ArmedByFirstWriteOnly(s) == ref[s].flush \/ ref[s].price = Zero
FlushAfterWrite(s) == TRUE
NonceAfterWrite(s) == nonce + 1

Stamped(s) == [ref[s] EXCEPT !.stamp = nonce, !.flush = FlushAfterWrite(s)]

QuoteWrite(s, key) ==
    /\ Idle /\ authority[s] = key
    /\ nonce < MaxNonce
    /\ nonce' = NonceAfterWrite(s)
    /\ UNCHANGED <<phase, authority, remaining, atoms, accrued, treasury, now, swap, before>>

\* The price and both clock readings are the signer's word.
SetReferencePrice(s, key, price, at) ==
    /\ QuoteWrite(s, key)
    /\ ref' = [ref EXCEPT ![s] = [Stamped(s) EXCEPT !.price = price, !.at = at]]
    /\ UNCHANGED ladder

SetLiquidityProfile(s, key, l) ==
    /\ QuoteWrite(s, key)
    /\ ref' = [ref EXCEPT ![s] = Stamped(s)]
    /\ ladder' = [ladder EXCEPT ![s] = l]

------------------------------------------------------------------------------
(* What else happens to a vault between swaps, so far as matching sees it.  *)

AtRest == UNCHANGED <<accrued, nonce, now, swap, before>>

SetQuoteAuthority(s, key) ==
    /\ Idle /\ phase[s] # "free"
    /\ authority' = [authority EXCEPT ![s] = key]
    /\ UNCHANGED <<phase, ref, ladder, remaining, atoms, treasury>> /\ AtRest

\* freeze_vault, of a vault on either list; a closed one stays closed.
FreezeVault(s) ==
    /\ Idle /\ phase[s] = "active"
    /\ phase' = [phase EXCEPT ![s] = "frozen"]
    /\ UNCHANGED <<authority, ref, ladder, remaining, atoms, treasury>> /\ AtRest

CloseVault(s) ==
    /\ Idle /\ phase[s] \in {"active", "frozen"}
    /\ phase' = [phase EXCEPT ![s] = "tombstoned"]
    /\ UNCHANGED <<authority, ref, ladder, remaining, atoms, treasury>> /\ AtRest

\* The last withdrawal takes all inventory along; of the vault's own fields the
\* reclaim clears the leader and nothing else.
ReclaimVault(s) ==
    /\ Idle /\ phase[s] # "free"
    /\ phase' = [phase EXCEPT ![s] = "free"]
    /\ treasury' = [l \in Leg |-> treasury[l] - atoms[l][s]]
    /\ atoms' = [l \in Leg |-> [atoms[l] EXCEPT ![s] = 0]]
    /\ UNCHANGED <<authority, ref, ladder, remaining>> /\ AtRest

\* create_vault and its leader's first deposit, on a sector zeroed by the allocator.
CreateVault(s, key, n) ==
    /\ Idle /\ phase[s] = "free"
    /\ phase' = [phase EXCEPT ![s] = "active"]
    /\ authority' = [authority EXCEPT ![s] = key]
    /\ ref' = [ref EXCEPT ![s] = NoQuote]
    /\ ladder' = [ladder EXCEPT ![s] = EmptyLadder]
    /\ remaining' = [remaining EXCEPT ![s] = NothingLeft]
    /\ atoms' = [l \in Leg |-> [atoms[l] EXCEPT ![s] = n]]
    /\ treasury' = [l \in Leg |-> treasury[l] + n]
    /\ AtRest

\* Deposits and withdrawals move inventory and leave a materialized ladder as it is.
MoveInventory(s, leg, n) ==
    /\ Idle /\ phase[s] # "free" /\ n # atoms[leg][s]
    /\ treasury' = [treasury EXCEPT ![leg] = @ + n - atoms[leg][s]]
    /\ atoms' = [atoms EXCEPT ![leg][s] = n]
    /\ UNCHANGED <<vaultVars, ref, remaining>> /\ AtRest

Tick(d) ==
    /\ Idle /\ now[d] < MaxTime
    /\ now' = [now EXCEPT ![d] = @ + 1]
    /\ UNCHANGED <<vaultVars, ref, remaining, atoms, accrued, treasury, nonce, swap, before>>

------------------------------------------------------------------------------
(* The flush: a ladder becomes prices, sizes and deadlines.                 *)

\* A markdown of a hundred percent or more, and a price beyond the encoding, is Zero.
LevelPrice(s, side, i) ==
    LET offset == ladder[s][side][i].offset
        factor == IF side = "ask" THEN PPM + offset
                  ELSE IF offset > PPM THEN 0 ELSE PPM - offset
        scaled == (ref[s].price * factor) \div PPM
    IN  IF scaled < Infinity THEN scaled ELSE Zero

SideNeverTooLarge(s, side) == TRUE
SideSizesOk(s, side) == SumOf([i \in Levels |-> ladder[s][side][i].bps]) <= BPS

LevelSize(s, side, i) ==
    IF SideSizesOk(s, side)
    THEN (atoms[OutLeg(side)][s] * ladder[s][side][i].bps) \div BPS ELSE 0

\* Counted from the quote's own readings: the swap that flushes may come much later. A
\* span of zero is dead whatever the reading, which may lie ahead of the clock.
DeadlineFromQuote(s, side, i) ==
    [d \in Domain |-> LET span == ladder[s][side][i].span[d]
                      IN  IF span = 0 THEN 0 ELSE ref[s].at[d] + span]

Materialized(s) ==
    [side \in Side |-> [i \in Levels |->
        [price    |-> LevelPrice(s, side, i),
         size     |-> LevelSize(s, side, i),
         deadline |-> DeadlineFromQuote(s, side, i)]]]

------------------------------------------------------------------------------
(* Prices. Both conversions round down, and sizes are in the leg paid out.  *)

QuoteForBase(price, base)  == (base * price) \div PriceOne
BaseForQuote(price, quote) == (quote * PriceOne) \div price

\* What an input buys at a price, and what an output costs there.
OutputFor(side, price, in) == IF side = "ask" THEN BaseForQuote(price, in)
                                              ELSE QuoteForBase(price, in)
InputFor(side, price, out) == IF side = "ask" THEN QuoteForBase(price, out)
                                              ELSE BaseForQuote(price, out)

CrossesLimit(side, price, limit) ==
    IF side = "ask" THEN price > limit /\ limit # Infinity
                    ELSE price < limit /\ limit # Zero

BetterPrice(side, p, q) == IF side = "ask" THEN p < q ELSE p > q

\* Price, then time (the stamp of the quote), then place in the slab.
GoesFirst(side, e, f) ==
    \/ BetterPrice(side, e.price, f.price)
    \/ /\ e.price = f.price
       /\ \/ e.stamp < f.stamp
          \/ e.stamp = f.stamp /\ e.sector < f.sector
          \/ e.stamp = f.stamp /\ e.sector = f.sector /\ e.level < f.level

------------------------------------------------------------------------------
(* The swap.                                                                *)

Trading(s) == phase[s] = "active" /\ ref[s].price # Zero
Flushed    == {s \in Sectors : Trading(s) /\ ref[s].flush}

\* A vault's levels as the walk meets them: flushed first if a write armed the flush.
Met(s) == IF s \in Flushed THEN Materialized(s) ELSE remaining[s]

StillLive(position) == \A d \in Domain : now[d] < position.deadline[d]

Collected(side) ==
    {x \in Sectors \X Levels :
        LET p == Met(x[1])[side][x[2]]
        IN  Trading(x[1]) /\ p.size > 0 /\ StillLive(p) /\ p.price # Zero}
EntryOf(side, s, i) ==
    [price |-> Met(s)[side][i].price, stamp |-> ref[s].stamp, sector |-> s, level |-> i,
     size |-> Met(s)[side][i].size]
Book(side) == {EntryOf(side, x[1], x[2]) : x \in Collected(side)}

\* The first half of the instruction: flush and collect. (A swap bumps the nonce once
\* per fill: the bound on it must leave room.)
StartSwap(side, amountIn, limit, minOut, platform) ==
    /\ Idle
    /\ limit # (IF side = "ask" THEN Zero ELSE Infinity)
    /\ platform <= MaxPlatformFee
    /\ nonce + Cardinality(Book(side)) <= MaxNonce
    /\ remaining' = [s \in Sectors |-> Met(s)]
    /\ ref' = [s \in Sectors |->
                  IF s \in Flushed THEN [ref[s] EXCEPT !.flush = FALSE] ELSE ref[s]]
    /\ swap' = [side |-> side, amountIn |-> amountIn, left |-> amountIn, limit |-> limit,
                minOut |-> minOut, platform |-> platform, flushed |-> Flushed,
                book |-> Book(side), out |-> 0, fee |-> 0, fills |-> <<>>,
                nonce |-> nonce, accrued |-> accrued]
    /\ before' = [atoms |-> atoms, ref |-> ref, remaining |-> remaining, accrued |-> accrued,
                  treasury |-> treasury, nonce |-> nonce]
    /\ UNCHANGED <<vaultVars, atoms, accrued, treasury, nonce, now>>

FirstBySlab(e) ==
    \A f \in swap.book \ {e} :
        \/ BetterPrice(swap.side, e.price, f.price)
        \/ e.price = f.price /\ e.sector < f.sector
        \/ e.price = f.price /\ e.sector = f.sector /\ e.level < f.level
First(e) == \A f \in swap.book \ {e} : GoesFirst(swap.side, e, f)
Front == CHOOSE e \in swap.book : First(e)

Affordable(e) == OutputFor(swap.side, e.price, swap.left)
Smallest(a, b) == IF a < b THEN a ELSE b

\* The fill is the tightest of the taker's budget, the level and the inventory.
InventoryForgotten(e) == Smallest(Affordable(e), e.size)
FillOut(e) == Smallest(Smallest(Affordable(e), e.size), atoms[OutLeg(swap.side)][e.sector])
FillIn(e)  == InputFor(swap.side, e.price, FillOut(e))

\* Change too small for one more atom goes with the fill that used the budget up.
Residue(e) == IF FillOut(e) = Affordable(e) THEN swap.left - FillIn(e) ELSE 0

WalkGoesOn ==
    /\ swap.book # {}
    /\ ~CrossesLimit(swap.side, Front.price, swap.limit)
    /\ swap.left > 0
    /\ Affordable(Front) > 0
WalkOver == ~WalkGoesOn

SkipLevel ==
    /\ ~Idle /\ WalkGoesOn
    /\ FillOut(Front) = 0 \/ FillIn(Front) = 0
    /\ swap' = [swap EXCEPT !.book = @ \ {Front}]
    /\ UNCHANGED <<vaultVars, ref, remaining, atoms, accrued, treasury, nonce, now, before>>

TakerFeeOn(out) == (out * TakerFee) \div PPM
PlatformFeeOn(net, rate) == (net * rate) \div BPS

FillLevel ==
    /\ ~Idle /\ WalkGoesOn
    /\ FillOut(Front) > 0 /\ FillIn(Front) > 0
    /\ LET e   == Front
           s   == e.sector
           out == OutLeg(swap.side)
           in  == InLeg(swap.side)
           fee == TakerFeeOn(FillOut(e))
       IN  /\ swap' = [swap EXCEPT
                 !.book = @ \ {e},
                 !.left = @ - FillIn(e) - Residue(e),
                 !.out = @ + FillOut(e),
                 !.fee = @ + fee,
                 !.fills = Append(@, [of |-> e, out |-> FillOut(e), in |-> FillIn(e),
                                      residue |-> Residue(e),
                                      base |-> atoms["base"][s], quote |-> atoms["quote"][s],
                                      size |-> remaining[s][swap.side][e.level].size])]
           /\ atoms' = [atoms EXCEPT ![out][s] = @ - FillOut(e), ![in][s] = @ + FillIn(e)]
           /\ remaining' = [remaining EXCEPT ![s][swap.side][e.level].size = @ - FillOut(e)]
           /\ accrued' = [accrued EXCEPT ![out] = @ + fee]
    /\ nonce' = nonce + 1
    /\ UNCHANGED <<vaultVars, ref, treasury, now, before>>

NetAfterTakerFee == swap.out - swap.fee
PlatformFee == PlatformFeeOn(NetAfterTakerFee, swap.platform)
NetOut == NetAfterTakerFee - PlatformFee

Acceptable == swap.fills # <<>> /\ NetOut >= swap.minOut

\* What the taker is charged: what the walk used up, not what was offered.
ChargedInFull == swap.amountIn
Charged == swap.amountIn - swap.left

Commit ==
    /\ ~Idle /\ WalkOver /\ Acceptable
    /\ treasury' = [treasury EXCEPT ![InLeg(swap.side)] = @ + Charged,
                                    ![OutLeg(swap.side)] = @ - (NetOut + PlatformFee)]
    /\ swap' = NoSwap /\ before' = NoBefore
    /\ UNCHANGED <<vaultVars, ref, remaining, atoms, accrued, nonce, now>>

\* The snapshots are replayed backwards, so the first one of a sector or level wins.
FirstOf(fills) == CHOOSE i \in fills : \A j \in fills : i <= j
LastOf(fills)  == CHOOSE i \in fills : \A j \in fills : i >= j

FillsOf(s) == {i \in DOMAIN swap.fills : swap.fills[i].of.sector = s}
FillsAt(s, l) == {i \in FillsOf(s) : swap.fills[i].of.level = l}

SnapshotReplayedForwards(s) == swap.fills[LastOf(FillsOf(s))]
SnapshotOf(s) == swap.fills[FirstOf(FillsOf(s))]

SoftRevert ==
    /\ ~Idle /\ WalkOver /\ ~Acceptable
    /\ atoms' = [l \in Leg |-> [s \in Sectors |->
                    IF FillsOf(s) = {} THEN atoms[l][s]
                    ELSE IF l = "base" THEN SnapshotOf(s).base ELSE SnapshotOf(s).quote]]
    /\ remaining' = [s \in Sectors |-> [remaining[s] EXCEPT ![swap.side] =
                        [i \in Levels |->
                            IF FillsAt(s, i) = {} THEN @[i]
                            ELSE [@[i] EXCEPT !.size = swap.fills[FirstOf(FillsAt(s, i))].size]]]]
    /\ ref' = [s \in Sectors |-> [ref[s] EXCEPT !.flush = @ \/ s \in swap.flushed]]
    /\ nonce' = swap.nonce
    /\ accrued' = swap.accrued
    /\ swap' = NoSwap /\ before' = NoBefore
    /\ UNCHANGED <<vaultVars, treasury, now>>

------------------------------------------------------------------------------
Next ==
    \/ \E s \in Sectors, key \in Keys :
          \/ \E p \in Prices \cup {Zero}, at \in [Domain -> Time] :
                SetReferencePrice(s, key, p, at)
          \/ \E l \in Ladders : SetLiquidityProfile(s, key, l)
          \/ SetQuoteAuthority(s, key)
          \/ \E n \in Inventories : CreateVault(s, key, n)
    \/ \E s \in Sectors :
          \/ FreezeVault(s) \/ CloseVault(s) \/ ReclaimVault(s)
          \/ \E leg \in Leg, n \in Inventories : MoveInventory(s, leg, n)
    \/ \E d \in Domain : Tick(d)
    \/ \E side \in Side, a \in Amounts, limit \in Limits, min \in MinOuts, p \in PlatformFees :
          StartSwap(side, a, limit, min, p)
    \/ SkipLevel
    \/ FillLevel
    \/ Commit
    \/ SoftRevert

Spec == Init /\ [][Next]_vars

------------------------------------------------------------------------------
(* Quotes.                                                                  *)

Quoting(s) == ref[s].flush \/ ref[s].price # Zero

\* Time priority is decided by the stamp alone: no two vaults with a quote ever share one,
\* whatever swaps gave their nonces back, and the next stamp is later than all.
StampsOrderQuotes ==
    \A s, t \in Sectors :
        Quoting(s) =>
            /\ ref[s].stamp < nonce
            /\ Quoting(t) /\ s # t => ref[s].stamp # ref[t].stamp

\* A swap trades on what the leader wrote last. Prices in "remaining" were computed by
\* some earlier swap, from the reference price and the ladder of that time.
FillsFollowLatestQuote ==
    ~Idle => \A e \in swap.book :
                /\ e.price = LevelPrice(e.sector, swap.side, e.level)
                /\ e.stamp = ref[e.sector].stamp

\* No level is taken at or after its deadline in either domain, counted from the clock
\* readings of the quote, however late the swap that flushed it came; and none that was
\* given no life in one of them, however far ahead its readings are.
NothingOutlivesItsQuote ==
    ~Idle => \A e \in swap.book, d \in Domain :
                LET span == ladder[e.sector][swap.side][e.level].span[d]
                IN  span > 0 /\ now[d] < ref[e.sector].at[d] + span

\* A ladder just flushed offers no more than the vault holds, on both sides, although
\* nothing bounds the sizes a leader writes.
FreshLaddersAreBacked ==
    ~Idle => \A s \in swap.flushed, side \in Side :
                SumOf([i \in Levels |-> remaining[s][side][i].size]) <= atoms[OutLeg(side)][s]

\* A swap takes current quotes only: the latest price and ladder, before their deadlines.
FillsAreCurrent == TypeOK /\ FillsFollowLatestQuote /\ NothingOutlivesItsQuote

(* Fills.                                                                   *)

LeftBefore(i) ==
    swap.amountIn - SumOf([j \in 1 .. i - 1 |-> swap.fills[j].in + swap.fills[j].residue])

\* Nobody is traded through: when a level is filled, every live level that goes before
\* it, on any vault, has nothing left the taker could have paid for. (Where one atom
\* costs less than one, the engine passes over what would be free.)
NobodyIsTradedThrough ==
    ~Idle => \A k \in DOMAIN swap.fills, s \in Sectors, i \in Levels :
        LET p == remaining[s][swap.side][i]
            e == [price |-> p.price, stamp |-> ref[s].stamp, sector |-> s, level |-> i]
            takeable == Smallest(Smallest(p.size, atoms[OutLeg(swap.side)][s]),
                                 OutputFor(swap.side, p.price, LeftBefore(k)))
        IN  Trading(s) /\ StillLive(p) /\ p.price # Zero /\ GoesFirst(swap.side, e, swap.fills[k].of)
                => InputFor(swap.side, p.price, takeable) = 0

\* Price comes first, then time, by stamps that order all quotes.
PriceTimePriority == StampsOrderQuotes /\ NobodyIsTradedThrough

(* Settlement.                                                              *)

Settles == ~Idle /\ swap' = NoSwap
Reverts == Settles /\ treasury' = treasury

PricedIn == SumOf([k \in DOMAIN swap.fills |-> swap.fills[k].in])
LastPrice == swap.fills[Len(swap.fills)].of.price

\* The taker's terms: what is charged beyond the priced fills is at most the cost of
\* one more atom at the last price they traded at, and what reaches them after both
\* fees is what they asked for.
TakersTermsHold ==
    [][Settles /\ ~Reverts =>
          LET charged  == treasury'[InLeg(swap.side)] - treasury[InLeg(swap.side)]
              received == treasury[OutLeg(swap.side)] - treasury'[OutLeg(swap.side)] - PlatformFee
          IN  /\ charged <= swap.amountIn
              /\ OutputFor(swap.side, LastPrice, charged - PricedIn) <= 1
                 \/ InputFor(swap.side, LastPrice, 1) = 0
              /\ received >= swap.minOut]_vars

\* A swap that misses its minimum leaves no trace: inventory, fees, the nonce and every
\* quote are as it found them, and ladders it flushed will be flushed again.
SoftRevertLeavesNoTrace ==
    [][Settles /\ Reverts =>
          /\ atoms' = before.atoms /\ accrued' = before.accrued /\ nonce' = before.nonce
          /\ ref' = before.ref
          /\ \A s \in Sectors : ~ref'[s].flush => remaining'[s] = before.remaining[s]]_vars

\* Seen from the market, a swap is one step: fills some vaults could make, the fee, and
\* a residue no vault is credited with (the Swap of MarketVaults).
CommittedAtoms   == IF Idle THEN atoms ELSE before.atoms
CommittedAccrued == IF Idle THEN accrued ELSE before.accrued
Market == INSTANCE MarketVaults WITH
    Wallets <- Keys, NoWallet <- NoKey, MaxVaults <- MaxSectors, QOne <- 1,
    MaxU64 <- 1000, MaxU128 <- 1000, HwmModulus <- 1000, PerfFees <- {}, FloorShares <- {},
    DefaultFloor <- 0, MaxFill <- MaxAtoms, MaxResidue <- MaxAtoms,
    vault <- [s \in Sectors |->
                [price |-> IF ref[s].price = Zero THEN "sentinel" ELSE "matchable",
                 frozen |-> phase[s] = "frozen"]],
    list <- phase, freeStack <- <<>>, slabLen <- MaxSectors, activeCount <- MaxSectors,
    total <- 0, leaderShares <- 0, position <- 0, outstanding <- 0,
    atoms <- CommittedAtoms, accrued <- CommittedAccrued,
    ata <- [l \in Leg |-> TRUE], open <- TRUE

SettlesAsMarketSwap ==
    [][Settles /\ ~Reverts =>
          LET out  == OutLeg(swap.side)
              in   == InLeg(swap.side)
              outs == [s \in Sectors |-> before.atoms[out][s] - atoms[out][s]]
              ins  == [s \in Sectors |-> atoms[in][s] - before.atoms[in][s]]
          IN  /\ \A s \in Sectors : outs[s] >= 0 /\ ins[s] >= 0
              /\ Charged >= SumOf(ins)
              /\ Market!Swap(out, outs, ins, swap.fee, Charged - SumOf(ins))]_vars
=============================================================================
