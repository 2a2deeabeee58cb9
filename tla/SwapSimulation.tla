--------------------------- MODULE SwapSimulation ---------------------------
(***************************************************************************)
(* What clients compute of a swap before they send it (sdk/interface       *)
(* matching.rs and layout.rs, and the wasm and router bindings on top).    *)
(*                                                                         *)
(* The simulator reads the bytes of the market account and runs the walk   *)
(* on them: it rebuilds the book, flushing in its head the ladders the     *)
(* next swap will flush, and keeps its own tally of the inventories that   *)
(* it spends. Only the arithmetic is shared with the program. Frontends    *)
(* and routers size a taker's least output by the result, so it has to be  *)
(* what the program will do, atom for atom.                                *)
(*                                                                         *)
(* A view of the account is a record of what the walk reads and a swap     *)
(* changes. The active list is sound (see VaultList).                      *)
(*                                                                         *)
(* A taker's client here reads the account right before its swap lands. It *)
(* may as well read it earlier: what it is told then is only as good as    *)
(* the account is still the same, and its least output protects it.        *)
(***************************************************************************)
EXTENDS OrderMatching

Seqs == INSTANCE SequencesExt

VARIABLE told    \* what the client of the swap in progress was told beforehand

View == [atoms |-> atoms, ref |-> ref, remaining |-> remaining]

NoFill == [in |-> 0, out |-> 0, fee |-> 0, platform |-> 0, legs |-> 0]

------------------------------------------------------------------------------
(* The book.                                                                *)

Matchable(view, s) ==
    phase[s] = "active" /\ view.ref[s].price # Zero /\ view.ref[s].price # Infinity

\* A pending ladder of more than the whole inventory will be thrown out by its flush.
IsActive(view) == \E s \in Sectors : Matchable(view, s)
SideThrownOut(view, s, side) == view.ref[s].flush /\ ~SideSizesOk(s, side)

ShownSize(view, s, side, i) ==
    (view.atoms[OutLeg(side)][s] * ladder[s][side][i].bps) \div BPS

StoredLevel(view, s, side, i) == view.remaining[s][side][i]
LevelState(view, s, side, i) ==
    IF view.ref[s].flush
    THEN [price    |-> LevelPrice(s, side, i),
          size     |-> ShownSize(view, s, side, i),
          deadline |-> DeadlineFromQuote(s, side, i)]
    ELSE view.remaining[s][side][i]

CollectedLevels(view, side) ==
    {[price |-> LevelState(view, s, side, i).price, stamp |-> view.ref[s].stamp,
      sector |-> s, level |-> i, size |-> LevelState(view, s, side, i).size] :
        <<s, i>> \in {x \in Sectors \X Levels :
            /\ Matchable(view, x[1]) /\ ~SideThrownOut(view, x[1], side)
            /\ LET p == LevelState(view, x[1], side, x[2])
               IN  p.size > 0 /\ StillLive(p) /\ p.price \notin {Zero, Infinity}}}

CollectSideLevels(view, side) ==
    Seqs!SetToSortSeq(CollectedLevels(view, side), LAMBDA e, f : GoesFirst(side, e, f))

\* The depth an order book shows: base atoms on both sides, best price first.
RestingLevels(view, side) ==
    LET levels == CollectSideLevels(view, side)
    IN  [k \in DOMAIN levels |->
            [price |-> levels[k].price,
             size  |-> IF side = "ask" THEN levels[k].size
                       ELSE BaseForQuote(levels[k].price, levels[k].size)]]

------------------------------------------------------------------------------
(* The walk. It is over once a level crosses the limit, or the budget does  *)
(* not buy one atom at a level; a level that would be free is passed over.  *)

FullInventory(walk, side, s) == walk.found[OutLeg(side)][s]
InventoryLeft(walk, side, s) == walk.atoms[OutLeg(side)][s]

WalkLevel(walk, e, side, limit) ==
    LET bought  == OutputFor(side, e.price, walk.left)
        out     == Smallest(Smallest(bought, e.size), InventoryLeft(walk, side, e.sector))
        in      == InputFor(side, e.price, out)
        residue == IF out = bought THEN walk.left - in ELSE 0
    IN  IF walk.over \/ walk.left = 0 \/ CrossesLimit(side, e.price, limit) \/ bought = 0
        THEN [walk EXCEPT !.over = TRUE]
        ELSE IF out = 0 \/ in = 0
        THEN walk
        ELSE [walk EXCEPT !.atoms[OutLeg(side)][e.sector] = @ - out,
                          !.atoms[InLeg(side)][e.sector] = @ + in,
                          !.left = @ - in - residue,
                          !.out = @ + out,
                          !.fee = @ + TakerFeeOn(out),
                          !.legs = @ + 1]

WalkBook(view, side, amountIn, limit) ==
    Seqs!FoldLeft(LAMBDA walk, e : WalkLevel(walk, e, side, limit),
                  [atoms |-> view.atoms, found |-> view.atoms, left |-> amountIn, out |-> 0,
                   fee |-> 0, legs |-> 0, over |-> FALSE],
                  CollectSideLevels(view, side))

\* The platform fee is charged on what the taker fee leaves, and both round down. A rate
\* above the market's ceiling is quoted as nothing.
SimulateSwap(view, side, amountIn, limit, platform) ==
    LET walk == WalkBook(view, side, amountIn, limit)
        net  == walk.out - walk.fee
        fee  == PlatformFeeOn(net, platform)
    IN  IF platform > MaxPlatformFee \/ walk.legs = 0 THEN NoFill
        ELSE [in |-> amountIn - walk.left, out |-> net - fee, fee |-> walk.fee,
              platform |-> fee, legs |-> walk.legs]

\* A router's quote has no limit and no platform fee of its own.
NoLimit(side) == IF side = "ask" THEN Infinity ELSE Zero
RouterQuote(view, side, amountIn) == SimulateSwap(view, side, amountIn, NoLimit(side), 0)

------------------------------------------------------------------------------
(* A taker asks before every swap: what it would do, the depth of the book, *)
(* and whether the market trades at all.                                    *)

NothingTold == [quote |-> NoFill, depth |-> <<>>, active |-> FALSE]

Asked(view, side, amountIn, limit, platform) ==
    [quote  |-> SimulateSwap(view, side, amountIn, limit, platform),
     depth  |-> RestingLevels(view, side),
     active |-> IsActive(view)]

ClientStep ==
    told' = IF Idle' THEN NothingTold
            ELSE IF Idle
            THEN Asked(View, swap'.side, swap'.amountIn, swap'.limit, swap'.platform)
            ELSE told

TakerVars == <<vars, told>>
TakerInit == Init /\ told = NothingTold
TakerNext == Next /\ ClientStep
TakerSpec == TakerInit /\ [][TakerNext]_TakerVars

------------------------------------------------------------------------------
\* A swap does what the simulator said of the account it found, whatever it flushed,
\* skipped and ran out of: it takes and pays those amounts, and takes everything back
\* only if nothing was promised, or less than the taker's least.
SwapsGoAsSimulated ==
    [][Settles =>
          IF Reverts THEN told.quote.legs = 0 \/ told.quote.out < swap.minOut
          ELSE /\ told.quote = [in |-> Charged, out |-> NetOut, fee |-> swap.fee,
                                platform |-> PlatformFee, legs |-> Len(swap.fills)]
               /\ told.active]_TakerVars

\* The book that is shown is the book that is walked, on either side, before and after a
\* flush, and in its order; and a router, which compares amounts, is never promised more
\* for less.
ShownBookIsWalked ==
    [][Idle /\ ~Idle' =>
          LET side  == swap'.side
              shown == told'.depth
          IN  /\ CollectedLevels(View, side) = swap'.book
              /\ Len(shown) = Cardinality(swap'.book)
              /\ \A k \in 1 .. Len(shown) - 1 :
                    ~BetterPrice(side, shown[k + 1].price, shown[k].price)
              /\ swap'.limit = NoLimit(side) =>
                    \A a \in Amounts : a < swap'.amountIn =>
                        RouterQuote(View, side, a).out
                            <= RouterQuote(View, side, swap'.amountIn).out]_TakerVars

\* What a client is told of a swap beforehand is what the program does.
SimulationAgrees == SwapsGoAsSimulated /\ ShownBookIsWalked

\* One committed swap, seen from both sides: to the market it is a Swap that moves atoms
\* and fees as its ledger allows, whatever the walk did to get there, and to the client who
\* sent it it is the swap foretold from the account's bytes before.
SwapsSettleAsForetold == SettlesAsMarketSwap /\ SimulationAgrees
=============================================================================
