--------------------------- MODULE InventoryPolicy ---------------------------
(***************************************************************************)
(* What the maker bot thinks its vault holds, and what it does about it:   *)
(* the fills it is told of, the position they make, and the kill switch,   *)
(* the ladder and the skew that follow from its value (bots/maker-bot:     *)
(* fills.rs, tasks.rs and model/).                                         *)
(*                                                                         *)
(* A fill carries what the vault held after it and a nonce that orders it  *)
(* among the others; a deposit or a withdrawal is not announced. Fills     *)
(* reach the bot late, out of order or not at all, through a channel that  *)
(* drops the oldest; each cycle drains it before it reads the vault. The   *)
(* model has one market, and numbers the vault's fills from zero.          *)
(***************************************************************************)
EXTENDS Integers, Sequences, Sums

CONSTANTS Holdings,             \* the <<base, quote>> a vault may hold
          Mids,                 \* the prices of base in quote
          Capacity,             \* of the channel the fills are drained from
          MaxFills, MaxFlows, MaxStarts,        \* bounds: fills, silent flows, runs of the bot
          ReshapePct, FreezePct, HaltPct,       \* the imbalance thresholds
          FloorFrac, DegradedScale,             \* of the drawdown floor; per mille
          Ladder, ReshapeScale, BPS,            \* sizes by level; per mille; a whole side
          SkewRate, SkewCap,                    \* skew per point of deviation, and its limit
          Fairs,                                \* what the feeds may say
          Nothing

ASSUME InventoryAssumption ==
    Holdings \subseteq Nat \X Nat /\ Mids \subseteq Nat \ {0} /\ Capacity \in Nat

\* Degrading and reshaping shrink; the thresholds and the skew are not negative.
ASSUME PolicyAssumption ==
    /\ {ReshapePct, FreezePct, HaltPct, SkewRate, SkewCap} \subseteq Nat
    /\ {FloorFrac, DegradedScale, ReshapeScale} \subseteq 0 .. 1000
    /\ Fairs \subseteq [{"degraded", "usdc", "basis", "silent", "shortfall"} -> BOOLEAN]

VARIABLE bot

Side == {"bid", "ask"}
OtherSide(s) == IF s = "bid" THEN "ask" ELSE "bid"

------------------------------------------------------------------------------
(* Inventory: a vault's two legs, valued.                                   *)

ValueAt(held, mid) == [base |-> held[1] * mid, quote |-> held[2]]
TotalUsd(inv)  == inv.base + inv.quote
Gap(inv)       == inv.base - inv.quote
BaseHeavy(inv) == Gap(inv) >= 0
Magnitude(x)   == IF x < 0 THEN -x ELSE x

\* Imbalance, the gap in percent of the total, against a threshold scaled per mille.
ImbalanceOver(inv, pct, scale) ==
    TotalUsd(inv) > 0 /\ Magnitude(Gap(inv)) * 100 * 1000 > pct * scale * TotalUsd(inv)

\* The skew, in hundredths: half the gap in percent of the total, at a rate, both ways capped.
Clamp(x, cap) == IF x > cap THEN cap ELSE IF x < -cap THEN -cap ELSE x
RefSkew(inv) ==
    IF TotalUsd(inv) <= 0 THEN 0
    ELSE LET points == (Magnitude(Gap(inv)) * 100 * SkewRate) \div (2 * TotalUsd(inv))
         IN  Clamp(IF BaseHeavy(inv) THEN -points ELSE points, SkewCap)

------------------------------------------------------------------------------
(* The kill switch.                                                         *)

Halt(reason)  == [act |-> "halt", on |-> reason]
FreezeSide(s) == [act |-> "freeze", on |-> s]
Reshape(s)    == [act |-> "reshape", on |-> s]
Quoting       == [act |-> "quote", on |-> "both"]

ScaleOf(fair) == IF fair.degraded THEN DegradedScale ELSE 1000

FloorScaled(inv, launch, scale) == TotalUsd(inv) * 1000000 <= launch * FloorFrac * scale

\* The floor is launch less the permitted drawdown, which degrading makes smaller.
BelowFloor(inv, launch, scale) ==
    TotalUsd(inv) * 1000000 <= launch * (1000000 - (1000 - FloorFrac) * scale)

Accumulating(inv) == IF BaseHeavy(inv) THEN "bid" ELSE "ask"

Evaluate(fair, inv, launch) ==
    LET scale == ScaleOf(fair)
    IN  CASE fair.silent                            -> Halt("PriceStoreUnavailable")
          [] ~fair.silent /\ fair.shortfall         -> Halt("NoLiveTape")
          [] ~fair.silent /\ ~fair.shortfall ->
               CASE fair.usdc                       -> Halt("UsdcCommonMode")
                 [] ~fair.usdc /\ fair.basis        -> Halt("BasisBreach")
                 [] ~fair.usdc /\ ~fair.basis ->
                      IF BelowFloor(inv, launch, scale) THEN Halt("TvlFloor")
                      ELSE IF ImbalanceOver(inv, HaltPct, scale) THEN Halt("ImbalanceCritical")
                      ELSE IF ImbalanceOver(inv, FreezePct, scale) THEN FreezeSide(Accumulating(inv))
                      ELSE IF ImbalanceOver(inv, ReshapePct, scale) THEN Reshape(Accumulating(inv))
                      ELSE Quoting

------------------------------------------------------------------------------
(* The ladder.                                                              *)

SizeSum(levels) == SumOf(levels)

\* A ladder is validated to commit no more than a whole side.
ASSUME LadderAssumption ==
    /\ Ladder \in Seq(Nat) /\ BPS \in Nat \ {0}
    /\ SizeSum(Ladder) \in 1 .. BPS

ZeroSide(levels) == [i \in DOMAIN levels |-> 0]

\* Floored, and brought back to a whole side if it grew past one.
ScaleSide(levels, scale) ==
    LET scaled == [i \in DOMAIN levels |-> (levels[i] * scale) \div 1000]
        sum    == SizeSum(scaled)
    IN  IF sum > BPS THEN [i \in DOMAIN levels |-> (scaled[i] * BPS) \div sum] ELSE scaled

BuildProfile == [s \in Side |-> Ladder]

\* The profile an action arms.
ProfileOf(action) ==
    CASE action.act = "halt"    -> [s \in Side |-> ZeroSide(Ladder)]
      [] action.act = "freeze"  -> [BuildProfile EXCEPT ![action.on] = ZeroSide(@)]
      [] action.act = "reshape" -> [BuildProfile EXCEPT ![action.on] = ScaleSide(@, ReshapeScale)]
      [] action.act = "quote"   -> BuildProfile

------------------------------------------------------------------------------
(* From fills to a position.                                                *)

NoFill == [nonce |-> 0, held |-> Nothing]

\* A run begins, with or without its subscription, on a vault as it stands.
Fresh(ok, vault, flows, starts) ==
    [vault |-> vault, flows |-> flows, starts |-> starts,
     pc |-> "idle", ring |-> <<>>, notes |-> {}, link |-> ok, sink |-> ok, active |-> ok,
     got |-> NoFill, position |-> Nothing, launch |-> Nothing,
     used |-> "none", seen |-> Nothing, valued |-> Nothing, verdict |-> Nothing]

PolicyInit ==
    \E held \in Holdings, ok \in BOOLEAN : bot = Fresh(ok, [nonce |-> 0, held |-> held], 0, 1)

\* Takers trade; while the subscription is up, each fill is announced.
Swap(held) ==
    LET fill == [nonce |-> bot.vault.nonce + 1, held |-> held]
    IN  /\ bot.vault.nonce < MaxFills
        /\ held # bot.vault.held
        /\ bot' = [bot EXCEPT !.vault = fill,
                              !.notes = IF bot.link THEN @ \cup {fill} ELSE @]

ExternalFlow(held) ==
    /\ bot.flows < MaxFlows
    /\ held # bot.vault.held
    /\ bot' = [bot EXCEPT !.vault.held = held, !.flows = @ + 1]

\* The thread fetches and decodes a transaction it was notified of, and passes the fill on;
\* one it cannot fetch, decode or attribute is gone. A full channel drops its oldest.
Pushed(ring, fill) ==
    LET longer == Append(ring, fill)
    IN  IF Len(longer) > Capacity THEN Tail(longer) ELSE longer
Forward(fill) ==
    bot' = [bot EXCEPT !.notes = @ \ {fill}, !.ring = IF bot.sink THEN Pushed(@, fill) ELSE @]
DecodeFails(fill) == bot' = [bot EXCEPT !.notes = @ \ {fill}]

\* The socket closes with what it had not delivered, and is opened again.
LinkDrops  == bot.link /\ bot' = [bot EXCEPT !.link = FALSE, !.notes = {}]
Reconnects == ~bot.link /\ bot.sink /\ bot' = [bot EXCEPT !.link = TRUE]

\* The runner that owns the channel ends: what is in it can still be drained.
RunnerStops == bot.sink /\ bot' = [bot EXCEPT !.sink = FALSE, !.link = FALSE, !.notes = {}]

\* The highest nonce wins, whatever order the fills came in.
Latest(ring) ==
    IF ring = <<>> THEN NoFill
    ELSE ring[CHOOSE i \in DOMAIN ring : \A j \in DOMAIN ring : ring[j].nonce <= ring[i].nonce]

DrainFills ==
    /\ bot.pc = "idle"
    /\ bot' = [bot EXCEPT !.pc = "drained", !.got = Latest(bot.ring), !.ring = <<>>,
                          !.active = @ /\ bot.sink]

Got == bot.got # NoFill

KeepsPosition(position, held, drained) == IF position = Nothing THEN held ELSE position

\* A drained fill is trusted; otherwise the chain has the last word.
DecidePosition(position, held, drained) ==
    IF position = Nothing THEN held
    ELSE IF drained THEN position
    ELSE IF position # held THEN held
    ELSE position

PositionUnmoved == bot.position
Position == IF Got THEN bot.got.held ELSE bot.position
ResolveInventory ==
    IF bot.active THEN DecidePosition(Position, bot.vault.held, Got) ELSE bot.vault.held

\* The cycle's read fails and the cycle with it: what was drained is not drained again.
VaultUnread ==
    /\ bot.pc = "drained"
    /\ bot' = [bot EXCEPT !.pc = "idle", !.got = NoFill]

\* Whether the cycle goes by a fill, and one at least as recent as its read (history).
WentBy == IF ~bot.active \/ ~Got THEN "none"
          ELSE IF bot.got.nonce >= bot.vault.nonce THEN "fresh" ELSE "late"

\* A cycle that has read the vault: inventory is resolved, and judged if there is a price.
QuoteMarket(fair, mid) ==
    LET held   == ResolveInventory
        inv    == ValueAt(held, mid)
        launch == IF bot.launch = Nothing THEN TotalUsd(inv) ELSE bot.launch
    IN  /\ bot.pc = "drained"
        /\ bot' = [bot EXCEPT
                      !.pc = "idle", !.got = NoFill,
                      !.position = IF bot.active THEN held ELSE Position,
                      !.launch = IF mid = 0 THEN @ ELSE launch,
                      !.used = WentBy, !.seen = bot.vault.held, !.valued = held,
                      !.verdict = IF mid = 0 THEN Nothing
                                  ELSE [fair |-> fair, mid |-> mid, action |-> Evaluate(fair, inv, launch)]]

Restart ==
    /\ bot.starts < MaxStarts
    /\ \E ok \in BOOLEAN : bot' = Fresh(ok, bot.vault, bot.flows, bot.starts + 1)

------------------------------------------------------------------------------
Judge == \E fair \in Fairs, mid \in Mids \cup {0} : QuoteMarket(fair, mid)

PolicyNext ==
    \/ \E held \in Holdings : Swap(held) \/ ExternalFlow(held)
    \/ \E fill \in bot.notes : Forward(fill) \/ DecodeFails(fill)
    \/ LinkDrops \/ Reconnects \/ RunnerStops
    \/ DrainFills \/ VaultUnread \/ Judge
    \/ Restart

PolicySafety == PolicyInit /\ [][PolicyNext]_bot

\* A running bot goes on to its next cycle; now and then the vault can be read.
PolicySpec == PolicySafety /\ WF_bot(DrainFills) /\ SF_bot(Judge)

------------------------------------------------------------------------------
\* A cycle that goes by no fill judges the vault as it read it, whatever was lost, late, or
\* moved without a fill before it; and so does every cycle once the subscription is off
\* (resolve_inventory and decide_position of tasks.rs).
QuietCyclesJudgeTheChain ==
    bot.used = "none" => bot.valued = bot.seen

\* So does a cycle that goes by a fill no older than its read, where no leg moved without one:
\* what it takes the vault to hold did not come from another fill, or from a run before.
FillsTellOfTheChain ==
    bot.used = "fresh" /\ bot.flows = 0 => bot.valued = bot.seen

\* Whichever way a cycle goes, but by a fill its read has overtaken, it judges the chain
\* (quote_market_inner of tasks.rs).
JudgesTheChain == QuietCyclesJudgeTheChain /\ FillsTellOfTheChain

Severity(action) ==
    CASE action.act = "quote" -> 0 [] action.act = "reshape" -> 1
      [] action.act = "freeze" -> 2 [] action.act = "halt" -> 3

\* What the last judgement of a run came to, compared with what it would have come to.
Judged == bot.verdict # Nothing
Inv    == ValueAt(bot.valued, bot.verdict.mid)
With(fair) == Evaluate(fair, Inv, bot.launch)

\* Degrading never makes the bot bolder than it would be without, whatever its vault is
\* worth; a missing input or a breach stops it (evaluate of killswitch.rs).
NeverBolder ==
    Judged =>
        /\ Severity(With([bot.verdict.fair EXCEPT !.degraded = TRUE])) >= Severity(bot.verdict.action)
        /\ \A flag \in {"usdc", "basis", "silent", "shortfall"} :
              With([bot.verdict.fair EXCEPT ![flag] = TRUE]).act = "halt"

\* What is armed leans out of the heavy leg: the profile never offers more on the side that
\* adds to it, the skew moves the price the way that sheds it, and no side passes its whole
\* (scale_side of ladder.rs, ref_skew_bps of skew.rs).
LeansOut ==
    Judged =>
        LET profile == ProfileOf(bot.verdict.action)
            adds    == Accumulating(Inv)
        IN  /\ SizeSum(profile[adds]) <= SizeSum(profile[OtherSide(adds)])
            /\ \A s \in Side : SizeSum(profile[s]) <= BPS
            /\ bot.verdict.action.act = "freeze" => SizeSum(profile[adds]) = 0 /\ SizeSum(profile[OtherSide(adds)]) > 0
            /\ RefSkew(Inv) \in -SkewCap .. SkewCap
            /\ RefSkew(Inv) < 0 => adds = "bid"
            /\ RefSkew(Inv) > 0 => adds = "ask"

\* No fault makes the bot bolder, and what it arms leans out of the heavy leg.
PolicyIsSound == NeverBolder /\ LeansOut

\* Once the vault rests, the bot comes to value what it holds and goes on valuing it, though
\* it may have missed every fill (drain_fills and resolve_inventory of tasks.rs).
PositionSettles == <>[](bot.valued = bot.vault.held)

\* decide_position and quote_market_inner say of a drained fill that it is fresher than the
\* vault read of its cycle.
FillsAreFresher == bot.used # "late"
=============================================================================
