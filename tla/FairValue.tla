------------------------------ MODULE FairValue ------------------------------
(***************************************************************************)
(* The fair-value engine of one market: each tick its legs are resolved    *)
(* (Consensus), fused with what earlier ticks left behind, and composed to *)
(* fair = fx * basis, or to whatever is left when a leg is missing.        *)
(*                                                                         *)
(* The estimator's precisions are abstracted: a fused value is some value  *)
(* between the smallest and the largest of what was fused, and whether a   *)
(* departure of the tape exceeds the gate is open above the gate's floor.  *)
(* The decay of the basis is a choice among the weights below its cap.     *)
(***************************************************************************)
EXTENDS Consensus

CONSTANTS Grid,            \* the values an estimate may take
          FxOffers, CryptoOffers, PegOffers,    \* the candidate sets of a tick, by leg
          Panels,          \* more candidate sets, for the resolution of a leg alone
          Interval,        \* reference_publish_interval, in ticks
          GateFloor,       \* reseed_floor_frac, per mille
          HalfLife, MaxAge, Jump, Weights,      \* of the basis; per mille where a fraction
          BasisLow, BasisHigh, UsdcLow, UsdcHigh,
          Par,             \* the basis that means parity: bases are whole parts of it
          Pins             \* the pinned basis of a market, 0 for one that observes it

VARIABLE fv

\* What FairValueConfig::validate lets through, and the offers of single sources.
ASSUME EngineAssumption ==
    /\ \A offer \in FxOffers \cup CryptoOffers \cup PegOffers \cup Panels : Offers(offer)
    /\ Grid \subseteq Nat /\ Interval \in Nat \ {0} /\ GateFloor \in Nat
    /\ HalfLife \in Nat \ {0} /\ MaxAge \in Nat
    /\ Jump \in 1 .. 1000 /\ Weights \subseteq 0 .. 999
    /\ BasisLow \in Nat /\ BasisHigh \in Nat /\ UsdcLow \in Nat /\ UsdcHigh \in Nat
    /\ Par \in Nat /\ Pins \subseteq Nat

\* The candidate sets of the runs, resolved.
ResolvedLegs == [offers \in FxOffers \cup CryptoOffers \cup PegOffers |-> Resolve(offers)]

MaxJumpWidening == 10
MaxOf(a, b) == IF a < b THEN b ELSE a
MinOf(a, b) == IF a < b THEN a ELSE b

------------------------------------------------------------------------------
(* Fusion.                                                                  *)

Unseeded == [est |-> 0, absorbed |-> <<>>]

Throttled(c) == ~Tape(c)
AbsorbedSince(f, s) == IF s \in DOMAIN f.absorbed THEN f.absorbed[s] ELSE Interval
AgeAbsorbed(f)  == [f EXCEPT !.absorbed = [s \in DOMAIN @ |-> MinOf(@[s] + 1, Interval)]]
IsNew(f, c) == Throttled(c) => AbsorbedSince(f, c.source) >= Interval

Admits(fast, v) == fast > 0 /\ ~Exceeds(Size(v - fast), Band, fast)
Fusible(f, leg) ==
    Restrict(leg.healthy, {i \in DOMAIN leg.healthy : /\ Admits(leg.value, leg.healthy[i].value)
                                                     /\ IsNew(f, leg.healthy[i])})

\* A reference that was taken in is not taken in again before its next publication.
Absorb(f, used) ==
    LET taken == {used[i].source : i \in {j \in DOMAIN used : Throttled(used[j])}}
    IN  [s \in DOMAIN f.absorbed \cup taken |-> IF s \in taken THEN 0 ELSE f.absorbed[s]]

Hull(values) == {v \in Grid \cup values : (\E w \in values : w <= v) /\ (\E w \in values : v <= w)}
Valued(used) == {used[i].value : i \in DOMAIN used}

Gated(f, leg) == leg.value > 0 /\ Exceeds(Size(leg.value - f.est), GateFloor, f.est)

\* Every filter a tick may leave behind, with what the step was.
Fuse(before, leg) ==
    LET f    == AgeAbsorbed(before)
        used == Fusible(f, leg)
        with(v, step) == [filter |-> [est |-> v, absorbed |-> Absorb(f, used)], step |-> step]
    IN  IF DOMAIN used = {} THEN {[filter |-> f, step |-> "carried"]}
        ELSE IF f.est = 0 THEN {with(v, "seeded") : v \in Hull(Valued(used))}
        ELSE {with(v, "fused") : v \in Hull(Valued(used) \cup {f.est})}
                \cup (IF Gated(f, leg) THEN {with(leg.value, "reseeded")} ELSE {})

\* A fused value replaces the leg's own, except where nothing was fused.
FusedInto(leg, r) ==
    IF r.step = "carried" \/ leg.value = 0 THEN leg ELSE [leg EXCEPT !.value = r.filter.est]

------------------------------------------------------------------------------
(* The basis.                                                               *)

\* A quotient of positive readings is positive.
ObservedBasis(fx, crypto) == MaxOf((crypto.value * Par) \div fx.value, 1)
BasisOutOfBand(b) == b < BasisLow \/ b > BasisHigh

\* How long since the last fold. The code's age runs on for ever; past LongestAge it
\* neither makes a basis usable nor widens the gate any more, so no longer one is told apart.
LongestAge == MaxOf(MaxAge + 1, MaxJumpWidening * HalfLife)
Older(since) == MinOf(since + 1, LongestAge)

\* The gate widens with the age in half-lives; everything here is in parts of a half-life.
WidensFromTheStart(since) == MinOf(HalfLife + since, MaxJumpWidening * HalfLife)
Widening(since) == MinOf(MaxOf(since, HalfLife), MaxJumpWidening * HalfLife)
IsAJump(prev, o, since) == Exceeds(Size(o - prev) * HalfLife, Jump * Widening(since), prev)

\* Nothing is seeded from outside the band; what jumps is refused.
Seedable(o) == fv.basis > 0 \/ ~BasisOutOfBand(o)
Rejected(o, since) == ~Seedable(o) \/ (fv.basis > 0 /\ IsAJump(fv.basis, o, since))
Folded(o, w) == IF fv.basis = 0 THEN o ELSE fv.basis + ((o - fv.basis) * w) \div 1000

Usable(basis, since) == basis > 0 /\ since <= MaxAge

------------------------------------------------------------------------------
(* Composition.                                                             *)

Health(regime) ==
    CASE regime \in {"normal", "crypto_only"}        -> "ok"
      [] regime \in {"fx_pinned", "uncorroborated"}  -> "unverified"
      [] regime = "paused"                           -> "pause"
      [] OTHER                                       -> "degraded"

\* Only what would pass for healthy is weakened.
UncorroboratedIf(regime, alone) ==
    IF alone /\ regime \in {"normal", "crypto_only"} THEN "uncorroborated" ELSE regime

UsdcBreachOfConsensus(cands) ==
    LET v == Resolve(cands).value IN v > 0 /\ (v < UsdcLow \/ v > UsdcHigh)
UsdcBreach(cands) ==
    \/ \E v \in HealthyValues(cands) : v < UsdcLow \/ v > UsdcHigh
    \/ IsDispersed(Resolve(cands))

Of(regime, anchor, basis, age) ==
    [regime |-> regime, health |-> Health(regime), anchor |-> anchor, basis |-> basis, age |-> age]

FallBack(why) == IF fv.peg THEN Of(why, "static", 0, 0) ELSE Of("paused", "none", 0, 0)

BothLive(fx, crypto, basis, since, outlier) ==
    IF ~Usable(basis, since) THEN FallBack("basis_unusable")
    ELSE Of(UncorroboratedIf(
               IF outlier THEN "no_basis_leg"
               ELSE IF IsDispersed(fx) \/ IsDispersed(crypto) THEN "leg_dispersed" ELSE "normal",
               Uncorroborated(fx) \/ Uncorroborated(crypto)),
            "fx", basis, since)
FxOnly(basis, since) ==
    IF Usable(basis, since) THEN Of("no_basis_leg", "fx", basis, since)
    ELSE FallBack("basis_unusable")
CryptoAlone(fx, crypto, offers, weekend) ==
    Of(UncorroboratedIf(
          IF IsDispersed(crypto) THEN "leg_dispersed"
          ELSE IF weekend THEN "crypto_only"
          ELSE IF AnyInvalid(offers) THEN "fx_invalid"
          ELSE IF IsDispersed(fx) THEN "leg_dispersed" ELSE "fx_stale",
          Uncorroborated(crypto)),
       "crypto", 0, 0)

\* What a tick makes of the resolved legs, with the basis it leaves.
Composed(fx, crypto, offers, weekend, w) ==
    LET since == Older(fv.since)
        o     == ObservedBasis(fx, crypto)
        kept  == [basis |-> fv.basis, since |-> since]
        new   == IF Rejected(o, since) THEN kept ELSE [basis |-> Folded(o, w), since |-> 0]
    IN  CASE fv.pin > 0 /\ fx.value > 0 ->
               [left |-> kept, out |-> Of("fx_pinned", "fx", fv.pin, 0), breach |-> FALSE]
          [] fv.pin = 0 /\ fx.value > 0 /\ crypto.value > 0 ->
               [left |-> new, out |-> BothLive(fx, crypto, new.basis, new.since, Rejected(o, since)),
                breach |-> BasisOutOfBand(o) \/ (Usable(new.basis, new.since) /\ BasisOutOfBand(new.basis))]
          [] fv.pin = 0 /\ fx.value > 0 /\ crypto.value = 0 ->
               [left |-> kept, out |-> FxOnly(kept.basis, since),
                breach |-> Usable(kept.basis, since) /\ BasisOutOfBand(kept.basis)]
          [] fx.value = 0 /\ crypto.value > 0 ->
               [left |-> kept, out |-> CryptoAlone(fx, crypto, offers, weekend), breach |-> FALSE]
          [] OTHER ->
               [left |-> kept, out |-> FallBack("static_peg"), breach |-> FALSE]

\* A pinned market has no crypto leg, whatever its sources say.
CryptoLeg(offers) == IF fv.pin > 0 THEN NoneUsable(<<>>) ELSE ResolvedLegs[offers]

\* What a tick shows: what was composed, the states of the legs, and whether the basis
\* was observed in it.
Shown(out, breach, fx, crypto, folded) ==
    [regime |-> out.regime, health |-> out.health, anchor |-> out.anchor, basis |-> out.basis,
     age |-> out.age, breach |-> breach, fx |-> fx, crypto |-> crypto, folded |-> folded]
NoOut == Shown(Of("paused", "none", 0, 0), FALSE, "absent", "absent", FALSE)

FairValueInit ==
    \E pin \in Pins, peg \in BOOLEAN :
        fv = [pin |-> pin, peg |-> peg, fx |-> Unseeded, crypto |-> Unseeded,
              basis |-> 0, since |-> 0, out |-> NoOut]

Becomes(fx, crypto, f, c, r) ==
    [fv EXCEPT !.fx = f.filter, !.crypto = c.filter,
               !.basis = r.left.basis, !.since = r.left.since,
               !.out = Shown(r.out, r.breach, fx.state, crypto.state, r.left.since = 0)]

Compose(fx, crypto, fxOffers, weekend) ==
    \E f \in Fuse(fv.fx, fx), c \in Fuse(fv.crypto, crypto), w \in Weights :
       fv' = Becomes(fx, crypto, f, c,
                     Composed(FusedInto(fx, f), FusedInto(crypto, c), fxOffers, weekend, w))

FairValueNext ==
    \E x \in FxOffers, c \in CryptoOffers, weekend \in BOOLEAN :
       Compose(ResolvedLegs[x], CryptoLeg(c), x, weekend)

FairValueSpec == FairValueInit /\ [][FairValueNext]_fv

------------------------------------------------------------------------------
Backed == {"corroborated", "agreed", "single_trusted"}

\* Health is earned: a market that claims to be well rests on legs that agree or are
\* trusted, on a basis observed in this very tick, inside its band; one that quotes from
\* the anchor never uses a basis older than its limit.
HealthIsEarned ==
    /\ fv.out.health = "ok" =>
          /\ fv.out.crypto \in Backed
          /\ fv.out.anchor = "fx" => fv.out.fx \in Backed /\ fv.out.age = 0 /\ fv.out.folded
    /\ fv.out.anchor = "fx" => fv.out.basis > 0 /\ fv.out.age <= MaxAge
    /\ fv.pin > 0 => ~fv.out.breach /\ fv.out.anchor # "crypto"

\* A basis outside its band is never quoted in silence.
NoSilentPegEvent ==
    fv.out.anchor = "fx" /\ fv.pin = 0 /\ BasisOutOfBand(fv.out.basis) => fv.out.breach

\* A disagreement on a leg that is quoted from is a fault and is shown as one: engine.rs
\* says of a disagreement "So it degrades", and of a pinned market that it has the gate.
DispersedDegrades ==
    /\ fv.out.anchor = "fx" /\ fv.out.fx = "dispersed" => fv.out.health = "degraded"
    /\ fv.out.anchor = "crypto" /\ fv.out.crypto = "dispersed" => fv.out.health = "degraded"

EveryLegIsRobust == \A offers \in Panels \cup DOMAIN ResolvedLegs : LegIsRobust(Resolve(offers), offers)

\* The depeg alarm is not silenced by the disagreement it is for: whatever any of the
\* peg's sources would raise alone, they raise together, and so does a pair that differs.
DepegIsSeen ==
    \A offers \in PegOffers :
        /\ (\E i \in DOMAIN offers : UsdcBreach(<<offers[i]>>)) => UsdcBreach(offers)
        /\ ResolvedLegs[offers].value = 0 /\ HealthyValues(offers) # {} => UsdcBreach(offers)

\* One bad source is harmless and a depeg is seen, health is earned, and what is wrong
\* with a basis or a leg shows. (The resolution of a leg does not depend on the state.)
FairValueIsSound ==
    /\ EveryLegIsRobust /\ DepegIsSeen
    /\ HealthIsEarned
    /\ NoSilentPegEvent
    /\ fv.pin = 0 => DispersedDegrades

\* What a tick may do to a basis last touched so many ticks ago: one gate's width within a
\* half-life, in proportion to its age from then on, and never more than ten.
WithinGate(move, age) ==
    /\ age <= HalfLife => ~Exceeds(move, Jump, fv.basis)
    /\ age >= HalfLife => ~Exceeds(move * HalfLife, Jump * age, fv.basis)
    /\ ~Exceeds(move, 10 * Jump, fv.basis)

\* No tick moves the basis further than the age it has in that tick allows, however long
\* the silence before; a first one lies inside the band. Only a fold makes a basis young.
\* A reference counts once per publication interval.
BasisStep ==
    /\ fv.basis = 0 /\ fv'.basis > 0 => ~BasisOutOfBand(fv'.basis)
    /\ fv.basis > 0 =>
          /\ fv'.basis > 0
          /\ WithinGate(Size(fv'.basis - fv.basis), fv.since + 1)
          /\ fv'.basis # fv.basis => fv'.since = 0
          /\ fv'.since > fv.since \/ fv'.since = LongestAge \/ fv'.out.folded
    /\ \A s \in DOMAIN fv.fx.absorbed :
          /\ s \in DOMAIN fv'.fx.absorbed
          /\ fv'.fx.absorbed[s] = 0 => fv.fx.absorbed[s] + 1 >= Interval
BasisMovesByItsAge == [][BasisStep]_fv
=============================================================================
