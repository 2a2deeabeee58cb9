------------------------------ MODULE Consensus ------------------------------
(***************************************************************************)
(* How the sources of one leg become one reading.                          *)
(*                                                                         *)
(* A candidate is what a source offers in a tick: a value (0 stands for    *)
(* whatever is not a finite positive number), an age, how it publishes     *)
(* (tape or reference fix), and whether it may be believed alone. Values   *)
(* are whole numbers, fractions are parts of a thousand, and the published *)
(* confidences are left out.                                               *)
(***************************************************************************)
EXTENDS Integers, FiniteSets, Functions

CONSTANTS StaleTape, StaleReference,    \* the age at which a reading is stale, by class
          Band                          \* how far apart agreeing sources may be, per mille

ASSUME BoundsAssumption == StaleTape \in Nat /\ StaleReference \in Nat /\ Band \in Nat

Nobody == "nobody"
Size(x) == IF x < 0 THEN -x ELSE x

\* Parts of a thousand of y.
Exceeds(x, permille, y) == 1000 * x > permille * y

\* What a leg is offered: candidates by their place in the offer, from a source each. A
\* part of an offer keeps its places.
Offers(offer) ==
    /\ offer = [i \in DOMAIN offer |-> offer[i]]
    /\ IsFiniteSet(DOMAIN offer) /\ DOMAIN offer \subseteq Nat
    /\ \A i \in DOMAIN offer :
          /\ offer[i].value \in Nat /\ offer[i].age \in Nat
          /\ offer[i].class \in {"tape", "reference"}
          /\ offer[i].trusted \in BOOLEAN /\ offer[i].source # Nobody
    /\ \A i, j \in DOMAIN offer : offer[i].source = offer[j].source => i = j

ForClass(class) == IF class = "tape" THEN StaleTape ELSE StaleReference
Young(c) == c.age < ForClass(c.class)
Fresh(c) == Young(c) /\ c.value > 0
AnyInvalid(cands) == \E i \in DOMAIN cands : Young(cands[i]) /\ cands[i].value = 0
HealthyValues(cands) == {cands[i].value : i \in {j \in DOMAIN cands : Fresh(cands[j])}}

Tape(c) == c.class = "tape"
Healthy(cands) == Restrict(cands, {i \in DOMAIN cands : Fresh(cands[i])})
\* References are heard only where no tape speaks.
FastSet(all) == IF \E i \in DOMAIN all : Tape(all[i])
                THEN Restrict(all, {i \in DOMAIN all : Tape(all[i])}) ELSE all

\* By value, equal values in the order of the offer: a candidate's rank is the number of
\* those up to it.
Count(set) == Cardinality(DOMAIN set)
NotAbove(c, d, i, j) == c.value < d.value \/ (c.value = d.value /\ i <= j)
UpTo(set, i) == {j \in DOMAIN set : NotAbove(set[j], set[i], j, i)}
Rank(set, i) == Cardinality(UpTo(set, i))
Ranked(set, k) == CHOOSE i \in DOMAIN set : Rank(set, i) = k

\* The two of the middle, which are one where there is an odd number.
LowMiddle(set)  == Ranked(set, (Count(set) + 1) \div 2)
HighMiddle(set) == Ranked(set, Count(set) \div 2 + 1)
Median(set) == (set[LowMiddle(set)].value + set[HighMiddle(set)].value) \div 2
MiddleOf(set) == {set[LowMiddle(set)].source, set[HighMiddle(set)].source}
Spread(set) == set[Ranked(set, Count(set))].value - set[Ranked(set, 1)].value

\* The one designated source, if there is exactly one.
LoneTrusted(set) ==
    LET t == {i \in DOMAIN set : set[i].trusted}
    IN  IF \E i \in t : t = {i} THEN set[CHOOSE i \in t : TRUE].source ELSE Nobody

Distance(set, i, v) == Size(set[i].value - v)
\* The last of those furthest away, one that is not designated before one that is.
Furthest(set, v) ==
    {i \in DOMAIN set : \A j \in DOMAIN set : Distance(set, j, v) <= Distance(set, i, v)}
Suspects(set, v) ==
    LET plain == {i \in Furthest(set, v) : ~set[i].trusted}
    IN  IF plain = {} THEN Furthest(set, v) ELSE plain
FurthestFrom(set, v) ==
    set[CHOOSE i \in Suspects(set, v) : \A j \in Suspects(set, v) : j <= i].source
PartnerOf(set, source) == set[CHOOSE i \in DOMAIN set : set[i].source # source].source

Dispersed(set) == Exceeds(Spread(set), Band, Median(set))
Outlier(set) ==
    IF ~Dispersed(set) THEN Nobody
    ELSE IF Count(set) = 2 /\ LoneTrusted(set) # Nobody THEN PartnerOf(set, LoneTrusted(set))
    ELSE FurthestFrom(set, Median(set))
\* A designated source stands alone unless it is itself the one that diverges.
AnchorOf(set) == IF LoneTrusted(set) = Outlier(set) THEN Nobody ELSE LoneTrusted(set)

OldestAge(set) == CHOOSE a \in {set[i].age : i \in DOMAIN set} : \A i \in DOMAIN set : set[i].age <= a
At(set, source) == CHOOSE i \in DOMAIN set : set[i].source = source

NoneUsable(all) == [value |-> 0, age |-> 0, state |-> "absent", by |-> {}, outlier |-> Nobody,
                n |-> 0, healthy |-> all]
Alone(c, all) ==
    [value |-> c.value, age |-> c.age,
     state |-> IF c.trusted THEN "single_trusted" ELSE "single_unverified",
     by |-> {c.source}, outlier |-> Nobody, n |-> 1, healthy |-> all]

\* Value, age and who composed it are decided together.
Answer(set) ==
    IF AnchorOf(set) # Nobody
    THEN LET c == set[At(set, AnchorOf(set))] IN [value |-> c.value, age |-> c.age, by |-> {c.source}]
    ELSE IF Dispersed(set) /\ Count(set) = 2
    THEN [value |-> 0, age |-> 0, by |-> {}]
    ELSE [value |-> Median(set), age |-> OldestAge(set), by |-> MiddleOf(set)]

\* What several have to say.
Together(set, all) ==
    LET answer == Answer(set)
    IN  [value |-> answer.value, age |-> answer.age,
         state |-> IF Dispersed(set) THEN "dispersed"
                   ELSE IF Count(set) >= 3 THEN "corroborated" ELSE "agreed",
         by |-> answer.by, outlier |-> Outlier(set), n |-> Count(set), healthy |-> all]

Settled(set, all) ==
    IF Count(set) = 0 THEN NoneUsable(all)
    ELSE IF Count(set) = 1 THEN Alone(set[CHOOSE i \in DOMAIN set : TRUE], all)
    ELSE Together(set, all)
Voiced(all)    == Settled(FastSet(all), all)
Resolve(cands) == Voiced(Healthy(cands))

Uncorroborated(leg) == leg.state = "single_unverified"
IsDispersed(leg)    == leg.state = "dispersed"

------------------------------------------------------------------------------
\* One bad source, whichever it is and whatever it prints, moves a leg of three or more
\* tapes by no more than the others differ among themselves or the band allows.
OneLiarIsHarmless(leg, set) ==
    \A liar \in DOMAIN set :
        LET honest == {set[i].value : i \in DOMAIN set \ {liar}}
            lo == CHOOSE v \in honest : \A w \in honest : v <= w
            hi == CHOOSE v \in honest : \A w \in honest : w <= v
        IN  Count(set) >= 3 =>
               /\ leg.value > 0
               /\ \/ leg.value \in (2 * lo - hi) .. (2 * hi - lo)
                  \/ ~Exceeds(Size(leg.value - lo), Band, hi)

\* What a leg shows comes from somewhere: a value has contributors, all of them fresh and
\* none of them suspected, no reference speaks over a tape, and no contributor is older
\* than the age the leg shows.
LegIsHonest(leg, cands) ==
    LET at(s) == cands[At(cands, s)]
    IN  /\ (leg.value > 0) <=> (leg.by # {})
        /\ \A s \in leg.by :
              /\ Fresh(at(s)) /\ at(s).age <= leg.age
              /\ at(s).class = "reference" =>
                    \A i \in DOMAIN cands : Fresh(cands[i]) => cands[i].class = "reference"
        /\ leg.outlier = Nobody \/ leg.by # {leg.outlier}
        /\ leg.state = "agreed" => leg.n = 2

LegIsRobust(leg, cands) == OneLiarIsHarmless(leg, FastSet(leg.healthy)) /\ LegIsHonest(leg, cands)
=============================================================================
