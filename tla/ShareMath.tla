------------------------------ MODULE ShareMath ------------------------------
(***************************************************************************)
(* The integer kernels of vault share accounting (sdk/math-core/share.rs): *)
(* what a deposit costs, what a withdrawal pays, when the performance fee  *)
(* mints shares to the leader, and the leader's skin-in-the-game floor.    *)
(*                                                                         *)
(* The code fixes the scale of a rate at one million (PPM) and of a        *)
(* value-per-share at 2^32 (Q32_32_ONE); here both are parameters, so that *)
(* TLC can use small ones and the proofs cover every scale.                *)
(***************************************************************************)
EXTENDS Naturals, FiniteSets

CONSTANTS PPM,    \* what a rate of one hundred percent is written as
          QOne,   \* a value-per-share of one, Q32.32 in the code
          MaxU64  \* the largest u64

ASSUME PPMAssumption  == PPM \in Nat \ {0}
ASSUME QOneAssumption == QOne \in Nat \ {0}
ASSUME U64Assumption  == MaxU64 \in Nat \ {0}

CeilDiv(a, b) == (a + b - 1) \div b
SatAdd(a, b)  == IF a + b > MaxU64 THEN MaxU64 ELSE a + b

\* The floor of the square root: how many positive r have r^2 <= n.
Isqrt(n) == Cardinality({r \in 1 .. n : r * r <= n})

------------------------------------------------------------------------------
(* single_leg_basket: the depositor names an amount on one leg; the shares  *)
(* round down and what both legs cost for them rounds up.                   *)

BasketShares(legIn, total, legAtoms) == (legIn * total) \div legAtoms

CostRoundedDown(shares, total, legAtoms) == (shares * legAtoms) \div total
BasketCost(shares, total, legAtoms) == CeilDiv(shares * legAtoms, total)

(* compute_pro_rata_slice: what burning shares pays on one leg, rounded down. *)

SliceOf(shares, total, legAtoms) == (shares * legAtoms) \div total

MinLeaderShareOk(leaderAfter, totalAfter, minShare) ==
    leaderAfter * PPM >= minShare * totalAfter

------------------------------------------------------------------------------
(* realize_perf_fee: value is L, the square root of base times quote. When  *)
(* the value per share passes the high-water mark, the leader is minted     *)
(* shares worth the fee rate's part of the gain and the mark moves to the   *)
(* value per share after the mint.                                          *)

ValueOf(base, quote) == Isqrt(base * quote)

\* The high-water mark of all shares together, back in atoms.
MarkOf(hwm, total) == (hwm * total) \div QOne

FeeDenominator(L, mark, rate) == (PPM - rate) * L + rate * mark

\* A plausible slip: the share of the gain, without growing the supply it is a share of.
MintWithoutDilution(L, mark, total, rate) ==
    IF L = 0 THEN 0 ELSE (rate * total * L) \div (PPM * L)
FeeMint(L, mark, total, rate) ==
    (rate * total * (L - mark)) \div FeeDenominator(L, mark, rate)

\* Whether anything happens at all: a seeded vault with value on both legs above its mark.
AboveMark(L, total, hwm) == /\ total > 0
                            /\ L > 0
                            /\ (L * QOne) \div total > hwm

\* The number of shares the leader is minted.
PerfFeeMint(base, quote, total, hwm, rate) ==
    LET L    == ValueOf(base, quote)
        mark == MarkOf(hwm, total)
    IN  IF /\ AboveMark(L, total, hwm)
           /\ rate > 0 /\ L > mark
           /\ FeeDenominator(L, mark, rate) > 0
        THEN FeeMint(L, mark, total, rate)
        ELSE 0

\* The high-water mark after it; a rate of the whole gain over a zero mark changes nothing.
PerfFeeMark(base, quote, total, hwm, rate) ==
    LET L    == ValueOf(base, quote)
        mark == MarkOf(hwm, total)
        m    == PerfFeeMint(base, quote, total, hwm, rate)
    IN  IF \/ ~AboveMark(L, total, hwm)
           \/ rate > 0 /\ L > mark /\ FeeDenominator(L, mark, rate) = 0
        THEN hwm
        ELSE (L * QOne) \div SatAdd(total, m)
=============================================================================
