------------------------------- MODULE MCData -------------------------------
(***************************************************************************)
(* A TLC instance of two parts of the way data takes: the indexer over its *)
(* feed, and the fair-value engine of a market. They share no state, so a  *)
(* behaviour is one of a single part, with the other at rest.              *)
(***************************************************************************)
EXTENDS Indexer, FairValue, SequencesExt

VARIABLE part    \* whose behaviour this is (never changes)

------------------------------------------------------------------------------
(* The candidate sets of the engine.                                        *)

Reading(s, v, a, class, trusted) ==
    [source |-> s, value |-> v, age |-> a, class |-> class, trusted |-> trusted]
Live(s, v) == Reading(s, v, 0, "tape", FALSE)
Pyth(v)    == Reading("pyth", v, 0, "tape", TRUE)
Daily      == Reading("daily", 100, 1, "reference", FALSE)

SomeFxOffers     == {<<>>, <<Pyth(130), Live("oanda", 104)>>,
                     <<Pyth(0), Live("oanda", 104), Daily>>, <<Daily>>}
SomeCryptoOffers == {<<>>, <<Live("kraken", 100), Live("coinbase", 100)>>, <<Live("kraken", 150)>>}
SomePegOffers    == {<<Live("kraken", 100)>>, <<Live("kraken", 100), Live("gemini", 90)>>}

\* Up to three tapes and a reference, fresh or stale, absurd, close together or far off.
OneOf(s) == {<<>>} \cup {<<Reading(s, v, a, "tape", s = "p")>> : v \in {0, 100, 101, 150}, a \in {0, 1}}
SomePanels == {FlattenSeq(<<p, a, b, d>>) : p \in OneOf("p"), a \in OneOf("a"), b \in OneOf("b"),
                                            d \in {<<>>, <<Daily>>}}

------------------------------------------------------------------------------
DataInit ==
    /\ part \in {"indexer", "fair value"}
    /\ Init /\ FairValueInit
    /\ part = "indexer" => fv.pin = 0 /\ fv.peg

IndexerMoves   == part = "indexer" /\ Next /\ UNCHANGED <<part, fv>>
FairValueMoves == part = "fair value" /\ FairValueNext /\ UNCHANGED <<part, vars>>

DataNext == IndexerMoves \/ FairValueMoves

DataSpec ==
    /\ DataInit /\ [][DataNext]_<<part, vars, fv>>
    /\ WF_vars(part = "indexer" /\ Work)
=============================================================================
