--------------------------- MODULE MCMarketVaults ---------------------------
(***************************************************************************)
(* TLC instances of MarketVaults.                                          *)
(***************************************************************************)
EXTENDS MarketVaults, TLC

\* Leaders, depositors and takers are interchangeable.
Symmetry == Permutations(Wallets)

\* A vault opens to outsiders before it trades and never quotes malformed prices: the
\* settings a run about money leaves out.
Trading ==
    \A s \in Sectors :
        /\ vault[s].price # "malformed"
        /\ Occupied(s) => vault[s].allow
        /\ vault[s].price = "matchable" => vault[s].approved
=============================================================================
