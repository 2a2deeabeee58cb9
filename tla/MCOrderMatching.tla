--------------------------- MODULE MCOrderMatching ---------------------------
(***************************************************************************)
(* TLC instances of OrderMatching: the ladders leaders write.              *)
(* Offsets and sizes are in quarters (PPM = BPS = 4).                      *)
(***************************************************************************)
EXTENDS SwapSimulation, TLC

Spans(wall, slot) == [d \in Domain |-> IF d = "wall" THEN wall ELSE slot]
TheLevel(offset, bps, span) == [offset |-> offset, bps |-> bps, span |-> span]
Both(first, second) == [side \in Side |-> [i \in Levels |-> IF i = 0 THEN first ELSE second]]

\* Keys are interchangeable.
KeySymmetry == Permutations(Keys)

Lasting == Spans(MaxTime + 1, MaxTime + 1)

\* Half of the inventory at the reference price, half of it a quarter away.
TwoSteps == Both(TheLevel(0, 2, Lasting), TheLevel(1, 2, Lasting))
\* All of it at the reference price; and more than all of it, or nothing that lives.
OneStep == Both(TheLevel(0, 4, Lasting), TheLevel(1, 0, Lasting))
Flawed  == [Both(TheLevel(0, 3, Lasting), TheLevel(1, 3, Lasting))
                EXCEPT !["bid"] = Both(TheLevel(0, 2, Spans(0, 2)), TheLevel(0, 2, Spans(2, 0)))["bid"]]
\* Short on one clock each.
Brief == Both(TheLevel(0, 2, Spans(1, 2)), TheLevel(0, 2, Spans(2, 1)))

PriorityLadders == {TwoSteps, OneStep}
ExpiryLadders   == {Brief, Flawed}

\* Takers who name a price, and takers who do not.
AnyLimits == Prices \cup {Zero, Infinity}
NoLimits  == {Zero, Infinity}

\* Quotes carry the clock readings of the moment they are written.
Punctual == \A s \in Sectors, d \in Domain : ref[s].at[d] = 0
\* Vaults stay open and as large as they were funded.
Undisturbed == /\ Punctual
               /\ \A s \in Sectors : phase[s] = "active"

\* Both vaults have written a price and a ladder, in either order; nobody has taken yet.
Quoted ==
    /\ phase = [s \in Sectors |-> "active"]
    /\ authority \in [Sectors -> Keys]
    /\ \E first \in Sectors :
          ref \in [Sectors -> [price : Prices, at : {[d \in Domain |-> 0]},
                              stamp : {1, 3}, flush : {TRUE}]]
          /\ \A s \in Sectors : ref[s].stamp = IF s = first THEN 1 ELSE 3
    /\ ladder \in [Sectors -> Ladders]
    /\ remaining = [s \in Sectors |-> NothingLeft]
    /\ atoms = [l \in Leg |-> [s \in Sectors |-> MaxAtoms]]
    /\ accrued = [l \in Leg |-> 0]
    /\ treasury = [l \in Leg |-> SumOf(atoms[l])]
    /\ nonce = 4
    /\ now = [d \in Domain |-> 0]
    /\ swap = NoSwap
    /\ before = NoBefore
    /\ told = NothingTold

QuotedSpec == Quoted /\ [][TakerNext]_TakerVars
=============================================================================
