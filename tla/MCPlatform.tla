------------------------------ MODULE MCPlatform ------------------------------
(***************************************************************************)
(* A TLC instance of three parts that share no state with each other:      *)
(* instructions on the wire, the bot that stands its quotes down, and its  *)
(* judgement of what its vault holds. Side by side their states would only *)
(* multiply, so a behaviour is one of a single part, the others at rest.   *)
(***************************************************************************)
EXTENDS InstructionWire, MakerBot, InventoryPolicy

VARIABLE part   \* whose behaviour this is (never changes)

------------------------------------------------------------------------------
(* What the constants of MakerBot are given.                                *)

AnyFaults == {{"lost"}, {"lost", "landed", "late"}}

\* At most this many transactions may still land behind the bot's back.
FewStrays == Cardinality(stray) <= 1

------------------------------------------------------------------------------
(* A vault that trades between three holdings, heavy one way, the other,   *)
(* and even, and what the feeds may say of its price.                      *)

HeavyAndEven == {<<8, 2>>, <<3, 6>>, <<4, 4>>}
SmallLadder  == <<5, 5, 10>>

Fine == [degraded |-> FALSE, usdc |-> FALSE, basis |-> FALSE, silent |-> FALSE,
         shortfall |-> FALSE]
FineOrDegraded == {Fine, [Fine EXCEPT !.degraded = TRUE]}

------------------------------------------------------------------------------
\* A vault where it rests: even, with nothing to tell.
Evenly == bot.vault.held = <<4, 4>> /\ bot.link

PlatformInit ==
    /\ part \in {"wire", "bot", "policy"}
    /\ WireInit
    /\ IF part = "bot" THEN Init ELSE InitAt("off", {Hold}) /\ faults = {"lost"}
    /\ PolicyInit /\ (part # "policy" => Evenly)

WireMoves   == part = "wire" /\ WireNext /\ UNCHANGED <<part, vars, bot>>
BotMoves    == part = "bot" /\ Next /\ FewStrays' /\ UNCHANGED <<part, flight, bot>>
PolicyMoves == part = "policy" /\ PolicyNext /\ UNCHANGED <<part, vars, flight>>

PlatformNext == WireMoves \/ BotMoves \/ PolicyMoves

\* Fairness as PolicySpec has it.
PlatformSpec ==
    /\ PlatformInit /\ [][PlatformNext]_<<part, flight, vars, bot>>
    /\ WF_bot(part = "policy" /\ DrainFills) /\ SF_bot(part = "policy" /\ Judge)

------------------------------------------------------------------------------
\* InventoryPolicy: once the vault rests, the bot comes to value what it holds, though it
\* may have missed every fill.
PositionsSettle == part = "policy" => PositionSettles
=============================================================================
