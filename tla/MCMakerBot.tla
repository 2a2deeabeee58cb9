------------------------------ MODULE MCMakerBot ------------------------------
(***************************************************************************)
(* A TLC instance of MakerBot on its own.                                  *)
(***************************************************************************)
EXTENDS MakerBot

\* A transaction may land although its send reported an error, but not after newer ones.
NoneLate == {{"lost", "landed"}}
=============================================================================
