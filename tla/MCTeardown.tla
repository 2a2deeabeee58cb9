------------------------------ MODULE MCTeardown ------------------------------
(***************************************************************************)
(* A TLC instance of Teardown, run again and again until it completes.     *)
(***************************************************************************)
EXTENDS Teardown

\* The operator runs it again, and a run in progress goes on.
Spec == TeardownSpec /\ WF_td(Again) /\ WF_td(GoesOn)
=============================================================================
