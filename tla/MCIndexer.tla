------------------------------ MODULE MCIndexer ------------------------------
(***************************************************************************)
(* TLC instances of Indexer.                                                *)
(***************************************************************************)
EXTENDS Indexer
=============================================================================
