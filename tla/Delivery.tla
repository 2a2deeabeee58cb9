------------------------------ MODULE Delivery ------------------------------
(***************************************************************************)
(* What the ingestion framework promises a consumer (feeds/src/backfill.rs  *)
(* and rpc.rs): of a program's transactions, numbered in ledger order, the  *)
(* store always holds a prefix. Pages, cursors, crashes and re-delivery are *)
(* hidden; RpcFeed is shown to implement this.                              *)
(***************************************************************************)
EXTENDS Naturals

CONSTANT MaxTx   \* bound on the ledger

VARIABLES tip,   \* how many transactions are finalized
          rows   \* the transactions stored

vars == <<tip, rows>>

Init == tip = 0 /\ rows = {}

Arrive == tip < MaxTx /\ tip' \in tip + 1 .. MaxTx /\ UNCHANGED rows

\* A batch takes up where the one before it ended.
Store == \E n \in 1 .. tip : rows' = 1 .. n /\ rows \subseteq 1 .. n /\ UNCHANGED tip

Next == Arrive \/ Store

Spec == Init /\ [][Next]_vars
=============================================================================
