------------------------------ MODULE Indexer ------------------------------
(***************************************************************************)
(* The indexer's worker (indexer/src/bin/indexer.rs, store.rs, aggregate.rs *)
(* and queries/): a feed whose batches go to the event tables, and then an  *)
(* aggregation pass that folds new fill legs into takes, one per            *)
(* transaction, and takes into the market's rollup.                         *)
(*                                                                         *)
(* The pass has a watermark of its own, the coordinates of the last leg     *)
(* folded. It commits nothing together: each take, the rollup and the       *)
(* watermark are separate statements, and a crash can fall between any two. *)
(***************************************************************************)
EXTENDS RpcFeed

CONSTANTS LegCounts   \* how many fill legs a transaction has

ASSUME LegAssumption == LegCounts \subseteq Nat

VARIABLES
    ledger,     \* per finalized transaction: its slot, its signature and its legs
    pass,       \* the legs the pass selected, and the takes it has still to write
    takes,      \* the transactions that have a take
    rollup,     \* the takes the market's rollup counts (market_stats)
    watermark   \* the coordinates of the last leg folded (indexer_cursor)

foldVars == <<pass, takes, rollup, watermark>>
vars == <<feedVars, ledger, foldVars>>

NoPass     == [legs |-> {}, todo |-> {}]
BeforeAll  == <<0, 0, 0>>

\* Signatures come in any order. Only their order within a slot is told apart here.
Signatures(n) == {s \in [1 .. n -> 1 .. n] : \A i, j \in 1 .. n : i # j => s[i] # s[j]}

TypeOK ==
    /\ FeedTypeOK
    /\ ledger \in Seq([slot : Nat, signature : Nat, legs : Nat]) /\ Len(ledger) = tip
    /\ pass.todo \subseteq Tx /\ pass.legs \subseteq Tx \X Nat
    /\ takes \subseteq rows /\ rollup \subseteq takes
    /\ watermark \in Nat \X Nat \X Nat

Init ==
    /\ FeedInit
    /\ ledger = <<>>
    /\ pass = NoPass
    /\ takes = {} /\ rollup = {}
    /\ watermark = BeforeAll

------------------------------------------------------------------------------
(* Coordinates. A block's transactions share its slot, and the RPC does not *)
(* say in which order they ran: txn_index is 0 for all of them.             *)

NextSlot == IF ledger = <<>> THEN 1 ELSE ledger[Len(ledger)].slot + 1

ArriveBlock(n, signature, legs) ==
    /\ Arrive(n)
    /\ ledger' = ledger \o [i \in 1 .. n |-> [slot |-> NextSlot, signature |-> signature[i],
                                              legs |-> legs[i]]]
    /\ UNCHANGED foldVars

Legs(txs) == UNION {{t} \X (1 .. ledger[t].legs) : t \in txs}

Key(leg) == <<ledger[leg[1]].slot, leg[2], ledger[leg[1]].signature>>

Before(k, l) ==
    \/ k[1] < l[1]
    \/ k[1] = l[1] /\ k[2] < l[2]
    \/ k[1] = l[1] /\ k[2] = l[2] /\ k[3] < l[3]

------------------------------------------------------------------------------
(* The aggregation pass.                                                    *)

\* fills_after: the first Limit of the legs past the watermark.
NewLegs == {leg \in Legs(rows) : Before(watermark, Key(leg))}
Selected ==
    {leg \in NewLegs :
        Cardinality({other \in NewLegs : Before(Key(other), Key(leg))}) < Limit}

\* A pass runs after every batch, an empty one too: a run that died before its pass left
\* legs to fold.
Select ==
    /\ pc = "fold" /\ pass = NoPass /\ Selected # {}
    /\ pass' = [legs |-> Selected, todo |-> {leg[1] : leg \in Selected}]
    /\ UNCHANGED <<feedVars, ledger, takes, rollup, watermark>>

NextBatch == pc' = "poll" /\ batch' = Nothing /\ UNCHANGED <<tip, src, rows, saved>>

NothingNew ==
    /\ pc = "fold" /\ pass = NoPass /\ Selected = {}
    /\ NextBatch
    /\ UNCHANGED <<ledger, foldVars>>

\* A take is recomputed from all its legs, which were stored in one transaction.
UpsertTake(t) ==
    /\ pc = "fold" /\ t \in pass.todo
    /\ takes' = takes \cup {t}
    /\ pass' = [pass EXCEPT !.todo = @ \ {t}]
    /\ UNCHANGED <<feedVars, ledger, rollup, watermark>>

AllWritten == pass # NoPass /\ pass.todo = {}

\* The rollup is recomputed from all takes, and the watermark moves last.
RecomputeRollup ==
    /\ AllWritten /\ rollup # takes
    /\ rollup' = takes
    /\ UNCHANGED <<feedVars, ledger, pass, takes, watermark>>

LastOf(legs)     == CHOOSE leg \in legs : \A other \in legs : ~Before(Key(leg), Key(other))
LastStored(legs) == LastOf(Legs(rows))
LastFolded(legs) == LastOf(legs)

AdvanceWatermark ==
    /\ AllWritten /\ rollup = takes
    /\ watermark' = Key(LastFolded(pass.legs))
    /\ pass' = NoPass
    /\ NextBatch
    /\ UNCHANGED <<ledger, takes, rollup>>

------------------------------------------------------------------------------
FeedWork == Enumerate \/ EmitPage \/ LosePage \/ Done \/ Commit \/ SaveCursor \/ Start

Work ==
    \/ FeedWork /\ UNCHANGED <<ledger, foldVars>>
    \/ Select \/ NothingNew
    \/ \E t \in pass.todo : UpsertTake(t)
    \/ RecomputeRollup \/ AdvanceWatermark

Next ==
    \/ \E n \in BlockSizes : \E s \in Signatures(n), legs \in [1 .. n -> LegCounts] :
          ArriveBlock(n, s, legs)
    \/ Work
    \/ EmitFails /\ UNCHANGED <<ledger, foldVars>>
    \/ Crash /\ pass' = NoPass /\ UNCHANGED <<ledger, takes, rollup, watermark>>

Spec == Init /\ [][Next]_vars

------------------------------------------------------------------------------
\* No leg is skipped: what is not past the watermark is in its take, and the take in the
\* rollup, although batches, passes and slots are cut at different legs and a pass can
\* be cut short anywhere.
EveryLegFolded ==
    \A leg \in Legs(rows) :
        ~Before(watermark, Key(leg)) => leg[1] \in takes \cap rollup

\* The feed below it never passes over a transaction, whatever state its walk is in.
FeedIsSound == TypeOK /\ NothingLeftBehind

\* A worker that stays up stores and folds everything, whatever crashes came before,
\* and however much arrived while it was down or in the middle of a walk.
CatchesUp ==
    <>[](pc # "down") =>
        <>[](/\ rows = 1 .. tip
             /\ takes = {leg[1] : leg \in Legs(rows)} /\ rollup = takes)
=============================================================================
