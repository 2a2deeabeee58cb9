------------------------------ MODULE RpcFeed ------------------------------
(***************************************************************************)
(* The RPC poll source, its pager, the runner and the store sink of the     *)
(* ingestion framework (feeds/src/rpc.rs, backfill.rs, runner.rs, store.rs).*)
(*                                                                         *)
(* The node answers "what is new" newest first and cut off at a page, so a  *)
(* walk goes backwards from the tip to the resume cursor, keeping one key   *)
(* per page, and only then are the pages requested again, oldest first, and *)
(* handed to the sinks. The ledger grows all the while, any request can     *)
(* fail, and the process can die between any two steps; what survives is    *)
(* the database: the rows, and a cursor that is saved after them.           *)
(*                                                                         *)
(* Transactions are numbered in ledger order and 0 stands for none. The     *)
(* process that uses this feed adds its other sinks (see Indexer).          *)
(***************************************************************************)
EXTENDS Naturals, Sequences, FiniteSets

CONSTANTS Limit,       \* batch_limit: transactions in a page
          MaxPages,    \* max_pages_per_poll
          BlockSizes,  \* how many transactions of the program a block has
          MaxTx,       \* bound on the ledger
          Races        \* whether blocks may come that displace part of a pending tip page

ASSUME LimitAssumption == Limit \in Nat \ {0} /\ MaxPages \in Nat \ {0} /\ MaxTx \in Nat
ASSUME TrafficAssumption == BlockSizes \subseteq Nat \ {0} /\ Races \in BOOLEAN

VARIABLES
    tip,    \* how many transactions are finalized
    src,    \* the source: its cursor, where its walk resumes, its pages, whether it got there
    pc,     \* the process: "down", "poll", then one batch through "commit", "save", "fold"
    batch,  \* the batch being handled: its transactions and its cursor
    rows,   \* the transactions stored
    saved   \* the cursor stored (feed_cursors)

feedVars == <<tip, src, pc, batch, rows, saved>>

Tx   == 1 .. MaxTx
Tip  == 0   \* before = None: a page open at the tip
None == 0

FreshSource == [last |-> None, before |-> Tip, pending |-> <<>>, reached |-> FALSE]
Nothing     == [txs |-> {}, cursor |-> None]
PageKey     == [before : Tx \cup {Tip}, newest : Tx]

FeedTypeOK ==
    /\ tip \in 0 .. MaxTx
    /\ src \in [last : Tx \cup {None}, before : Tx \cup {Tip}, pending : Seq(PageKey),
                reached : BOOLEAN]
    /\ pc \in {"down", "poll", "commit", "save", "fold"}
    /\ batch \in [txs : SUBSET Tx, cursor : Tx \cup {None}]
    /\ rows \subseteq Tx
    /\ saved \in Tx \cup {None}

FeedInit ==
    /\ tip = 0
    /\ src = FreshSource /\ pc = "down" /\ batch = Nothing
    /\ rows = {} /\ saved = None

------------------------------------------------------------------------------
(* The node.                                                                *)

Lowest(a, b)  == IF a < b THEN a ELSE b
Highest(a, b) == IF a < b THEN b ELSE a

\* getSignaturesForAddress: the newest of the transactions between two exclusive bounds.
Newest(before) == IF before = Tip THEN tip ELSE before - 1
Window(before) == src.last + 1 .. Newest(before)
Page(before)   == Highest(src.last, Newest(before) - Lowest(Limit, Newest(before))) + 1
                      .. Newest(before)

\* A pending tip page can be requested again as it was enumerated, or not be found at
\* all, unless the blocks since have pushed out some of it and not the whole of it.
TipPageKept(n) ==
    src.pending # <<>> /\ src.pending[1].before = Tip =>
        LET key   == src.pending[1]
            since == tip + n - key.newest
        IN  since >= Limit \/ since + Lowest(Limit, key.newest - src.last) <= Limit

Arrive(n) ==
    /\ tip + n <= MaxTx
    /\ Races \/ TipPageKept(n)
    /\ tip' = tip + n
    /\ UNCHANGED <<src, pc, batch, rows, saved>>

------------------------------------------------------------------------------
(* The walk.                                                                *)

\* A batch goes through the sinks; an empty one too.
Emit(b) == pc' = "commit" /\ batch' = b

\* The walk stops at the first page that is not full, or after MaxPages of them.
Found          == Cardinality(Window(src.before))
Reached        == Found \div Limit < MaxPages
Pages          == Lowest(MaxPages, (Found + Limit - 1) \div Limit)
TopOf(k)       == Newest(src.before) - (k - 1) * Limit
Keys           == [k \in 1 .. Pages |->
                      [before |-> IF k = 1 THEN src.before ELSE TopOf(k) + 1,
                       newest |-> TopOf(k)]]
WalkedTo       == IF Pages = 0 THEN src.before ELSE Highest(src.last, TopOf(Pages + 1)) + 1

\* Only the first page is open at the tip, so what comes during the walk does not matter
\* to it, and a request that fails leaves everything as it was. Short of the bound, the
\* poll ends with an empty batch.
Enumerate ==
    /\ pc = "poll" /\ ~src.reached
    /\ src' = [src EXCEPT !.before = WalkedTo, !.pending = @ \o Keys, !.reached = Reached]
    /\ IF Reached THEN UNCHANGED <<pc, batch>> ELSE Emit(Nothing)
    /\ UNCHANGED <<tip, rows, saved>>

WalkKept(last)    == [src EXCEPT !.last = last, !.pending = <<>>, !.reached = FALSE]
RestartWalk(last) == [FreshSource EXCEPT !.last = last]

------------------------------------------------------------------------------
(* Emission: the oldest page, requested again by its key.                   *)

Oldest == src.pending[Len(src.pending)]
RestOf(pages) == SubSeq(pages, 1, Len(pages) - 1)

\* Cut back to what the walk saw of it at its newer end.
PageAgain == {t \in Page(Oldest.before) : t <= Oldest.newest}
Emitting == pc = "poll" /\ src.reached /\ src.pending # <<>>

NewestNow(key)  == Newest(key.before)
CursorFor(key)  == key.newest

\* The page and every transaction in it were fetched.
EmitPage ==
    /\ Emitting /\ Oldest.newest \in Page(Oldest.before)
    /\ Emit([txs |-> PageAgain, cursor |-> CursorFor(Oldest)])
    /\ src' = [src EXCEPT !.last = CursorFor(Oldest), !.pending = RestOf(@)]
    /\ UNCHANGED <<tip, rows, saved>>

\* It is not where it was: nothing may be emitted from this walk.
LosePage ==
    /\ Emitting /\ Oldest.newest \notin Page(Oldest.before)
    /\ Emit(Nothing)
    /\ src' = RestartWalk(src.last)
    /\ UNCHANGED <<tip, rows, saved>>

\* One of its many requests failed: the runner backs off and polls again.
PageDropped == RestOf(src.pending)
PendingAfterError == src.pending
EmitFails ==
    /\ Emitting
    /\ src' = [src EXCEPT !.pending = PendingAfterError]
    /\ UNCHANGED <<tip, pc, batch, rows, saved>>

Done ==
    /\ pc = "poll" /\ src.reached /\ src.pending = <<>>
    /\ Emit(Nothing)
    /\ src' = RestartWalk(src.last)
    /\ UNCHANGED <<tip, rows, saved>>

------------------------------------------------------------------------------
(* The store sink, and the life of the process.                             *)

\* One database transaction; rows stored before are met again and left alone.
Commit ==
    /\ pc = "commit"
    /\ rows' = rows \cup batch.txs
    /\ pc' = IF batch.cursor = None THEN "fold" ELSE "save"
    /\ UNCHANGED <<tip, src, batch, saved>>

SaveCursor ==
    /\ pc = "save"
    /\ saved' = batch.cursor
    /\ pc' = "fold"
    /\ UNCHANGED <<tip, src, batch, rows>>

\* resume_from: the first run walks to the start of history.
Start ==
    /\ pc = "down"
    /\ src' = RestartWalk(saved)
    /\ pc' = "poll"
    /\ UNCHANGED <<tip, batch, rows, saved>>

\* The process dies, or a sink fails, which ends it.
Crash ==
    /\ pc # "down"
    /\ pc' = "down" /\ src' = FreshSource /\ batch' = Nothing
    /\ UNCHANGED <<tip, rows, saved>>

------------------------------------------------------------------------------
(* The cursor is saved in a step of its own, after the rows, and pages are  *)
(* emitted long after they were enumerated.                                 *)

\* Nothing is ever left behind the cursor: what a new run resumes from, and what the
\* source has moved on to, are both a prefix of the ledger that is stored (or is the
\* batch under way).
NothingLeftBehind ==
    /\ 1 .. saved \subseteq rows
    /\ 1 .. src.last \subseteq rows \cup batch.txs

\* The store implements the delivery the framework promises.
Promise == INSTANCE Delivery
ImplementsDelivery == Promise!Spec
=============================================================================
