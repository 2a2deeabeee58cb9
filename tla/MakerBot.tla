------------------------------- MODULE MakerBot -------------------------------
(***************************************************************************)
(* The maker bot and the one vault it quotes for (bots/maker-bot: tasks.rs, *)
(* quote_state.rs, model/invalidate.rs, chain.rs, context.rs).              *)
(*                                                                         *)
(* Each tick the bot reads its vault, decides, and sends at most one        *)
(* transaction: a reference price, a liquidity profile, or the kill stamp,  *)
(* a zero price that makes the resting book unmatchable. What it believes   *)
(* about the chain is a handful of flags in memory, set after a send was    *)
(* confirmed. A crash loses them all but the persisted time of the last     *)
(* live price, which is what the next run judges the resting book by.       *)
(*                                                                         *)
(* A market is handled by itself, in order; the model has one. Times are    *)
(* kept as ages, counted up to Old. Level deadlines, far longer than the    *)
(* bot's own bound, are left out: a book counts as matchable until killed.  *)
(***************************************************************************)
EXTENDS Naturals

CONSTANTS StaleAfter,   \* invalidate.stale_after
          Heartbeat,    \* strategy.ref_heartbeat
          MaxConfirm,   \* bound: how long a send waits for its confirmation
          Sides,        \* the sides of a book, Bid and Ask
          FaultModels   \* the sets of faults of a behaviour, out of "lost", "landed", "late"

ASSUME BoundAssumption == /\ StaleAfter \in Nat /\ Heartbeat \in Nat /\ MaxConfirm \in Nat
                          /\ Heartbeat < StaleAfter
ASSUME FaultAssumption == FaultModels \subseteq SUBSET {"lost", "landed", "late"}

Old == StaleAfter + 2 * MaxConfirm + 1   \* as old as a price needs to get
Age == 0 .. Old
Unknown == Old + 1                   \* no record that can be read: older than any age
Older(age) == IF age < Old THEN age + 1 ELSE age

VARIABLES
    faults,   \* what may be behind a send's error: the transaction is lost, has landed,
              \* or may yet land (never changes)
    chain,    \* the vault: whether its price is matchable and how old, its profile, frozen
    stray,    \* transactions given up on that may still land
    pc,       \* where the bot is: "down", "boot", "idle", "deciding", "sending", "recording"
    mem,      \* the bot's memory of this market (Context)
    seen,     \* the vault as this tick read it
    sent,     \* the transaction being waited for
    record,   \* the persisted record: how long ago the last live price was written down
    input,    \* what the composed price and the inventory call for
    day,      \* whether the daily profile heartbeat is due
    start,    \* how the startup pass went: "pending", "done" or "blind" (history)
    verdict   \* how the last pass ended, "none" while one is on (history)

botVars == <<pc, mem, seen, sent>>
state == <<chain, stray, botVars, record, input, day, start, verdict>>
vars == <<faults, state>>

\* ProfileKind: the shapes of the ladder.
Standard       == <<"standard", "both">>
Reshaped(side) == <<"reshaped", side>>
Frozen(side)   == <<"frozen", side>>
Halted         == <<"halted", "both">>
NotArmed       == <<"unknown", "both">>
Shapes == {Standard, Halted} \cup {Reshaped(s) : s \in Sides} \cup {Frozen(s) : s \in Sides}

\* What a tick is to do: hold for want of a price, halt, or quote in some shape.
Hold   == <<"hold", "both">>
Inputs == {Hold} \cup Shapes

\* The three transactions, with how long ago their pass began.
NoTx           == [op |-> "none", shape |-> NotArmed, age |-> 0, landed |-> FALSE]
KillStamp      == [NoTx EXCEPT !.op = "kill"]
LivePrice      == [NoTx EXCEPT !.op = "price"]
Profile(shape) == [NoTx EXCEPT !.op = "profile", !.shape = shape]
Tx == [op : {"none", "kill", "price", "profile"}, shape : Shapes \cup {NotArmed},
       age : Age, landed : BOOLEAN]

TypeOK ==
    /\ faults \in FaultModels
    /\ chain \in [live : BOOLEAN, age : Age, profile : Shapes \cup {NotArmed}, frozen : BOOLEAN]
    /\ stray \subseteq Tx
    /\ pc \in {"off", "down", "boot", "idle", "deciding", "sending", "recording"}
    /\ mem \in [priced : BOOLEAN, setAge : Age, killed : BOOLEAN,
                kind : Shapes \cup {NotArmed}]
    /\ seen \in [live : BOOLEAN, frozen : BOOLEAN]
    /\ sent \in Tx
    /\ record \in Age \cup {Unknown}
    /\ input \in Inputs
    /\ day \in BOOLEAN
    /\ start \in {"pending", "done", "blind"}
    /\ verdict \in {"none", "failed", "held", "stood_down", "quoted", "sent", "booted"}

\* A new vault, whose market the bot has never quoted; nothing is running yet.
NewRun == [priced |-> FALSE, setAge |-> 0, killed |-> FALSE, kind |-> NotArmed]
NothingSeen == [live |-> FALSE, frozen |-> FALSE]

InitAt(where, inputs) ==
    /\ faults \in FaultModels
    /\ chain = [live |-> FALSE, age |-> Old, profile |-> NotArmed, frozen |-> FALSE]
    /\ stray = {}
    /\ pc = where /\ mem = NewRun /\ seen = NothingSeen /\ sent = NoTx
    /\ record = Unknown
    /\ input \in inputs
    /\ day = FALSE
    /\ start = "pending" /\ verdict = "none"

Init == InitAt("down", Inputs)

------------------------------------------------------------------------------
(* The chain.                                                               *)

\* A profile write arms a flush, so a zeroed profile empties the book at the next swap.
Matchable == chain.live /\ ~chain.frozen /\ chain.profile \notin {NotArmed, Halted}

AfterTx(tx) ==
    CASE tx.op = "kill"    -> [chain EXCEPT !.live = FALSE]
      [] tx.op = "price"   -> [chain EXCEPT !.live = TRUE, !.age = tx.age]
      [] tx.op = "profile" -> [chain EXCEPT !.profile = tx.shape]

\* freeze_vault, by an admin.
Freeze ==
    /\ ~chain.frozen
    /\ chain' = [chain EXCEPT !.frozen = TRUE]
    /\ UNCHANGED <<stray, botVars, record, input, day, start, verdict>>

------------------------------------------------------------------------------
(* Sending: sign, submit, and wait for the confirmation.                    *)

\* A pass ends with a verdict, or spends its one transaction and waits for it.
Finish(v) == pc' = "idle" /\ verdict' = v /\ UNCHANGED sent
Spend(tx) == pc' = "sending" /\ sent' = tx /\ UNCHANGED verdict

Land ==
    /\ pc = "sending" /\ ~sent.landed
    /\ chain' = AfterTx(sent)
    /\ sent' = [sent EXCEPT !.landed = TRUE]
    /\ UNCHANGED <<stray, pc, mem, seen, record, input, day, start, verdict>>

\* A transaction whose sender has gone may land as long as its blockhash is valid.
LandLate(tx) ==
    /\ tx \in stray
    /\ chain' = AfterTx(tx)
    /\ stray' = stray \ {tx}
    /\ UNCHANGED <<botVars, record, input, day, start, verdict>>

StrayAfterLeaving ==
    IF sent.op # "none" /\ ~sent.landed /\ "late" \in faults
    THEN stray \cup {sent} ELSE stray

\* What the bot remembers of a transaction it saw confirmed. The kill stamp also forgets
\* the last price, so that the next price is written without waiting for a trigger.
NeverCleared(tx) == mem.killed \/ tx.op = "kill"
KilledAfter(tx) == tx.op = "kill" \/ (mem.killed /\ tx.op # "price")
KindNotKept(tx) == mem.kind
KindAfter(tx) == IF tx.op = "profile" THEN tx.shape ELSE mem.kind

Remembered(tx) ==
    [mem EXCEPT !.killed = KilledAfter(tx),
                !.kind   = KindAfter(tx),
                !.priced = IF tx.op = "profile" THEN @ ELSE tx.op = "price",
                !.setAge = IF tx.op = "price" THEN tx.age ELSE @]

Confirm ==
    /\ pc = "sending" /\ sent.landed
    /\ mem' = Remembered(sent)
    /\ day' = (day /\ sent.op # "profile")
    /\ sent' = NoTx
    /\ start' = IF sent.op = "profile" THEN start ELSE "done"
    /\ IF sent.op = "price"
       THEN pc' = "recording" /\ UNCHANGED verdict
       ELSE pc' = "idle" /\ verdict' = "sent"
    /\ UNCHANGED <<chain, stray, seen, record, input>>

\* An error ends the pass and changes no memory, whatever became of the transaction.
RememberedAnyway == Remembered(sent)
MemoryAfterError == mem
StartAfterError == IF start = "pending" THEN (IF record = Unknown THEN "blind" ELSE "done") ELSE start

SendFails ==
    /\ pc = "sending"
    /\ sent.landed => "landed" \in faults
    /\ stray' = StrayAfterLeaving
    /\ mem' = MemoryAfterError
    /\ sent' = NoTx
    /\ pc' = "idle" /\ verdict' = "failed"
    /\ start' = StartAfterError
    /\ UNCHANGED <<chain, seen, record, input, day>>

\* quote_state.record, at the moment the confirmation came; a failed write is ignored.
Record ==
    /\ pc = "recording"
    /\ record' \in {0, record}
    /\ pc' = "idle" /\ verdict' = "sent"
    /\ UNCHANGED <<chain, stray, mem, seen, sent, input, day, start>>

------------------------------------------------------------------------------
(* When a resting book has to be killed.                                    *)

UnknownIsFresh(live, age) == live /\ age # Unknown /\ age > StaleAfter
ShouldInvalidate(live, age) == live /\ age > StaleAfter

\* Once per episode: not again before a live price was confirmed.
MustKill(live, age) == ~mem.killed /\ ShouldInvalidate(live, age)

------------------------------------------------------------------------------
(* The start of a run.                                                      *)

\* The persisted record can only be aged if there is one.
SeededSetAge == IF record = Unknown THEN 0 ELSE record

Start ==
    /\ pc = "down"
    /\ mem' = [NewRun EXCEPT !.setAge = SeededSetAge]
    /\ pc' = "boot" /\ UNCHANGED <<start, verdict>>
    /\ day' = FALSE
    /\ UNCHANGED <<chain, stray, seen, sent, record, input>>

\* invalidate_stale_quotes, before the first tick.
Boot ==
    /\ pc = "boot"
    /\ seen' = [live |-> chain.live, frozen |-> chain.frozen]
    /\ IF ~chain.frozen /\ MustKill(chain.live, record)
       THEN Spend(KillStamp) /\ UNCHANGED start
       ELSE Finish("booted") /\ start' = "done"
    /\ UNCHANGED <<chain, stray, mem, record, input, day>>

BootReadFails ==
    /\ pc = "boot"
    /\ pc' = "idle" /\ verdict' = "failed" /\ start' = StartAfterError
    /\ UNCHANGED <<chain, stray, mem, seen, sent, record, input, day>>

\* The process dies at any point; its record may be gone by the next run, or unreadable.
Crash ==
    /\ pc # "down"
    /\ stray' = StrayAfterLeaving
    /\ pc' = "down" /\ mem' = NewRun /\ seen' = NothingSeen /\ sent' = NoTx
    /\ start' = "pending" /\ verdict' = "none"
    /\ record' \in {record, Unknown}
    /\ UNCHANGED <<chain, input, day>>

------------------------------------------------------------------------------
(* A tick.                                                                  *)

ReadVault ==
    /\ pc = "idle"
    /\ seen' = [live |-> chain.live, frozen |-> chain.frozen]
    /\ pc' = "deciding" /\ verdict' = "none"
    /\ UNCHANGED <<chain, stray, mem, sent, record, input, day, start>>

ReadFails ==
    /\ pc = "idle"
    /\ verdict' = "failed"
    /\ UNCHANGED <<chain, stray, botVars, record, input, day, start>>

\* The two instructions of a halt, one per tick: the kill stamp goes first.
ZeroFirst ==
    IF mem.kind # Halted THEN Spend(Profile(Halted))
    ELSE IF MustKill(seen.live, Unknown) THEN Spend(KillStamp)
    ELSE Finish("stood_down")
StandDown ==
    IF MustKill(seen.live, Unknown) THEN Spend(KillStamp)
    ELSE IF mem.kind # Halted THEN Spend(Profile(Halted))
    ELSE Finish("stood_down")

HoldReference ==
    IF MustKill(seen.live, mem.setAge) THEN Spend(KillStamp) ELSE Finish("held")

\* The ladder wanted is not the one armed, or its daily heartbeat is due: a one-sided
\* ladder has none.
ArmDue(shape) == mem.kind # shape \/ (shape[1] # "frozen" /\ day)

PriceDue(drifted) == ~mem.priced \/ mem.setAge >= Heartbeat \/ drifted

\* Cold path before hot: profile first, then the reference when a trigger fires.
Quote(shape, drifted) ==
    IF ArmDue(shape) THEN Spend(Profile(shape))
    ELSE IF PriceDue(drifted) THEN Spend(LivePrice)
    ELSE Finish("quoted")

Decide ==
    /\ pc = "deciding"
    /\ \/ seen.frozen /\ Finish("quoted")
       \/ ~seen.frozen /\ input = Hold /\ HoldReference
       \/ ~seen.frozen /\ input = Halted /\ StandDown
       \/ /\ ~seen.frozen /\ input \notin {Hold, Halted}
          /\ \E drifted \in BOOLEAN : Quote(input, drifted)
    /\ UNCHANGED <<chain, stray, mem, seen, record, input, day, start>>

------------------------------------------------------------------------------
(* Time and the world. Passes take no time but for the wait in a send.      *)

Tick ==
    /\ pc \in {"down", "idle", "sending"}
    /\ pc = "sending" => sent.age < MaxConfirm
    /\ chain' = [chain EXCEPT !.age = Older(@)]
    /\ mem' = IF pc = "down" THEN mem ELSE [mem EXCEPT !.setAge = Older(@)]
    /\ sent' = IF pc = "sending" THEN [sent EXCEPT !.age = Older(@)] ELSE sent
    /\ stray' = {[tx EXCEPT !.age = Older(@)] : tx \in {t \in stray : t.age < MaxConfirm}}
    /\ record' = IF record = Unknown THEN record ELSE Older(record)
    /\ UNCHANGED <<pc, seen, input, day, start, verdict>>

\* Feeds come and go, inventory tilts; a day passes.
Change ==
    /\ input' \in Inputs \ {input}
    /\ UNCHANGED <<chain, stray, botVars, record, day, start, verdict>>

DayPasses ==
    /\ ~day /\ pc # "down"
    /\ day' = TRUE
    /\ UNCHANGED <<chain, stray, botVars, record, input, start, verdict>>

------------------------------------------------------------------------------
Step ==
    \/ Start \/ Boot \/ BootReadFails \/ Crash
    \/ ReadVault \/ ReadFails \/ Decide
    \/ Land \/ Confirm \/ SendFails \/ Record
    \/ \E tx \in stray : LandLate(tx)
    \/ Freeze \/ Tick \/ Change \/ DayPasses

Next == Step /\ UNCHANGED faults

Spec == Init /\ [][Next]_vars

\* Sends of these kinds land, if they are sent again and again.
Lands(ops) == SF_state(sent.op \in ops /\ Land)

------------------------------------------------------------------------------
(* What the flags in memory say of the chain.                               *)

\* Where an error means that the transaction is lost, the flags are right between passes:
\* a book believed killed is dark, and the ladder believed armed is the one on chain,
\* through failed sends, crashes at any point and restarts.
HonestErrors == faults \subseteq {"lost"}
BeliefsHold ==
    /\ TypeOK
    /\ HonestErrors /\ pc \in {"idle", "deciding"} =>
          /\ mem.killed => ~chain.live
          /\ mem.kind # NotArmed => chain.profile = mem.kind

(* No book is left resting that the bot does not stand behind. A price can  *)
(* be older than its record, by the wait for its confirmation, and by one   *)
(* more wait if an earlier price lands in between: the bounds below are     *)
(* wider than the configured one by that Slack.                             *)

Passed(v)     == pc # "idle" /\ pc' = "idle" /\ verdict' = v
Slack         == IF "late" \in faults THEN 2 * MaxConfirm ELSE MaxConfirm
RecentEnough  == chain.age <= StaleAfter + Slack

\* The startup pass leaves no book matchable that nobody has priced for longer than the
\* bound, wherever the run before it crashed, whether or not it left a record,
\* and whatever its last transactions still do.
StaleBookDiesAtStart ==
    [][start = "pending" /\ start' = "done" /\ verdict' # "failed" =>
          ~Matchable' \/ RecentEnough]_vars

\* If errors are honest, nor does a pass that stands down. One that holds for want of a
\* feed leaves a book only if its price was set lately, by this run or by one that left a
\* record of it (a run that could neither check the book at startup nor read a record
\* counts from its own start); a halt with nothing left to send has taken the book dark.
StandingDownIsSafe ==
    [][HonestErrors =>
          /\ Passed("held") /\ start = "done" => ~Matchable' \/ RecentEnough
          /\ Passed("stood_down") => ~Matchable']_vars

\* Together: however runs begin, stand down, fail and crash, no book is left resting that the
\* bot does not stand behind (invalidate_stale_quotes, quote_market and stand_down of tasks.rs).
NoBookIsLeftResting == StaleBookDiesAtStart /\ StandingDownIsSafe

\* docs/market-making.md (Stale-quote invalidation): a "running, kill-switch halt" kills the
\* resting book, "first, ahead of zeroing the profile", however sends fail.
EveryHaltGoesDark ==
    [][Passed("stood_down") => ~Matchable']_vars

\* A halt that lasts takes the book dark even if no profile can ever be sent; and so does
\* an outage of the feeds, once it has outlasted the bound.
EndsDark ==
    \A why \in {Halted, Hold} : <>[](input = why /\ pc # "down") => <>[]~Matchable

\* And the book comes back: whatever halts, outages and crashes came before, a bot left
\* to quote on a vault that is not frozen ends up with the ladder it wants, at a live
\* price, so long as profiles too land at last. (The daily heartbeat is left out: it is
\* one pass in a day.)
QuotesAgain ==
    Lands({"profile"}) => \A shape \in Shapes \ {Halted} :
        <>[](input = shape /\ pc # "down" /\ ~day /\ ~chain.frozen)
            => <>[](Matchable /\ chain.profile = shape)
=============================================================================
