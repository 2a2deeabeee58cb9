------------------------------ MODULE PushHealth ------------------------------
(***************************************************************************)
(* How the state of a push transport reaches the row an operator reads:    *)
(* the thread that owns the socket (bots/maker-bot fills.rs), its reporter *)
(* (feeds liveness.rs), the bounded channel it shares with all other       *)
(* telemetry, and the drain that writes the channel's records to the       *)
(* database, a batch a transaction, and drops a batch that fails.          *)
(*                                                                         *)
(* A quiet socket says nothing, so the row is only as good as the last     *)
(* transition that got through. A transition is up or down: why a link is  *)
(* down is a column of its own, and is left out.                           *)
(***************************************************************************)
EXTENDS Integers, Sequences, FiniteSets

CONSTANTS Capacity,                          \* of the telemetry channel
          DrainCap,                          \* the records of a batch
          MaxFlaps, MaxOutages, MaxKills     \* bounds: subscriptions made, outages of the
                                             \* database, deaths of the process

ASSUME PushAssumption ==
    /\ Capacity \in Nat \ {0} /\ DrainCap \in Nat \ {0}
    /\ {MaxFlaps, MaxOutages, MaxKills} \subseteq Nat

VARIABLES thread,   \* what the thread is at
          link,     \* the reporter and its channel, see below
          open,     \* a transaction is open
          batch,    \* what it still has to write
          work,     \* the row as the transaction has it
          row,      \* the row as everybody else sees it
          db,       \* whether the database answers
          mute,     \* the thread ended while the channel had no room for its last words
          flaps, outages, kills

pvars == <<thread, link, open, batch, work, row, db, mute, flaps, outages, kills>>

Row0  == [state |-> "none", connects |-> 0, disconnects |-> 0]

\* The latest transition and whether the channel took it; the channel; and, to tell, whether
\* the last transition it took went with a batch that was dropped.
Link0 == [latest |-> "none", delivered |-> TRUE, queue |-> <<>>, lost |-> FALSE]

PushInit ==
    /\ thread = "connecting" /\ link = Link0
    /\ open = FALSE /\ batch = <<>> /\ work = Row0 /\ row = Row0
    /\ db = TRUE /\ mute = FALSE
    /\ flaps = 0 /\ outages = 0 /\ kills = 0

------------------------------------------------------------------------------
(* The reporter. Each operator takes the link and returns the next.         *)

IsTransition(update) == update # "sample"

HasRoom(l) == Len(l.queue) < Capacity

\* An offer never waits: a full channel refuses it.
Offer(l, update) ==
    IF HasRoom(l) THEN [l EXCEPT !.queue = Append(@, update),
                                 !.lost  = @ /\ ~IsTransition(update)]
    ELSE l

Flush(l) ==
    IF l.delivered \/ l.latest = "none" THEN l
    ELSE [Offer(l, l.latest) EXCEPT !.delivered = HasRoom(l)]

Set(l, update) == Flush([l EXCEPT !.latest = update, !.delivered = FALSE])
Reassert(l) == Flush(l)

\* The end of the thread: what is retained is offered once more, and an up is taken back.
TakenBack(l)     == IF l.delivered /\ l.latest = "up" THEN Set(l, "down") ELSE l
DropUnflushed(l) == TakenBack(l)
Drop(l)          == TakenBack(Flush(l))

------------------------------------------------------------------------------
(* The thread.                                                              *)

OfThread == UNCHANGED <<open, batch, work, row, db, outages, kills>>

Subscribes ==
    /\ thread = "connecting" /\ flaps < MaxFlaps
    /\ thread' = "subscribed" /\ flaps' = flaps + 1
    /\ link' = Set(link, "up")
    /\ OfThread /\ UNCHANGED mute

\* The failed subscribe as a state change only, said once by the close that led to it.
SubscribeFailsUnsaid ==
    /\ thread = "connecting" /\ thread' = "sleeping"
    /\ link' = Reassert(link)
    /\ OfThread /\ UNCHANGED <<flaps, mute>>
SubscribeFails ==
    /\ thread = "connecting" /\ thread' = "sleeping"
    /\ link' = Set(link, "down")
    /\ OfThread /\ UNCHANGED <<flaps, mute>>

SocketCloses ==
    /\ thread = "subscribed" /\ thread' = "sleeping"
    /\ link' = Set(link, "down")
    /\ OfThread /\ UNCHANGED <<flaps, mute>>

QuietInterval ==
    /\ thread = "subscribed"
    /\ link' = Reassert(link)
    /\ OfThread /\ UNCHANGED <<thread, flaps, mute>>

Wakes ==
    /\ thread = "sleeping" /\ thread' = "connecting"
    /\ link' = Reassert(link)
    /\ OfThread /\ UNCHANGED <<flaps, mute>>

\* What was retained, and the up taken back after it, need a slot each.
Ends(l) ==
    /\ thread' = "ended"
    /\ link' = Drop(l)
    /\ mute' = (Len(l.queue) + 2 > Capacity)
    /\ OfThread /\ UNCHANGED flaps

\* Nobody takes the fills any more: a close, then the end. Or the thread panics.
Stops  == thread = "subscribed" /\ Ends(Set(link, "down"))
Panics == thread # "ended" /\ Ends(link)

\* Everybody else's telemetry.
Emit ==
    /\ link' = Offer(link, "sample")
    /\ OfThread /\ UNCHANGED <<thread, flaps, mute>>

Attempt == Subscribes \/ SubscribeFails

------------------------------------------------------------------------------
(* The drain: what is queued, up to a batch, in one transaction.            *)

OfDrain == UNCHANGED <<thread, db, mute, flaps, outages, kills>>

\* A counter counts the transitions into its state, however often that is restated.
Upsert(update, r) ==
    CASE update = "up" ->
           [r EXCEPT !.state = "up", !.connects = IF r.state = "up" THEN @ ELSE @ + 1]
      [] update = "down" ->
           [r EXCEPT !.state = "down", !.disconnects = IF r.state = "down" THEN @ ELSE @ + 1]
      [] OTHER -> r

Lesser(m, n) == IF m < n THEN m ELSE n

Takes ==
    /\ ~open /\ link.queue # <<>>
    /\ LET n == Lesser(Len(link.queue), DrainCap)
       IN  /\ batch' = SubSeq(link.queue, 1, n)
           /\ link' = [link EXCEPT !.queue = SubSeq(@, n + 1, Len(@))]
    /\ open' = TRUE /\ work' = row
    /\ OfDrain /\ UNCHANGED row

Writes ==
    /\ open /\ batch # <<>> /\ db
    /\ work' = Upsert(Head(batch), work)
    /\ batch' = Tail(batch)
    /\ OfDrain /\ UNCHANGED <<link, open, row>>

Commits ==
    /\ open /\ batch = <<>> /\ db
    /\ row' = work
    /\ open' = FALSE
    /\ OfDrain /\ UNCHANGED <<link, batch, work>>

Carries(updates) == \E i \in DOMAIN updates : IsTransition(updates[i])

\* The batch is dropped, with what of it was written already. What still waits in the
\* channel is newer.
BatchFails ==
    /\ open /\ ~db
    /\ link' = [link EXCEPT !.lost = (@ \/ Carries(batch) \/ work # row) /\ ~Carries(link.queue)]
    /\ open' = FALSE /\ batch' = <<>>
    /\ OfDrain /\ UNCHANGED <<work, row>>

\* Only the reply to the commit was lost.
ReplyIsLost ==
    /\ open /\ batch = <<>> /\ ~db
    /\ row' = work
    /\ open' = FALSE
    /\ OfDrain /\ UNCHANGED <<link, batch, work>>

DrainNext == Takes \/ Writes \/ Commits \/ BatchFails \/ ReplyIsLost

------------------------------------------------------------------------------
(* The world.                                                               *)

OfWorld == UNCHANGED <<work, flaps>>

DbFails ==
    /\ db /\ outages < MaxOutages
    /\ db' = FALSE /\ outages' = outages + 1
    /\ OfWorld /\ UNCHANGED <<thread, link, open, batch, row, mute, kills>>
DbRecovers ==
    /\ ~db /\ db' = TRUE
    /\ OfWorld /\ UNCHANGED <<thread, link, open, batch, row, mute, outages, kills>>

\* The process dies and is started again; a commit on its way may have landed.
Killed ==
    /\ kills < MaxKills /\ kills' = kills + 1
    /\ thread' = "connecting" /\ link' = Link0 /\ mute' = FALSE
    /\ open' = FALSE /\ batch' = <<>>
    /\ row' \in {row} \cup (IF open /\ batch = <<>> THEN {work} ELSE {})
    /\ OfWorld /\ UNCHANGED <<db, outages>>

ThreadNext ==
    \/ Subscribes \/ SubscribeFails \/ SocketCloses \/ QuietInterval \/ Wakes
    \/ Stops \/ Panics
WorldNext == Emit \/ DbFails \/ DbRecovers \/ Killed
PushNext == ThreadNext \/ DrainNext \/ WorldNext

\* The thread and the drain go on, and an outage ends. That the channel has room when the
\* reporter needs it is not assumed.
PushSpec ==
    /\ PushInit /\ [][PushNext]_pvars
    /\ WF_pvars(Attempt) /\ WF_pvars(Wakes) /\ WF_pvars(QuietInterval)
    /\ WF_pvars(Takes) /\ WF_pvars(Writes) /\ WF_pvars(Commits) /\ WF_pvars(DbRecovers)

------------------------------------------------------------------------------
\* Nothing is under way to the row any more.
Settled == ~open /\ ~Carries(link.queue)

\* The row says what the reporter last delivered, unless the batch that carried it was
\* dropped: a later transition that gets through makes good for any before it.
RowIsCurrent ==
    Settled /\ ~link.lost /\ link.delivered /\ link.latest # "none" => row.state = link.latest

\* A thread that said anything and ended while the channel had two free slots is not left
\* shown as up.
EndIsVisible ==
    Settled /\ ~link.lost /\ link.latest # "none" /\ thread = "ended" /\ ~mute
        => row.state # "up"

\* The counters tell a flapping link from a steady one, through restated transitions, lost
\* batches and restarts: they take turns, and no connection is counted twice.
CountersTakeTurns ==
    /\ row.connects - row.disconnects \in
          CASE row.state = "up" -> {0, 1} [] row.state = "down" -> {-1, 0} [] OTHER -> {0}
    /\ row.connects <= flaps

PushHealthIsSound == RowIsCurrent /\ EndIsVisible /\ CountersTakeTurns

\* A link that stays down while its thread goes on is shown as down in the end, whatever was
\* lost before, if only the channel takes a report again and again: each failed subscribe
\* says so once more.
LinkIsDead == thread \in {"connecting", "sleeping"}
DeadLinkIsShown == <>[]LinkIsDead /\ []<>link.delivered => <>[](row.state = "down")

\* telemetry.rs of a database that is not up yet: "the best-effort sink turns "not up yet"
\* into a few dropped samples instead". Of a link that comes up, stays up and got its word
\* into the channel:
LiveLinkIsShown ==
    <>[](thread = "subscribed") /\ []<>link.delivered => <>[](row.state = "up")
=============================================================================
