------------------------------- MODULE MCFeeds -------------------------------
(***************************************************************************)
(* A TLC instance of three parts of what runs around the bot's pass: the    *)
(* feed hub its prices come through, the row that shows the health of a     *)
(* push link, and the operator's teardown. They share no state, so a        *)
(* behaviour is one of a single part, with the others at rest.              *)
(***************************************************************************)
EXTENDS FeedHub, PushHealth, Teardown

VARIABLE part    \* whose behaviour this is (never changes)

------------------------------------------------------------------------------
(* The hub: a roster is chosen at the start, so one run has several markets. *)

StampedRosters == {{"pyth"}, {"oanda"}}   \* a stamped tape alone
TapeRosters    == {{"oanda", "alphavantage"}}   \* a store tape and the store's reference
PegRosters     == {{"kraken", "usdc@coingecko"}}   \* a token converted with the peg
SomeRosters    == StampedRosters \cup TapeRosters \cup PegRosters

SomeOffsets  == {0, 1}
SomeClaims   == {1, 3}
LateWeek     == {4, 5}

\* Bounds, by roster: where a stamped tape stands alone the wall is set, stamps lie far ahead,
\* and what was printed in the first instants lives longest; a process is started twice where
\* a tape and a reference take turns.
Ahead(s)  == venue[s].stamp - venue[s].made
HubBounds ==
    \/ /\ roster \in StampedRosters
       /\ starts <= 1 /\ \A s \in DOMAIN venue : venue[s].made <= 2
    \/ /\ roster \notin StampedRosters
       /\ offset = 0 /\ \A s \in DOMAIN venue \cap Stamped : Ahead(s) <= 1
       /\ clock <= IF roster \in TapeRosters THEN 4 ELSE 3
       /\ roster \in PegRosters => starts <= 1

------------------------------------------------------------------------------
(* Each part, where it rests.                                               *)

HubRests  == FeedInit /\ roster = {"oanda"} /\ offset = 0
NothingUp == TeardownInit /\ \A p \in Pairs : td.markets[p].vault = "none"

FeedsInit ==
    /\ part \in {"hub", "push", "teardown"}
    /\ IF part = "hub" THEN FeedInit /\ HubBounds ELSE HubRests
    /\ PushInit
    /\ IF part = "teardown" THEN TeardownInit ELSE NothingUp

HubMoves      == part = "hub" /\ FeedNext /\ HubBounds' /\ UNCHANGED <<part, pvars, td>>
PushMoves     == part = "push" /\ PushNext /\ UNCHANGED <<part, fvars, td>>
TeardownMoves == part = "teardown" /\ TeardownNext /\ UNCHANGED <<part, fvars, pvars>>

FeedsNext == HubMoves \/ PushMoves \/ TeardownMoves

OfPush(A)     == part = "push" /\ A
OfTeardown(A) == part = "teardown" /\ A

\* As PushSpec has it. The operator runs a teardown again, and a run in progress goes on.
FeedsSpec ==
    /\ FeedsInit /\ [][FeedsNext]_<<part, fvars, pvars, td>>
    /\ WF_pvars(OfPush(Attempt)) /\ WF_pvars(OfPush(Wakes)) /\ WF_pvars(OfPush(QuietInterval))
    /\ WF_pvars(OfPush(Takes)) /\ WF_pvars(OfPush(Writes)) /\ WF_pvars(OfPush(Commits))
    /\ WF_pvars(OfPush(DbRecovers))
    /\ WF_td(OfTeardown(Again)) /\ WF_td(OfTeardown(GoesOn))

------------------------------------------------------------------------------
\* PushHealth: a link that stays down is shown as down in the end.
DeadLinksAreShown == part = "push" => DeadLinkIsShown

\* Teardown: running it again ends in nothing left, or in the shape it cannot get out of.
RetriesEnd == part = "teardown" => RetriesFinish
=============================================================================
