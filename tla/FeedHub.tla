------------------------------- MODULE FeedHub -------------------------------
(***************************************************************************)
(* How prices reach the tick of the maker bot: venues print, pollers       *)
(* forward what they read onto a bounded channel per tier, the tick drains *)
(* the channels into the cache of its FeedHub, and each market's legs are  *)
(* offered from the cache, every reading with an age (tasks.rs,            *)
(* fx_store.rs, main.rs).                                                  *)
(*                                                                         *)
(* The ages come from two clocks: a monotonic one that dates what this     *)
(* process did, and the wall, which may be set, against which a venue's    *)
(* own stamps are read. A stamp is whatever the venue claims.              *)
(*                                                                         *)
(* One market is modelled; its values are left out. How the fresh          *)
(* candidates of a leg become one reading is Consensus; here a leg is      *)
(* answered by any contributors that module could name.                    *)
(***************************************************************************)
EXTENDS Integers, Sequences, FiniteSets

CONSTANTS StaleTape, StaleReference,        \* LegStaleness, by class
          MaxVenueSkew, MaxPublicationSkew, \* how far ahead a stamp may be
          MaxPythAge, MaxErapiAge, PublishInterval,
          MaxSilence, Grace,                \* of the store; of the start
          ChannelCap,
          Rosters,                          \* the sets of sources a market may have
          Offsets, MaxStep,                 \* what the wall may be off by, and the width of it
          SessionClosed,                    \* the wall times at which the FX session is closed
          Claims,                           \* by how much a stamp may be wrong
          NoStamp,                          \* a print that carries none
          MaxClock, MaxStarts               \* bounds

Store   == {"oanda", "twelvedata", "alphavantage"}
Daily   == {"frankfurter", "erapi"}
FxSources   == {"pyth"} \cup Store \cup Daily
PegSources  == {"usdc@kraken", "usdc@coingecko"}
Sources     == FxSources \cup PegSources
                  \cup {"kraken", "coinbase", "coingecko", "coinmarketcap"}

ASSUME FeedAssumption ==
    /\ {StaleTape, StaleReference, MaxVenueSkew, MaxPublicationSkew, MaxPythAge, MaxErapiAge,
        PublishInterval, MaxSilence, Grace, MaxStep, MaxClock, MaxStarts} \subseteq Nat
    /\ ChannelCap \in Nat \ {0}
    /\ Grace <= MaxSilence /\ MaxSilence < StaleTape /\ StaleTape <= StaleReference
    /\ StaleTape <= MaxPythAge /\ MaxVenueSkew <= MaxPublicationSkew
    /\ Rosters \subseteq SUBSET Sources
    /\ Offsets \subseteq Int /\ \A o, p \in Offsets : o - p <= MaxStep
    /\ Claims \subseteq Int /\ NoStamp \notin Int

VARIABLES clock, offset,      \* the monotonic clock, and how far the wall is from it
          roster,             \* the sources of the market
          venue,              \* what each source would answer now
          channel,            \* by tier: what is queued, and whether more was dropped
          hub,                \* the cache, by source
          answered, sent,     \* when the tick learned of the store's last answer, and when
                              \* that was given; None before the first
          started, ticked,    \* when this process started and last drained; None: not running
          longest,            \* to tell: the longest a cycle has taken
          starts

fvars == <<clock, offset, roster, venue, channel, hub, answered, sent, started, ticked,
           longest, starts>>

None == -1
Tiers == {"pyth", "store", "frankfurter", "erapi", "kraken", "coinbase", "coingecko",
          "coinmarketcap"}
TierOf(s) == IF s \in Store THEN "store"
             ELSE IF s = "usdc@kraken" THEN "kraken"
             ELSE IF s = "usdc@coingecko" THEN "coingecko" ELSE s

Wall == clock + offset
Larger(m, n)  == IF m < n THEN n ELSE m

------------------------------------------------------------------------------
(* Venues and pollers.                                                      *)

\* Pyth, the two daily tables and the store say when what they answer was made.
Stamped == {"pyth"} \cup Store \cup Daily
StampsOf(s) ==
    (IF s \in Stamped THEN {Wall + c : c \in Claims} ELSE {NoStamp})
        \cup (IF s = "frankfurter" THEN {NoStamp} ELSE {})

\* The store answers with the row that closes last, whatever else it holds.
Shown(s, print) ==
    IF s \in Store /\ s \in DOMAIN venue /\ venue[s].stamp > print.stamp THEN venue[s] ELSE print

\* Bound: a source prints, a tier is polled and the tick runs once in an instant.
Publish(s) ==
    /\ s \in roster
    /\ s \in DOMAIN venue => venue[s].made < clock
    /\ \E stamp \in StampsOf(s) :
          venue' = [r \in DOMAIN venue \cup {s} |->
                      IF r = s THEN Shown(s, [made |-> clock, stamp |-> stamp]) ELSE venue[r]]
    /\ UNCHANGED <<clock, offset, roster, channel, hub, answered, sent, started, ticked,
                   longest, starts>>

Snapshot(t) == [given  |-> clock,
                prints |-> [s \in {r \in DOMAIN venue : TierOf(r) = t} |-> venue[s]]]

\* A full channel drops its oldest; the receiver is told that it lags.
Forwarded(c, snapshot) ==
    IF Len(c.queue) < ChannelCap
    THEN [c EXCEPT !.queue = Append(@, snapshot)]
    ELSE [queue |-> Append(Tail(c.queue), snapshot), lagged |-> TRUE]

\* A poll that succeeds; one that fails forwards nothing. The store answers even with no rows.
Poll(t) ==
    /\ started # None
    /\ \E s \in roster : TierOf(s) = t /\ (t = "store" \/ s \in DOMAIN venue)
    /\ channel[t].queue # <<>> => channel[t].queue[Len(channel[t].queue)].given < clock
    /\ channel' = [channel EXCEPT ![t] = Forwarded(@, Snapshot(t))]
    /\ UNCHANGED <<clock, offset, roster, venue, hub, answered, sent, started, ticked,
                   longest, starts>>

------------------------------------------------------------------------------
(* Readings: what an entry e of the cache is to a tick.                     *)

Received(e) == clock - e.at
PublishedAge(e) == Larger(0, Wall - e.stamp)

AgedByBoth(e) == Larger(PublishedAge(e), Received(e))
PythAge(e) ==
    LET published == IF e.stamp - Wall > MaxVenueSkew THEN MaxPythAge ELSE PublishedAge(e)
        age       == Larger(published, Received(e))
    IN  IF MaxPythAge < age THEN MaxPythAge ELSE age
FrankfurterAge(e) ==
    IF e.stamp = NoStamp THEN Larger(Received(e), PublishInterval) ELSE AgedByBoth(e)

ProviderStalled(e) == Wall - e.stamp > MaxErapiAge \/ e.stamp - Wall > MaxVenueSkew
NeverTooFar(e)     == FALSE
FutureStamped(e)   == e.stamp - Wall > MaxPublicationSkew

AgeOf(s, e) == IF s = "pyth" THEN PythAge(e)
               ELSE IF s = "frankfurter" THEN FrankfurterAge(e)
               ELSE IF s \in Store \cup {"erapi"} THEN AgedByBoth(e) ELSE Received(e)

\* What the market is offered. The daily tables rest while the session is closed.
Offered(s, e) ==
    /\ s \in Daily => Wall \notin SessionClosed
    /\ s = "erapi" => ~ProviderStalled(e)
    /\ s \in Store => ~FutureStamped(e)

Reference == {"alphavantage"} \cup Daily
StaleFor(s) == IF s \in Reference THEN StaleReference ELSE StaleTape
IsFresh(s, e) == Offered(s, e) /\ AgeOf(s, e) < StaleFor(s)

Cached(s) == s \in DOMAIN hub
Fresh(s)  == Cached(s) /\ IsFresh(s, hub[s])
Age(s)    == AgeOf(s, hub[s])

\* The FX leg: its fresh tapes, or its fresh references where no tape is left.
FreshTapes      == {s \in FxSources \ Reference : Fresh(s)}
FreshReferences == {s \in Reference : Fresh(s)}
Heard == IF FreshTapes # {} THEN FreshTapes ELSE FreshReferences
\* One source alone, the middle one or two of several, the one designated; or none, of two
\* that disagree.
Answers ==
    IF Heard = {} THEN {{}}
    ELSE {by \in SUBSET Heard : Cardinality(by) \in {1, 2}}
            \cup (IF Cardinality(Heard) = 2 THEN {{}} ELSE {})

\* The USDC leg: its sources are tapes, and none stands alone, so it shows the oldest age.
FreshPegs == {s \in PegSources : Fresh(s)}
OldestPeg == CHOOSE a \in {Age(s) : s \in FreshPegs} : \A s \in FreshPegs : Age(s) <= a

\* Kraken quotes the token in dollars; converted, it is as old as the older of the two.
TokensOwnAge(pegAge) == Age("kraken")
ConvertedAge(pegAge) == Larger(Age("kraken"), pegAge)
KrakenOffered == Cached("kraken") /\ FreshPegs # {}
KrakenFresh   == KrakenOffered /\ ConvertedAge(OldestPeg) < StaleTape

------------------------------------------------------------------------------
(* The guards of the tick.                                                  *)

StoreSilent == clock - (IF answered # None THEN answered ELSE started) > MaxSilence
ArmedByAnswer   == answered # None
TapeGuardArmed  == answered # None \/ clock - started > Grace

IsTapeSource(s) == s \in {"pyth", "oanda", "twelvedata"}
TapeShortfall(requiresLiveTape, by) ==
    TapeGuardArmed /\ requiresLiveTape /\ ~\E s \in by : IsTapeSource(s)

\* killswitch.rs halts on either, before it looks at any value.
HaltsOnFeeds(requiresLiveTape, by) == StoreSilent \/ TapeShortfall(requiresLiveTape, by)

------------------------------------------------------------------------------
(* The tick.                                                                *)

\* What a drain takes off a channel: all that is retained, whether it lags or not.
StopsAtLag(c) == IF c.lagged THEN <<>> ELSE c.queue
Drained(c) == c.queue

Naming(q, s) == {i \in DOMAIN q : s \in DOMAIN q[i].prints}
LastNaming(q, s) == CHOOSE i \in Naming(q, s) : \A j \in Naming(q, s) : j <= i

\* The print of s the tick finds: the last one queued, or the one in the cache.
Read(s) ==
    LET q == Drained(channel[TierOf(s)])
    IN  IF Naming(q, s) = {} THEN hub[s]
        ELSE LET i == LastNaming(q, s)
             IN  [made |-> q[i].prints[s].made, stamp |-> q[i].prints[s].stamp,
                  given |-> q[i].given, at |-> clock, since |-> None]

\* To tell, since when this process has found this print fresh.
Known(s, e)  == Cached(s) /\ hub[s].made = e.made /\ hub[s].stamp = e.stamp /\ hub[s].since # None
Since(s, e)  == IF Known(s, e) THEN hub[s].since ELSE IF IsFresh(s, e) THEN clock ELSE None

Left(c) == [queue |-> SubSeq(c.queue, Len(Drained(c)) + 1, Len(c.queue)), lagged |-> FALSE]

AnsweredByTheTick(q) == clock
AnsweredBy(q) == IF q = <<>> THEN answered ELSE clock

Tick ==
    /\ started # None /\ ticked < clock
    /\ hub' = [s \in {r \in roster : Cached(r) \/ Naming(Drained(channel[TierOf(r)]), r) # {}}
                 |-> [Read(s) EXCEPT !.since = Since(s, Read(s))]]
    /\ LET q == Drained(channel["store"])
       IN  /\ answered' = AnsweredBy(q)
           /\ sent' = IF q = <<>> THEN sent ELSE q[Len(q)].given
    /\ channel' = [t \in Tiers |-> Left(channel[t])]
    /\ longest' = Larger(longest, clock - ticked)
    /\ ticked' = clock
    /\ UNCHANGED <<clock, offset, roster, venue, started, starts>>

------------------------------------------------------------------------------
Nothing == [t \in Tiers |-> [queue |-> <<>>, lagged |-> FALSE]]

\* A process starts, for the first time or after it died: its hub and channels are new.
Start ==
    /\ starts < MaxStarts /\ starts' = starts + 1
    /\ started' = clock /\ ticked' = clock
    /\ hub' = << >> /\ channel' = Nothing
    /\ answered' = None /\ sent' = None /\ longest' = 0
    /\ UNCHANGED <<clock, offset, roster, venue>>

Pass ==
    /\ clock < MaxClock /\ clock' = clock + 1
    /\ UNCHANGED <<offset, roster, venue, channel, hub, answered, sent, started, ticked,
                   longest, starts>>
WallIsSet ==
    /\ offset' \in Offsets \ {offset}
    /\ UNCHANGED <<clock, roster, venue, channel, hub, answered, sent, started, ticked,
                   longest, starts>>

FeedInit ==
    /\ clock = 0 /\ offset \in Offsets /\ roster \in Rosters
    /\ venue = << >> /\ hub = << >> /\ channel = Nothing
    /\ answered = None /\ sent = None
    /\ started = None /\ ticked = None /\ longest = 0 /\ starts = 0

FeedNext ==
    \/ \E s \in Sources : Publish(s)
    \/ \E t \in Tiers : Poll(t)
    \/ Tick \/ Start \/ Pass \/ WallIsSet

FeedSpec == FeedInit /\ [][FeedNext]_fvars

------------------------------------------------------------------------------
\* What stands at any instant at which a tick may look. What the cycle takes comes on top of
\* each bound: a snapshot may have waited that long in its channel.

\* A process that does not halt for the store has had an answer from it, or was started,
\* within the bound: a store that is gone is noticed whatever is still queued.
StoreSilenceHalts ==
    started # None /\ ~StoreSilent
        => clock - (IF answered # None THEN sent ELSE started) <= MaxSilence + longest

\* Once the grace of the start is over, a market that requires a live tape is quoted only
\* off a leg that a tape read within the bound has a part in.
LivePairsRestOnTape ==
    started # None /\ clock - started > Grace =>
        \A by \in Answers :
            HaltsOnFeeds(TRUE, by) \/ \E s \in by : /\ IsTapeSource(s)
                                                  /\ clock - hub[s].given < StaleTape + longest

\* No market falls through to a fix because the maker lost sight of the store: while a tape's
\* row there is fresh, and is old enough to have been read, the market halts or hears a tape.
StoreTapesAreHeard ==
    \A s \in DOMAIN venue \cap {"oanda", "twelvedata"} :
        /\ answered # None
        /\ clock - venue[s].made > MaxSilence + longest
        /\ Wall - venue[s].stamp < StaleTape /\ venue[s].stamp - Wall <= MaxPublicationSkew
        => StoreSilent \/ Heard \subseteq {r \in FxSources : IsTapeSource(r)}

\* A print that never changes stops being fresh, whatever it claims about itself and however
\* often it is read again.
Skew(s) == IF s \in Store THEN MaxPublicationSkew ELSE MaxVenueSkew
StopsBeingFresh(s) ==
    Fresh(s) /\ hub[s].since # None => clock - hub[s].since < StaleFor(s) + Skew(s) + MaxStep
NoPrintStaysFresh == \A s \in DOMAIN hub \cap (Stamped \ {"frankfurter"}) : StopsBeingFresh(s)

\* No age tells less than how long ago the reading was fetched, a converted price's of
\* neither of its two inputs.
AgesAreHonest ==
    /\ \A s \in DOMAIN hub : Fresh(s) => clock - hub[s].given <= Age(s) + longest
    /\ KrakenFresh => \A s \in FreshPegs \cup {"kraken"} :
                         clock - hub[s].given <= ConvertedAge(OldestPeg) + longest

\* What keeps a market from being quoted off feeds that are gone: the store's silence is
\* noticed, a tape is behind what is quoted, and no tape is lost from sight (the guards of
\* the tick, tasks.rs).
FeedGuardsHold == StoreSilenceHalts /\ LivePairsRestOnTape /\ StoreTapesAreHeard

\* What keeps a reading from passing for a younger one (the ages of tasks.rs and fx_store.rs).
FeedAgesHold == NoPrintStaysFresh /\ AgesAreHonest

\* tasks.rs of the fix of Frankfurter: "a bogus future date cannot pin the age at zero and
\* report a frozen rate as perpetually fresh".
FrozenFixesExpire ==
    Cached("frankfurter") /\ hub["frankfurter"].stamp # NoStamp => StopsBeingFresh("frankfurter")

\* config.rs of a reference source: "the weekend regime gate suppresses it independently of
\* ageing".
ReferencesRestAtWeekends == Wall \in SessionClosed => \A s \in Reference : ~Fresh(s)
=============================================================================
