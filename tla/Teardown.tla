------------------------------- MODULE Teardown -------------------------------
(***************************************************************************)
(* The operator's teardown (tui/src/teardown.rs): one poll of what is on   *)
(* chain, then one transaction after another, in dependency order, until   *)
(* everything is closed or one of them errs. It is run again after that.   *)
(*                                                                         *)
(* Each close sends its rent to a sink, a key made for the run and swept   *)
(* at its end; rent is counted in accounts. A transaction that errs may    *)
(* have landed. Owners and leaders go on meanwhile. What the program asks  *)
(* of each close is Registry's and MarketVaults', and is repeated here for *)
(* a market of one vault, on the accounts alone.                           *)
(***************************************************************************)
EXTENDS Naturals, Sequences, SequencesExt, FiniteSets

CONSTANTS Pairs, Owners,
          MaxFaults,     \* bound: reads and sends that fail
          MaxJoins,      \* bound: depositors who come during the teardown
          Gone           \* a market that is no more

VARIABLE td

Exists(p) == td.markets[p] # Gone
Legs      == {"base", "quote"}

\* A vault is led while its leader has shares; one that is not lives as long as its owners.
Market == [treasuries : SUBSET Legs, vault : {"none", "led", "left"}, owners : SUBSET Owners]

ASSUME TeardownAssumption == IsFiniteSet(Pairs) /\ IsFiniteSet(Owners)
ASSUME GoneAssumption     == Gone \notin Market

TeardownInit ==
    \E markets \in [Pairs -> {m \in Market : /\ m.treasuries = Legs
                                             /\ m.owners # {} => m.vault # "none"
                                             /\ m.owners = {} => m.vault # "left"}] :
        td = [markets |-> markets, registry |-> TRUE, feeVault |-> TRUE,
              plan |-> <<>>, run |-> "none", whole |-> TRUE,
              sink |-> 0, stranded |-> 0, faults |-> 0, joins |-> 0]

------------------------------------------------------------------------------
(* The program: what each transaction needs and does.                       *)

Step(op, p, who) == [op |-> op, pair |-> p, who |-> who]

NoMarkets == \A p \in Pairs : ~Exists(p)

Accepted(s) ==
    LET m == td.markets[s.pair]
    IN  CASE s.op = "registry"  -> td.registry /\ NoMarkets
          [] s.op = "fee_vault" -> td.registry /\ NoMarkets /\ td.feeVault
          [] s.op \notin {"registry", "fee_vault"} ->
               /\ m # Gone
               /\ CASE s.op = "depositor" -> s.who \in m.owners /\ m.treasuries = Legs
                    [] s.op = "leader"    -> m.vault = "led" /\ m.treasuries = Legs
                    [] s.op = "treasury"  -> m.vault = "none" /\ s.who \in m.treasuries
                    [] s.op = "market"    -> m.owners = {} /\ m.treasuries = {}

\* A vault goes with its last shares.
WithoutOwner(m, o) ==
    [m EXCEPT !.owners = @ \ {o},
              !.vault  = IF @ = "left" /\ m.owners = {o} THEN "none" ELSE @]
WithoutLeader(m) == [m EXCEPT !.vault = IF m.owners = {} THEN "none" ELSE "left"]

Done(s, t) ==
    CASE s.op = "depositor" -> [t EXCEPT !.markets[s.pair] = WithoutOwner(@, s.who)]
      [] s.op = "leader"    -> [t EXCEPT !.markets[s.pair] = WithoutLeader(@)]
      [] s.op = "treasury"  -> [t EXCEPT !.markets[s.pair].treasuries = @ \ {s.who}, !.sink = @ + 1]
      [] s.op = "market"    -> [t EXCEPT !.markets[s.pair] = Gone, !.sink = @ + 1]
      [] s.op = "fee_vault" -> [t EXCEPT !.feeVault = FALSE, !.sink = @ + 1]
      [] s.op = "registry"  -> [t EXCEPT !.registry = FALSE, !.sink = @ + 1]

------------------------------------------------------------------------------
(* The run.                                                                 *)

Steps(op, p, S) == SetToSeq({Step(op, p, x) : x \in S})

Leader(p) == IF td.markets[p].vault = "none" THEN <<>> ELSE <<Step("leader", p, "leader")>>
Treasuries(p) == <<Step("treasury", p, "base"), Step("treasury", p, "quote")>>

TreasuriesFirst(p) ==
    Steps("depositor", p, td.markets[p].owners) \o Treasuries(p) \o Leader(p)
        \o <<Step("market", p, "all")>>

TeardownMarket(p) ==
    Steps("depositor", p, td.markets[p].owners) \o Leader(p) \o Treasuries(p)
        \o <<Step("market", p, "all")>>

TeardownRegistry == <<Step("fee_vault", "none", "all"), Step("registry", "none", "all")>>

\* What a poll may see. A registry that cannot be read, or a validator that does not answer,
\* looks like one with nothing on it; markets may be missed as a whole or one at a time.
\* The plan has a task for each market seen, and one for the registry.
Seen(markets, registry) ==
    SetToSeq({TeardownMarket(p) : p \in markets}) \o (IF registry THEN <<TeardownRegistry>> ELSE <<>>)

Live == {p \in Pairs : Exists(p)}
RunBegins(markets, registry) ==
    LET whole == markets = Live /\ registry = td.registry
    IN  /\ td.run \notin {"running", "complete"}
        /\ whole \/ td.faults < MaxFaults
        /\ td' = [td EXCEPT !.run = "running", !.plan = Seen(markets, registry), !.whole = whole,
                            !.faults = IF whole THEN @ ELSE @ + 1]

Fail(t) == [t EXCEPT !.run = "failed", !.plan = <<>>, !.stranded = @ + t.sink, !.sink = 0]

\* A task with no step left is done.
NextStep  == Head(Head(td.plan))
Remaining == IF Len(Head(td.plan)) = 1 THEN Tail(td.plan)
             ELSE <<Tail(Head(td.plan))>> \o Tail(td.plan)

SendGoesOn ==
    /\ td.run = "running" /\ td.plan # <<>>
    /\ td' = [IF Accepted(NextStep) THEN Done(NextStep, td) ELSE td EXCEPT !.plan = Remaining]

\* The first transaction the program refuses ends the run.
Send ==
    /\ td.run = "running" /\ td.plan # <<>>
    /\ td' = IF Accepted(NextStep) THEN [Done(NextStep, td) EXCEPT !.plan = Remaining] ELSE Fail(td)

\* The send errs, whatever became of the transaction.
SendErrs ==
    /\ td.run = "running" /\ td.plan # <<>> /\ td.faults < MaxFaults
    /\ \E landed \in BOOLEAN :
          LET t == [td EXCEPT !.faults = @ + 1]
          IN  td' = Fail(IF landed /\ Accepted(NextStep) THEN Done(NextStep, t) ELSE t)

Sweep ==
    /\ td.run = "running" /\ td.plan = <<>>
    /\ td' = [td EXCEPT !.run = "complete", !.sink = 0]

\* A balance that cannot be read counts as none.
SweepMisses ==
    /\ td.run = "running" /\ td.plan = <<>> /\ td.faults < MaxFaults /\ td.sink > 0
    /\ td' = [td EXCEPT !.run = "complete", !.faults = @ + 1, !.stranded = @ + td.sink, !.sink = 0]

------------------------------------------------------------------------------
(* Everybody else.                                                          *)

Joins(p, o) ==
    /\ Exists(p) /\ td.joins < MaxJoins
    /\ td.markets[p].vault = "led" /\ o \notin td.markets[p].owners
    /\ td' = [td EXCEPT !.markets[p].owners = @ \cup {o}, !.joins = @ + 1]

Leaves(p, o) ==
    /\ Exists(p) /\ o \in td.markets[p].owners
    /\ td' = [td EXCEPT !.markets[p] = WithoutOwner(@, o)]

LeaderLeaves(p) ==
    /\ Exists(p) /\ td.markets[p].vault = "led"
    /\ td' = [td EXCEPT !.markets[p] = WithoutLeader(@)]

\* The operator runs it until it completes.
Again == \E markets \in SUBSET Live, registry \in BOOLEAN :
            /\ registry => td.registry
            /\ ~registry => markets = {}
            /\ RunBegins(markets, registry)
GoesOn == Send \/ Sweep

TeardownNext ==
    \/ Again
    \/ Send \/ SendErrs \/ Sweep \/ SweepMisses
    \/ \E p \in Pairs, o \in Owners : Joins(p, o) \/ Leaves(p, o)
    \/ \E p \in Pairs : LeaderLeaves(p)

TeardownSpec == TeardownInit /\ [][TeardownNext]_td

------------------------------------------------------------------------------
NothingLeft == NoMarkets /\ ~td.registry /\ ~td.feeVault

\* A run ended between the treasuries of a market, between the last of them and the market,
\* or between the fee vault and the registry: the next asks for what is closed already.
Wedged ==
    /\ td.run = "failed"
    /\ \/ \E p \in Pairs : Exists(p) /\ td.markets[p].treasuries # Legs
       \/ td.registry /\ ~td.feeVault

\* A run that saw everything there was and reports that it is complete has left nothing,
\* whatever the others did meanwhile.
CompleteMeansGone == td.run = "complete" /\ td.whole => NothingLeft

\* However runs fail and whoever comes or goes, running it again ends in nothing left, in a
\* report made after a poll that failed, or in the one shape it cannot get out of.
Finished == NothingLeft \/ (td.run = "complete" /\ ~td.whole)
RetriesFinish == []<>(Finished \/ Wedged)

\* teardown.rs of its steps: "Each layer is guarded by existence, so a partial bootstrap
\* tears down cleanly." What a run leaves behind, the next one takes up.
PartialTeardownResumes == <>Finished

\* teardown.rs of the rent: "All rent is refunded to the wallet".
RentComesBack == td.stranded = 0
=============================================================================
