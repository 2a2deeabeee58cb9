# Dropset: a verification development in TLA+

Dropset is an on-chain market maker for Solana. A *market* pairs a base and a
quote token. *Leaders* open *vaults* in it, depositors put inventory into vaults
and hold *shares* of them, leaders quote prices for their vault's inventory, and
takers swap against all vaults of the market at once. A *registry* governs the
markets. Around the on-chain program sit generated clients, a fair-value engine, a
maker bot that quotes for its leader's vaults, an indexer that turns the program's
transactions into tables, and the operator's terminal.

This directory models the parts of that system with state worth a model, checks
them with TLC on small instances, and proves some of what is checked for every
size with TLAPS. All paths below are relative to the repository's `src/`.

Contents: [the system](#the-system) · [the modules](#the-modules) ·
[the runs](#the-runs) · [the proofs](#the-proofs) ·
[where code and documents disagree](#where-code-and-documents-disagree) ·
[what is not modelled](#what-is-not-modelled) · [plan](#plan)

## The system

### Inventory

| part | state it keeps | operations | source | modelled by |
|---|---|---|---|---|
| vault slab | sectors on three doubly-linked lists, heads, `active_count` | allocate, tombstone, reclaim | `programs/dropset/src/state/market/dll.rs` | `SectorSlab`, `VaultList` |
| share math | none (pure integer kernels) | baskets, slices, performance fee, floor | `sdk/math-core/src/share.rs` | `ShareMath` |
| vault ledger | per vault: shares, inventory, mark, flags; per depositor: a position account | create, close, freeze, settings, deposits, withdrawals (plain, leader's, forced) | `programs/dropset/src/instructions/*.rs`, `state/market/accrual.rs` | `MarketVaults` |
| treasuries | one token account per leg, accrued taker fee | sweep, close, market close | `sweep_residual.rs`, `close_market.rs` | `MarketVaults` |
| quotes and matching | reference price, ladder, materialized levels, nonce, flush bits | quote writes, swap | `swap.rs`, `state/market/quote_write.rs`, `sdk/math-core/src/matching_math.rs` | `OrderMatching` |
| registry and admins | admin list, defaults, market count, fee vaults | init, admin changes, fees, teardown | `instructions/{init,admin,registry_defaults,close_registry}.rs`, `state/registry.rs` | `Registry` |
| swap simulation | none: a view of the market account | simulate, show the book, quote a route | `sdk/interface/src/{matching,layout}.rs` | `SwapSimulation` |
| instruction builders | what a caller has set so far | build, derive, invoke, parse | `sdk/rs`, `sdk/ts` (generated) | `ClientInstructions`, `WebInstructions` |
| account declarations | none | dispatch and bind accounts by position | `programs/dropset/src/{lib.rs,instructions}` | `ProgramInstructions`, `InstructionWire` |
| maker bot: resting book | flags in memory, a persisted timestamp | startup pass, tick, send | `bots/maker-bot/src` | `MakerBot` |
| maker bot: position and policy | fill ring, position, launch value | forward, drain, resolve, judge, arm, skew | `bots/maker-bot/src/{fills.rs,tasks.rs,model}` | `InventoryPolicy` |
| fair-value engine | estimates per leg, the basis and its age | resolve a leg, fuse, compose, fold | `fair-value/src` | `Consensus`, `FairValue` |
| feed hub | the last print of each source and when it was read; when the store last answered | poll, forward, drain, age, offer, guard | `bots/maker-bot/src/{tasks.rs,fx_store.rs,main.rs}` | `FeedHub` |
| link health | latest transition, whether it was delivered; a row | set, reassert, drop, drain, upsert | `feeds/src/liveness.rs`, `bots/maker-bot/src/{fills,telemetry}.rs` | `PushHealth` |
| ingestion feed | pending pages, resume cursor, stored rows | enumerate, emit, restart, commit | `feeds/src` | `Delivery`, `RpcFeed` |
| indexer worker | takes, rollups, a watermark | aggregation pass | `indexer/src` | `Indexer` |
| terminal: teardown | one run's plan and its rent sink | poll, send, sweep, run again | `tui/src/teardown.rs` | `Teardown` |
| collectors, transports, frontend, taker bot, schema, assembly entry | see [below](#what-is-not-modelled) | | | no |

### How the parts interact

*On chain* everything is one instruction per step. A Solana transaction is atomic
and two that write one market are serialized, so what interleaves is whole
instructions of different signers: a leader quoting while depositors come and go,
an admin freezing or tearing down, takers swapping. Parts share accounts:

- The **ledger** and the **slab** share the vault's sector. `create_vault` allocates
  one, the withdrawal that takes the last share reclaims it, and the next
  `create_vault` gets it back. Position accounts are derived from the sector's
  index and not from the vault in it, so they could outlive their vault.
- All vaults of a market and the protocol's accrued fee share one **treasury** per
  leg. No instruction can enumerate position accounts; the market's counter
  `outstanding_vault_depositors` stands for them, as the **registry**'s market count
  stands for the markets it cannot enumerate.
- **Matching** reads inventory that deposits and withdrawals move, and quotes that
  were written earlier and are only turned into price levels (*flushed*) by the
  next swap, under other clocks and another inventory.

*Clients* name accounts by position and flag what is writable; the runtime locks
what they name, and the program binds accounts to fields by position alone. A
taker's least output is sized by a simulation of the swap on the account's bytes.

*Off chain* the bot keeps the last print of every source in its **feed hub**, prices from
the **fair-value engine** over what the hub still offers, learns of fills from a
push subscription that may lag, drop or die, reads its vault, decides, and sends at
most one transaction a tick; a send can be lost, can land although it reported an
error, or can land after the bot gave up on it. The indexer reads the ledger through
an RPC node in pages, newest first, and writes them oldest first; its aggregator
follows with a watermark of its own. The **teardown** polls once and then closes one
account after another while others still use the market.

### What is hard

- **Ledgers nobody adds up.** Total shares, leader's shares, positions, two counters
  and two treasuries have to agree, and no instruction sees them all.
- **Rounding and saturation.** Shares round down, costs up, slices down; the fee
  mint works in Q32.32 with an integer square root; sums saturate.
- **Reuse.** Sectors, and with them position addresses, pass from vault to vault.
- **Laziness.** A quote is applied by somebody else's swap, later, and foretold by a
  client that has to do the same in its head.
- **Taking back.** A swap that misses its minimum succeeds with no effect, by
  replaying snapshots.
- **Agreement by position.** Two generated clients and the program each write down
  the same accounts, and nothing on the wire names them.
- **Beliefs.** The bot's flags are set after confirmations that may never come; its
  position comes from messages that may never come.
- **Absence.** Sources go stale, disagree or lie; what is missing must degrade the
  price and the policy, never embolden them; and a silent link says nothing.
- **Two clocks.** A print is aged by the wall against the stamp its venue put on it, and by
  the process's own clock since it was read; both can mislead, and each is there to bound
  the other.
- **Backward pages.** What is newest is known first and must be stored last, while
  the ledger grows and any request may fail; a crash can fall between rows and
  cursor, and between the statements of an aggregation pass.
- **Doing it again.** A teardown is repeated after a transaction of which nobody
  knows whether it landed.

`PROJECT.json` lists each hazard at its line, with the properties that would catch
it.

### What makes each part correct

- *Slab*: no pointer check can ever fail on a vault (a failing one would lock its
  depositors in); every sector is on exactly one list; an active count that is exact.
- *Ledger*: shares are conserved and backed; nobody is diluted; the leader's fee
  spares principal; a vault that winds down only shrinks; whoever has shares can exit.
- *Treasuries*: they cover all claims; closing one closes nobody out.
- *Matching*: best price then oldest quote; the taker pays for what they get; levels
  follow the latest quote and die with it; a soft revert leaves no trace.
- *Simulation*: it foretells a swap atom for atom.
- *Registry*: somebody governs whatever there is; its count is exact; no market is
  bricked for want of a fee vault; no fee is lost.
- *Instructions*: the program understands what the caller meant; nothing is written
  without a lock, and no lock is wider than it must be.
- *Bot*: no resting book that the bot does not stand behind; the book comes back; it
  judges what its vault holds.
- *Fair value*: one bad source moves nothing unseen; health is earned; the basis moves by no
  more than its age allows, however long the silence.
- *Feed hub*: no age tells less than the truth; a print that never changes expires; a
  silent store and a leg without a live tape halt.
- *Link health*: the row is what was last delivered, and a dead link shows as dead.
- *Indexer*: nothing skipped, nothing left unfolded, and it catches up.
- *Teardown*: "complete" means gone, and repetition gets there.

## The modules

```
            SectorSlab  (abstract)                 Delivery  (abstract)
             /       \                                |
      VaultList   MarketVaults ----- ShareMath     RpcFeed        Consensus
                   |       \_________ Sums            |               |
        OrderMatching              /               Indexer        FairValue
             |          InventoryPolicy
        SwapSimulation                             MakerBot       FeedHub
                                                   Teardown       PushHealth
      ClientInstructions
             |                                     Registry
      ProgramInstructions
             |                     proofs:    SumsLemmas
      WebInstructions                         /        \
             |                   MarketVaultsProofs    MakerBotProofs
      InstructionWire                    |
                                 MarketLedgerProofs

              OrderMatchingProofs   PlatformProofs   DataProofs   ServicesProofs
```

`MC*` modules hold TLC instances: ladders, candidate sets, rosters, constraints, symmetry,
and four compositions (see [the runs](#the-runs)). `*Proofs` and `*Lemmas` modules hold
theorems and nothing else (see [the proofs](#the-proofs)).

**SectorSlab** is what the allocator promises, without pointers: a sector is on one
of three lists, moves active → tombstone → free or active → free, and is handed out
again last freed first before the slab grows. **VaultList** is the pointer code of
`dll.rs` (`link_head` and `unlink` with their range checks, the walk, `allocate_sector`,
`tombstone_sector`, `reclaim_sector`), with the free list's stale back pointers.
**MarketVaults** moves sectors in its own instructions. Both are checked and proved to
implement `SectorSlab` (`ListsImplementSlab`, `ImplementsSlab`).

**ShareMath** has the kernels of `share.rs`, parameterized by the scale of a rate
(`PPM`, 10^6 in the code) and of a value per share (`QOne`, 2^32). The Newton square
root is modelled by its result.

**MarketVaults** has one action per instruction, each whole: `Deposit` realizes the
performance fee, mints, moves both legs and opens the position account in one step,
as `deposit.rs` does. A failing check is a disabled action, since a failed
instruction changes nothing. `PayOut` is the tail that `withdraw`, `withdraw_leader`
and both `force_withdraw` instructions share, the reclaim of an emptied vault
included. `Swap` moves any amounts that matching could have produced: at least an
atom each way on each filled vault, within its inventory. Third parties may donate to
a treasury and re-create a closed one, because a token program lets them. Abstracted:
rent, token transfer fees, callers' slippage bounds, the depositor's informational
basis, event emission. A reference price is one of three kinds (sentinel, malformed,
matchable), because that is all the ledger's guards tell apart.

**OrderMatching** refines `Swap` of `MarketVaults`: the quote writes, the flush, the
book, the walk level by level, fees, commit and soft revert of `swap.rs`. A swap in
progress excludes every other action (it is one instruction), but its levels are
steps, so that invariants see the walk from inside. Prices are multiples of
1/`PriceOne`, not the 8-digit decimal encoding; both conversions round as the code's
do. Levels, offsets and both clocks (unix seconds and slots) are kept, and so is the market's
ceiling on the platform fee that the taker's client names. Quote writes
ask for the sector's quote authority only, as `authorize_quote_write` does, so
frozen, tombstoned and free sectors take them too.

**SwapSimulation** is what clients compute of the same swap: the book collected from
the account's bytes, the flushes done in the head, the walk with a tally of its own,
the book shown and the router's quote. Only the arithmetic is shared with
`OrderMatching`, as the code shares `math-core`. Its one variable, `told`, is what the
client of the swap in progress was told before it sent the swap; every swap that
`OrderMatching` makes is judged against it.

**Registry** is every instruction on the registry and its fee vaults, with what
markets ask of them: `create_market` stamps the default fee configuration,
`create_vault` (`AdmitVault`) charges into the vault of the *market's own* mint, and `close_market`
counts down. Of a market only the counters its teardown asks for are kept.

**ClientInstructions** and **WebInstructions** write down what each generated builder
names, sets and defaults (the Rust struct, builder, CPI and CPI builder; the web
client's synchronous and asynchronous builders, codec and parser);
**ProgramInstructions** what each `Accounts` struct and the dispatcher of the program
declare. The three are tables, one record per instruction, and each is written from
its own source: they share the notation, no entry. **InstructionWire** sends
transactions from the ones to the other under the runtime's locks; only what the
dispatcher knows and the `Accounts` struct accepts is executed.

**MakerBot** is one market of the bot: the startup pass (`invalidate_stale_quotes`),
the tick (`quote_market_inner`: read, decide, at most one transaction), the flags in
`Context`, the record in `quote_state.rs`, and the chain as far as it matters to a
resting book. What the price engine and the kill switch make of the market is an
arbitrary `input`. A transaction ends in one of the ways in `faults`: an error means
it is `"lost"`, may have `"landed"`, or may land `"late"`; the set is chosen at the
start of a behaviour, so that a property can be stated for the errors it needs.
Ages are counted up to `Old`, past every bound.

**InventoryPolicy** is where such an input comes from. Its one variable `bot` has the vault
and the notifications on their way, the bounded ring that forgets the oldest, and the cycle:
`DrainFills` takes the ring and keeps the highest nonce, then the vault is read
(`VaultUnread` is the read that fails) and `QuoteMarket` resolves the inventory
(`DecidePosition`) and judges it (`Evaluate`, with thresholds that a degraded price scales).
A deposit or withdrawal (`ExternalFlow`) moves the vault and announces nothing. `used`,
`seen` and `valued` are history: which fill a cycle went by, what it read, what it judged.
The profile each action arms and the skew are operators over the verdict. Values are whole
numbers of quote, thresholds per cent or per mille.

**FeedHub** is how prices reach the tick. `Publish` is a venue's next print, `Poll` a poller
that reads its tier and forwards what it read on a channel that drops its oldest, `Tick` the
drain of all channels into the cache. What the market is offered, each reading's age
(`PythAge`, `FrankfurterAge`, `AgedByBoth`, `Received`), and the guards `StoreSilent` and
`TapeShortfall` are operators over the cache, the monotonic `clock` and the `Wall`, so that
they are judged at every instant and not only at a tick. A stamp is whatever the venue
claims. The leg's resolution is the set of contributors that `Consensus` could name, and
values are left out. `made`, `since` and `longest` are history: when a print was made,
since when this process has found it fresh, and the longest a cycle has taken.

**Consensus** is one leg's resolution (`consensus.rs`): fresh candidates, tapes before
references, the outlier of a set that is spread too far, the median or the trusted
anchor, the state it reports. **FairValue** is a market's engine over it: fusion with what
earlier ticks left, the gate on departures of the tape, reference publications counted
once, composition through the basis or what is left of it, the basis estimate with
its jump gate, and health. The estimator's floating point is abstracted: a fused
value is *some* value in the hull of what was fused (in `data`, where `Grid` is empty,
one of those values), a departure above the gate's floor may or may not exceed the
gate, and the basis moves by one of a few weights. The age of the basis runs on as in the
code (`engine.rs` 520), a unit a tick, and so far that the jump gate reaches its full ten
widths: past `LongestAge` neither the gate nor the usability of the basis tells ages apart.
The gate is kept exact between half-lives by counting in parts of one. The ranking of a leg is stated by
counting: a candidate's rank is the number of those not above it (`Rank`), which the code's
sort makes its place, and the median is of those whose ranks are in the middle.

**PushHealth** is the reporter of `liveness.rs` that retains one transition until it is
delivered (`Set`, `Reassert`, `Drop`), the thread that uses it (`Subscribes` to `Panics`), the
bounded channel it shares with all other telemetry (`Emit`), and the drain: `Takes` opens a
transaction over what is queued, up to `DrainCap` records, `Writes` upserts one,
`Commits` makes the row visible. A batch that fails is dropped with all it carried, a commit
whose reply is lost has landed, and a process that is killed leaves either. `link.lost` and
`mute` are history: that the last transition the channel took went with a dropped batch, and
that a thread ended without the slots for its last words.

**Teardown** is a run: the poll, which may fail in part; a plan with one task for each market
seen and one for the registry, each task the steps of `teardown_market` or
`teardown_registry` in their order; sends that fail, or land although they failed; the rent
sink. Owners, a leader and new depositors act meanwhile. What the program accepts is
repeated on the accounts alone.

**Delivery** is what a feed promises: of the ledger, the store always holds a prefix.
**RpcFeed** is the source of `rpc.rs` with the pager of `backfill.rs`, the runner and
the store sink. Transactions are numbered; a page is an interval; a request made in
between two polls sees whatever has arrived. The requests of one `enumerate_pages`
call are one step: only its first page is open at the tip, so arrivals between its
requests change nothing that a later start would not. `Commit` and `SaveCursor` are
separate steps, and a crash can come between any two. **Indexer** adds the worker's
second sink, the aggregation pass of `aggregate.rs`: selection of up to a page of
legs, one take at a time, the rollup, the watermark. A leg's coordinates are kept as
the watermark compares them, `(slot, ordinal, signature)`; `txn_index` is 0 for all.
Transactions that failed on chain are hydrated to nothing, and one the node has no metadata
for is dropped while its page passes; the model numbers the others.

## The runs

Times are for two workers. All passing runs together fire every action.

| run | question | bounds | time |
|---|---|---|---|
| `ledger` | Do share ledger, fee, rounding, floor and position counter hold through any life of a vault and its successor? | 1 sector, 2 wallets, u64 up to 4, fee products up to 8, a fee rate of 4/4, floors 0 and 1/2, fills of 1 | 100 s |
| `slab` | Two vaults on shared treasuries: custody, reuse, teardown; does the market implement the allocator? | 2 sectors, 2 wallets, u64 up to 2, donations and residues of 1 | 25 s |
| `priority` | Who is filled, for how much, what does a soft revert leave, and did the client foretell it? | 2 quoted vaults of 4 atoms, 2 levels a side, prices 3/4 and 1, 2 ladders, all limits | 100 s |
| `quotes` | Do lazily flushed quotes keep their terms while everything changes, and does the client flush them in its head as the program will? Is a settled swap a `Swap` of the market? | 1 vault, 2 keys, 2 clocks of 2 readings, 5 nonces, amounts of 2 and 4 | 60 s |
| `platform` | Three parts. *Wire*: does every built instruction mean what its caller meant, and lock what it must? *Bot*: is a book ever left resting that the bot does not stand behind? *Policy*: does the bot judge what its vault holds, is no fault making it bolder, does what it arms lean the right way, and does it settle? | wire: 2 wallets, 2 markets, 2 transactions at a time, 6 ways to build each. Bot: a bound of 1, confirmations up to 1, at most one stray transaction. Policy: 3 holdings, 2 prices, a ring of 1, 2 fills, 1 silent flow, 2 runs, a ladder of 5, 5, 10 of 20 | 155 s |
| `services` | Three parts. *Bot*, in the long run: do lasting halts and outages end dark, and does it come back? *Registry*: is it governed, counted and solvent through every order of administrators, markets, fee vaults, closing and initializing again? *Lists*: are the pointers of the slab sound in every order of create, close and drain, and do they do what the allocator promises? | bot: one-sided and two-sided ladders, lost sends. Registry: 2 wallets, 2 pairs, 2 mints, at most one atom of fees a mint. Lists: 4 sectors, 3 active vaults | 80 s |
| `data` | Two parts. *Indexer*: is everything stored, in order, and folded, and does the worker catch up? *Fair value*: does one bad source move the price unseen? | indexer: 6 transactions in blocks of 2, pages of 4, 1 page a poll, 0 or 2 legs. Fair value: 4 FX, 3 crypto, 2 peg candidate sets and every panel of 3 tapes and a reference; a half-life of 2 ticks, a maximum age of 2, ages up to 20 | 120 s |
| `feeds` | Three parts. *Hub*: does a silent store halt, has a market that needs a live tape one, is no fresh tape passed over, and does any print stay fresh for ever or read younger than its fetch? *Push*: does the row say what was last delivered, and is a link that stays down shown as down? *Teardown*: is its report truthful, and does repeating it end? | hub: Pyth or a stamped tape (stamps 1 or 3 ahead, a wall off by 0 or 1), or a tape and a reference of the store, or a token and its peg; channels of 1, up to 6 instants, 2 runs. Push: a channel of 3, batches of 2, 2 subscriptions, 1 outage, 1 restart. Teardown: 2 markets, 2 owners, 3 faults, 2 newcomers | 80 s |
| `exit`, `halt`, `tip`, `teardown` | [violations](#where-code-and-documents-disagree) | | seconds |

**Parts.** `MCPlatform`, `MCServices`, `MCData` and `MCFeeds` instantiate several parts that
share no state. Interleaving those would multiply their states and show nothing, so
`part` is chosen in the initial state and a behaviour is one of a single part, with
the variables of the others at rest. The invariants hold of a part at rest too,
which stays in an initial state of its own; TLC checks the union, which is each part checked by
itself. The temporal properties that a part at rest could not satisfy have a guarded form in
the composing module (`PositionsSettle` of `PositionSettles`, `DeadLinksAreShown` of
`DeadLinkIsShown`, `RetriesEnd` of `RetriesFinish`). Where parts do share state they are
composed for good: `Indexer` extends `RpcFeed`, `SwapSimulation` is judged in
`OrderMatching`, `OrderMatching` refines `MarketVaults`, which refines `SectorSlab`.

**Properties of several clauses.** Some checked properties are conjunctions of named
ones that stand or fall together: `PositionsAreAccounted` (the counter, and what a
successor finds), `SectorsAreAccounted` (types, lists and vacancy), `NothingIsStranded`
(every share buys its way out; every atom belongs to a share), `LeaderIsBound`
(winding down only shrinks; the floor is kept), `FillsAreCurrent` and
`PriceTimePriority` of matching, `SimulationAgrees` (the amounts, and the book),
`SwapsSettleAsForetold` (`SettlesAsMarketSwap`, and the simulation of the same swap),
`NoBookIsLeftResting` (`StaleBookDiesAtStart` and `StandingDownIsSafe`, held and halted),
`JudgesTheChain` (with and without a fill), `PolicyIsSound`, `FairValueIsSound`,
`FeedGuardsHold` (`StoreSilenceHalts`, `LivePairsRestOnTape`, `StoreTapesAreHeard`),
`FeedAgesHold` (`NoPrintStaysFresh`, `AgesAreHonest`),
`PushHealthIsSound` (the row, the end, the counters),
`RegistrySound`, `WireAgrees`. The clauses have names and comments
of their own in the modules.

**Why the bounds are enough.** *Ledger*: with `QOne = 2` and four units of `u64` a
vault can be seeded, gain value by fills, pass its mark, mint fee shares, reach
the limit of a `u64`, be left with one leg empty, drain and be reused by
the other wallet. The fee takes the whole gain, the highest rate and the one case where
its denominator can vanish; over so few units any lower rate rounds to no fee at all
(the proofs cover every rate). No mark is cut, since `HwmModulus` is past every mark of the
run: what cutting one does is a premise of the theorems ([below](#what-the-premises-say))
and not shown by a run. `MaxU128` is the largest fee product the run meets (a width of 7
is refuted), so the run shows which product is computed, and not that the program's width
is enough. *Slab*: two is the least number of vaults for which
a treasury is shared; three active vaults are the least for which unlinking from the head, the middle and the
end differ, and on four sectors the list of tombstones and the free list come to two or three
as well (`services`). *Priority* starts from two vaults that have quoted in either
order (`QuotedSpec`), because reaching such a state takes four writes that only
multiply histories; `quotes` starts from fresh vaults. *Registry*: two mints are the
least for which a market's fee vault can differ from the default's; two administrators
for which the last may differ from the first. *Wire*: two transactions are enough to
contend, and every instruction meets every other. *Bot*: the ages of two records
and a confirmation apart are told apart up to `Old`. `FewStrays` allows one
transaction outstanding behind the bot's back at a time. *Policy*: two fills are the
least that arrive out of order, a ring of one the least that forgets; the holdings are heavy
one way, the other and even, and the ladder's three unequal levels make the floors of its
scaling lose atoms. *Teardown*: one
market to be left between its treasuries and one behind it that is never reached.
*Fair value*: three tapes are the least of which one can lie and be outvoted, and
ages on both sides of staleness. Silences of up to twenty ticks and offers 40 and 50 per
cent apart let the basis make a move that only a gate opened past eight widths allows, and
let odd ages meet the gate between half-lives. *Feed hub*: bounds and ages are small whole numbers in the order the configuration has them
(grace, silence, tape, reference), so that six instants let a print be read, wait a cycle in
the channel, expire, and be read again; a channel of one drops with the second poll. The
bounds go by roster (`HubBounds`): where a stamped tape stands alone the wall is set and stamps
lie far ahead; where tape and reference take turns a process starts twice; the peg needs four
instants. A
source prints, a tier is polled and the tick runs at most once an instant: several in one
instant cannot be told apart by any age. *Push*: a channel of three and batches of two let a
batch hold two transitions, or one and a record of somebody else's, with another behind.
*Indexer*: four is the least page that holds two slots, so that walks split over polls
(`MaxPages = 1`), page and pass boundaries fall at different legs (up to eight legs a
page, four a pass), and a second walk starts at a saved cursor.

`ledger` and `slab` use wallet symmetry and `quotes` key symmetry: wallets and keys
are only compared. Their properties are invariants and safety properties; the
liveness runs use no symmetry and no constraint. `Trading` in `slab` and `exit`
leaves out settings that those questions do not depend on (closed vaults to
outsiders, malformed prices); `ledger` has them all. Deadlock is not checked where
the system may stop: a closed market, bounded nonces and clocks, a bot with nothing
to do, a bounded ledger fully indexed, a finished teardown.

**Fairness.** As only one part of a run moves, the conjuncts of a part say so (`OfBot`, `OfPush`, `OfTeardown` and their like) and ask nothing
of the others' behaviours.

- *Bot* (`ServicesSpec`): the supervisor loop keeps taking its steps and
  restarts (weak fairness); sends return, by confirmation or error, because
  `send_and_confirm` gives up; reads succeed again and again, and so do prices and kill
  stamps that are sent again and again (strong fairness: an RPC endpoint that fails now
  and then, not for ever). Profiles are *not* assumed to land, except as the premise of
  `QuotesAgain`: that a halt goes dark must not depend on the second of its two
  instructions, which is what the order in `tasks.rs` 1477-1499 is for. Nothing is
  assumed about feeds, freezes or crashes but what the properties state ("from some
  time on the bot is up").
- *Policy*: the cycle is entered (weak) and its vault read succeeds again and again
  (strong; `PolicySpec`, stated again in `MCPlatform`). No fill is assumed to arrive, and no price.
- *Teardown* (`FeedsSpec`): the operator runs it again (weak), and a run that can go on
  does (weak). Faults are bounded, so in the end sends are answered.
- *Push* (`PushSpec`): the thread's loop and the drain go on, and an outage of the database
  ends (weak). Whether a subscription succeeds, or the channel has room, is not assumed:
  `DeadLinksAreShown` has the latter as a premise.
- *Feed hub*: none; all of its properties are safety.
- *Indexer*: a worker that runs does its work, weak fairness of `Work`:
  the runner retries a failed poll after `error_backoff` (`runner.rs` 131-145), and a
  sink's error ends the process, which is `Crash`; the assumption is that requests do
  not fail for ever. `CatchesUp` asks for it only of a worker that stays up.

**Two assumptions of the indexer's part** are stated as constants because the code
violates what follows from them without: `Races = FALSE` (no block arrives that would
push part, and not all, of a pending tip page out of its window) and block sizes
that divide the page, so that no page ends inside a slot. The run `tip` drops the first and
shows what happens; of the second see [below](#where-code-and-documents-disagree). In the same
way `RetriesEnd` leaves out the
one shape that the run `teardown` is about (`Wedged`), `DispersedDegrades` is asked
only of markets that observe their basis, `EndIsVisible` of threads that end with room for
what they still have to say, `NoPrintStaysFresh` of the sources for which `FrozenFixesExpire` is
not refuted, and `FillsTellOfTheChain` of fills that their cycle's read has not overtaken
(`FillsAreFresher`).

**Mutants.** For each property of each passing run `PROJECT.json` names a definition
and a plausible slip in its place (a dropped guard, a wrong rounding, a swapped
order); the slips stand in the modules just before the definition they replace. TLC
finds the property violated under the run's own configuration. Where a property has several
clauses, slips that other clauses catch stand beside them (`CountedTwice`, `UnknownIsFresh`,
`FullInventory`, `StopsAtLag`, `ArmedByAnswer`, `TokensOwnAge`); TLC finds those as well.

## The proofs

Each theorem holds for every value of the constants that the named `ASSUME`s of its
module allow: any finite set of wallets and pairs, any number of sectors, vaults and
levels, any width of the integers, any scales, fees, bounds and page sizes.

| module | theorem | statement |
|---|---|---|
| `MarketVaultsProofs` | `TypeCorrect` | `Spec => []TypeOK` |
| | `CustodyHolds` | `Spec => []Custody` |
| | `SharesAreConserved` | `Spec /\ []MarksInRange => []SharesConserved` |
| | `FeesSparePrincipal` | `Spec => []FeeSparesPrincipal` |
| `MarketLedgerProofs` | `SlabIsImplemented` | `Spec => ImplementsSlab` |
| | `SectorsStayAccounted` | `Spec /\ []MarksInRange => []SectorsAreAccounted` |
| | `PositionsStayAccounted` | `Spec /\ []MarksInRange => []PositionsAreAccounted` |
| | `PositionsAreCounted` | `Spec => []OutstandingExact` |
| | `ClosedMarketsHavePaid` | `Spec /\ []MarksInRange => []ClosedMeansPaidOut` |
| | `NothingStaysStranded` | `Spec /\ []MarksInRange /\ []FeesFit => []NothingIsStranded` |
| | `BackingHolds` | `Spec => []SharesAreBacked` |
| | `NobodyIsDiluted` | `Spec => NoDilution` |
| | `LeadersAreBound` | `Spec => LeaderIsBound` |
| `PlatformProofs` | `ListsAreNeverCorrupt` | `ListsSpec => []NoListIsCorrupt` |
| | `PointersImplementSlab` | `ListsSpec => ListsImplementSlab` |
| | `RegistryIsSound` | `RegistrySpec => []RegistrySound` |
| `OrderMatchingProofs` | `SwapsTakeCurrentQuotes` | `Spec => []FillsAreCurrent` |
| | `FlushedLaddersAreBacked` | `Spec => []FreshLaddersAreBacked` |
| | `NobodyJumpsTheQueue` | `Spec => []PriceTimePriority` |
| | `SoftRevertsLeaveNoTrace` | `Spec => SoftRevertLeavesNoTrace` |
| | `TakersGetTheirTerms` | `Spec => TakersTermsHold` |
| `MakerBotProofs` | `BeliefsAlwaysHold` | `Spec => []BeliefsHold` |
| | `StartupKillsStaleBooks` | `Spec => StaleBookDiesAtStart` |
| | `StandDownsAreSafe` | `Spec => StandingDownIsSafe` |
| | `NoBookLeftResting` | `Spec => NoBookIsLeftResting` |
| | `CyclesJudgeTheChain` | `PolicySafety => []JudgesTheChain` |
| | `ThePolicyIsSound` | `PolicySafety => []PolicyIsSound` |
| `ServicesProofs` | `SilentStoreHalts` | `FeedSpec => []StoreSilenceHalts` |
| | `LivePairsHaveTapes` | `FeedSpec => []LivePairsRestOnTape` |
| | `TapesOfTheStoreAreHeard` | `FeedSpec => []StoreTapesAreHeard` |
| | `FrozenPrintsExpire` | `FeedSpec => []NoPrintStaysFresh` |
| | `FeedAgesAreHonest` | `FeedSpec => []AgesAreHonest` |
| | `FeedGuardsAlwaysHold` | `FeedSpec => []FeedGuardsHold` |
| | `FeedAgesAlwaysHold` | `FeedSpec => []FeedAgesHold` |
| | `PushLinksAreShown` | `PushSpec => []PushHealthIsSound` |
| | `CompleteTeardownsLeaveNothing` | `TeardownSpec => []CompleteMeansGone` |
| `DataProofs` | `NothingIsSkipped` | `~Races => (Spec => []FeedIsSound)` |
| | `DeliveryIsImplemented` | `~Races => (Spec => ImplementsDelivery)` |
| | `LegsAreFolded` | `~Races => (Spec /\ []PagesKeepSlots => []EveryLegFolded)` |
| | `LegsOfEvenBlocksAreFolded` | for all `B`, `k`: `~Races /\ BlockSizes \subseteq {B} /\ Limit = k * B => (Spec => []EveryLegFolded)` |
| | `TheEngineIsSound` | `FairValueSpec => []FairValueIsSound` |
| | `TheBasisMovesByItsAge` | `FairValueSpec => BasisMovesByItsAge` |

`SumsLemmas` holds what several of these rest on; the lemmas on the share kernels stand at the
head of `MarketVaultsProofs`. `Sums` defines a sum as the
number of its unit cells, not by recursion, so that the library's theorems on
cardinality apply.

### What the premises say

- **`MarksInRange`**: no mark has been cut. The mark is stored in 64 bits, unchecked
  (`share.rs` 231 and 263), so the premise is that no share is worth 2^32 times what it
  cost. Without it the statements are false, as TLC shows with a narrow `HwmModulus`:
  total and leader's shares are increased by two separate saturating additions.
- **`FeesFit`**: the product `f * s * (L - hwm * s)` fits in the `u128` in which it is
  computed with overflow checks. Where it does not, every deposit and withdrawal of the
  vault fails. `ModestFeesFit` proves it of every vault for which a quarter of `PPM * L^2` fits,
  that is, up to a value of about 3.6 * 10^16 atoms.
- **`HonestErrors`**, inside `BeliefsHold` and `StandingDownIsSafe`: an error means
  that the transaction is lost. The run `halt` shows what happens otherwise.
- **`~Races`**: no block arrives that displaces a part of a pending tip page. The run
  `tip` shows what happens otherwise.
- **`PagesKeepSlots`**: no pending page ends inside a slot. Otherwise TLC refutes the
  statement ([below](#where-code-and-documents-disagree)). `LegsOfEvenBlocksAreFolded` proves it where every block has the same
  number of the program's transactions and a page is a whole number of blocks: one
  transaction a slot, with any page, or the run `data`, with two in a block and pages of
  four.

### The arguments

**Vault ledger.** Types and custody are inductive (custody with types): per action, the
proof shows what it adds to a treasury and to the claims on it, and the sums over
vaults change in one place (`SumExcept`). *Conservation* is not inductive. `ShareInv`
adds that a vacant sector has no shares (else `create_vault`, which zeroes them, would
lose positions), that the free list holds vacant sectors only, each once, and that the
mark of a led vault is at least one. From such a mark the fee mint never takes the
total past the vault's value (`FeeMintWithinGain`), which fits 64 bits because both legs
do; so neither addition saturates. *Fees spare principal* is a statement about the
kernel (`FeeMintBound`) in every well-typed state.

**Slab of a market.** `SlabInv` says that the ledger's sectors are where `SectorSlab` has them, that
the free stack lists the free sectors and nothing else, and that the active count is
exact. Actions are sorted by what they do to sectors (`HandOut`, `RetireSector`,
`ReleaseSector`, `KeepSectors`) and to money (`SettingsStep`, `EnterStep`, `ExitStep`,
`EvictStep`, `SwapStep`, `TreasuryStep`), and what follows is proved once per shape. With
`SharesAreBacked` (a vault has shares exactly while it has atoms) this gives the theorems on
sectors and positions; `ClosedMarketsHavePaid` needs in addition that the legs of a closed
market are empty. `NobodyIsDiluted` compares what a share is worth before and after, by the
four roundings' bounds.

**Linked lists.** What the pointers mean is three sequences: `Spells` says that heads, `next` and
`prev` thread through them in order (the two lists of vaults backwards too, the free list
forwards only, as in the code), that no sector is on two or twice on one, that they share the
slab out, and that the leaders and flags fit. `ListsInv` is that there are such sequences, with
the active count the length of one. A walk of a list that is spelled reads its sequence off
step by step, so its members are the sequence's and it ends. `LinkHead` and `Unlink` put a
sector first and take it out of any place, which is proved once, and each instruction is one
of each. The refinement reads the same sequences (`MappingReads`), so each instruction is a
step of the allocator.

**Registry.** `RegistrySound` is inductive, but only as a whole: `close_registry` and the fee
vaults' closing ask for a count of zero, which tells that no market is left only while the
count is exact, and the count stays exact only while no market outlives the registry that
keeps it.

**Matching.** `OrderInv` is four parts about a swap in progress. `QuoteInv`: what is flushed
is what the leader wrote last, the book still to walk stands as it was collected, stamps
are distinct and below the nonce a revert would restore. `MoneyInv`: what moved since the
swap began is what its totals say. `TraceInv`: the fills hold what a revert must put back.
`WalkInv`: a level no longer in the book has nothing left that the taker's change could pay
for, the fills came in order, and the change is what they left. `Solvent` and `NonceFits`
carry it over from one swap to the next. On top of it `NobodyJumpsTheQueue` has
`PriorityInv`, `TakersGetTheirTerms` has `TermsInv` with a bound on the change a fill absorbs
(`ResidueIsSmall`: less than the price of an atom), and `FlushedLaddersAreBacked` is inductive
by `QuotasFit` (shares of the whole at the time of the flush, summed over levels).

**Maker bot.** `BotInv` relates every clock the bot reads to the age of the price on chain,
which is older by at most a confirmation's wait, or two where a send may be late: while a price
waits to be confirmed and recorded (`PricesAreTimely`), for the record on disk
(`RecordIsTimely`), for the time in memory (`MemoryIsTimely`). These need that what is under way
or astray was sent in time (`SendsAreTimely`, `StraysAreLate`), that nothing is quoted before the
startup pass (`StartupIsFirst`), and, while errors are honest, that what a pass has read still
stands (`SeenIsCurrent`) and that the flags follow the chain (`BeliefsFollow`). Ages count up to
a cap past all bounds, so that the theorems hold for every `StaleAfter`, `Heartbeat` and
`MaxConfirm`.

**Position and policy.** `PolicyInv` is that every fill on its way, in the ring or drained is
one of the vault's (`FillsAreOfTheVault`), no newer than the vault, and that the newest tells what
the vault holds unless a leg moved unannounced; and that the last verdict is what `Evaluate` says
of what is remembered of its cycle (`VerdictStands`). That a degraded price never emboldens
is monotonicity of each threshold in its scale (`OverStaysOver`, `BelowStaysBelow`), for values
and thresholds of any size; that a scaled ladder stays within a whole side is a bound on a sum of
floors (`ScaleSideFits`); the skew's sign follows the gap's through the division and the clamp
(`SkewLeansOut`).

**Feed hub.** `FeedInv` relates what is queued, what is cached and what the two clocks say. A
queued snapshot was given since the last drain (`QueuedSince`), so one that is read has waited a
cycle at most (`longest`). A cache entry was given no earlier than that before it was received,
and, where its print was found fresh, its stamp was at most the skew ahead of the wall as it
then stood (`EntryIsSound`); as the age by the stamp grows with the clock and the wall moves within
`MaxStep`, this bounds how long it stays fresh. The cache has every row of the store that was there
before its last answer was given (`RowsAreCached`). The five properties follow at every
instant, not only at ticks.

**Push links.** `PInv` keeps account of what was said (`LinkSound`): the last transition still in
the channel or in the open batch, or else the row, is the last the channel took, unless
`lost` says that it went with a dropped batch; and each subscription is counted once, in the
row or among what is under way. The counters' turns are an invariant of `Upsert` on any row
that keeps it, so of the row, of the transaction's copy, and of what the batch still has to write.

**Teardown.** `TeardownInv` says that a plan made by a poll that saw everything forgets nothing
(`NothingForgotten`): each market that exists has a task ahead that ends in its closing, and so
has the registry while it is open, its fee vault first. Nobody opens a market meanwhile, a
step that is refused ends the run, and the registry is last (`RegistryIsLast`), so a plan that
runs out leaves nothing.

**Indexer.** `FeedInv` is about the walk: pending pages lie in line between the cursor and
the tip, each a page apart from the next (`PagesInLine`), the walk goes on where they end
(`WalkGoesOn`), what has been requested at the tip can be requested again (`TipPageKept`), a
batch under way follows the store, and the store is a prefix of the ledger. `FoldInv` adds
slots in order of the ledger and that the pass reads before the watermark moves;
`FoldedUpTo`, with `PagesKeepSlots`, that the store ends at the end of a slot, so that nothing
stored later can sort below the watermark. Where blocks are even, so are the ends of pages,
because a walk goes down by whole pages from a tip that is even (`EvenStep`). That a set of legs has a last one is proved
from the well-foundedness of the strict subset relation on finite sets.

**Fair value.** A leg is judged as it is resolved, for any number of sources. The ranks of a
set are its places, one for each candidate (`RanksArePlaces`: ranks are distinct, since the
sets they count are strictly included, and an injection into as many places takes all). So the
middle of three or more lies strictly between first and last, and is within the others'
values whoever lies (`InnerPlacesAreHonest`); a designated source that lies
is either no outlier, and then within the band of the median, or no further from it than some
honest one (`SuspectIsFurthest`), which is what `LiarIsHarmless` adds up. `RestsOn` is what a
resolved leg keeps of its set. `EngineInv` is the types and the three properties of the state;
a tick has it from `FusedIsLeg` (fusion keeps a leg's state and leaves it there or not as it
was), `FoldIsBounded` (`FoldGoesPartOfTheWay`: a fold goes part of the way to what it takes in and
never to nothing; `GateIsTheAges`: what the gate lets through is within one width up to a
half-life, within the age's proportion from then on, and within ten widths always) and `ComposedIsSound`, one case per alternative of the composition. The
settings are those that `FairValueConfig::validate` lets through (`EngineAssumption`).

### What is only model-checked

- **Liveness** (`CatchesUp`, `QuotesAgain`, `EndsDark`, `PositionsSettle`, `RetriesEnd`,
  `DeadLinksAreShown`): out of the prover's reach.
- **Recursion over data**: `SimulationAgrees` rests on the folds of `SwapSimulation`, whose
  results would need induction on the length of a book.
- **`SettlesAsMarketSwap`**, the other half of `SwapsSettleAsForetold`: it instantiates
  `MarketVaults` with one width of integers,
  enough for the run's amounts and not for every value of the constants.
- **Tables**: `WireAgrees` compares finite tables, which TLC enumerates in full.

## Where code and documents disagree

Four runs are expected to fail; each shows a behaviour that a comment or document
rules out.

- **`exit`** (`close_market.rs` 142). A treasury may be closed when no vault holds
  its leg and no vault is *active*. A tombstoned vault whose one leg has been sold
  out is not active, so its treasury can go while depositors hold shares, and
  `withdraw` needs both treasury accounts. `close_market.rs` 139-141 takes an empty
  active list as "the witness that every sector has been reclaimed". (Re-creating the
  token account mends it, which is why `RecreateTreasury` is an action.)
- **`halt`** (`tasks.rs` 1229). `reference_invalidated` is cleared only after a
  confirmed price. If the price landed and the send reported an error, the flag still
  says that the book is dark, and the next halt sends no kill stamp: it only zeroes the
  ladder under the live price. In the run the profile's send errs and lands too, so that
  the halt takes the ladder for zeroed as well, has nothing left to send, and leaves a
  matchable book.
  `docs/market-making.md` 811 has a halt kill the book first. The same flag lets a
  book be held past the bound in an outage. Under errors that mean a lost
  transaction, the `platform` run shows both to hold.
- **`tip`** (`feeds/src/rpc.rs` 341). The tip page is requested again without an upper
  bound and cut at its recorded newest signature; arrivals, if fewer than a page,
  have pushed its oldest records out of the answer by then, and the cursor moves over
  them. `rpc.rs` 249-251: "nothing is ever left behind the cursor".
- **`teardown`** (`tui/src/teardown.rs` 175). A run that ends between the two
  treasuries of a market leaves it where no later run gets past: treasuries are closed
  without asking whether they exist, the program refuses the one that is gone, and
  the run ends there. `teardown.rs` 29-30: "Each layer is guarded by existence, so a
  partial bootstrap tears down cleanly." The fee vault before the registry is the
  same.

More stand in the modules as properties that TLC refutes, next to the ones that are checked;
no run is spent on them. Each needs a small instance to be seen:

- `Indexer!EveryLegFolded` once block sizes do not divide the page (one block of three, pages of
  two) (`indexer/src/store.rs` 82). When a page ends inside a slot, a leg of
  the slot's later transactions can sort below the watermark and is never folded.
  `store.rs` 77-79: "the strict `>` never skips a leg".
- `InventoryPolicy!FillsAreFresher`, with two trades (`tasks.rs` 979). Fills are drained *before* the vault is
  read (1362), so a drained fill can be older than the read of its cycle; `decide_position`
  (1607-1608) and the comment at 1372 call it the fresher, and the cycle judges an inventory
  the vault no longer has. The next quiet cycle puts it right (`QuietCyclesJudgeTheChain`).
- `FeedHub!FrozenFixesExpire`, of a roster with Frankfurter (`tasks.rs` 825). A fix of Frankfurter that is dated ahead has no
  age by the wall, and its age by receipt starts again with every poll that serves it; it stays
  fresh as long as it is served. `tasks.rs` 799-802: "a bogus future date cannot pin the age at
  zero and report a frozen rate as perpetually fresh". The store's rows are refused for
  just that (`fx_store.rs` 299-305).
- `FeedHub!ReferencesRestAtWeekends`, of the store's reference (`tasks.rs` 448). The daily tables rest while the FX session
  is closed, but the daily row of Alpha Vantage comes through the store, which does not ask.
  `fair-value/src/config.rs` 297-300: "the weekend regime gate suppresses it independently
  of ageing".
- `PushHealth!LiveLinkIsShown`, with one subscription and one outage (`telemetry.rs` 445). A transition that the channel took and that
  then went with a dropped batch is never stated again while the link stays as it is, so a link
  that came up can be shown as down for the life of the process. 445-446: 'the best-effort sink
  turns "not up yet" into a few dropped samples instead'. For a dead link the repeated
  failed subscribes make up for it (`DeadLinkIsShown`).
- `Registry!ClosedRegistryLeavesNoFees` (`close_registry.rs` 171-197). The registry
  closes without its fee vault having been closed; `docs/architecture.md` 2787 asks
  for that. The fees are not lost: a registry initialized again finds them
  (`FeesAccounted`).
- `Teardown!RentComesBack` (`teardown.rs` 28: "All rent is refunded to the wallet").
  The sink's key lives for one run; what a failed run collected is gone with it.

Others were met while modelling; the models follow the code:

- The CPI builders' `add_remaining_account(s)` (`sdk/rs/src/generated/instructions/`,
  `swap.rs` 1237-1249) store `(account, is_writable, is_signer)`, and `invoke` (823-959)
  reads the first flag as the signer's and the second as the writable one. No
  instruction of the program takes remaining accounts.
- `CreateMarketBuilder` (`create_market.rs` 401-406) and `CreateVaultBuilder`
  (`create_vault.rs` 300-303) evaluate
  `unwrap_or(pubkey!("registry.default_fee_config.mint"))` whether or not the mint was
  set; the text is no address.
- A pinned market whose FX leg is dispersed is not degraded (`engine.rs` 219-232), while
  148-149 has every disagreement degrade. `DispersedDegrades` is asked of the others.
- A registry that cannot be read makes the teardown report "complete" with everything
  still there; `CompleteMeansGone` is therefore stated for runs whose poll saw
  everything.
- A reporter dropped while the channel has exactly one free slot delivers what it had
  retained and not the failure that should follow an up, so the row stays up
  (`PushHealth!Ends`, `mute`).
- `docs/architecture.md` 551 and 718 have the mark "never decrease"; the mark stored
  after a fee mint, `floor((L << 32) / (s + m))` (`share.rs` 263), can be below the
  one it replaces, because the mint itself was rounded down from a rounded mark.
- `docs/architecture.md` 723 states conservation without the condition above.
- `docs/architecture.md` 2321 and `swap.rs` 271 say that the change a fill absorbs
  could not be spent at a later level. Both conversions round down: at 7/4, three
  atoms buy one for one and leave two, the cost of an atom at 2.
  `TakersTermsHold` states what does hold.
- The table at `docs/architecture.md` 831 has a frozen vault's quote writes rejected;
  `quote_write.rs` 169 asks for the key only. The vault is skipped by takers.
- `docs/architecture.md` 846 says that a reclaim zeroes `quote_authority`; `dll.rs`
  241 clears the leader only, so the old key still writes into the free sector and
  bumps the nonce.
- `docs/market-making.md` 786 says that zeroing a profile leaves resting levels
  matchable; `set_liquidity_profile.rs` 80 arms a flush, and the next swap
  materializes levels of size zero.
- `bots/maker-bot/src/context.rs` 138 has the restarted bot measure the resting
  book's real age; the record is dated by the confirmation (`tasks.rs` 1552), up to
  a confirmation's wait after the price was computed. `StaleBookDiesAtStart` and
  `StandingDownIsSafe` therefore allow that `Slack`.
- `feeds/src/rpc.rs` 274 says a new source "starts from the present"; without a
  cursor the walk runs to the start of history (`Start` from `None`).

## What is not modelled

- **The square root's Newton iteration**: modelled by its result. **Entry basis and profit**
  of positions: informational, no instruction reads them.
- **The decimal price encoding** (`price.rs`): `OrderMatching` keeps its rounding
  direction and its out-of-range results, not its precision.
- **Parsing in the clients**: the account's bytes, events and log lines are records;
  the simulator's refusal of corrupt accounts is left out. Of an instruction's data
  the order and widths of the arguments are kept, not their bytes.
- **Registry**: the two fee rates of `retune.rs` and of the defaults are data handled
  like the floor, which is kept.
- **Bot**: the markup of the mid and the encoding of the ladder's offsets; the
  reference store, settings and reports, whose outcome is an input of `MakerBot`.
  Markets of one bot are independent; one is modelled.
- **Fair value**: precisions and confidences of the estimators (see `FairValue`); the
  published confidence of a source.
- **Feeds: transports, venue adapters**: I/O and parsing; `FeedHub` starts from the print a
  poller has read. Health of polled feeds and the damping of log lines. A node with less history than another answered before is
  not modelled: the ledger is one and consistent.
- **Indexer API, event decoding, database schema**: reads, parsing and DDL.
- **Market-data collectors**: settings and row mapping around the feeds framework.
- **Assembly entry points** (`programs/dropset/src/asm`): the same two quote writes;
  the repository tests them against the handlers that are modelled.
- **Terminal**: its screens, and the bootstrap that the teardown undoes.
- **Taker bot, frontend, infrastructure, decks, documents, assets**: no state of the
  system's own.
- **The nonce's wrap** at 2^64 writes: out of any run's reach (`MaxNonce`).

## Plan

Done: every component with state of its own that is not I/O, and the theorems above. What
would come next, in order of what it would tell:

1. One abstract specification is worth stating besides `SectorSlab`, `Delivery` and `Swap` of
   `MarketVaults`: a vault as a pool of shares with a price that only trades and fees move,
   which `MarketVaults` would implement sector by sector.
2. The Newton iteration against the definition of a square root.
