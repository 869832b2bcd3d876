# A verification of the Sherlock v2 indexer

TLA+ models of the indexer, the TLC runs that check them, and TLAPS proofs about
each of them. Paths are relative to `src/`.

Run from this directory:

    tlc -config IndexerSafety.cfg MCIndexerSystem
    tlapm IndexerSystem_proof.tla

## The system

One process, `indexer.py`, follows the Ethereum chain. It takes the events of
Sherlock's contracts range by range, turns them into rows of a PostgreSQL
database, and runs statistics every 6,400 blocks. A web service answers from the
database. An operator has scripts to force the statistics to run, to import
airdrops, and to reindex everything into a new database.

| Component | State | Operations |
|---|---|---|
| Indexer loop (`Indexer.start`, `index_events`, `index_intervals`) | local: `start_block`, `end_block`, the session; stored: `indexer_state.last_block`, `interval_functions.block_last_run`, advisory lock 1 | fix a range, lock, apply the events class by class, run what is due, commit; on an exception close the session and take the range again |
| Forced run (`force_interval_run.py`) | an open transaction, the same lock | run all interval functions at one block, ask, commit or roll back |
| Wait for block (`views/chain.py`) | `try_count` of a request | read `last_block` once a second until it has passed the block |
| Staking ledger (`models/staking_position*.py`, `calc_balance_factor`, `reset_balance_factor`) | `staking_positions`, `staking_positions_meta`, `balance_factor` | mint, transfer, burn, restake, bring all rows to a block |
| Protocol registry (`models/protocol*.py`) | `protocols`, `protocols_premiums`, `protocols_nonstakers`, `protocols_coverages` | add, remove, transfer agent, change premium, update coverage |
| Statistics (`calc_tvl`, `calc_tvc`, `calc_apy`, `calc_additional_apy`, `index_apy`, `index_strategy_balances`) | `stats_*`, `strategy_balances`, APY columns of `indexer_state`, `protocols.tvl` | one row per period |
| Claims (`models/claim*.py`) | `claims`, `claim_status` | create, change status, pay out |
| Fundraise and airdrops | `fundraise_positions`, `airdrops` | purchase, claim, import, mark as claimed |
| Views (`views/*.py`) | none; between its statements a request keeps what it has read | one to three queries over the tables, a calculation over the rows |
| Upgrade (`upgrade.py`) | a second database, `.env`, an indexer thread, the indexer process, the service | create, migrate, reindex until level, kill and start the indexer, restart the service |

How they interact. The loop and the forced run exclude each other by the
advisory lock, which a transaction holds until it ends. The views read what is
committed, at any time. The loop reads the height from a node and the events,
balances and timestamps from a cache, by HTTP, during the transaction; the chain
moves meanwhile. Handlers and interval functions of one range share the tables:
`reset_balance_factor` is called by both.

What is hard about it:

* the position of the loop is kept twice, in memory and in the database, and one
  is moved before the other is committed;
* exceptions at any call, the death of the process, a commit that fails or whose
  answer is lost; one event that can never be stored;
* reorganisations between the calls of one range;
* events handled class by class over a range, while the contracts emitted them
  interleaved, and while the handlers read the contract at single blocks;
* all values updated by the growth of one;
* answers put together from several statements, and lists from several requests,
  with commits between them;
* two databases, two indexers and a script that can stop anywhere;
* block numbers that are inclusive here and exclusive there.

What makes each component correct:

* Loop: each block once, with all of its events, from the chain that stays;
  every block in the end; interval functions at their period.
* Forced run: only on what was indexed, never disturbing the loop.
* Wait for block: an answer only when the events are there.
* Ledger: the rows, owners and lockups of the contract; all values right at one
  height, the one recorded.
* Registry: agents, premiums, shares, coverage and status of the contract;
  readers find what they need.
* Statistics: each row from the state at its block, and what is served no older
  than the newest row. Claims: the statuses in the order they happened. Airdrops:
  no claim lost.
* Views: positions, values and the block they are said to be of belong together.
* Upgrade: no gap and nothing twice in any database, the switch loses nothing, and
  it comes to an end.
* Lists: a client that reads page by page misses nothing.

`PROJECT.json` lists the hazards line by line, with the properties that cover
each.

## The modules

| Module | Models | Read it with |
|---|---|---|
| `Chain` | the node: height and canonical blocks (external) | comment at `indexer.py:618` |
| `Intervals` | which blocks an interval function runs at | `index_intervals` |
| `Database` | `last_block`, applied events, executed runs, the lock; commit and rollback | `database.py`, `indexer_state.py` |
| `IndexerLoop` | the loop, one action per step another party can come between | `Indexer.start`, `index_events` |
| `ForceRun` | the forced run | `force_interval_run.py` |
| `WaitForBlock` | one client | `views/chain.py` |
| `IndexerSystem` | the composition, its properties, the inductive invariant | |
| `BlockIndex` | the abstract specification: ranges of blocks applied whole, once, in order | |
| `StakingLedger` | the table of positions and the staking contract | `Transfer`, `Restaked`, `reset_balance_factor` |
| `ProtocolRegistry` | the tables of protocols and the protocol manager | `Protocol*` handlers |
| `StakingViews` | the ledger, read by `/staking`, `/status` and `/stats/unlock` | `views/staking.py`, `status.py`, `stats.py` |
| `Stats` | what the interval functions store for each period | `calc_tvl` to `index_strategy_balances`, `views/strategies.py` |
| `StatsPages` | the statistics, read page by page by a client (external) | `views/stats.py` |
| `Upgrade` | the script, the indexers, the databases and the service | `upgrade.py` |
| `Dependents` | claims, fundraise positions and airdrops, and the import of airdrops | `Claim*`, `Purchase`, `*Claimed`, `import_airdrop_data.py` |
| `IndexerSystem_proof`, `StakingLedger_proof`, `StakingViews_proof`, `ProtocolRegistry_proof`, `Stats_proof`, `Upgrade_proof`, `Dependents_proof` | theorems about the module of the name | The proofs, below |
| `NatLemmas` | what these proofs need about sets of numbers and about sorting | |
| `MC...` | constants and symmetry for TLC | |

### The indexer and who works beside it

`pc` is where the loop is, `startBlock` and `endBlock` its local variables,
`kind` the event class it fetches next, `tx` what the open transaction has
written. `rows[<<k, b>>]` records, for each application of the events of class k
at height b, which block of that height they came from; a second application, a
missing class and a block of a dead branch are all visible in it. `runs[f]` is
the sequence of blocks f was run at, whose last entry is `block_last_run`.

Each class is fetched in a step of its own, so the chain moves between two of
them. A range of `ChunkSize + 1` blocks stands for the 100,001 of the code.

A flush that fails has rolled back the transaction when its exception arrives.
`index_events` goes on all the same, and the session raises at the next
statement: `FlushFails`, then `PendingRollback`. `Poison` names the events that
do this. `CallRaises` is any other exception, `CommitLost` and `CommitAckLost`
the two ways a commit can raise, `Crash` the death of the process. All of these
but the poison are counted in `faults`.

### The staking ledger

The contract is external: mints, transfers, burns and restakes, one event in a
block, lockups that must end before a burn or a restake. The indexer takes a
range, which becomes the set of its handler calls. The next call is always the
first of those that are left: `Rank` is the order of `Indexer.events`, and within
a class the blocks are. So what is left of a range says what was handled, which is
what the proofs need. The registry, the statistics and the claims do the same.

A balance is a share times the price of a share, so its logarithm is a sum; a
factor is added to all rows and subtracted nowhere. With a `Price` that grows
differently between any two blocks, a factor for the wrong pair of blocks always
shows. `Computes` and `Anchors` follow `calc_balance_factor` with its three early
returns; of equal candidates any may come first. Two history variables record
why a value may be off: `anchorMissing`, nobody was fit to be measured, and
`anchorAhead`, the one measured had been read at a later block, that of an
arbitrage restake of its own that was already handled.

The transaction is the one of `IndexerLoop`, so a range is not interrupted here;
that no partial range is ever seen is proved there (`BlocksAreWhole`).

`lastTime` is `indexer_state.last_time`, set with the factor only.

### The views of the ledger

`StakingViews` extends `StakingLedger` by a `request`: the view, the sequence of
what its statements have returned so far, and `last_block` when it began. Each statement
sees what was committed last, as PostgreSQL has it at read committed. Between two
of them whole ranges may be committed, and a `/staking` request multiplies values
of one with the factor of another. It is right all the same, because every range
leaves the factor at 1 (`indexer.py:374`): the mutant `FactorAfterReset_Kept` shows
that it would not be otherwise. `/status` reads the block first and the positions
last, so its positions can be newer than the block it gives, not older.
`/stats/unlock` is one statement, `UnlockDates` its groups in their order. The
subtraction over them is `Remaining`, and what it answers `DataPoints`; a sum over
positions is represented by the set of them.

### The protocol registry

The contract emits several events in a block; the classes are handled in the
order of `Classes`. Block numbers stand for timestamps and `Window` for the seven
days. `Saved` is the check for a row that is there already. `flapped` records the
protocols added and then removed within a range, for which the order of the
classes is the wrong one. `Listed` and `TwoNewest` are what `/protocols` selects.

### The statistics

A range that is taken becomes the calls `IntervalCalls`: function by function, each
for all periods that have ended (`Due`, from `Intervals`), after all events of the
range. The rows carry the block they are for, an APY also the block it was computed
at and that of the TVL it used (`at`, `tvlAt`), so a row filled from the wrong
period shows. The worth of a position at each block is a constant of the run; what
the events leave behind is any set of unrestaked positions and any premiums.
Exceptions the functions catch themselves are counted in `faults`, and `failed`
remembers where: `calc_tvc` stops at a protocol of the spreadsheet, with the `tvl`
of those before it changed and no row stored; a strategy has no balance; `calc_apy`
leaves the APYs as they were. When `calc_tvc` fails after the last protocol, every
`tvl` is set and the row is missing all the same. A row of `stats_tvc` comes with
one of `stats_external_coverage`, so one sequence stands for both, and for the
amounts the protocols that are counted (`Active`: for the others the contract
reverts and the loop continues). Exceptions they do not catch abort the range, as in
`IndexerLoop`.

`calc_apy` is followed return by return: no position, too early, too young, a
negative APY, no TVL, the clamp of the premiums, the skip of the incentives. The
comment at `indexer.py:327-329` says that a premium above the APY is not updated;
the code stores the APY in its place. `CUSTOM_YIELDS` is empty, so what
`calc_additional_apy` adds is nothing (`AdditionalApy`).

`FindAll` and `ListedStrategies` are the queries of the views over these tables.

`StatsPages` adds a client that reads the lists of `views/stats.py`. Each page is a
request, and one statement: the tables move on between two pages, and the rows are
counted from the newest, so a page may repeat what the client has. What the client
does is not in the repository; it is taken to ask for the rows behind those it has
until a page is not full, and for the APYs when it is through with the TVLs.

### The upgrade

`worker` has an entry for the indexer process as the script starts it (`Own`), one
for a process somebody else starts (`Foreign`), and one for the thread the script
runs for each database. Each is an indexer of the kind that `BlockIndex` describes
and `IndexerSystem` is proved to implement: a position in memory, a range that is
committed whole, the lock of its database. Its commit can fail, and the range is
left out then, as in `IndexerLoop` (`CommitLost`, remembered in `mishaps.lost`).
`db[d].applied` counts how often a block was applied. The process and the script
read the name of the database when they start (`env`, or the script's own
environment), the service when it is restarted.

The script is its functions in order, with `reindex` split where it polls, stops and
joins the thread, and `start_new_indexer` where it looks for the process it has
started: without any process the script fails (`FindNewIndexer`). It can fail at
each step (`ScriptFails`): by an exception or Ctrl-C, which leaves the thread at
work, since it is no daemon, or by a kill, which does not. It can be started again
after that. The old process can die, somebody can start another, systemd can restart
the service; `psql` can fail without notice. `poll.served` is the block of the
database that was served when the two were last compared, and `poll.strayed` says
that this is not the one the script compares with: `.env` names the new database
before it is ready, so a script that is run again connects to what the failed one
left behind.

### Claims, fundraise and airdrops

What these handlers share is that they need a row that was to come before, and
raise without it: `LacksRow`, then `Abort`, which drops what the range wrote and
takes it again. `ClaimCreated` can raise for another reason: a claim's ancillary data
is taken apart into pairs (`CannotParse`), and stays what it is. `unparsable` are the
claims for which this raises. So the module keeps the committed tables `db` apart from `tx`,
what the open transaction sees. Imports commit on their own, at any time and
without the lock, and the transaction sees their rows at once (read committed).
`Classes` has one `Claimed` for each distributor: `get_event_logs_in_range` knows
a class by its name only, so each distributor's class returns the claims of all,
and `mark_claimed` runs several times for each. A call is a pass through the range,
a block, and an event of that block.

`Listed` is what `/claims/<protocol>/active` shows of the statuses: sorted by time, then by
id, newest first. Ids are given in the order of the handlers, which is that of the
passes, and all rows of a block have one time. `StoredStates` is what it should show:
the places in the chain where a claim gets a state, in the order of the chain. The
view asks for the claim first and for its states then, so the property speaks of the
two apart: of the newest claim, and of the states of every claim, at any commit.

The indexer starts before the first protocol is added, as `INDEXER_START_BLOCK`
has it. An indexer that starts later does not know the protocols before, drops
their claims (`indexer.py:543`), and the first status of one violates the foreign
key: this is a poisoned event of `IndexerLoop`.

## The runs

| Run | Shows |
|---|---|
| `IndexerSafety` | with reorganisations, a poisoned event, a forced run and one fault of any kind: `TypeOK`, `WholeBlocks`, `OnlyCanonical`, `IntervalsOnTime`, and that the loop implements `BlockIndex` |
| `IndexerLiveness` | with two faults other than a lost commit: `AtMostOnce`, `WaitHonest`, `EventuallyIndexed` |
| `LostCommit` | violates `WaitHonest`: `start_block` moves before the commit (`indexer.py:673`) |
| `PoisonHalts` | violates `EventuallyIndexed`: an event that cannot be stored halts the indexer (`indexer.py:763`) |
| `LedgerAhead` | violates `SameHeight`: an anchor read later than the block (`indexer.py:133`) |
| `ViewsRequests` | the ledger: `TypeOK`, `TableMatchesContract`, `ValuesStayExact`; the views, with commits between their statements: `StakingAnswerExact`, `StatusNotBehind`, `StampNotAhead`, `PointsMatchContract` |
| `RegistryRanges` | `TypeOK`, `DetailsMatchContract`, `PremiumsHaveNonstakers`, `OldCoveragesClosed`, `StatusMatchesUnlessFlapped` |
| `StatsRanges` | `TypeOK`, `RowsEveryPeriod`, `PremiumsWithinApy`, `SinglePeriodUpToDate`, `TvlsAsNewAsTvc`, `StrategiesListed`; with commits between the requests of a client, `PagesMissNothing`, `TvlRowsHaveApy` |
| `StatsCatchUp` | violates `ApyUpToDate`: several periods due at once all get the last APY (`indexer.py:685`) |
| `DependentsRanges` | `TypeOK`, `ViewTellsTheStates`, `OnlyImportsAreMissing`, `FundraiseMatches`, `AirdropsMatch`, `DuplicatesFromOverlapOnly`, `ImportedThenIndexed` |
| `UpgradeSwitch` | with two failures or interventions and a second start: `TypeOK`, `NoGaps`, `AppliedOnce`, `ServedIsLevel`, `Finishes` |
| `UpgradeAgain` | violates `UpToDateWithLive`: run again after a failure, the script takes the database that was left behind for the live one (`upgrade.py:257`) |

A run that is expected to be violated checks one sentence of a comment, a
docstring or the README that the code does not keep; `findings` in
`PROJECT.json` quotes it.

More effects show in the models, which the properties except or do not speak of:

* `force_interval_run.py:24` says that the functions cannot run for a block that is
  not indexed; its default, `last_block`, is not. After such a run the unforced run
  for the range that is this block raises the error that only forced runs should
  meet (`IntervalInThePast`; `indexer.py:690`), until the range is longer.
* A protocol added and then removed within one range stays active in the table
  (`flapped`; `indexer.py:76`). While indexing anew a range is 100,001 blocks.
* When no position is fit to be measured, the rows are multiplied by 1 while their
  height moves on (`anchorMissing`; `indexer.py:161`).
* `last_time` stays behind when the values were read at the mint and no factor was
  computed since; until the first one it is in 1970. Until the first update of the
  rows `/status` fails, on the `timestamp()` of `datetime.min` (`views/status.py:19`).
* `/protocols` does not list a protocol until its first premium is set, and goes on
  serving the last `tvl` of one that has left (`Priced`), so the sum of what it
  serves can be above the newest row of `stats_tvc`.
* The share of nonstakers in `calc_tvc` and the premiums in `calc_apy` are those
  after the whole range, whatever the period.
* A strategy that cannot be read is listed with its last balance without limit.
* The first point of `/stats/unlock` has the time of the request, and the next ones
  can be before it: rows past their lockup are still there. A date stands for the
  midnight at which its day begins.
* A claim whose ancillary data cannot be taken apart keeps its range from being
  committed for ever (`indexer.py:561`): `index_events` catches an `IntegrityError`
  only. `ImportedThenIndexed` excepts it.
* An upgrade that is run again after a failure compares the new database with the
  one the failed run left (`poll.strayed`). That one may be almost empty: the script
  is level with it at once and switches the service to a database that is not.
  `ServedIsLevel` excepts this, `UpgradeAgain` shows it.
* Without the entries of `airdrops.sql`, whose import can fail unnoticed
  (`upgrade.py:250`), the new indexer raises at the first `Claimed` for ever and the
  script polls without end. `Finishes` excepts whatever goes wrong.
* A process that somebody starts while the script runs follows the database of
  `.env`, beside the thread: both apply each block. `AppliedOnce` excepts it.
* A commit that fails leaves a gap in the database of an upgrade, as in that of the
  loop. `NoGaps` excepts it, `LostCommit` shows it.
* The script kills the first process it finds and waits until none is found; a
  process that is started meanwhile makes it wait for ever (`upgrade.py:199`).

### Bounds

Indexer: five blocks (four where liveness is checked, six for `PoisonHalts`), two
event classes, one interval function, a period of two blocks, ranges of one or
two. That gives ranges of both sizes, catching up after a late start, an interval
function that runs twice, a range that is retried, and a reorganisation before,
during and after a range. Two classes are enough for a half-applied range. The
chain may start at any height. One fault in `IndexerSafety`; the combinations of
more are covered by the proofs, for all properties of that run. `Interval` and
`IndexerStartBlock` keep the relation they have in production: the indexer starts at
`INDEXER_START_BLOCK`.

Ledger and views: two positions, two owners, five blocks (six for `LedgerAhead`),
ranges of one or two, lockups of two blocks, one block of `SafeTime`, a reset every
three blocks. Two positions are an anchor and one that is scaled; five blocks allow
both to be minted, one to expire and be restaked or burned while the other is
scaled, and a token's whole life to fall into neighbouring ranges. Between two
statements of a view there can be none to four ranges. `Day` is two blocks, so that
two positions can unlock on one date or on two. A lockup longer than a range is an
assumption with a reason: the shortest lockup is longer than 100,000 blocks, so a
position is not restaked twice in one range.

Registry: one protocol, since rows of two never meet; two agents, two amounts,
five blocks, ranges of up to three. Three blocks are enough to add, remove and add
again within one range, five to do it over several.

Statistics and pages: four blocks and a period of one, so three periods, in ranges
that bring none to three of them, and pages of one row: a row can come in before,
between or after any of the requests for three. The worth of a position grows and
falls: premiums above and below the APY, and a negative APY that is skipped. Of the
premiums there are none and more than enough, with an incentive. With two protocols,
one leaves while another comes, and a failure can fall before, between and after
them; of two strategies one can fail while the other is read, and both are emptied
for a period. `StatsCatchUp` has nine blocks and a period of two.

Upgrade: three blocks, ranges of one or two, three databases: the first and one for
each of two starts of the script. Two mishaps (one in `UpgradeAgain`) are a failure
with a restart or an intervention after it, or two failures in one attempt. Three
blocks let the old indexer move on while the new one catches up, and a range be open
when a process is killed.

Claims, fundraise, airdrops: two claims of one protocol, one buyer, two
distributors, two imports, four blocks, ranges of up to three. Four blocks are
just enough for a claim from its protocol to its payout, or for a second claim
after the first was withdrawn; a range may hold three of them. Blocks without a
transaction are left out, since nothing depends on distances.

The chain stops at the bound in all of these, hence `CHECK_DEADLOCK FALSE` there.

### Fairness

`FairSpec` assumes that the running thread takes its next step (it is a loop
without a wait other than for the lock), that the operator answers the question
(`force_interval_run.py:32` warns that the indexer waits until then), and that a
waiting view polls. Nothing is assumed of the chain, of faults, or of whoever
restarts a dead process: `EventuallyIndexed` is about blocks two behind a head
that was reached, and excepts a process that is down. Weak fairness is enough:
nobody takes the lock again and again, forced runs are a person's.

In `Upgrade`, `FairSpec` assumes that indexers and the script take their next
steps; `Finishes` excepts a script that fails or is disturbed. That the new indexer
catches up with the old one needs it to be faster than the chain. Here the chain
ends; there a range of 100,001 blocks takes less time than the chain needs for as
many.

In `Dependents`, `FairSpec` assumes only that the indexer takes its next step;
`ImportedThenIndexed` starts from a state in which everything was imported once.

## The proofs

Each module has one for its theorems. They hold for every value of the constants:
every number of blocks, classes, positions, protocols, importers and databases,
every range size and interval, any bound on faults. The assumptions are those on
the constants, named in the modules, and where a theorem needs more it says so.

| Theorem | Of the runs' properties |
|---|---|
| `IndexerSystem_proof`: `TypeCorrect`, `AppliedAtMostOnce`, `BlocksAreWhole`, `Refinement` | `TypeOK`, `AtMostOnce`, `WholeBlocks`, `ImplementsBlockIndex` |
| `ClientIsToldTheTruth` | `WaitHonest`, if no commit is lost |
| `AppliedIsCanonical` | `OnlyCanonical`, if reorganisations replace one block at most |
| `RunsAreOnTime` | `IntervalsOnTime`, if the database was started within a period of `INDEXER_START_BLOCK` |
| `StakingLedger_proof`: `TypesHold`, `TableHolds`, `ValuesHold` | `TypeOK`, `TableMatchesContract`, `ValuesStayExact` |
| `StakingViews_proof`: `StakingAnswerHolds`, `StatusHolds`, `StampHolds`, `PointsHold` | `StakingAnswerExact`, `StatusNotBehind`, `StampNotAhead`, `PointsMatchContract` |
| `ProtocolRegistry_proof`: `TypesHold`, `DetailsHold`, `NonstakersHold`, `OldCoveragesHold`, `StatusHolds` | `TypeOK`, `DetailsMatchContract`, `PremiumsHaveNonstakers`, `OldCoveragesClosed`, `StatusMatchesUnlessFlapped` |
| `Stats_proof`: `TypesHold`, `RowsHold`, `PremiumsHold`, `SinglePeriodHolds`, `TvlsHold`, `StrategiesHold`, `PagesHold`, `TvlAndApyHold` | `TypeOK`, `RowsEveryPeriod`, `PremiumsWithinApy`, `SinglePeriodUpToDate`, `TvlsAsNewAsTvc`, `StrategiesListed`, `PagesMissNothing`, `TvlRowsHaveApy` |
| `Upgrade_proof`: `TypesHold`, `NoGapsHolds`, `AppliedOnceHolds`, `ServedIsLevelHolds` | `TypeOK`, `NoGaps`, `AppliedOnce`, `ServedIsLevel` |
| `Dependents_proof`: `TypeCorrect`, `StatesAreTold`, `OthersNeverWait`, `PositionsAreSums`, `AirdropsAreMarked`, `DuplicatesNeedOverlap` | `TypeOK`, `ViewTellsTheStates`, `OnlyImportsAreMissing`, `FundraiseMatches`, `AirdropsMatch`, `DuplicatesFromOverlapOnly` |

None of the properties is inductive. They speak of what is committed or served; a
step out of the middle of a range needs to know what the range has done so far.

**The indexer.** That a commit applies each event once needs to know what is in the
transaction, which needs the position in the classes, which needs where the loop is
and whether the session still works. `IInv` says this in parts. `ControlInv` ties
the position and the session to the program counter; `LockInv` the lock to the open
transactions; `RangeInv` keeps `start_block` at or after `last_block`; `TxInv` says
that the transaction holds each event of the classes passed exactly once; `RowsInv`
that nothing is stored from `last_block` on, and everything once or not at all
before. Each part has a lemma for the step. Only two actions, `Commit` and
`CommitAckLost`, change what is committed (`OnlyCommitsWrite`), and they add one to
each class of each block of the range (`CommitLengths`): the refinement follows,
with `Advance` for these two and a stutter for all others. `WaitInv` (no gap below
`last_block`), `CanonInv` (what was read is below the head) and `OnTimeInv` are added
for the conditional theorems. `OnTimeInv` says that what the transaction is about to
commit is still exactly what is due: `block_last_run` cannot move under it, since the
lock keeps the operator out until the commit.

`LostCommit` shows that the first condition is needed, and the mutant
`EndOfRange_AtHead` the second. The third is the one of production, where the first
range starts at `INDEXER_START_BLOCK`; a database that starts later is behind at once.

**The ledger and the registry.** The tables of a contract are a function of its
history, but in the middle of a range some kinds of events are handled further than
others. So a column is compared with the contract at any block b up to which the
events of the kinds that change this column, and none after it, are handled: `Seen`
in the ledger, `HandledTo` in the registry. Before and after a range that is every
kind, at the block last committed. A handler moves b to its own block, and between
two events of a kind the contract's column does not change (`Told`). What orders
classes in the code appears where a handler needs a row of an earlier class, such
as the owner of a position that was minted in this range. `MaxRange` below the
shortest lockup makes a restake unique in its range (`OnceInRange`); an
anchor's lockup is over `SafeTime` away, so no arbitrage of it is left that the rows
are to be brought past (`AnchorNotBehind`); that the factor
is the growth of the measured position, whichever it is, is `FactorExact`. In the
registry a protocol that is added again needs the state of its former life, which
`LifeCycle` gives.

**The views.** A request sees several commits, and the answer must belong to one.
`RequestOk` says what the results so far have in common with the tables now: the
contract's history only grows and the history flags only rise, so a result that
matched goes on matching the block it was read at; `/status` reads the block, the
height, then the rows, each as new as the one before. `ResetsOk` says which interval
calls are left, so none is overdue at a commit, the height is within the range, and
an update of the rows never moves it behind the last committed block. `StampOk` says
that behind a timestamp within the open range stands a row that stays until the
next update, because the burns of the range are over or its position was minted in
it.

**The statistics.** `runs` and `due` are consecutive ends of periods (`RunsOk`), each
table has the rows of the first so many of them (`Fits`), and how many follows from
which calls are left (`CallsOk`: those of a function are a suffix). `TvcOk`,
`BalancesOk` and `StrategyOk` relate the rows to the periods a function has been
called for (`Ended`) and to the failures; `ApyOk` keeps the premiums within the APY
in memory as in the rows; `SingleOk` follows one period through the functions.
Of a client, `ClientOk` says that it has no more rows of a list than there are, and
that what it lacks of those that were there when it began is among the oldest: as
many as it has are not (`ListOk`). A commit only adds newer rows (`ListStays`), a page
that is not full reaches the oldest (`NextPage`). Between two ranges there are TVLs and
APYs for the same periods (`SamePeriods`), so the list of APYs, begun after that of
TVLs was read, has one for each of them.

**The upgrade.** The invariant says which worker follows which database. Nobody
follows one that is not initialized (`Followers`), and a worker has everything
behind its position (`NoGapsBehind`). As long as nobody interferes, a database has
one indexer, which is at its `last_block` (`Solo`), and the thread of the new one has
ended before the process takes it over (`Handover`). `Levelled` carries the
comparison of `reindex` to the end of the script.

**Claims, fundraise and airdrops.** `Tells` relates tables to a set of occurrences
(an event in a block): the committed tables to `Stored`, all up to `last_block`, and
those of the open transaction to `Applied`, what was emitted up to the end of the
range without what is left of it. A handler adds one occurrence, and changes the
tables by it alone (`Differs`, `TellsOneMore`); a rollback leaves the first part, a
commit completes the second. That no handler but that of airdrops lacks a row
(`RowsAreThere`) takes both the contract, which emits the events in order
(`ChainOk`), and the order of the passes (`EarlierHandled`). A purchase must not be
counted twice, although it is handled in a range that may be taken again, and an
airdrop must be marked once, although it is handled in the pass of every
distributor. Imports have an invariant of their own: until two overlap at most one
runs, and what it is about to insert is still missing (`ImportInv`); a row is there
at most once for each import (`BoundInv`).

**The statuses of a claim.** That the view lists them in the order of the chain is
not obvious: a payout is handled in a pass after all other states of the range, so
it gets a higher id than states of later blocks, and in one block it is the second
of two events of which only it has a row. `RowsFrom` says that each row is that of
one handler call, each call with a state has its row, and of two rows of one claim
and one time the first has the smaller index in its block. A handler appends, so
this holds if no state of the same claim and block was handled before an earlier
one (`LastOfItsTime`). Within a pass the calls come in order (`FirstHandled`); that
the two passes never meet in one block is due to the contract, where a payout
shares its block with the deletion only, which has no row (`BlockOk`). Rows and
places in the chain are then one to one, and the order of the view is that of the
chain backwards (`RowsArePlaces`).

**Lists.** The views sort, page and subtract, which the models say by recursion or
by a choice. `NatLemmas` proves by induction on an interval that a finite set can be
listed in order (`SomeList`) and in one way only (`OneList`): the two lists of the
statuses are equal because they list the same set by the same order
(`OppositeLists`). The same induction gives that what is left after k dates are the positions
that unlock on none of them (`RemainingIs`).

Checked by TLC only: `EventuallyIndexed`, `ImportedThenIndexed` and `Finishes`.
Liveness is beyond the prover. All other properties of the passing runs are proved.

## Not modelled

* Configuration, error reporting, start-up of the service, migrations and the
  declarations of the ORM: no behaviour of their own.
* The classes of `custom_yields.py` and the two `insert_from_delta`: dead code.
* `/last-block-indexed`, `/airdrop`, `/positions/<user>/fundraise`: one row or the
  rows of one user as they are stored; what is stored is in the modules above.
* The `except` for an `IntegrityError` in `index_intervals` (`indexer.py:707-714`). It
  is never taken: the tables the interval functions insert into have no constraint
  but generated primary keys and columns that are always given a value, and what the
  events of the range wrote is flushed before, by the query at `indexer.py:687`.
* How a session keeps the objects it has read: each poll of `/wait-for-block` and of
  `reindex` is taken to read its row anew.
* Amounts: rounding, the numbers of `calc_tvc`, APYs of positions, SHER, and the
  width of columns, which at 78 digits is not reached.
* Two updates of one protocol in one block, whose rows have no order
  (`protocol_coverage.py:27`).
* A cache that lags behind the node (`utils.py:107`). It is not part of this
  repository; nothing in the code would notice.

## Plan

1. Done: the loop with its neighbours, the ledger, the registry, the statistics,
   claims, fundraise and airdrops, the views, the upgrade; the proofs about all of
   them, for every safety property of the runs.
2. Two transactions in one block in the registry.
