------------------------------- MODULE Stats -------------------------------
(***************************************************************************)
(* What the interval functions store: a row of total value locked, of      *)
(* total value covered, of APY and of the strategies' balances for each    *)
(* period, and the APYs of indexer_state.                                  *)
(*                                                                         *)
(* After a long range several periods are due at once.  index_intervals    *)
(* then runs the first function for all of them before it runs the second  *)
(* for any, and all of them after the events of the whole range.           *)
(*                                                                         *)
(* The events are modelled by what they leave for the interval functions   *)
(* (StakingLedger and ProtocolRegistry have the handlers), the transaction *)
(* by IndexerLoop; the failures here are those the functions swallow.  The *)
(* function reset_balance_factor is in StakingLedger.                      *)
(*                                                                         *)
(* Then what the views answer from these tables.                           *)
(***************************************************************************)
EXTENDS Intervals, SequencesExt

CONSTANTS
    MaxBlock,       \* bound: the last block
    MaxRange,       \* a range has at most MaxRange + 1 blocks
    Value,          \* the worth of a position at each block, a logarithm
    Tvl,            \* totalTokenBalanceStakers at each block
    Premium,        \* what protocols may pay to stakers and, of it, as an incentive
    Year,           \* SECONDS_IN_A_YEAR, in the unit of Value
    Protocols,      \* the protocols of PROTOCOLS_CSV, in its order
    Active,         \* the protocols the contract has at each block
    Strategy,       \* the strategies
    Balance,        \* balanceOf of every strategy at each block
    MaxFaults       \* bound: how many calls to the node fail

Block == 1..MaxBlock

ASSUME StatsAssumption ==
    /\ MaxBlock \in Nat \ {0} /\ MaxRange \in Nat
    /\ Value \in [Block -> Nat] /\ Tvl \in [Block -> Nat \ {0}]
    /\ Premium \subseteq [stakers : Nat, incentives : Nat]
    /\ Year \in Nat /\ MaxFaults \in Nat
    /\ Protocols \in Seq(Range(Protocols)) /\ Active \in [Block -> SUBSET Range(Protocols)]
    /\ Balance \in [Block -> Nat] /\ IsFiniteSet(Strategy)

VARIABLES
    lastBlock,      \* indexer_state.last_block
    runs,           \* the blocks the interval functions ran at
    positions,      \* staking_positions never restaked, by the block of their mint
    premium,        \* the latest premiums
    indx,           \* the APYs of indexer_state
    tvlRows,        \* table stats_tvl, oldest first
    tvcRows,        \* the blocks in stats_tvc, and in stats_external_coverage
    tvls,           \* protocols.tvl, by the block it was computed at
    apyRows,        \* table stats_apy, oldest first
    strategyRows,   \* the blocks in strategy_balances, by strategy
    rangeEnd,       \* end_block of the open range, 0 when none is open
    calls,          \* the calls of interval functions the range has left, a set
    due,            \* history: the periods of the newest range
    failed,         \* history: the blocks at which a function failed
    faults          \* how many calls failed

tableVars == <<indx, tvlRows, tvcRows, tvls, apyRows, strategyRows>>
historyVars == <<due, failed>>
vars == <<lastBlock, runs, positions, premium, tableVars, rangeEnd, calls, historyVars, faults>>

\* An APY with the block it was computed at, and that of the TVL it used; 0 when
\* there is none.
Apys == [apy : Nat, additional : Nat, at : Block \cup {0}, tvlAt : Block \cup {0},
         premiums : Int, incentives : Nat]

\* No APY is negative; rows and periods are those of blocks.
TypeOK ==
    /\ lastBlock \in 1 .. MaxBlock + 1 /\ rangeEnd \in Block \cup {0}
    /\ runs \in Seq(Block) /\ due \in Seq(Block)
    /\ positions \subseteq Block /\ failed.tvc \subseteq Block /\ failed.apy \subseteq Block
    /\ premium \in Premium
    /\ indx \in Apys
    /\ tvlRows \in Seq([block : Block, value : Nat])
    /\ apyRows \in Seq([block : Block, apys : Apys])
    /\ tvcRows \in Seq(Block) /\ tvls \in [Range(Protocols) -> Block \cup {0}]
    /\ strategyRows \in [Strategy -> Seq(Block)]
    /\ faults \in 0..MaxFaults

Init ==
    /\ lastBlock = 1 /\ runs = <<>>
    /\ positions = {} /\ premium \in {p \in Premium : p.stakers = 0 /\ p.incentives = 0}
    /\ indx = [apy |-> 0, additional |-> 0, at |-> 0, tvlAt |-> 0, premiums |-> 0,
               incentives |-> 0]
    /\ tvlRows = <<>> /\ tvcRows = <<>> /\ apyRows = <<>>
    /\ tvls = [p \in Range(Protocols) |-> 0]
    /\ strategyRows = [s \in Strategy |-> <<>>]
    /\ rangeEnd = 0 /\ calls = {}
    /\ due = <<>> /\ failed = [tvc |-> {}, apy |-> {}, balances |-> {}] /\ faults = 0

-----------------------------------------------------------------------------
(* A range.                                                                *)

\* Mutant: the APY is stored before it is computed.
Functions_IndexFirst == <<"calc_tvl", "calc_tvc", "index_apy", "calc_apy",
                          "calc_additional_apy", "index_strategy_balances">>

\* The order of Indexer.intervals.
Functions == <<"calc_tvl", "calc_tvc", "calc_apy", "calc_additional_apy", "index_apy",
               "index_strategy_balances">>

\* Mutant: of several periods only the newest is made up for.
Due_OnlyNewest(end) ==
    LET all == DueBlocks(runs, end) IN IF all = <<>> THEN <<>> ELSE <<Last(all)>>

\* The periods that have ended before the range does.
Due(end) == DueBlocks(runs, end)

\* Every function for every one of the periods.
IntervalCalls(end) == [function : Range(Functions), block : Range(Due(end))]

\* The events of the range: positions leave the table or are restaked, at most
\* one that is minted stays, and premiums change.
TakeRange(end) ==
    /\ rangeEnd = 0
    /\ lastBlock <= end /\ end - lastBlock <= MaxRange
    /\ ~InThePast(runs, end)
    /\ \E gone \in SUBSET positions, minted \in {{}} \cup {{b} : b \in lastBlock..end} :
          positions' = (positions \ gone) \cup minted
    /\ premium' \in Premium
    /\ rangeEnd' = end
    /\ calls' = IntervalCalls(end)
    /\ due' = Due(end)
    /\ UNCHANGED <<lastBlock, runs, tableVars, failed, faults>>

CommitRange ==
    /\ rangeEnd # 0 /\ calls = {}
    /\ lastBlock' = rangeEnd + 1
    /\ runs' = runs \o due
    /\ rangeEnd' = 0
    /\ UNCHANGED <<positions, premium, tableVars, calls, historyVars, faults>>

-----------------------------------------------------------------------------
(* The interval functions.                                                 *)

\* Each function in turn, for all of the periods.
Rank(call) == CHOOSE i \in DOMAIN Functions : Functions[i] = call.function

First(call) ==
    /\ call \in calls
    /\ \A c \in calls \ {call} : \/ Rank(call) < Rank(c)
                                 \/ Rank(call) = Rank(c) /\ call.block < c.block

Handles(call, function) == First(call) /\ call.function = function

Return(call) ==
    /\ calls' = calls \ {call}
    /\ UNCHANGED <<lastBlock, runs, positions, premium, rangeEnd, due>>

\* A call to the node or the cache fails; the function catches the exception.
Fault == faults < MaxFaults /\ faults' = faults + 1

CalcTvl(call) ==
    /\ Handles(call, "calc_tvl")
    /\ tvlRows' = Append(tvlRows, [block |-> call.block, value |-> Tvl[call.block]])
    /\ Return(call)
    /\ UNCHANGED <<indx, tvcRows, tvls, apyRows, strategyRows, failed, faults>>

\* Mutant: what was computed before a failure is stored as if it were all.
Stored_Partial(b, fails) == Append(tvcRows, b)

\* The rows of a block, only when nothing failed.
Stored(b, fails) == IF fails THEN tvcRows ELSE Append(tvcRows, b)

\* Of the first n protocols of the spreadsheet, those the contract has.
Priced(b, n) == Range(SubSeq(Protocols, 1, n)) \cap Active[b]

\* A failure ends the loop over the spreadsheet, perhaps after the last tvl was
\* set; what was set stays set.
CalcTvc(call) ==
    LET b == call.block IN
    /\ Handles(call, "calc_tvc")
    /\ \E n \in 0 .. Len(Protocols), fails \in BOOLEAN :
          /\ \/ fails /\ Fault /\ failed' = [failed EXCEPT !.tvc = @ \cup {b}]
             \/ ~fails /\ n = Len(Protocols) /\ UNCHANGED <<failed, faults>>
          /\ tvls' = [p \in DOMAIN tvls |-> IF p \in Priced(b, n) THEN b ELSE tvls[p]]
          /\ tvcRows' = Stored(b, fails)
    /\ Return(call) /\ UNCHANGED <<indx, tvlRows, apyRows, strategyRows>>

\* What the worth of a position grew by over the period that ends at b.
Growth(b) == Value[b] - Value[b - Interval]

\* A position is known by the block of its mint, and ids grow.
OldestPosition == Min(positions)

\* The oldest position was there during the whole period.
Measurable(b) ==
    /\ positions # {}
    /\ b - Interval >= IndexerStartBlock
    /\ OldestPosition <= b - Interval

\* Mutant: a page begins with the last row of the one before.
FindAll_Overlap(rows, offset, limit) ==
    SubSeq(Reverse(rows), Max({offset, 1}), Min({offset + limit, Len(rows)}))

\* The find_all of each table: newest first.
FindAll(rows, offset, limit) ==
    SubSeq(Reverse(rows), offset + 1, Min({offset + limit, Len(rows)}))

CurrentTvl == Head(FindAll(tvlRows, 0, 1))

\* The sums over the latest premiums.  Incentives are among the premiums.
StakersShare == premium.stakers
IncentivePremiums == premium.incentives

\* What an amount a second is in a year, as a share of the newest TVL.
PremiumsApy(amount) == (amount * Year) \div CurrentTvl.value

\* Mutant: the premiums APY is stored as it was computed.
Clamped_Not(premiumsApy, apy) == premiumsApy

\* The part from premiums is not above the whole.
Clamped(premiumsApy, apy) == IF premiumsApy > apy THEN apy ELSE premiumsApy

\* The APYs after an APY has been computed at b: premiums and incentives only
\* when there is a TVL, incentives only when they are not above the whole.
Computed(b, apy) ==
    IF tvlRows = <<>> THEN [indx EXCEPT !.apy = apy, !.at = b]
    ELSE LET incentives == PremiumsApy(IncentivePremiums) IN
         [apy |-> apy, additional |-> indx.additional, at |-> b, tvlAt |-> CurrentTvl.block,
          premiums |-> Clamped(PremiumsApy(StakersShare - IncentivePremiums), apy),
          incentives |-> IF incentives > apy THEN indx.incentives ELSE incentives]

\* Mutant: a payout's loss is stored as an APY.
ApysAfter_NegativeToo(b) == IF Measurable(b) THEN Computed(b, Growth(b)) ELSE indx

\* A negative APY is skipped, and so is everything that comes after it.
ApysAfter(b) == IF Measurable(b) /\ Growth(b) >= 0 THEN Computed(b, Growth(b)) ELSE indx

CalcApy(call) ==
    /\ Handles(call, "calc_apy")
    /\ indx' = ApysAfter(call.block)
    /\ Return(call)
    /\ UNCHANGED <<tvlRows, tvcRows, tvls, apyRows, strategyRows, failed, faults>>

\* One of the two balances cannot be read: taken for a position too young.
CalcApyFails(call) ==
    /\ Handles(call, "calc_apy") /\ Fault
    /\ failed' = [failed EXCEPT !.apy = @ \cup {call.block}]
    /\ Return(call) /\ UNCHANGED tableVars

\* The sum of what each of CUSTOM_YIELDS adds: the list is empty.
AdditionalApy == 0

CalcAdditionalApy(call) ==
    /\ Handles(call, "calc_additional_apy")
    /\ indx' = [indx EXCEPT !.additional = AdditionalApy]
    /\ Return(call)
    /\ UNCHANGED <<tvlRows, tvcRows, tvls, apyRows, strategyRows, failed, faults>>

\* Mutant: no row without an APY that was computed for the period.
IndexApy_OnlyComputed(call) ==
    /\ Handles(call, "index_apy")
    /\ apyRows' = IF indx.at # call.block THEN apyRows
                  ELSE Append(apyRows,
                           [block |-> call.block, apys |-> [indx EXCEPT !.apy = @ + indx.additional]])
    /\ Return(call)
    /\ UNCHANGED <<indx, tvlRows, tvcRows, tvls, strategyRows, failed, faults>>

IndexApy(call) ==
    /\ Handles(call, "index_apy")
    /\ apyRows' = Append(apyRows,
           [block |-> call.block, apys |-> [indx EXCEPT !.apy = @ + indx.additional]])
    /\ Return(call)
    /\ UNCHANGED <<indx, tvlRows, tvcRows, tvls, strategyRows, failed, faults>>

\* Those whose balance cannot be read.
NoBalance(strategies) ==
    /\ faults + Cardinality(strategies) <= MaxFaults
    /\ faults' = faults + Cardinality(strategies)

IndexStrategyBalances(call) ==
    LET b == call.block IN
    /\ Handles(call, "index_strategy_balances")
    /\ \E unread \in SUBSET Strategy :
          /\ NoBalance(unread)
          /\ strategyRows' = [s \in Strategy |-> IF s \in unread THEN strategyRows[s]
                                                 ELSE Append(strategyRows[s], b)]
          /\ failed' = [failed EXCEPT !.balances = @ \cup [strategy : unread, block : {b}]]
    /\ Return(call) /\ UNCHANGED <<indx, tvlRows, tvcRows, tvls, apyRows>>

Next ==
    \/ \E end \in Block : TakeRange(end)
    \/ \E call \in calls :
          \/ CalcTvl(call) \/ CalcTvc(call) \/ CalcApy(call) \/ CalcApyFails(call)
          \/ CalcAdditionalApy(call) \/ IndexApy(call) \/ IndexStrategyBalances(call)
    \/ CommitRange

Spec == Init /\ [][Next]_vars

-----------------------------------------------------------------------------
(* What the views answer.                                                  *)

\* Mutant: the rows of an emptied strategy are left out first.
ListedStrategies_NonZero ==
    LET rows(s) == SelectSeq(strategyRows[s], LAMBDA b : Balance[b] # 0)
    IN  [s \in {t \in Strategy : rows(t) # <<>>} |-> Balance[Last(rows(s))]]

\* GET /strategies: the newest balance of each, unless that is nothing.
ListedStrategies ==
    LET Newest(s) == Balance[Last(strategyRows[s])]
    IN  [s \in {t \in Strategy : strategyRows[t] # <<>> /\ Newest(t) # 0} |-> Newest(s)]

-----------------------------------------------------------------------------
\* Between two ranges, when the tables are visible to readers.
Committed == rangeEnd = 0 /\ lastBlock > 1

Blocks(rows) == [i \in DOMAIN rows |-> rows[i].block]

\* A table that may lack the period of a failure.
Rising(blocks) == \A i, j \in DOMAIN blocks : i < j => blocks[i] < blocks[j]

\* However the blocks fall into ranges, the tables of TVL and of APY have one row
\* for every period that has ended, in their order, and those of TVC and of the
\* strategies' balances at most one (indexer.py:683-717).
RowsEveryPeriod ==
    Committed =>
        LET ended == [i \in 1 .. (lastBlock - IndexerStartBlock - 1) \div Interval |->
                         IndexerStartBlock - 1 + i * Interval]
        IN  /\ Blocks(tvlRows) = ended /\ Blocks(apyRows) = ended
            /\ Rising(tvcRows) /\ \A s \in Strategy : Rising(strategyRows[s])

\* The part of the APY that comes from premiums is never above the whole, in any
\* row and whatever was skipped between them (indexer.py:297-334).
PremiumsWithinApy ==
    \A i \in DOMAIN apyRows : apyRows[i].apys.premiums <= apyRows[i].apys.apy

\* Every protocol that is counted in the newest row of stats_tvc is served with
\* a tvl as new as the row; newer only where calc_tvc failed half way, and then
\* no row tells of it (indexer.py:189-244, views/protocols.py:11-38).
TvlsAsNewAsTvc ==
    Committed => \A p \in Range(Protocols) :
        /\ (tvcRows # <<>> /\ p \in Active[Last(tvcRows)]) => tvls[p] >= Last(tvcRows)
        /\ tvls[p] # 0 => /\ p \in Active[tvls[p]]
                          /\ tvls[p] \in Range(tvcRows) \cup failed.tvc

\* A strategy is listed with what it held when it could last be read, and an
\* emptied one is not listed (indexer.py:376-389, views/strategies.py:6-27).
StrategiesListed ==
    Committed => \A s \in Strategy :
        LET read == {b \in Range(runs) : [strategy |-> s, block |-> b] \notin failed.balances}
        IN  /\ s \in DOMAIN ListedStrategies <=> (read # {} /\ Balance[Max(read)] # 0)
            /\ s \in DOMAIN ListedStrategies => ListedStrategies[s] = Balance[Max(read)]

\* A position was there throughout the period that ends at b, and gained.
Expected(b) ==
    /\ b \notin failed.apy
    /\ b - Interval >= IndexerStartBlock
    /\ \E p \in positions : p <= b - Interval
    /\ Value[b] >= Value[b - Interval]

\* The row of b has the APY, and the part from premiums, of the period that
\* ends at b.
UpToDate(b) ==
    \A i \in DOMAIN apyRows :
        (apyRows[i].block = b /\ Expected(b)) =>
            apyRows[i].apys.at = b /\ apyRows[i].apys.tvlAt = b

\* When one period is due at a time, its row is up to date (indexer.py:91-104).
SinglePeriodUpToDate == (Committed /\ Len(due) = 1) => UpToDate(due[1])

\* indexer.py:92: "`index_apy` must have an up to date APY computed, so it must
\* come after `calc_apy`".
ApyUpToDate == Committed => \A i \in DOMAIN due : UpToDate(due[i])
=============================================================================
