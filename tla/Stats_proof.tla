---------------------------- MODULE Stats_proof ----------------------------
(***************************************************************************)
(* Proofs about Stats: for every start, interval, cut into ranges, every   *)
(* worth of the positions and every failure, each period has its rows, in  *)
(* their order, and what the views serve is what was computed last; a      *)
(* client that reads page by page misses nothing.                          *)
(***************************************************************************)
EXTENDS StatsPages, FiniteSetTheorems, SequenceTheorems, NatLemmas

\* The end of the i-th period.
Ends(i) == IndexerStartBlock - 1 + i * Interval

Names == {"calc_tvl", "calc_tvc", "calc_apy", "calc_additional_apy", "index_apy",
          "index_strategy_balances"}

TvlRow == [block : Block, value : Nat \ {0}]
ApyRow == [block : Block, apys : Apys]
BlockOrNone == Block \cup {0}
Failures == [tvc : SUBSET Block, apy : SUBSET Block,
             balances : SUBSET [strategy : Strategy, block : Block]]

TablesTyped ==
    /\ positions \subseteq Block /\ premium \in Premium
    /\ indx \in Apys
    /\ tvlRows \in Seq(TvlRow) /\ apyRows \in Seq(ApyRow)
    /\ tvcRows \in Seq(Block) /\ tvls \in [Range(Protocols) -> BlockOrNone]
    /\ strategyRows \in [Strategy -> Seq(Block)]
    /\ failed \in Failures /\ faults \in 0..MaxFaults

\* The periods: runs has the first ones, due those of the open range.
RunsOk ==
    /\ lastBlock \in 1 .. MaxBlock + 1 /\ rangeEnd \in BlockOrNone
    /\ runs \in Seq(Block) /\ \A i \in DOMAIN runs : runs[i] = Ends(i)
    /\ due \in Seq(Block)
    /\ rangeEnd # 0 =>
          /\ \A i \in DOMAIN due : due[i] = Ends(Len(runs) + i)
          /\ Len(runs) + Len(due) = (rangeEnd - IndexerStartBlock) \div Interval
    /\ rangeEnd = 0 =>
          /\ \A i \in DOMAIN due : due[i] \in Range(runs)
          /\ lastBlock > 1 => Len(runs) = (lastBlock - IndexerStartBlock - 1) \div Interval

Precedes(c, d) == Rank(c) < Rank(d) \/ (Rank(c) = Rank(d) /\ c.block < d.block)

CallsOk ==
    /\ calls \subseteq [function : Names, block : Range(due)]
    /\ rangeEnd = 0 => calls = {}
    /\ \A c \in calls, d \in [function : Names, block : Range(due)] :
          Precedes(c, d) => d \in calls

\* The function has not been called for the period that ends at b.
Left(f, b) == [function |-> f, block |-> b] \in calls

\* The periods it has been called for.
Ended(f) == {b \in Range(runs) \cup Range(due) : ~Left(f, b)}

\* The rows are those of the first periods: of all that have run between ranges,
\* and within a range of those the function has been called for.
Fits(rows, f, rs, re, d, cs) ==
    /\ \A i \in DOMAIN rows : rows[i].block = Ends(i)
    /\ re = 0 => Len(rows) = Len(rs)
    /\ re # 0 =>
          /\ Len(rs) <= Len(rows) /\ Len(rows) <= Len(rs) + Len(d)
          /\ \A i \in DOMAIN d :
                [function |-> f, block |-> d[i]] \in cs <=> Len(rows) < Len(rs) + i

TvlFits == Fits(tvlRows, "calc_tvl", runs, rangeEnd, due, calls)
ApyFits == Fits(apyRows, "index_apy", runs, rangeEnd, due, calls)

TvcOk ==
    /\ Rising(tvcRows) /\ Range(tvcRows) \subseteq Ended("calc_tvc")
    /\ \A p \in Range(Protocols) :
          /\ (tvcRows # <<>> /\ p \in Active[Last(tvcRows)]) => tvls[p] >= Last(tvcRows)
          /\ tvls[p] # 0 => /\ p \in Active[tvls[p]]
                            /\ tvls[p] \in Range(tvcRows) \cup failed.tvc

\* The blocks the strategy could be read at.
Read(s) ==
    {b \in Ended("index_strategy_balances") : [strategy |-> s, block |-> b] \notin failed.balances}

StrategyOk(s) == Rising(strategyRows[s]) /\ Range(strategyRows[s]) = Read(s)

\* Failures are at blocks the function has been called for.
BalancesOk ==
    \A x \in failed.balances : x.block \in Ended("index_strategy_balances")

ApyOk ==
    /\ indx.premiums <= indx.apy
    /\ tvlRows = <<>> => indx.premiums <= 0
    /\ PremiumsWithinApy

\* When one period is due, what has been computed is computed for it.
SingleOk ==
    Len(due) = 1 =>
        /\ ~Left("calc_tvl", due[1]) => tvlRows # <<>> /\ tvlRows[Len(tvlRows)].block = due[1]
        /\ ~Left("calc_apy", due[1]) /\ Expected(due[1]) =>
              indx.at = due[1] /\ indx.tvlAt = due[1]
        /\ UpToDate(due[1])

Inv ==
    /\ TablesTyped /\ RunsOk /\ CallsOk
    /\ TvlFits /\ ApyFits
    /\ TvcOk /\ BalancesOk /\ \A s \in Strategy : StrategyOk(s)
    /\ ApyOk /\ SingleOk

-----------------------------------------------------------------------------
(* Lemmas about the operators.                                             *)
\* The functions of Indexer.intervals and their order as numbers.
LEMMA Ranks ==
    /\ Range(Functions) = Names
    /\ \A c : /\ c.function = "calc_tvl" => Rank(c) = 1
              /\ c.function = "calc_tvc" => Rank(c) = 2
              /\ c.function = "calc_apy" => Rank(c) = 3
              /\ c.function = "calc_additional_apy" => Rank(c) = 4
              /\ c.function = "index_apy" => Rank(c) = 5
              /\ c.function = "index_strategy_balances" => Rank(c) = 6
<1>1. /\ DOMAIN Functions = 1..6
      /\ Functions[1] = "calc_tvl" /\ Functions[2] = "calc_tvc" /\ Functions[3] = "calc_apy"
      /\ Functions[4] = "calc_additional_apy" /\ Functions[5] = "index_apy"
      /\ Functions[6] = "index_strategy_balances"
  BY DEF Functions
<1>2. ASSUME NEW c, NEW i \in 1..6, c.function = Functions[i] PROVE Rank(c) = i
  <2>1. \A j \in 1..6 : Functions[j] = c.function => j = i
    BY <1>1, <1>2
  <2>2. \E j \in 1..6 : Functions[j] = c.function
    BY <1>2
  <2> QED
    BY <1>1, <2>1, <2>2 DEF Rank
<1>3. Range(Functions) = Names
  <2>1. Range(Functions) = {Functions[i] : i \in 1..6}
    BY <1>1 DEF Range
  <2> QED
    BY <1>1, <2>1 DEF Names
<1>4. ASSUME NEW c
      PROVE  /\ c.function = "calc_tvl" => Rank(c) = 1
             /\ c.function = "calc_tvc" => Rank(c) = 2
             /\ c.function = "calc_apy" => Rank(c) = 3
             /\ c.function = "calc_additional_apy" => Rank(c) = 4
             /\ c.function = "index_apy" => Rank(c) = 5
             /\ c.function = "index_strategy_balances" => Rank(c) = 6
  <2>1. /\ c.function = Functions[1] => Rank(c) = 1
        /\ c.function = Functions[2] => Rank(c) = 2
        /\ c.function = Functions[3] => Rank(c) = 3
        /\ c.function = Functions[4] => Rank(c) = 4
        /\ c.function = Functions[5] => Rank(c) = 5
        /\ c.function = Functions[6] => Rank(c) = 6
    BY <1>2
  <2> QED
    BY <1>1, <2>1
<1> QED
  BY <1>3, <1>4

\* Multiplication by the interval keeps the order.
LEMMA TimesInterval ==
    ASSUME NEW i \in Nat, NEW j \in Nat, i <= j
    PROVE  /\ i * Interval \in Nat /\ j * Interval \in Nat
           /\ i * Interval <= j * Interval
           /\ i < j => i * Interval + Interval <= j * Interval
<1>1. Interval \in Nat /\ Interval >= 1
  BY IntervalsAssumption
<1>2. PICK d \in Nat : j = i + d
  <2>1. j - i \in Nat /\ j = i + (j - i)
    OBVIOUS
  <2> QED
    BY <2>1
<1>3. i * Interval \in Nat /\ d * Interval \in Nat
  BY <1>1
<1>4. j * Interval = i * Interval + d * Interval
  BY <1>1, <1>2
<1>5. i < j => d * Interval >= Interval
  <2> SUFFICES ASSUME i < j PROVE d * Interval >= Interval
    OBVIOUS
  <2>1. d - 1 \in Nat /\ d = (d - 1) + 1
    BY <1>2
  <2>2. (d - 1) * Interval \in Nat
    BY <1>1, <2>1
  <2>3. d * Interval = (d - 1) * Interval + Interval
    BY <1>1, <2>1
  <2> QED
    BY <1>1, <2>2, <2>3
<1> QED
  BY <1>1, <1>3, <1>4, <1>5

\* The ends of the periods rise.
LEMMA EndsRise ==
    ASSUME NEW i \in Nat, NEW j \in Nat
    PROVE  /\ Ends(i) \in Nat
           /\ i < j => Ends(i) + Interval <= Ends(j) /\ Ends(i) < Ends(j)
           /\ Ends(i) = Ends(j) => i = j
           /\ i # 0 => Ends(i) # 0
<1>1. Interval \in Nat /\ Interval >= 1 /\ IndexerStartBlock \in Nat /\ IndexerStartBlock >= 1
  BY IntervalsAssumption
<1>2. i * Interval \in Nat /\ j * Interval \in Nat
  BY TimesInterval
<1>3. i < j => i * Interval + Interval <= j * Interval
  BY TimesInterval
<1>4. j < i => j * Interval + Interval <= i * Interval
  BY TimesInterval
<1>5. i # 0 => i * Interval >= 1
  <2>1. i # 0 => 0 * Interval + Interval <= i * Interval
    BY TimesInterval
  <2>2. 0 * Interval = 0
    BY <1>1
  <2> QED
    BY <1>1, <1>2, <2>1, <2>2
<1> QED
  BY <1>1, <1>2, <1>3, <1>4, <1>5 DEF Ends

\* Division by the interval counts the whole periods.
LEMMA DivInterval ==
    ASSUME NEW a \in Nat, NEW k \in Nat
    PROVE  /\ a \div Interval \in Nat
           /\ (a \div Interval) * Interval <= a
           /\ (k * Interval + a) \div Interval = k + (a \div Interval)
<1>1. Interval \in Nat /\ Interval >= 1
  BY IntervalsAssumption
<1> DEFINE q == a \div Interval
           r == a % Interval
<1>2. q \in Int /\ r \in 0 .. Interval - 1 /\ a = Interval * q + r
  BY <1>1
<1>3. q \in Nat
  BY <1>1, <1>2
<1>4. q * Interval <= a
  BY <1>1, <1>2, <1>3
<1>5. (k * Interval + a) \div Interval = k + q
  <2>1. k * Interval + a = Interval * (k + q) + r
    BY <1>1, <1>2, <1>3
  <2> HIDE DEF q, r
  <2>2. k + q \in Int
    BY <1>2
  <2> QED
    BY <1>1, <1>2, <2>1, <2>2
<1> QED
  BY <1>3, <1>4, <1>5

\* The newest period that has run, and the start before the first one.
LEMMA LastRun ==
    ASSUME RunsOk
    PROVE  FunctionLastRun(runs) = Ends(Len(runs))
<1>1. runs \in Seq(Block) /\ Len(runs) \in Nat /\ DOMAIN runs = 1..Len(runs)
  BY DEF RunsOk
<1>2. IndexerStartBlock \in Nat /\ Interval \in Nat /\ Ends(0) = IndexerStartBlock - 1
  BY IntervalsAssumption DEF Ends
<1>3. CASE runs = <<>>
  <2>1. Len(runs) = 0
    BY <1>3
  <2> QED
    BY <1>2, <1>3, <2>1 DEF FunctionLastRun, BlockLastRun
<1>4. CASE runs # <<>>
  <2>1. Len(runs) \in 1..Len(runs) /\ Len(runs) # 0
    BY <1>1, <1>4
  <2>2. runs[Len(runs)] = Ends(Len(runs))
    BY <1>1, <2>1 DEF RunsOk
  <2>3. Ends(Len(runs)) # 0
    BY <1>1, <2>1, EndsRise
  <2> QED
    BY <1>4, <2>2, <2>3 DEF FunctionLastRun, BlockLastRun
<1> QED
  BY <1>3, <1>4

\* The periods of a range follow those that have run, up to its end.
LEMMA DueFacts ==
    ASSUME RunsOk, NEW end \in Block, ~InThePast(runs, end)
    PROVE  /\ Due(end) \in Seq(Block)
           /\ \A i \in DOMAIN Due(end) : Due(end)[i] = Ends(Len(runs) + i)
           /\ Len(runs) + Len(Due(end)) = (end - IndexerStartBlock) \div Interval
<1> DEFINE N == Len(runs)
           a == end - Ends(N) - 1
           n == a \div Interval
<1>1. N \in Nat
  BY DEF RunsOk
<1>2. IndexerStartBlock \in Nat \ {0} /\ Interval \in Nat \ {0} /\ MaxBlock \in Nat \ {0}
  BY IntervalsAssumption, StatsAssumption
<1>3. Ends(N) \in Nat /\ N * Interval \in Nat
  BY <1>1, EndsRise, TimesInterval
<1>4. end \in Nat /\ end <= MaxBlock /\ Ends(N) < end
  BY <1>2, <1>3, LastRun DEF InThePast, Block
<1>5. a \in Nat /\ N * Interval + a = end - IndexerStartBlock
  BY <1>2, <1>3, <1>4 DEF Ends
<1> HIDE DEF a
<1>6. n \in Nat /\ n * Interval <= a /\ (N * Interval + a) \div Interval = N + n
  BY <1>1, <1>5, DivInterval
<1> HIDE DEF n
<1>7. Due(end) = [i \in 1..n |-> Ends(N) + i * Interval]
  BY LastRun DEF Due, DueBlocks, a, n
<1>8. ASSUME NEW i \in 1..n
      PROVE  Ends(N) + i * Interval = Ends(N + i) /\ Ends(N) + i * Interval \in Block
  <2>1. i \in Nat /\ i <= n /\ 0 < i
    BY <1>6
  <2>2. i * Interval \in Nat /\ i * Interval <= n * Interval /\ n * Interval \in Nat
    BY <1>6, <2>1, TimesInterval
  <2>3. Ends(N) + i * Interval = Ends(N + i)
    BY <1>1, <1>2, <2>1 DEF Ends
  <2>4. i * Interval <= a
    BY <1>5, <1>6, <2>2
  <2>5. Ends(N) + i * Interval <= end - 1
    BY <1>3, <1>4, <2>2, <2>4 DEF a
  <2>6. Ends(N) < Ends(N + i)
    BY <1>1, <2>1, EndsRise
  <2> QED
    BY <1>3, <1>4, <1>2, <2>2, <2>3, <2>5, <2>6 DEF Block
<1>9. Due(end) \in Seq(Block)
  BY <1>6, <1>7, <1>8
<1>10. Len(Due(end)) = n /\ DOMAIN Due(end) = 1..n
  BY <1>6, <1>7
<1> QED
  BY <1>5, <1>6, <1>7, <1>8, <1>9, <1>10

\* The calls are those of a function for a period of the open range.
LEMMA CallTypes ==
    ASSUME RunsOk, CallsOk, NEW c \in calls
    PROVE  /\ c.function \in Names /\ c = [function |-> c.function, block |-> c.block]
           /\ c.block \in Range(due) /\ c.block \in Block /\ c.block # 0
           /\ \E i \in DOMAIN due : c.block = due[i]
           /\ rangeEnd # 0 /\ rangeEnd \in Block
<1>1. c \in [function : Names, block : Range(due)] /\ rangeEnd # 0
  BY DEF CallsOk
<1>2. \A b \in Range(due) : b \in Block /\ \E i \in DOMAIN due : b = due[i]
  BY DEF Range, RunsOk
<1>3. \A b \in Block : b # 0
  BY DEF Block
<1> QED
  BY <1>1, <1>2, <1>3 DEF RunsOk, BlockOrNone

\* The numbers of the periods of the open range.
LEMMA Periods ==
    ASSUME RunsOk, rangeEnd # 0
    PROVE  /\ Len(runs) \in Nat /\ Len(due) \in Nat
           /\ DOMAIN runs = 1..Len(runs) /\ DOMAIN due = 1..Len(due)
           /\ \A i, j \in DOMAIN due : /\ i < j => due[i] < due[j]
                                       /\ due[i] = due[j] => i = j
           /\ \A i \in DOMAIN runs, j \in DOMAIN due : runs[i] < due[j]
           /\ \A x \in Range(runs), y \in Range(due) : x < y
<1>1. /\ Len(runs) \in Nat /\ Len(due) \in Nat
      /\ DOMAIN runs = 1..Len(runs) /\ DOMAIN due = 1..Len(due)
  BY DEF RunsOk
<1>2. ASSUME NEW i \in DOMAIN due, NEW j \in DOMAIN due
      PROVE  (i < j => due[i] < due[j]) /\ (due[i] = due[j] => i = j)
  <2>1. due[i] = Ends(Len(runs) + i) /\ due[j] = Ends(Len(runs) + j)
    BY DEF RunsOk
  <2>2. Len(runs) + i \in Nat /\ Len(runs) + j \in Nat
    BY <1>1
  <2>3. i < j => Len(runs) + i < Len(runs) + j
    BY <1>1
  <2>4. i < j => Ends(Len(runs) + i) < Ends(Len(runs) + j)
    BY <2>2, <2>3, EndsRise
  <2>5. Ends(Len(runs) + i) = Ends(Len(runs) + j) => Len(runs) + i = Len(runs) + j
    BY <2>2, EndsRise
  <2>6. Len(runs) + i = Len(runs) + j => i = j
    BY <1>1
  <2> QED
    BY <2>1, <2>4, <2>5, <2>6
<1>3. ASSUME NEW i \in DOMAIN runs, NEW j \in DOMAIN due PROVE runs[i] < due[j]
  <2>1. runs[i] = Ends(i) /\ due[j] = Ends(Len(runs) + j)
    BY DEF RunsOk
  <2>2. i \in Nat /\ Len(runs) + j \in Nat /\ i < Len(runs) + j
    BY <1>1
  <2> QED
    BY <2>1, <2>2, EndsRise
<1> QED
  BY <1>1, <1>2, <1>3 DEF Range

\* What is called next: of its function, the oldest period that is left; and the
\* functions before it have been called for all periods.
LEMMA FirstHandled ==
    ASSUME RunsOk, CallsOk, NEW c, First(c), calls' = calls \ {c},
           UNCHANGED <<lastBlock, runs, rangeEnd, due>>
    PROVE  /\ RunsOk' /\ CallsOk'
           /\ \A f \in Names, b \in Range(due) :
                 [function |-> f, block |-> b] \in calls =>
                     \/ [function |-> f, block |-> b] = c
                     \/ Precedes(c, [function |-> f, block |-> b])
           /\ \A x \in Ended(c.function) : x < c.block
           /\ c.block \notin Ended(c.function)
           /\ Ended(c.function)' = Ended(c.function) \cup {c.block}
           /\ \A f : f # c.function => Ended(f)' = Ended(f)
<1>1. c \in calls
  BY DEF First
<1>2. /\ c.function \in Names /\ c = [function |-> c.function, block |-> c.block]
      /\ c.block \in Range(due) /\ c.block \in Block /\ rangeEnd # 0
  BY <1>1, CallTypes
<1>3. RunsOk'
  BY DEF RunsOk
<1>4. \A d \in calls : d = c \/ Precedes(c, d)
  BY DEF First, Precedes
<1>5. CallsOk'
  <2>1. calls' \subseteq [function : Names, block : Range(due')]
    BY DEF CallsOk
  <2>2. rangeEnd' = 0 => calls' = {}
    BY <1>2
  <2>3. ASSUME NEW e \in calls', NEW d \in [function : Names, block : Range(due')],
               Precedes(e, d)
        PROVE  d \in calls'
    <3>1. e \in calls /\ e # c /\ d \in calls
      BY <2>3 DEF CallsOk
    <3>2. Precedes(c, e)
      BY <1>4, <3>1
    <3>3. /\ e.function \in Names /\ c.function \in Names /\ d.function \in Names
          /\ e.block \in Block /\ c.block \in Block /\ d.block \in Block
      BY <1>1, <3>1, CallTypes
    <3>4. \A n \in Names : \E k \in 1..6 : \A x : x.function = n => Rank(x) = k
      BY Ranks DEF Names
    <3>5. Rank(c) \in 1..6 /\ Rank(d) \in 1..6 /\ Rank(e) \in 1..6
      BY <3>3, <3>4
    <3>6. c.block \in Int /\ d.block \in Int /\ e.block \in Int
      BY <3>3 DEF Block
    <3>7. d # c
      BY <2>3, <3>2, <3>5, <3>6 DEF Precedes
    <3> QED
      BY <3>1, <3>7
  <2>4. \A e \in calls', d \in [function : Names, block : Range(due)'] :
            Precedes(e, d)' => d \in calls'
    BY <2>3 DEF Precedes
  <2> QED
    BY <2>1, <2>2, <2>4 DEF CallsOk
<1>6. \A f \in Names, b \in Range(due) :
         [function |-> f, block |-> b] \in calls =>
             \/ [function |-> f, block |-> b] = c
             \/ Precedes(c, [function |-> f, block |-> b])
  BY <1>4
<1>7. ASSUME NEW x \in Ended(c.function) PROVE x < c.block
  <2>1. CASE x \in Range(runs)
    BY <1>2, <2>1, Periods
  <2>2. CASE x \in Range(due)
    <3> DEFINE d == [function |-> c.function, block |-> x]
    <3>1. d \notin calls
      BY DEF Ended, Left
    <3>2. d \in [function : Names, block : Range(due)]
      BY <1>2, <2>2
    <3>3. ~Precedes(c, d) /\ d # c
      BY <1>1, <3>1, <3>2 DEF CallsOk
    <3>4. Rank(c) = Rank(d)
      BY DEF Rank
    <3>5. x # c.block
      BY <1>2, <3>3
    <3>6. d.block = x
      OBVIOUS
    <3>7. ~(c.block < x)
      BY <3>3, <3>4, <3>6 DEF Precedes
    <3>8. x \in Block
      BY <2>2 DEF RunsOk, Range
    <3> QED
      BY <1>2, <3>5, <3>7, <3>8 DEF Block
  <2> QED
    BY <2>1, <2>2 DEF Ended
<1>8. c.block \notin Ended(c.function)
  BY <1>1, <1>2 DEF Ended, Left
<1>9. Ended(c.function)' = Ended(c.function) \cup {c.block}
  <2>1. \A b : [function |-> c.function, block |-> b] = c <=> b = c.block
    BY <1>2
  <2>2. \A b : [function |-> c.function, block |-> b] \in calls' <=>
                  ([function |-> c.function, block |-> b] \in calls /\ b # c.block)
    BY <2>1
  <2>3. c.function' = c.function
    OBVIOUS
  <2> QED
    BY <1>2, <2>2 DEF Ended, Left
<1>10. ASSUME NEW f, f # c.function PROVE Ended(f)' = Ended(f)
  <2>1. \A b : [function |-> f, block |-> b] # c
    BY <1>2, <1>10
  <2>2. \A b : [function |-> f, block |-> b] \in calls' <=> [function |-> f, block |-> b] \in calls
    BY <2>1
  <2> QED
    BY <2>2 DEF Ended, Left
<1> QED
  BY <1>3, <1>5, <1>6, <1>7, <1>8, <1>9, <1>10

-----------------------------------------------------------------------------
(* Lemmas about the rows.                                                  *)

\* A function that stores a row for the period it is called for has stored those
\* of the periods before: the new row is in its place.
LEMMA FitsGrows ==
    ASSUME NEW R, NEW rows \in Seq(R), NEW row \in R, NEW f, NEW rs \in Seq(Block), NEW re,
           re # 0, NEW d \in Seq(Block), NEW cs,
           Fits(rows, f, rs, re, d, cs),
           \A j \in DOMAIN d : d[j] = Ends(Len(rs) + j),
           \A j, k \in DOMAIN d : d[j] = d[k] => j = k,
           NEW i \in DOMAIN d, [function |-> f, block |-> d[i]] \in cs,
           \A j \in DOMAIN d : j < i => [function |-> f, block |-> d[j]] \notin cs,
           row.block = d[i]
    PROVE  Fits(Append(rows, row), f, rs, re, d, cs \ {[function |-> f, block |-> d[i]]})
<1> DEFINE N == Len(rs)
           new == Append(rows, row)
           left == cs \ {[function |-> f, block |-> d[i]]}
<1>1. /\ N \in Nat /\ Len(rows) \in Nat /\ DOMAIN rows = 1..Len(rows)
      /\ Len(d) \in Nat /\ DOMAIN d = 1..Len(d) /\ i \in 1..Len(d)
  OBVIOUS
<1>2. Len(rows) < N + i
  BY DEF Fits
<1>3. \A j \in 1..Len(d) : j < i => ~(Len(rows) < N + j)
  BY <1>1 DEF Fits
<1>4. Len(rows) = N + i - 1
  <2>1. CASE i = 1
    BY <1>1, <1>2, <2>1 DEF Fits
  <2>2. CASE i # 1
    <3>1. i - 1 \in 1..Len(d) /\ i - 1 < i
      BY <1>1, <2>2
    <3> QED
      BY <1>1, <1>2, <1>3, <3>1
  <2> QED
    BY <2>1, <2>2
<1>5. /\ Len(new) = Len(rows) + 1 /\ DOMAIN new = 1 .. Len(rows) + 1
      /\ \A j \in 1..Len(rows) : new[j] = rows[j]
      /\ new[Len(rows) + 1] = row
  BY <1>1
<1>6. \A j \in DOMAIN new : new[j].block = Ends(j)
  <2>1. \A j \in 1..Len(rows) : new[j].block = Ends(j)
    BY <1>1, <1>5 DEF Fits
  <2>2. new[N + i].block = Ends(N + i)
    BY <1>1, <1>4, <1>5
  <2>3. \A j \in DOMAIN new : j \in 1..Len(rows) \/ j = N + i
    BY <1>1, <1>4, <1>5
  <2> QED
    BY <2>1, <2>2, <2>3
<1>7. N <= Len(new) /\ Len(new) <= N + Len(d)
  BY <1>1, <1>4, <1>5
<1>8. ASSUME NEW j \in DOMAIN d
      PROVE  [function |-> f, block |-> d[j]] \in left <=> Len(new) < N + j
  <2>1. [function |-> f, block |-> d[j]] = [function |-> f, block |-> d[i]] <=> j = i
    OBVIOUS
  <2>2. [function |-> f, block |-> d[j]] \in cs <=> Len(rows) < N + j
    BY DEF Fits
  <2>3. [function |-> f, block |-> d[j]] \in left <=> (Len(rows) < N + j /\ j # i)
    BY <2>1, <2>2
  <2>4. (Len(rows) < N + j /\ j # i) <=> Len(rows) + 1 < N + j
    BY <1>1, <1>4
  <2> QED
    BY <1>5, <2>3, <2>4
<1> HIDE DEF new, left
<1>9. Fits(new, f, rs, re, d, left)
  BY <1>6, <1>7, <1>8 DEF Fits
<1> QED
  BY <1>9 DEF new, left

\* A call of another function does not concern the rows.
LEMMA FitsStays ==
    ASSUME NEW rows, NEW f, NEW rs, NEW re, NEW d, NEW cs, NEW c, c.function # f,
           Fits(rows, f, rs, re, d, cs)
    PROVE  Fits(rows, f, rs, re, d, cs \ {c})
<1>1. \A b : [function |-> f, block |-> b] # c
  OBVIOUS
<1>2. \A b : [function |-> f, block |-> b] \in cs \ {c} <=> [function |-> f, block |-> b] \in cs
  BY <1>1
<1> QED
  BY <1>2 DEF Fits

\* A block above all of a rising table is put at its end.
LEMMA RisingGrows ==
    ASSUME NEW blocks \in Seq(Block), NEW b \in Block, Rising(blocks),
           \A x \in Range(blocks) : x < b
    PROVE  /\ Rising(Append(blocks, b)) /\ Append(blocks, b) \in Seq(Block)
           /\ Append(blocks, b) # <<>> /\ Last(Append(blocks, b)) = b
           /\ Range(Append(blocks, b)) = Range(blocks) \cup {b}
<1> DEFINE new == Append(blocks, b)
<1>1. Len(blocks) \in Nat /\ DOMAIN blocks = 1..Len(blocks)
  OBVIOUS
<1>2. /\ new \in Seq(Block) /\ Len(new) = Len(blocks) + 1 /\ DOMAIN new = 1 .. Len(blocks) + 1
      /\ \A j \in 1..Len(blocks) : new[j] = blocks[j]
      /\ new[Len(blocks) + 1] = b
  BY <1>1
<1> HIDE DEF new
<1>3. \A j \in 1..Len(blocks) : blocks[j] < b
  BY <1>1 DEF Range
<1>4. ASSUME NEW i \in DOMAIN new, NEW j \in DOMAIN new, i < j PROVE new[i] < new[j]
  <2>1. i \in 1..Len(blocks)
    BY <1>1, <1>2, <1>4
  <2>2. CASE j \in 1..Len(blocks)
    BY <1>1, <1>2, <1>4, <2>1, <2>2 DEF Rising
  <2>3. CASE j = Len(blocks) + 1
    BY <1>2, <1>3, <2>1, <2>3
  <2> QED
    BY <1>1, <1>2, <2>2, <2>3
<1>5. Rising(new)
  BY <1>4 DEF Rising
<1>6. new # <<>> /\ Last(new) = b
  BY <1>1, <1>2 DEF Last
<1>7. Range(new) = Range(blocks) \cup {b}
  BY <1>1, <1>2 DEF Range
<1> QED
  BY <1>2, <1>5, <1>6, <1>7 DEF new

\* The last block of a rising table is its greatest.
LEMMA LastOfRising ==
    ASSUME NEW blocks \in Seq(Block), Rising(blocks), blocks # <<>>
    PROVE  /\ Last(blocks) \in Range(blocks) /\ Last(blocks) \in Block
           /\ Max(Range(blocks)) = Last(blocks)
<1>1. Len(blocks) \in Nat \ {0} /\ DOMAIN blocks = 1..Len(blocks) /\ Len(blocks) \in DOMAIN blocks
  OBVIOUS
<1>2. Last(blocks) \in Range(blocks) /\ Last(blocks) \in Block
  BY <1>1 DEF Last, Range
<1>3. \A x \in Range(blocks) : x \in Int
  <2>1. \A x \in Block : x \in Int
    BY StatsAssumption DEF Block
  <2> QED
    BY <2>1 DEF Range
<1>4. ASSUME NEW i \in DOMAIN blocks PROVE Last(blocks) >= blocks[i]
  <2>1. i < Len(blocks) \/ i = Len(blocks)
    BY <1>1
  <2>2. blocks[i] \in Int /\ blocks[Len(blocks)] \in Int
    BY <1>1, <1>3 DEF Range
  <2> QED
    BY <1>1, <2>1, <2>2 DEF Rising, Last
<1>5. \A x \in Range(blocks) : Last(blocks) >= x
  BY <1>4 DEF Range
<1>6. \A x \in Range(blocks) : (\A y \in Range(blocks) : x >= y) => x = Last(blocks)
  BY <1>2, <1>3, <1>5
<1> QED
  BY <1>2, <1>5, <1>6 DEF Max

\* The newest row.
LEMMA NewestRow ==
    ASSUME NEW R, NEW rows \in Seq(R), rows # <<>>
    PROVE  Head(FindAll(rows, 0, 1)) = rows[Len(rows)] /\ rows[Len(rows)] \in R
<1>1. Len(rows) \in Nat \ {0} /\ DOMAIN rows = 1..Len(rows)
  OBVIOUS
<1>2. Min({0 + 1, Len(rows)}) = 1
  <2> DEFINE n == Len(rows)
             S == {1, n}
  <2>1. n \in Nat /\ n >= 1
    BY <1>1
  <2> HIDE DEF n
  <2>2. 1 \in S /\ \A y \in S : 1 <= y
    BY <2>1
  <2>3. \A x \in S : (\A y \in S : x <= y) => x = 1
    BY <2>1
  <2> HIDE DEF S
  <2>4. Min(S) = 1
    BY <2>2, <2>3 DEF Min
  <2>5. {0 + 1, n} = S
    BY DEF S
  <2> QED
    BY <2>4, <2>5 DEF n
<1> DEFINE rev == Reverse(rows)
<1>3. rev \in Seq(R) /\ Len(rev) = Len(rows) /\ rev[1] = rows[Len(rows)]
  <2>1. rev = [i \in 1..Len(rows) |-> rows[(Len(rows) - i) + 1]]
    BY DEF Reverse
  <2>2. \A i \in 1..Len(rows) : (Len(rows) - i) + 1 \in 1..Len(rows)
    BY <1>1
  <2>3. \A i \in 1..Len(rows) : rows[(Len(rows) - i) + 1] \in R
    BY <1>1, <2>2
  <2>4. rev \in Seq(R) /\ Len(rev) = Len(rows)
    BY <1>1, <2>1, <2>3
  <2>5. rev[1] = rows[(Len(rows) - 1) + 1] /\ (Len(rows) - 1) + 1 = Len(rows)
    BY <1>1, <2>1
  <2> QED
    BY <2>4, <2>5
<1> HIDE DEF rev
<1>4. FindAll(rows, 0, 1) = SubSeq(rev, 1, 1)
  <2>1. 0 + 1 = 1
    OBVIOUS
  <2> QED
    BY <1>2, <2>1 DEF FindAll, rev
<1>5. Head(SubSeq(rev, 1, 1)) = rev[1]
  BY <1>1, <1>3
<1> QED
  BY <1>1, <1>3, <1>4, <1>5

-----------------------------------------------------------------------------
(* The ranges.                                                             *)

\* Between ranges the functions have been called for all periods.
LEMMA EndedBetween ==
    ASSUME RunsOk, CallsOk, rangeEnd = 0
    PROVE  \A f : Ended(f) = Range(runs)
<1>1. calls = {} /\ \A b \in Range(due) : b \in Range(runs)
  BY DEF CallsOk, RunsOk, Range
<1> QED
  BY <1>1 DEF Ended, Left

\* Opening a range leaves the tables as they are, and every period to do.
LEMMA TakeRangeKeeps ==
    ASSUME Inv, NEW end \in Block, TakeRange(end)
    PROVE  Inv'
<1>1. /\ TablesTyped /\ RunsOk /\ CallsOk /\ rangeEnd = 0
  BY DEF Inv, TakeRange
<1>2. /\ rangeEnd' = end /\ calls' = IntervalCalls(end) /\ due' = Due(end)
      /\ lastBlock' = lastBlock /\ runs' = runs /\ failed' = failed /\ faults' = faults
      /\ indx' = indx /\ tvlRows' = tvlRows /\ tvcRows' = tvcRows /\ tvls' = tvls
      /\ apyRows' = apyRows /\ strategyRows' = strategyRows
      /\ premium' \in Premium /\ lastBlock <= end
      /\ ~InThePast(runs, end)
  BY DEF TakeRange, tableVars
<1>3. /\ due' \in Seq(Block)
      /\ \A i \in DOMAIN due' : due'[i] = Ends(Len(runs) + i)
      /\ Len(runs) + Len(due') = (end - IndexerStartBlock) \div Interval
  BY <1>1, <1>2, DueFacts
<1>4. end # 0 /\ end \in BlockOrNone
  BY DEF Block, BlockOrNone
<1>5. TablesTyped'
  <2>1. PICK gone \in SUBSET positions, minted \in {{}} \cup {{b} : b \in lastBlock..end} :
           positions' = (positions \ gone) \cup minted
    BY DEF TakeRange
  <2>2. lastBlock..end \subseteq Block
    <3>1. lastBlock \in Nat /\ lastBlock >= 1
      BY <1>1, StatsAssumption DEF RunsOk
    <3>2. end \in Nat /\ end <= MaxBlock /\ MaxBlock \in Nat
      BY StatsAssumption DEF Block
    <3> QED
      BY <3>1, <3>2 DEF Block
  <2>3. minted \subseteq Block
    BY <2>2
  <2>4. positions' \subseteq Block
    BY <1>1, <2>1, <2>3 DEF TablesTyped
  <2> QED
    BY <1>1, <1>2, <2>4 DEF TablesTyped
<1>6. RunsOk'
  <2>1. lastBlock' \in 1 .. MaxBlock + 1 /\ rangeEnd' \in BlockOrNone /\ rangeEnd' # 0
    BY <1>1, <1>2, <1>4 DEF RunsOk
  <2>2. runs' \in Seq(Block) /\ \A i \in DOMAIN runs' : runs'[i] = Ends(i)
    BY <1>1, <1>2 DEF RunsOk
  <2> QED
    BY <1>2, <1>3, <2>1, <2>2 DEF RunsOk
<1>7. calls' = [function : Names, block : Range(due')]
  BY <1>2, Ranks DEF IntervalCalls
<1>8. CallsOk'
  BY <1>2, <1>4, <1>7 DEF CallsOk
<1>9. /\ Len(runs) \in Nat /\ DOMAIN runs = 1..Len(runs)
      /\ Len(due') \in Nat /\ DOMAIN due' = 1..Len(due')
  BY <1>1, <1>3 DEF RunsOk
<1>10. \A i \in DOMAIN runs, j \in DOMAIN due' : runs[i] # due'[j]
  <2>1. ASSUME NEW i \in DOMAIN runs, NEW j \in DOMAIN due' PROVE runs[i] # due'[j]
    <3>1. runs[i] = Ends(i) /\ due'[j] = Ends(Len(runs) + j)
      BY <1>1, <1>3 DEF RunsOk
    <3>2. i \in Nat /\ Len(runs) + j \in Nat /\ i < Len(runs) + j
      BY <1>9
    <3> QED
      BY <3>1, <3>2, EndsRise
  <2> QED
    BY <2>1
<1>11. \A f \in Names : \A b : Left(f, b)' <=> b \in Range(due')
  BY <1>7 DEF Left
<1>12. \A f \in Names : Ended(f)' = Range(runs)
  <2>1. \A b \in Range(runs) : b \notin Range(due')
    BY <1>10 DEF Range
  <2>2. \A f \in Names : Ended(f)' = {b \in Range(runs') \cup Range(due') : ~Left(f, b)'}
    BY DEF Ended
  <2> QED
    BY <1>2, <1>11, <2>1, <2>2
<1>13. \A f \in Names : Ended(f)' = Ended(f)
  BY <1>1, <1>12, EndedBetween
<1>14. ASSUME NEW rows, NEW f \in Names, Fits(rows, f, runs, rangeEnd, due, calls),
              Len(rows) \in Nat
       PROVE  Fits(rows, f, runs', rangeEnd', due', calls')
  <2>1. Len(rows) = Len(runs)
    BY <1>1, <1>14 DEF Fits
  <2>2. ASSUME NEW i \in DOMAIN due'
        PROVE  [function |-> f, block |-> due'[i]] \in calls' <=> Len(rows) < Len(runs') + i
    <3>1. [function |-> f, block |-> due'[i]] \in calls'
      BY <1>7 DEF Range
    <3> QED
      BY <1>2, <1>9, <2>1, <3>1
  <2>3. \A i \in DOMAIN rows : rows[i].block = Ends(i)
    BY <1>14 DEF Fits
  <2>4. Len(runs') <= Len(rows) /\ Len(rows) <= Len(runs') + Len(due')
    BY <1>2, <1>9, <2>1
  <2> QED
    BY <1>2, <1>4, <2>2, <2>3, <2>4 DEF Fits
<1>15. TvlFits' /\ ApyFits'
  <2>1. "calc_tvl" \in Names /\ "index_apy" \in Names
    BY DEF Names
  <2>2. Len(tvlRows) \in Nat /\ Len(apyRows) \in Nat
    BY <1>1 DEF TablesTyped
  <2>3. Fits(tvlRows, "calc_tvl", runs', rangeEnd', due', calls')
    BY <1>14, <2>1, <2>2 DEF Inv, TvlFits
  <2>4. Fits(apyRows, "index_apy", runs', rangeEnd', due', calls')
    BY <1>14, <2>1, <2>2 DEF Inv, ApyFits
  <2> QED
    BY <1>2, <2>3, <2>4 DEF TvlFits, ApyFits
<1>16. TvcOk' /\ BalancesOk' /\ \A s \in Strategy : StrategyOk(s)'
  <2>1. Ended("calc_tvc")' = Ended("calc_tvc")
        /\ Ended("index_strategy_balances")' = Ended("index_strategy_balances")
    BY <1>13 DEF Names
  <2>2. TvcOk'
    BY <1>2, <2>1 DEF Inv, TvcOk, Rising
  <2>3. BalancesOk'
    BY <1>2, <2>1 DEF Inv, BalancesOk
  <2>4. \A s \in Strategy : StrategyOk(s)'
    BY <1>2, <2>1 DEF Inv, StrategyOk, Rising, Read
  <2> QED
    BY <2>2, <2>3, <2>4
<1>17. ApyOk'
  BY <1>2 DEF Inv, ApyOk, PremiumsWithinApy
<1>18. SingleOk'
  <2> SUFFICES ASSUME Len(due') = 1
               PROVE  /\ Left("calc_tvl", due[1])' /\ Left("calc_apy", due[1])'
                      /\ UpToDate(due[1])'
    BY DEF SingleOk
  <2>1. 1 \in DOMAIN due' /\ due'[1] \in Range(due')
    BY <1>9 DEF Range
  <2>2. \A f \in Names : [function |-> f, block |-> due'[1]] \in calls'
    BY <1>7, <2>1
  <2>3. Left("calc_tvl", due[1])' /\ Left("calc_apy", due[1])'
    BY <2>2 DEF Left, Names
  <2>4. \A i \in DOMAIN apyRows : apyRows[i].block # due'[1]
    <3>1. Fits(apyRows, "index_apy", runs, rangeEnd, due, calls)
      BY DEF Inv, ApyFits
    <3>2. Len(apyRows) = Len(runs) /\ DOMAIN apyRows = 1..Len(apyRows)
      BY <1>1, <3>1 DEF Fits, TablesTyped
    <3>3. \A i \in DOMAIN apyRows : apyRows[i].block = Ends(i)
      BY <3>1 DEF Fits
    <3>4. \A i \in DOMAIN runs : runs[i] = Ends(i)
      BY <1>1 DEF RunsOk
    <3> QED
      BY <1>9, <1>10, <2>1, <3>2, <3>3, <3>4
  <2>5. UpToDate(due[1])'
    BY <1>2, <2>4 DEF UpToDate
  <2> QED
    BY <2>3, <2>5
<1> QED
  BY <1>5, <1>6, <1>8, <1>15, <1>16, <1>17, <1>18 DEF Inv

\* The commit counts the periods of the range among those that have run.
LEMMA CommitRangeKeeps ==
    ASSUME Inv, CommitRange
    PROVE  Inv'
<1>1. /\ TablesTyped /\ RunsOk /\ CallsOk /\ rangeEnd # 0 /\ calls = {}
  BY DEF Inv, CommitRange
<1>2. /\ lastBlock' = rangeEnd + 1 /\ runs' = runs \o due /\ rangeEnd' = 0
      /\ positions' = positions /\ premium' = premium /\ calls' = calls
      /\ due' = due /\ failed' = failed /\ faults' = faults
      /\ indx' = indx /\ tvlRows' = tvlRows /\ tvcRows' = tvcRows /\ tvls' = tvls
      /\ apyRows' = apyRows /\ strategyRows' = strategyRows
  BY DEF CommitRange, tableVars, historyVars
<1>3. /\ Len(runs) \in Nat /\ DOMAIN runs = 1..Len(runs)
      /\ Len(due) \in Nat /\ DOMAIN due = 1..Len(due)
  BY <1>1 DEF RunsOk
<1>4. /\ runs' \in Seq(Block) /\ Len(runs') = Len(runs) + Len(due)
      /\ DOMAIN runs' = 1 .. Len(runs) + Len(due)
      /\ \A i \in DOMAIN runs : runs'[i] = runs[i]
      /\ \A i \in DOMAIN due : runs'[Len(runs) + i] = due[i]
  <2>1. /\ runs' \in Seq(Block) /\ Len(runs') = Len(runs) + Len(due)
        /\ \A i \in 1 .. Len(runs) + Len(due) :
              runs'[i] = IF i <= Len(runs) THEN runs[i] ELSE due[i - Len(runs)]
    BY <1>1, <1>2, ConcatProperties DEF RunsOk
  <2>2. \A i \in DOMAIN runs : runs'[i] = runs[i]
    BY <1>3, <2>1
  <2>3. \A i \in DOMAIN due : runs'[Len(runs) + i] = due[i]
    BY <1>3, <2>1
  <2> QED
    BY <1>3, <2>1, <2>2, <2>3
<1>5. Range(runs') = Range(runs) \cup Range(due)
  <2>1. ASSUME NEW i \in DOMAIN runs' PROVE runs'[i] \in Range(runs) \cup Range(due)
    <3>1. CASE i \in DOMAIN runs
      BY <1>4, <3>1 DEF Range
    <3>2. CASE i \notin DOMAIN runs
      <4>1. i - Len(runs) \in DOMAIN due /\ Len(runs) + (i - Len(runs)) = i
        BY <1>3, <1>4, <3>2
      <4> QED
        BY <1>4, <4>1 DEF Range
    <3> QED
      BY <3>1, <3>2
  <2>2. \A i \in DOMAIN runs : i \in DOMAIN runs'
    BY <1>3, <1>4
  <2>3. \A i \in DOMAIN due : Len(runs) + i \in DOMAIN runs'
    BY <1>3, <1>4
  <2> QED
    BY <1>4, <2>1, <2>2, <2>3 DEF Range
<1>6. RunsOk'
  <2>1. rangeEnd \in Block /\ rangeEnd \in Int /\ rangeEnd >= 1 /\ rangeEnd <= MaxBlock
    BY <1>1, StatsAssumption DEF RunsOk, BlockOrNone, Block
  <2>2. lastBlock' \in 1 .. MaxBlock + 1 /\ lastBlock' - IndexerStartBlock - 1 = rangeEnd - IndexerStartBlock
    BY <1>2, <2>1, StatsAssumption, IntervalsAssumption
  <2>3. ASSUME NEW i \in DOMAIN runs' PROVE runs'[i] = Ends(i)
    <3>1. CASE i \in DOMAIN runs
      BY <1>1, <1>4, <3>1 DEF RunsOk
    <3>2. CASE i \notin DOMAIN runs
      <4>1. i - Len(runs) \in DOMAIN due /\ Len(runs) + (i - Len(runs)) = i
        BY <1>3, <1>4, <3>2
      <4> QED
        BY <1>1, <1>4, <4>1 DEF RunsOk
    <3> QED
      BY <3>1, <3>2
  <2>4. \A i \in DOMAIN due' : due'[i] \in Range(runs')
    BY <1>2, <1>5 DEF Range
  <2>5. Len(runs') = (lastBlock' - IndexerStartBlock - 1) \div Interval
    BY <1>1, <1>4, <2>2 DEF RunsOk
  <2>6. due' \in Seq(Block) /\ rangeEnd' \in BlockOrNone
    BY <1>1, <1>2 DEF RunsOk, BlockOrNone
  <2> QED
    BY <1>2, <1>4, <2>2, <2>3, <2>4, <2>5, <2>6 DEF RunsOk
<1>7. TablesTyped'
  BY <1>1, <1>2 DEF TablesTyped
<1>8. CallsOk'
  BY <1>1, <1>2 DEF CallsOk
<1>9. \A f : Ended(f)' = Ended(f)
  BY <1>1, <1>2, <1>5 DEF Ended, Left
<1>10. ASSUME NEW rows, NEW f, Fits(rows, f, runs, rangeEnd, due, calls), Len(rows) \in Nat
       PROVE  Fits(rows, f, runs', rangeEnd', due', calls')
  <2>1. Len(rows) = Len(runs) + Len(due)
    <3>1. CASE Len(due) = 0
      BY <1>1, <1>3, <1>10, <3>1 DEF Fits
    <3>2. CASE Len(due) # 0
      <4>1. Len(due) \in DOMAIN due
        BY <1>3, <3>2
      <4>2. ~(Len(rows) < Len(runs) + Len(due))
        BY <1>1, <1>10, <4>1 DEF Fits
      <4>3. Len(rows) <= Len(runs) + Len(due)
        BY <1>1, <1>10 DEF Fits
      <4> QED
        BY <1>3, <1>10, <4>2, <4>3
    <3> QED
      BY <3>1, <3>2
  <2> QED
    BY <1>2, <1>4, <1>10, <2>1 DEF Fits
<1>11. TvlFits' /\ ApyFits'
  <2>1. Len(tvlRows) \in Nat /\ Len(apyRows) \in Nat
    BY <1>1 DEF TablesTyped
  <2>2. Fits(tvlRows, "calc_tvl", runs', rangeEnd', due', calls')
    BY <1>10, <2>1 DEF Inv, TvlFits
  <2>3. Fits(apyRows, "index_apy", runs', rangeEnd', due', calls')
    BY <1>10, <2>1 DEF Inv, ApyFits
  <2> QED
    BY <1>2, <2>2, <2>3 DEF TvlFits, ApyFits
<1>12. TvcOk' /\ BalancesOk' /\ \A s \in Strategy : StrategyOk(s)'
  <2>1. Ended("calc_tvc")' = Ended("calc_tvc")
        /\ Ended("index_strategy_balances")' = Ended("index_strategy_balances")
    BY <1>9
  <2>2. TvcOk'
    BY <1>2, <2>1 DEF Inv, TvcOk, Rising
  <2>3. BalancesOk'
    BY <1>2, <2>1 DEF Inv, BalancesOk
  <2>4. \A s \in Strategy : StrategyOk(s)'
    BY <1>2, <2>1 DEF Inv, StrategyOk, Rising, Read
  <2> QED
    BY <2>2, <2>3, <2>4
<1>13. ApyOk'
  BY <1>2 DEF Inv, ApyOk, PremiumsWithinApy
<1>14. SingleOk'
  BY <1>2 DEF Inv, SingleOk, Left, Expected, UpToDate
<1> QED
  BY <1>6, <1>7, <1>8, <1>11, <1>12, <1>13, <1>14 DEF Inv

-----------------------------------------------------------------------------
(* The interval functions.                                                 *)

\* What every function does with its call.
LEMMA Called ==
    ASSUME Inv, NEW c \in calls, NEW f, Handles(c, f), Return(c)
    PROVE  /\ RunsOk' /\ CallsOk'
           /\ c.function = f /\ f \in Names /\ c = [function |-> f, block |-> c.block]
           /\ c.block \in Block /\ c.block \in Range(due) /\ rangeEnd # 0
           /\ \A x \in Ended(f) : x < c.block
           /\ c.block \notin Ended(f)
           /\ Ended(f)' = Ended(f) \cup {c.block}
           /\ \A g : g # f => Ended(g)' = Ended(g)
           /\ \A g, x : Left(g, x)' <=> (Left(g, x) /\ ~(g = f /\ x = c.block))
           /\ \A g \in Names, x \in Range(due) :
                 Left(g, x) => \/ [function |-> g, block |-> x] = c
                               \/ Precedes(c, [function |-> g, block |-> x])
<1>1. RunsOk /\ CallsOk /\ First(c) /\ c.function = f
  BY DEF Inv, Handles
<1>2. calls' = calls \ {c} /\ UNCHANGED <<lastBlock, runs, rangeEnd, due>>
  BY DEF Return
<1>3. /\ RunsOk' /\ CallsOk'
      /\ \A g \in Names, x \in Range(due) :
            [function |-> g, block |-> x] \in calls =>
                \/ [function |-> g, block |-> x] = c
                \/ Precedes(c, [function |-> g, block |-> x])
      /\ \A x \in Ended(f) : x < c.block
      /\ c.block \notin Ended(f)
      /\ Ended(f)' = Ended(f) \cup {c.block}
      /\ \A g : g # f => Ended(g)' = Ended(g)
  BY <1>1, <1>2, FirstHandled
<1>4. /\ f \in Names /\ c = [function |-> f, block |-> c.block]
      /\ c.block \in Block /\ c.block \in Range(due) /\ rangeEnd # 0
  BY <1>1, CallTypes
<1>5. \A g, x : [function |-> g, block |-> x] = c <=> (g = f /\ x = c.block)
  BY <1>4
<1>6. \A g, x : Left(g, x)' <=> (Left(g, x) /\ ~(g = f /\ x = c.block))
  BY <1>2, <1>5 DEF Left
<1> QED
  BY <1>1, <1>3, <1>4, <1>6 DEF Left

\* The rows of the other functions are in their places still.
LEMMA OthersFit ==
    ASSUME Inv, NEW c \in calls, NEW f, Handles(c, f), Return(c), NEW rows, NEW g, g # f,
           Fits(rows, g, runs, rangeEnd, due, calls)
    PROVE  Fits(rows, g, runs', rangeEnd', due', calls')
<1>1. c.function # g
  BY DEF Handles
<1>2. Fits(rows, g, runs, rangeEnd, due, calls \ {c})
  BY <1>1, FitsStays
<1> QED
  BY <1>2 DEF Return

\* The row a function stores for its call is in its place.
LEMMA NewFits ==
    ASSUME Inv, NEW c \in calls, NEW f, Handles(c, f), Return(c),
           NEW R, NEW rows \in Seq(R), NEW row \in R, row.block = c.block,
           Fits(rows, f, runs, rangeEnd, due, calls)
    PROVE  Fits(Append(rows, row), f, runs', rangeEnd', due', calls')
<1>1. RunsOk /\ CallsOk /\ First(c) /\ c.function = f
  BY DEF Inv, Handles
<1>2. c = [function |-> f, block |-> c.block] /\ rangeEnd # 0
  BY Called
<1>3. PICK i \in DOMAIN due : c.block = due[i]
  BY <1>1, CallTypes
<1>4. /\ runs \in Seq(Block) /\ due \in Seq(Block)
      /\ \A j \in DOMAIN due : due[j] = Ends(Len(runs) + j)
  BY <1>1, <1>2 DEF RunsOk
<1>5. \A j, k \in DOMAIN due : /\ j < k => due[j] < due[k]
                               /\ due[j] = due[k] => j = k
  BY <1>1, <1>2, Periods
<1>6. \A j, k \in DOMAIN due : due[j] = due[k] => j = k
  BY <1>5
<1>7. ASSUME NEW j \in DOMAIN due, j < i
      PROVE  [function |-> f, block |-> due[j]] \notin calls
  <2> DEFINE d == [function |-> f, block |-> due[j]]
  <2>1. due[j] < due[i]
    BY <1>5, <1>7
  <2>2. Rank(d) = Rank(c)
    BY <1>1 DEF Rank
  <2>3. due[j] \in Block /\ due[i] \in Block
    BY <1>4
  <2>4. \A x \in Block : x \in Int
    BY StatsAssumption DEF Block
  <2>5. ~(due[i] < due[j])
    BY <2>1, <2>3, <2>4
  <2>6. Rank(c) \in Nat
    BY <1>1, Called, Ranks DEF Names
  <2>7. SUFFICES ASSUME d \in calls, d # c PROVE FALSE
    <3>1. due[j] # due[i]
      BY <2>1, <2>3, <2>4
    <3>2. d # c
      BY <1>3, <3>1
    <3> QED
      BY <3>2
  <2>8. Rank(c) < Rank(d) \/ c.block < d.block
    BY <1>1, <2>7 DEF First
  <2>9. d.block = due[j]
    OBVIOUS
  <2> HIDE DEF d
  <2> QED
    BY <1>3, <2>2, <2>5, <2>6, <2>8, <2>9
<1>8. [function |-> f, block |-> due[i]] = c
  BY <1>2, <1>3
<1>9. Fits(Append(rows, row), f, runs, rangeEnd, due, calls \ {[function |-> f, block |-> due[i]]})
  BY <1>2, <1>3, <1>4, <1>6, <1>7, <1>8, FitsGrows
<1> QED
  BY <1>8, <1>9 DEF Return

\* When one period is due, it is the one of every call; and the functions before
\* have been called.
LEMMA OnlyPeriod ==
    ASSUME Inv, NEW c \in calls, NEW f, Handles(c, f), Return(c), Len(due) = 1
    PROVE  /\ c.block = due[1] /\ 1 \in DOMAIN due
           /\ \A g \in Names : Left(g, due[1]) =>
                 g = f \/ Rank(c) < Rank([function |-> g, block |-> due[1]])
<1>1. c.block \in Range(due) /\ c.block \in Block
  BY Called
<1>2. 1 \in DOMAIN due /\ \A i \in DOMAIN due : i = 1
  BY DEF Inv, RunsOk
<1>3. c.block = due[1]
  BY <1>1, <1>2 DEF Range
<1>4. ASSUME NEW g \in Names, Left(g, due[1])
      PROVE  g = f \/ Rank(c) < Rank([function |-> g, block |-> due[1]])
  <2> DEFINE d == [function |-> g, block |-> due[1]]
  <2>1. d = c \/ Precedes(c, d)
    BY <1>1, <1>3, <1>4, Called
  <2>2. d.function = g /\ d.block = due[1] /\ c.function = f
    BY DEF Handles
  <2>3. ~(due[1] < due[1])
    BY <1>1, <1>3, StatsAssumption DEF Block
  <2> HIDE DEF d
  <2>4. d = c \/ Rank(c) < Rank(d)
    BY <1>3, <2>1, <2>2, <2>3 DEF Precedes
  <2> QED
    BY <2>2, <2>4 DEF d
<1> QED
  BY <1>2, <1>3, <1>4

\* What the tables of the other functions need of a step that leaves them alone.
LEMMA TvcStays ==
    ASSUME TvcOk, UNCHANGED <<tvcRows, tvls>>, failed'.tvc = failed.tvc,
           Ended("calc_tvc")' = Ended("calc_tvc")
    PROVE  TvcOk'
BY DEF TvcOk, Rising

\* A step that leaves the balances alone leaves the rows of every strategy as complete as they were.
LEMMA StrategiesStay ==
    ASSUME BalancesOk, \A s \in Strategy : StrategyOk(s),
           strategyRows' = strategyRows, failed'.balances = failed.balances,
           Ended("index_strategy_balances")' = Ended("index_strategy_balances")
    PROVE  BalancesOk' /\ \A s \in Strategy : StrategyOk(s)'
BY DEF BalancesOk, StrategyOk, Rising, Read

\* A step that leaves the APYs alone leaves them as up to date as they were.
LEMMA SingleStays ==
    ASSUME Inv, NEW c \in calls, NEW f, Handles(c, f), Return(c),
           f \notin {"calc_tvl", "calc_apy"},
           UNCHANGED <<tvlRows, apyRows>>, indx'.at = indx.at, indx'.tvlAt = indx.tvlAt,
           failed'.apy = failed.apy
    PROVE  SingleOk'
<1>1. due' = due /\ positions' = positions
  BY DEF Return
<1>2. \A x : Left("calc_tvl", x)' <=> Left("calc_tvl", x)
  BY Called
<1>3. \A x : Left("calc_apy", x)' <=> Left("calc_apy", x)
  BY Called
<1>4. \A x : Expected(x)' <=> Expected(x)
  BY <1>1 DEF Expected
<1>5. UpToDate(due[1])' <=> UpToDate(due[1])
  BY <1>1, <1>4 DEF UpToDate
<1>6. Left("calc_tvl", due[1])' <=> Left("calc_tvl", due[1])
  BY <1>1, <1>2 DEF Left
<1>7. Left("calc_apy", due[1])' <=> Left("calc_apy", due[1])
  BY <1>1, <1>3 DEF Left
<1>8. Expected(due[1])' <=> Expected(due[1])
  BY <1>1, <1>4 DEF Expected
<1>9. SingleOk
  BY DEF Inv
<1> QED
  BY <1>1, <1>5, <1>6, <1>7, <1>8, <1>9 DEF SingleOk

\* calc_tvl stores a row, the newest for the APY.
LEMMA CalcTvlKeeps ==
    ASSUME Inv, NEW c \in calls, CalcTvl(c)
    PROVE  Inv'
<1> DEFINE row == [block |-> c.block, value |-> Tvl[c.block]]
<1>1. /\ Handles(c, "calc_tvl") /\ Return(c)
      /\ tvlRows' = Append(tvlRows, row)
      /\ indx' = indx /\ tvcRows' = tvcRows /\ tvls' = tvls /\ apyRows' = apyRows
      /\ strategyRows' = strategyRows /\ failed' = failed /\ faults' = faults
  BY DEF CalcTvl
<1>2. positions' = positions /\ premium' = premium /\ due' = due
  BY <1>1 DEF Return
<1>3. TablesTyped /\ RunsOk'/\ CallsOk' /\ c.block \in Block
  BY <1>1, Called DEF Inv
<1>4. row \in TvlRow /\ row.block = c.block
  BY <1>3, StatsAssumption DEF TvlRow
<1> HIDE DEF row
<1>5. tvlRows \in Seq(TvlRow) /\ Len(tvlRows) \in Nat
  BY <1>3 DEF TablesTyped
<1>6. /\ tvlRows' \in Seq(TvlRow) /\ tvlRows' # <<>> /\ Len(tvlRows') = Len(tvlRows) + 1
      /\ tvlRows'[Len(tvlRows')] = row
  BY <1>1, <1>4, <1>5
<1>7. TablesTyped'
  BY <1>1, <1>2, <1>3, <1>6 DEF TablesTyped
<1>8. TvlFits'
  <2>1. Fits(Append(tvlRows, row), "calc_tvl", runs', rangeEnd', due', calls')
    BY <1>1, <1>4, <1>5, NewFits DEF Inv, TvlFits
  <2> QED
    BY <1>1, <2>1 DEF TvlFits
<1>9. ApyFits'
  <2>1. Fits(apyRows, "index_apy", runs', rangeEnd', due', calls')
    BY <1>1, OthersFit DEF Inv, ApyFits
  <2> QED
    BY <1>1, <2>1 DEF ApyFits
<1>10. Ended("calc_tvc")' = Ended("calc_tvc")
       /\ Ended("index_strategy_balances")' = Ended("index_strategy_balances")
  BY <1>1, Called
<1>11. TvcOk' /\ BalancesOk' /\ \A s \in Strategy : StrategyOk(s)'
  BY <1>1, <1>10, TvcStays, StrategiesStay DEF Inv
<1>12. ApyOk'
  BY <1>1, <1>6 DEF Inv, ApyOk, PremiumsWithinApy
<1>13. SingleOk'
  <2>1. ASSUME Len(due) = 1 PROVE row.block = due[1]
    BY <1>1, <1>4, <2>1, OnlyPeriod
  <2>2. Left("calc_apy", due[1])' <=> Left("calc_apy", due[1])
    <3>1. \A x : Left("calc_apy", x)' <=> Left("calc_apy", x)
      BY <1>1, Called
    <3> QED
      BY <1>2, <3>1 DEF Left
  <2>3. Expected(due[1])' <=> Expected(due[1])
    BY <1>1, <1>2 DEF Expected
  <2>4. UpToDate(due[1])' <=> UpToDate(due[1])
    BY <1>1, <1>2, <2>3 DEF UpToDate
  <2> QED
    BY <1>1, <1>2, <1>6, <2>1, <2>2, <2>3, <2>4 DEF Inv, SingleOk
<1> QED
  BY <1>3, <1>7, <1>8, <1>9, <1>11, <1>12, <1>13 DEF Inv

\* calc_tvc sets the tvl of what it could price, and stores a row when that is all.
LEMMA CalcTvcKeeps ==
    ASSUME Inv, NEW c \in calls, CalcTvc(c)
    PROVE  Inv'
<1> DEFINE b == c.block
<1>1. PICK n \in 0 .. Len(Protocols), fails \in BOOLEAN :
         /\ \/ fails /\ Fault /\ failed' = [failed EXCEPT !.tvc = @ \cup {b}]
            \/ ~fails /\ n = Len(Protocols) /\ UNCHANGED <<failed, faults>>
         /\ tvls' = [p \in DOMAIN tvls |-> IF p \in Priced(b, n) THEN b ELSE tvls[p]]
         /\ tvcRows' = Stored(b, fails)
  BY DEF CalcTvc
<1>2. /\ Handles(c, "calc_tvc") /\ Return(c)
      /\ indx' = indx /\ tvlRows' = tvlRows /\ apyRows' = apyRows /\ strategyRows' = strategyRows
  BY DEF CalcTvc
<1>3. positions' = positions /\ premium' = premium /\ due' = due
  BY <1>2 DEF Return
<1>4. TablesTyped /\ RunsOk'/\ CallsOk' /\ b \in Block /\ TvcOk
  BY <1>2, Called DEF Inv
<1>5. /\ \A x \in Ended("calc_tvc") : x < b
      /\ Ended("calc_tvc")' = Ended("calc_tvc") \cup {b}
      /\ Ended("index_strategy_balances")' = Ended("index_strategy_balances")
  BY <1>2, Called
<1> HIDE DEF b
<1>6. Len(Protocols) \in Nat /\ Protocols \in Seq(Range(Protocols))
  BY StatsAssumption
<1>7. failed \in Failures /\ faults \in 0..MaxFaults
  BY <1>4 DEF TablesTyped
<1>8. /\ failed' \in Failures /\ faults' \in 0..MaxFaults
      /\ failed'.apy = failed.apy /\ failed'.balances = failed.balances
      /\ failed.tvc \subseteq failed'.tvc
      /\ fails => b \in failed'.tvc
      /\ ~fails => n = Len(Protocols)
  <2>1. CASE ~fails /\ n = Len(Protocols) /\ UNCHANGED <<failed, faults>>
    BY <1>6, <1>7, <2>1
  <2>2. CASE fails /\ Fault /\ failed' = [failed EXCEPT !.tvc = @ \cup {b}]
    <3>1. faults' \in 0..MaxFaults
      BY <1>7, <2>2, StatsAssumption DEF Fault
    <3> DEFINE t == failed.tvc \cup {b}
    <3>2. t \in SUBSET Block
      BY <1>4, <1>7 DEF Failures
    <3>3. failed' = [failed EXCEPT !.tvc = t]
      BY <2>2
    <3>4. failed.tvc \subseteq t /\ b \in t
      OBVIOUS
    <3> HIDE DEF t
    <3>5. failed' \in Failures /\ failed'.tvc = t
          /\ failed'.apy = failed.apy /\ failed'.balances = failed.balances
      BY <1>7, <3>2, <3>3 DEF Failures
    <3> QED
      BY <2>2, <3>1, <3>4, <3>5
  <2> QED
    BY <1>1, <2>1, <2>2
<1>9. tvcRows \in Seq(Block) /\ tvls \in [Range(Protocols) -> BlockOrNone]
  BY <1>4 DEF TablesTyped
<1>10. /\ tvls' \in [Range(Protocols) -> BlockOrNone]
       /\ \A p \in Range(Protocols) : /\ p \in Priced(b, n) => tvls'[p] = b
                                      /\ p \notin Priced(b, n) => tvls'[p] = tvls[p]
  BY <1>1, <1>4, <1>9 DEF BlockOrNone
<1>11. \A x \in Block : x \in Int /\ x # 0
  BY StatsAssumption DEF Block
<1>12. \A p \in Priced(b, n) : p \in Active[b]
  BY DEF Priced
<1>13. ASSUME n = Len(Protocols) PROVE \A p \in Range(Protocols) : p \in Active[b] => p \in Priced(b, n)
  <2>1. SubSeq(Protocols, 1, n) = Protocols
    BY <1>6, <1>13, SubSeqFull
  <2> QED
    BY <2>1 DEF Priced
<1>14. Rising(tvcRows) /\ Range(tvcRows) \subseteq Ended("calc_tvc")
  BY <1>4 DEF TvcOk
<1>15. /\ tvcRows' \in Seq(Block) /\ Rising(tvcRows') /\ Range(tvcRows') \subseteq Ended("calc_tvc")'
       /\ Range(tvcRows) \subseteq Range(tvcRows')
       /\ ~fails => /\ tvcRows' # <<>> /\ Last(tvcRows') = b
                    /\ b \in Range(tvcRows')
       /\ fails => tvcRows' = tvcRows
  <2>1. CASE ~fails
    <3>1. tvcRows' = Append(tvcRows, b)
      BY <1>1, <2>1 DEF Stored
    <3>2. \A x \in Range(tvcRows) : x < b
      BY <1>5, <1>14
    <3> QED
      BY <1>4, <1>5, <1>9, <1>14, <2>1, <3>1, <3>2, RisingGrows
  <2>2. CASE fails
    <3>1. tvcRows' = tvcRows
      BY <1>1, <2>2 DEF Stored
    <3> QED
      BY <1>5, <1>9, <1>14, <2>2, <3>1
  <2> QED
    BY <2>1, <2>2
<1>16. ASSUME NEW p \in Range(Protocols)
       PROVE  /\ (tvcRows' # <<>> /\ p \in Active[Last(tvcRows')]) => tvls'[p] >= Last(tvcRows')
              /\ tvls'[p] # 0 => /\ p \in Active[tvls'[p]]
                                 /\ tvls'[p] \in Range(tvcRows') \cup failed'.tvc
  <2>1. /\ (tvcRows # <<>> /\ p \in Active[Last(tvcRows)]) => tvls[p] >= Last(tvcRows)
        /\ tvls[p] # 0 => /\ p \in Active[tvls[p]]
                          /\ tvls[p] \in Range(tvcRows) \cup failed.tvc
    BY <1>4 DEF TvcOk
  <2>2. tvls'[p] # 0 => /\ p \in Active[tvls'[p]]
                        /\ tvls'[p] \in Range(tvcRows') \cup failed'.tvc
    <3>1. CASE p \in Priced(b, n)
      <4>1. b \in Range(tvcRows') \cup failed'.tvc
        BY <1>6, <1>8, <1>15
      <4> QED
        BY <1>10, <1>12, <3>1, <4>1
    <3>2. CASE p \notin Priced(b, n)
      BY <1>8, <1>10, <1>15, <2>1, <3>2
    <3> QED
      BY <3>1, <3>2
  <2>3. ASSUME tvcRows' # <<>>, p \in Active[Last(tvcRows')] PROVE tvls'[p] >= Last(tvcRows')
    <3>1. CASE ~fails
      <4>1. p \in Priced(b, n)
        BY <1>8, <1>13, <1>15, <2>3, <3>1
      <4> QED
        BY <1>4, <1>10, <1>11, <1>15, <3>1, <4>1
    <3>2. CASE fails /\ p \notin Priced(b, n)
      BY <1>10, <1>15, <2>1, <2>3, <3>2
    <3>3. CASE fails /\ p \in Priced(b, n)
      <4>1. tvcRows' = tvcRows /\ tvcRows # <<>>
        BY <1>15, <2>3, <3>3
      <4>2. Last(tvcRows) \in Range(tvcRows) /\ Last(tvcRows) \in Block
        BY <1>9, <1>14, <4>1, LastOfRising
      <4>3. Last(tvcRows) < b
        BY <1>5, <1>14, <4>2
      <4> QED
        BY <1>4, <1>10, <1>11, <3>3, <4>1, <4>2, <4>3
    <3> QED
      BY <3>1, <3>2, <3>3
  <2> QED
    BY <2>2, <2>3
<1>17. TvcOk'
  BY <1>15, <1>16 DEF TvcOk
<1>18. BalancesOk' /\ \A s \in Strategy : StrategyOk(s)'
  BY <1>2, <1>5, <1>8, StrategiesStay DEF Inv
<1>19. TablesTyped'
  BY <1>2, <1>3, <1>4, <1>8, <1>10, <1>15 DEF TablesTyped
<1>20. TvlFits' /\ ApyFits'
  <2>1. Fits(tvlRows, "calc_tvl", runs', rangeEnd', due', calls')
    BY <1>2, OthersFit DEF Inv, TvlFits
  <2>2. Fits(apyRows, "index_apy", runs', rangeEnd', due', calls')
    BY <1>2, OthersFit DEF Inv, ApyFits
  <2> QED
    BY <1>2, <2>1, <2>2 DEF TvlFits, ApyFits
<1>21. ApyOk'
  BY <1>2 DEF Inv, ApyOk, PremiumsWithinApy
<1>22. SingleOk'
  BY <1>2, <1>8, SingleStays
<1> QED
  BY <1>4, <1>17, <1>18, <1>19, <1>20, <1>21, <1>22 DEF Inv

\* The oldest of the positions.
LEMMA Oldest ==
    ASSUME TablesTyped, NEW p \in positions
    PROVE  OldestPosition \in positions /\ OldestPosition <= p
<1>1. positions \in SUBSET Nat /\ positions # {}
  <2>1. \A x \in Block : x \in Nat
    BY StatsAssumption DEF Block
  <2> QED
    BY <2>1 DEF TablesTyped
<1>2. PICK m \in positions : \A x \in positions : m <= x
  BY <1>1, LeastNat
<1>3. OldestPosition \in positions /\ \A x \in positions : OldestPosition <= x
  BY <1>2 DEF OldestPosition, Min
<1> QED
  BY <1>3

\* A quotient of natural numbers is one.
LEMMA Quotient ==
    ASSUME NEW a \in Int, NEW d \in Nat \ {0}
    PROVE  a \div d \in Int /\ (a >= 0 => a \div d \in Nat)
<1> DEFINE q == a \div d
           r == a % d
<1>1. q \in Int /\ r \in 0 .. d - 1 /\ a = d * q + r
  OBVIOUS
<1> HIDE DEF q, r
<1>2. ASSUME a >= 0 PROVE q >= 0
  <2> SUFFICES ASSUME q <= -1 PROVE FALSE
    BY <1>1
  <2>1. d * q <= d * (-1)
    <3>1. -1 - q \in Nat
      BY <1>1
    <3>2. d * (-1 - q) >= 0
      BY <3>1
    <3>3. d * (-1 - q) = d * (-1) - d * q
      BY <1>1
    <3>4. d * q \in Int /\ d * (-1) \in Int
      BY <1>1
    <3> QED
      BY <3>2, <3>3, <3>4
  <2>2. d * (-1) = -d /\ d * q \in Int
    BY <1>1
  <2> QED
    BY <1>1, <1>2, <2>1, <2>2
<1>3. q \in Int /\ (a >= 0 => q \in Nat)
  BY <1>1, <1>2
<1> QED
  BY <1>3 DEF q

\* The APYs after calc_apy at b: the part from premiums is within the whole, and
\* what was expected is computed at b, from the newest TVL.
LEMMA NewApys ==
    ASSUME TablesTyped, ApyOk, NEW b \in Block
    PROVE  /\ ApysAfter(b) \in Apys
           /\ ApysAfter(b).premiums <= ApysAfter(b).apy
           /\ tvlRows = <<>> => ApysAfter(b).premiums <= 0
           /\ Expected(b) => ApysAfter(b).at = b
           /\ Expected(b) /\ tvlRows # <<>> => ApysAfter(b).tvlAt = tvlRows[Len(tvlRows)].block
<1>1. /\ \A x \in Block : x \in Nat
      /\ Interval \in Nat /\ IndexerStartBlock \in Nat \ {0} /\ MaxBlock \in Nat
  BY StatsAssumption, IntervalsAssumption DEF Block
<1>2. /\ indx \in Apys /\ tvlRows \in Seq(TvlRow) /\ premium \in Premium
      /\ positions \subseteq Block
  BY DEF TablesTyped
<1>3. /\ indx.apy \in Nat /\ indx.additional \in Nat /\ indx.premiums \in Int
      /\ indx.incentives \in Nat /\ indx.at \in Block \cup {0} /\ indx.tvlAt \in Block \cup {0}
  BY <1>2 DEF Apys
<1>4. indx.premiums <= indx.apy /\ (tvlRows = <<>> => indx.premiums <= 0)
  BY DEF ApyOk
<1>5. Expected(b) => Measurable(b) /\ Growth(b) >= 0
  <2> SUFFICES ASSUME Expected(b) PROVE Measurable(b) /\ Growth(b) >= 0
    OBVIOUS
  <2>1. PICK p \in positions : p <= b - Interval
    BY DEF Expected
  <2>2. OldestPosition \in positions /\ OldestPosition <= p
    BY <2>1, Oldest
  <2>3. OldestPosition \in Nat /\ p \in Nat /\ b \in Nat /\ b - Interval \in Int
    BY <1>1, <1>2, <2>2
  <2>4. OldestPosition <= b - Interval
    BY <2>1, <2>2, <2>3
  <2>5. b - Interval >= IndexerStartBlock
    BY DEF Expected
  <2>6. Measurable(b)
    BY <2>1, <2>4, <2>5 DEF Measurable
  <2>7. b - Interval \in Block
    BY <1>1, <2>3, <2>5 DEF Block
  <2>8. Value[b] \in Nat /\ Value[b - Interval] \in Nat
    BY <2>7, StatsAssumption
  <2>9. Value[b] >= Value[b - Interval]
    BY DEF Expected
  <2> QED
    BY <2>6, <2>8, <2>9 DEF Growth
<1>6. ASSUME Measurable(b), Growth(b) >= 0 PROVE Growth(b) \in Nat
  <2>1. b - Interval >= IndexerStartBlock
    BY <1>6 DEF Measurable
  <2>2. b - Interval \in Block
    BY <1>1, <2>1 DEF Block
  <2>3. Value[b] \in Nat /\ Value[b - Interval] \in Nat
    BY <2>2, StatsAssumption
  <2>4. Growth(b) \in Int
    BY <2>3 DEF Growth
  <2> QED
    BY <1>6, <2>4
<1>7. ASSUME NEW apy \in Nat
      PROVE  /\ Computed(b, apy) \in Apys
             /\ Computed(b, apy).premiums <= Computed(b, apy).apy
             /\ tvlRows = <<>> => Computed(b, apy).premiums <= 0
             /\ Computed(b, apy).at = b
             /\ tvlRows # <<>> => Computed(b, apy).tvlAt = tvlRows[Len(tvlRows)].block
  <2>1. CASE tvlRows = <<>>
    <3>1. Computed(b, apy) = [indx EXCEPT !.apy = apy, !.at = b]
      BY <2>1 DEF Computed
    <3> DEFINE one == [indx EXCEPT !.apy = apy]
               two == [one EXCEPT !.at = b]
    <3>2. one \in Apys /\ one.premiums = indx.premiums /\ one.apy = apy
      BY <1>2, <1>3 DEF Apys
    <3> HIDE DEF one
    <3>3. two \in Apys /\ two.premiums = indx.premiums /\ two.apy = apy /\ two.at = b
      BY <3>2 DEF Apys
    <3>4. Computed(b, apy) = two
      BY <3>1 DEF one
    <3> HIDE DEF two
    <3>5. Computed(b, apy) \in Apys
      BY <3>3, <3>4
    <3>6. Computed(b, apy).premiums = indx.premiums /\ Computed(b, apy).apy = apy
          /\ Computed(b, apy).at = b
      BY <3>3, <3>4
    <3> QED
      BY <1>3, <1>4, <2>1, <3>5, <3>6
  <2>2. CASE tvlRows # <<>>
    <3>1. CurrentTvl = tvlRows[Len(tvlRows)] /\ CurrentTvl \in TvlRow
      BY <1>2, <2>2, NewestRow DEF CurrentTvl
    <3>2. CurrentTvl.value \in Nat \ {0} /\ CurrentTvl.block \in Block
      BY <3>1 DEF TvlRow
    <3>3. premium.stakers \in Nat /\ premium.incentives \in Nat /\ Year \in Nat
      BY <1>2, StatsAssumption
    <3>4. /\ (StakersShare - IncentivePremiums) * Year \in Int
          /\ IncentivePremiums * Year \in Nat
      BY <3>3 DEF StakersShare, IncentivePremiums
    <3> DEFINE p == PremiumsApy(StakersShare - IncentivePremiums)
               i == PremiumsApy(IncentivePremiums)
               pc == Clamped(p, apy)
               ic == IF i > apy THEN indx.incentives ELSE i
    <3>5. p \in Int /\ i \in Nat
      <4>1. p \in Int
        BY <3>2, <3>4, Quotient DEF PremiumsApy
      <4>2. IncentivePremiums * Year \in Int /\ IncentivePremiums * Year >= 0
        BY <3>4
      <4>3. i \in Nat
        BY <3>2, <4>2, Quotient DEF PremiumsApy
      <4> QED
        BY <4>1, <4>3
    <3>6. Computed(b, apy) =
             [apy |-> apy, additional |-> indx.additional, at |-> b, tvlAt |-> CurrentTvl.block,
              premiums |-> pc, incentives |-> ic]
      BY <2>2 DEF Computed
    <3> HIDE DEF p, i
    <3>7. pc \in Int /\ pc <= apy
      BY <3>5 DEF Clamped
    <3>8. ic \in Nat
      BY <1>3, <3>5
    <3> HIDE DEF pc, ic
    <3>9. Computed(b, apy) \in Apys
      BY <1>3, <3>2, <3>6, <3>7, <3>8 DEF Apys
    <3>10. /\ Computed(b, apy).premiums = pc /\ Computed(b, apy).apy = apy
           /\ Computed(b, apy).at = b /\ Computed(b, apy).tvlAt = CurrentTvl.block
      BY <3>6
    <3> QED
      BY <2>2, <3>1, <3>7, <3>9, <3>10
  <2> QED
    BY <2>1, <2>2
<1>8. CASE Measurable(b) /\ Growth(b) >= 0
  <2>1. ApysAfter(b) = Computed(b, Growth(b))
    BY <1>8 DEF ApysAfter
  <2>2. Growth(b) \in Nat
    BY <1>6, <1>8
  <2> QED
    BY <1>7, <2>1, <2>2
<1>9. CASE ~(Measurable(b) /\ Growth(b) >= 0)
  <2>1. ApysAfter(b) = indx
    BY <1>9 DEF ApysAfter
  <2> QED
    BY <1>2, <1>4, <1>5, <1>9, <2>1
<1> QED
  BY <1>8, <1>9

\* calc_apy computes the APY, unless the part it needs is not there.
LEMMA CalcApyKeeps ==
    ASSUME Inv, NEW c \in calls, CalcApy(c)
    PROVE  Inv'
<1>1. /\ Handles(c, "calc_apy") /\ Return(c) /\ indx' = ApysAfter(c.block)
      /\ tvlRows' = tvlRows /\ tvcRows' = tvcRows /\ tvls' = tvls /\ apyRows' = apyRows
      /\ strategyRows' = strategyRows /\ failed' = failed /\ faults' = faults
  BY DEF CalcApy
<1>2. positions' = positions /\ premium' = premium /\ due' = due
  BY <1>1 DEF Return
<1>3. TablesTyped /\ ApyOk /\ RunsOk'/\ CallsOk' /\ c.block \in Block
  BY <1>1, Called DEF Inv
<1>4. /\ indx' \in Apys /\ indx'.premiums <= indx'.apy
      /\ tvlRows = <<>> => indx'.premiums <= 0
      /\ Expected(c.block) => indx'.at = c.block
      /\ Expected(c.block) /\ tvlRows # <<>> => indx'.tvlAt = tvlRows[Len(tvlRows)].block
  BY <1>1, <1>3, NewApys
<1>5. TablesTyped'
  BY <1>1, <1>2, <1>3, <1>4 DEF TablesTyped
<1>6. TvlFits' /\ ApyFits'
  <2>1. Fits(tvlRows, "calc_tvl", runs', rangeEnd', due', calls')
    BY <1>1, OthersFit DEF Inv, TvlFits
  <2>2. Fits(apyRows, "index_apy", runs', rangeEnd', due', calls')
    BY <1>1, OthersFit DEF Inv, ApyFits
  <2> QED
    BY <1>1, <2>1, <2>2 DEF TvlFits, ApyFits
<1>7. Ended("calc_tvc")' = Ended("calc_tvc")
      /\ Ended("index_strategy_balances")' = Ended("index_strategy_balances")
  BY <1>1, Called
<1>8. TvcOk' /\ BalancesOk' /\ \A s \in Strategy : StrategyOk(s)'
  BY <1>1, <1>7, TvcStays, StrategiesStay DEF Inv
<1>9. ApyOk'
  BY <1>1, <1>3, <1>4 DEF ApyOk, PremiumsWithinApy
<1>10. SingleOk'
  <2> SUFFICES ASSUME Len(due) = 1
               PROVE  /\ tvlRows # <<>> /\ tvlRows[Len(tvlRows)].block = due[1]
                      /\ Expected(due[1])' => indx'.at = due[1] /\ indx'.tvlAt = due[1]
                      /\ UpToDate(due[1])'
    BY <1>1, <1>2 DEF SingleOk
  <2>1. c.block = due[1] /\ (Left("calc_tvl", due[1]) => Rank(c) < Rank([function |-> "calc_tvl", block |-> due[1]]))
    BY <1>1, OnlyPeriod DEF Names
  <2>2. Rank(c) = 3 /\ Rank([function |-> "calc_tvl", block |-> due[1]]) = 1
    BY <1>1, Ranks DEF Handles
  <2>3. ~Left("calc_tvl", due[1])
    BY <2>1, <2>2
  <2>4. tvlRows # <<>> /\ tvlRows[Len(tvlRows)].block = due[1]
    BY <2>3 DEF Inv, SingleOk
  <2>5. Expected(due[1])' <=> Expected(due[1])
    BY <1>1, <1>2 DEF Expected
  <2>6. UpToDate(due[1])' <=> UpToDate(due[1])
    BY <1>1, <1>2, <2>5 DEF UpToDate
  <2> QED
    BY <1>4, <2>1, <2>4, <2>5, <2>6 DEF Inv, SingleOk
<1> QED
  BY <1>3, <1>5, <1>6, <1>8, <1>9, <1>10 DEF Inv

\* A failure leaves the APYs as they were, and no row of the period is expected
\* to be up to date.
LEMMA CalcApyFailsKeeps ==
    ASSUME Inv, NEW c \in calls, CalcApyFails(c)
    PROVE  Inv'
<1>1. /\ Handles(c, "calc_apy") /\ Return(c) /\ Fault
      /\ failed' = [failed EXCEPT !.apy = @ \cup {c.block}]
      /\ indx' = indx /\ tvlRows' = tvlRows /\ tvcRows' = tvcRows /\ tvls' = tvls
      /\ apyRows' = apyRows /\ strategyRows' = strategyRows
  BY DEF CalcApyFails, tableVars
<1>2. positions' = positions /\ premium' = premium /\ due' = due
  BY <1>1 DEF Return
<1>3. TablesTyped /\ RunsOk'/\ CallsOk' /\ c.block \in Block
  BY <1>1, Called DEF Inv
<1>4. failed \in Failures /\ faults \in 0..MaxFaults
  BY <1>3 DEF TablesTyped
<1>5. faults' \in 0..MaxFaults
  BY <1>1, <1>4, StatsAssumption DEF Fault
<1>6. /\ failed' \in Failures /\ c.block \in failed'.apy
      /\ failed'.tvc = failed.tvc /\ failed'.balances = failed.balances
  <2> DEFINE t == failed.apy \cup {c.block}
  <2>1. t \in SUBSET Block /\ c.block \in t /\ failed' = [failed EXCEPT !.apy = t]
    BY <1>1, <1>3, <1>4 DEF Failures
  <2> HIDE DEF t
  <2> QED
    BY <1>4, <2>1 DEF Failures
<1>7. TablesTyped'
  BY <1>1, <1>2, <1>3, <1>5, <1>6 DEF TablesTyped
<1>8. TvlFits' /\ ApyFits'
  <2>1. Fits(tvlRows, "calc_tvl", runs', rangeEnd', due', calls')
    BY <1>1, OthersFit DEF Inv, TvlFits
  <2>2. Fits(apyRows, "index_apy", runs', rangeEnd', due', calls')
    BY <1>1, OthersFit DEF Inv, ApyFits
  <2> QED
    BY <1>1, <2>1, <2>2 DEF TvlFits, ApyFits
<1>9. Ended("calc_tvc")' = Ended("calc_tvc")
      /\ Ended("index_strategy_balances")' = Ended("index_strategy_balances")
  BY <1>1, Called
<1>10. TvcOk' /\ BalancesOk' /\ \A s \in Strategy : StrategyOk(s)'
  BY <1>1, <1>6, <1>9, TvcStays, StrategiesStay DEF Inv
<1>11. ApyOk'
  BY <1>1 DEF Inv, ApyOk, PremiumsWithinApy
<1>12. SingleOk'
  <2> SUFFICES ASSUME Len(due) = 1
               PROVE  /\ ~Left("calc_tvl", due[1])' =>
                            tvlRows # <<>> /\ tvlRows[Len(tvlRows)].block = due[1]
                      /\ ~Expected(due[1])'
    BY <1>1, <1>2 DEF SingleOk, UpToDate
  <2>1. c.block = due[1]
    BY <1>1, OnlyPeriod
  <2>2. ~Expected(due[1])'
    BY <1>2, <1>6, <2>1 DEF Expected
  <2>3. \A x : Left("calc_tvl", x)' <=> Left("calc_tvl", x)
    BY <1>1, Called
  <2>4. Left("calc_tvl", due[1])' <=> Left("calc_tvl", due[1])
    BY <1>2, <2>3 DEF Left
  <2> QED
    BY <2>2, <2>4 DEF Inv, SingleOk
<1> QED
  BY <1>3, <1>7, <1>8, <1>10, <1>11, <1>12 DEF Inv

\* calc_additional_apy leaves the APY and the part from premiums.
LEMMA CalcAdditionalApyKeeps ==
    ASSUME Inv, NEW c \in calls, CalcAdditionalApy(c)
    PROVE  Inv'
<1>1. /\ Handles(c, "calc_additional_apy") /\ Return(c)
      /\ indx' = [indx EXCEPT !.additional = AdditionalApy]
      /\ tvlRows' = tvlRows /\ tvcRows' = tvcRows /\ tvls' = tvls /\ apyRows' = apyRows
      /\ strategyRows' = strategyRows /\ failed' = failed /\ faults' = faults
  BY DEF CalcAdditionalApy
<1>2. positions' = positions /\ premium' = premium /\ due' = due
  BY <1>1 DEF Return
<1>3. TablesTyped /\ RunsOk'/\ CallsOk'
  BY <1>1, Called DEF Inv
<1>4. indx \in Apys /\ AdditionalApy \in Nat
  BY <1>3 DEF TablesTyped, AdditionalApy
<1>5. /\ indx' \in Apys /\ indx'.premiums = indx.premiums /\ indx'.apy = indx.apy
      /\ indx'.at = indx.at /\ indx'.tvlAt = indx.tvlAt
  BY <1>1, <1>4 DEF Apys
<1>6. TablesTyped'
  BY <1>1, <1>2, <1>3, <1>5 DEF TablesTyped
<1>7. TvlFits' /\ ApyFits'
  <2>1. Fits(tvlRows, "calc_tvl", runs', rangeEnd', due', calls')
    BY <1>1, OthersFit DEF Inv, TvlFits
  <2>2. Fits(apyRows, "index_apy", runs', rangeEnd', due', calls')
    BY <1>1, OthersFit DEF Inv, ApyFits
  <2> QED
    BY <1>1, <2>1, <2>2 DEF TvlFits, ApyFits
<1>8. Ended("calc_tvc")' = Ended("calc_tvc")
      /\ Ended("index_strategy_balances")' = Ended("index_strategy_balances")
  BY <1>1, Called
<1>9. TvcOk' /\ BalancesOk' /\ \A s \in Strategy : StrategyOk(s)'
  BY <1>1, <1>8, TvcStays, StrategiesStay DEF Inv
<1>10. ApyOk'
  BY <1>1, <1>5 DEF Inv, ApyOk, PremiumsWithinApy
<1>11. SingleOk'
  BY <1>1, <1>5, SingleStays
<1> QED
  BY <1>3, <1>6, <1>7, <1>9, <1>10, <1>11 DEF Inv

\* index_apy stores what has been computed.
LEMMA IndexApyKeeps ==
    ASSUME Inv, NEW c \in calls, IndexApy(c)
    PROVE  Inv'
<1> DEFINE apys == [indx EXCEPT !.apy = @ + indx.additional]
           row == [block |-> c.block, apys |-> apys]
<1>1. /\ Handles(c, "index_apy") /\ Return(c)
      /\ apyRows' = Append(apyRows, row)
      /\ indx' = indx /\ tvlRows' = tvlRows /\ tvcRows' = tvcRows /\ tvls' = tvls
      /\ strategyRows' = strategyRows /\ failed' = failed /\ faults' = faults
  BY DEF IndexApy
<1>2. positions' = positions /\ premium' = premium /\ due' = due
  BY <1>1 DEF Return
<1>3. TablesTyped /\ RunsOk'/\ CallsOk' /\ c.block \in Block
  BY <1>1, Called DEF Inv
<1>4. /\ indx \in Apys /\ indx.apy \in Nat /\ indx.additional \in Nat /\ indx.premiums \in Int
      /\ indx.premiums <= indx.apy
  BY <1>3 DEF TablesTyped, Apys, Inv, ApyOk
<1>5. /\ apys \in Apys /\ apys.premiums <= apys.apy
      /\ apys.at = indx.at /\ apys.tvlAt = indx.tvlAt
  <2> DEFINE sum == indx.apy + indx.additional
  <2>1. sum \in Nat /\ indx.premiums <= sum /\ apys = [indx EXCEPT !.apy = sum]
    BY <1>4
  <2> HIDE DEF sum
  <2> QED
    BY <1>4, <2>1 DEF Apys
<1> HIDE DEF apys
<1>6. row \in ApyRow /\ row.block = c.block /\ row.apys = apys
  BY <1>3, <1>5 DEF ApyRow
<1> HIDE DEF row
<1>7. apyRows \in Seq(ApyRow) /\ Len(apyRows) \in Nat /\ DOMAIN apyRows = 1..Len(apyRows)
  BY <1>3 DEF TablesTyped
<1>8. /\ apyRows' \in Seq(ApyRow) /\ DOMAIN apyRows' = 1 .. Len(apyRows) + 1
      /\ \A i \in DOMAIN apyRows : apyRows'[i] = apyRows[i]
      /\ apyRows'[Len(apyRows) + 1] = row
  BY <1>1, <1>6, <1>7
<1>9. \A i \in DOMAIN apyRows' : i \in DOMAIN apyRows \/ apyRows'[i] = row
  BY <1>7, <1>8
<1>10. TablesTyped'
  BY <1>1, <1>2, <1>3, <1>8 DEF TablesTyped
<1>11. TvlFits'
  <2>1. Fits(tvlRows, "calc_tvl", runs', rangeEnd', due', calls')
    BY <1>1, OthersFit DEF Inv, TvlFits
  <2> QED
    BY <1>1, <2>1 DEF TvlFits
<1>12. ApyFits'
  <2>1. Fits(Append(apyRows, row), "index_apy", runs', rangeEnd', due', calls')
    BY <1>1, <1>6, <1>7, NewFits DEF Inv, ApyFits
  <2> QED
    BY <1>1, <2>1 DEF ApyFits
<1>13. Ended("calc_tvc")' = Ended("calc_tvc")
       /\ Ended("index_strategy_balances")' = Ended("index_strategy_balances")
  BY <1>1, Called
<1>14. TvcOk' /\ BalancesOk' /\ \A s \in Strategy : StrategyOk(s)'
  BY <1>1, <1>13, TvcStays, StrategiesStay DEF Inv
<1>15. ApyOk'
  <2>1. PremiumsWithinApy'
    BY <1>5, <1>6, <1>8, <1>9 DEF Inv, ApyOk, PremiumsWithinApy
  <2> QED
    BY <1>1, <2>1 DEF Inv, ApyOk
<1>16. SingleOk'
  <2> SUFFICES ASSUME Len(due) = 1
               PROVE  /\ Left("calc_tvl", due[1])' <=> Left("calc_tvl", due[1])
                      /\ Left("calc_apy", due[1])' <=> Left("calc_apy", due[1])
                      /\ Expected(due[1])' <=> Expected(due[1])
                      /\ UpToDate(due[1])'
    BY <1>1, <1>2 DEF Inv, SingleOk
  <2>1. \A x : /\ Left("calc_tvl", x)' <=> Left("calc_tvl", x)
               /\ Left("calc_apy", x)' <=> Left("calc_apy", x)
    BY <1>1, Called
  <2>2. /\ Left("calc_tvl", due[1])' <=> Left("calc_tvl", due[1])
        /\ Left("calc_apy", due[1])' <=> Left("calc_apy", due[1])
    BY <1>2, <2>1 DEF Left
  <2>3. Expected(due[1])' <=> Expected(due[1])
    BY <1>1, <1>2 DEF Expected
  <2>4. Left("calc_apy", due[1]) => Rank(c) < Rank([function |-> "calc_apy", block |-> due[1]])
    BY <1>1, OnlyPeriod DEF Names
  <2>5. Rank(c) = 5 /\ Rank([function |-> "calc_apy", block |-> due[1]]) = 3
    BY <1>1, Ranks DEF Handles
  <2>6. ~Left("calc_apy", due[1])
    BY <2>4, <2>5
  <2>7. Expected(due[1]) => indx.at = due[1] /\ indx.tvlAt = due[1]
    BY <2>6 DEF Inv, SingleOk
  <2>8. UpToDate(due[1])
    BY DEF Inv, SingleOk
  <2>9. ASSUME NEW i \in DOMAIN apyRows', apyRows'[i].block = due[1], Expected(due[1])
        PROVE  apyRows'[i].apys.at = due[1] /\ apyRows'[i].apys.tvlAt = due[1]
    <3>1. CASE i \in DOMAIN apyRows
      <4>1. apyRows[i].block = due[1] /\ apyRows'[i] = apyRows[i]
        BY <1>8, <2>9, <3>1
      <4> QED
        BY <2>8, <2>9, <3>1, <4>1 DEF UpToDate
    <3>2. CASE apyRows'[i] = row
      BY <1>5, <1>6, <2>7, <2>9, <3>2
    <3> QED
      BY <1>9, <3>1, <3>2
  <2>10. UpToDate(due[1])'
    BY <1>2, <2>3, <2>9 DEF UpToDate
  <2> QED
    BY <2>2, <2>3, <2>10
<1> QED
  BY <1>3, <1>10, <1>11, <1>12, <1>14, <1>15, <1>16 DEF Inv

\* index_strategy_balances stores a row for each strategy it could read.
LEMMA IndexStrategyBalancesKeeps ==
    ASSUME Inv, NEW c \in calls, IndexStrategyBalances(c)
    PROVE  Inv'
<1> DEFINE b == c.block
<1>1. PICK unread \in SUBSET Strategy :
         /\ NoBalance(unread)
         /\ strategyRows' = [s \in Strategy |-> IF s \in unread THEN strategyRows[s]
                                                ELSE Append(strategyRows[s], b)]
         /\ failed' = [failed EXCEPT !.balances = @ \cup [strategy : unread, block : {b}]]
  BY DEF IndexStrategyBalances
<1>2. /\ Handles(c, "index_strategy_balances") /\ Return(c)
      /\ indx' = indx /\ tvlRows' = tvlRows /\ tvcRows' = tvcRows /\ tvls' = tvls
      /\ apyRows' = apyRows
  BY DEF IndexStrategyBalances
<1>3. positions' = positions /\ premium' = premium /\ due' = due
  BY <1>2 DEF Return
<1>4. TablesTyped /\ RunsOk'/\ CallsOk' /\ b \in Block /\ BalancesOk
  BY <1>2, Called DEF Inv
<1>5. /\ \A x \in Ended("index_strategy_balances") : x < b
      /\ b \notin Ended("index_strategy_balances")
      /\ Ended("index_strategy_balances")' = Ended("index_strategy_balances") \cup {b}
      /\ Ended("calc_tvc")' = Ended("calc_tvc")
  BY <1>2, Called
<1> HIDE DEF b
<1>6. failed \in Failures /\ strategyRows \in [Strategy -> Seq(Block)]
  BY <1>4 DEF TablesTyped
<1> DEFINE t == failed.balances \cup [strategy : unread, block : {b}]
<1>7. t \in SUBSET [strategy : Strategy, block : Block] /\ failed' = [failed EXCEPT !.balances = t]
  BY <1>1, <1>4, <1>6 DEF Failures
<1>8. \A s \in Strategy : \A x :
         [strategy |-> s, block |-> x] \in t <=>
            \/ [strategy |-> s, block |-> x] \in failed.balances
            \/ s \in unread /\ x = b
  OBVIOUS
<1>9. \A x \in t : x \in failed.balances \/ x.block = b
  OBVIOUS
<1> HIDE DEF t
<1>10. /\ failed' \in Failures /\ failed'.balances = t
       /\ failed'.tvc = failed.tvc /\ failed'.apy = failed.apy
  BY <1>6, <1>7 DEF Failures
<1>11. BalancesOk'
  BY <1>4, <1>5, <1>9, <1>10 DEF BalancesOk
<1>12. \A s \in Strategy : [strategy |-> s, block |-> b] \notin failed.balances
  BY <1>4, <1>5 DEF BalancesOk
<1>13. ASSUME NEW s \in Strategy
       PROVE  strategyRows'[s] \in Seq(Block) /\ StrategyOk(s)'
  <2>1. strategyRows[s] \in Seq(Block)
    BY <1>6
  <2>2. Rising(strategyRows[s]) /\ Range(strategyRows[s]) = Read(s)
    BY DEF Inv, StrategyOk
  <2>3. Read(s) \subseteq Ended("index_strategy_balances")
    BY DEF Read
  <2>4. Read(s)' = {x \in Ended("index_strategy_balances") \cup {b} :
                       [strategy |-> s, block |-> x] \notin t}
    BY <1>5, <1>10 DEF Read
  <2>5. CASE s \in unread
    <3>1. strategyRows'[s] = strategyRows[s]
      BY <1>1, <2>5
    <3>2. Read(s)' = Read(s)
      BY <1>5, <1>8, <2>4, <2>5 DEF Read
    <3> QED
      BY <2>1, <2>2, <3>1, <3>2 DEF StrategyOk
  <2>6. CASE s \notin unread
    <3>1. strategyRows'[s] = Append(strategyRows[s], b)
      BY <1>1, <2>6
    <3>2. Read(s)' = Read(s) \cup {b}
      BY <1>8, <1>12, <2>4, <2>6 DEF Read
    <3>3. \A x \in Range(strategyRows[s]) : x < b
      BY <1>5, <2>2, <2>3
    <3>4. /\ Append(strategyRows[s], b) \in Seq(Block) /\ Rising(Append(strategyRows[s], b))
          /\ Range(Append(strategyRows[s], b)) = Range(strategyRows[s]) \cup {b}
      BY <1>4, <2>1, <2>2, <3>3, RisingGrows
    <3> QED
      BY <2>2, <3>1, <3>2, <3>4 DEF StrategyOk
  <2> QED
    BY <2>5, <2>6
<1>14. faults' \in 0..MaxFaults
  <2>1. /\ faults + Cardinality(unread) <= MaxFaults
        /\ faults' = faults + Cardinality(unread)
    BY <1>1 DEF NoBalance
  <2>2. Cardinality(unread) \in Nat
    BY StatsAssumption, FS_Subset, FS_CardinalityType
  <2> QED
    BY <1>4, <2>1, <2>2, StatsAssumption DEF TablesTyped
<1>15. strategyRows' \in [Strategy -> Seq(Block)]
  BY <1>1, <1>13
<1>16. TablesTyped'
  BY <1>2, <1>3, <1>4, <1>10, <1>14, <1>15 DEF TablesTyped
<1>17. TvlFits' /\ ApyFits'
  <2>1. Fits(tvlRows, "calc_tvl", runs', rangeEnd', due', calls')
    BY <1>2, OthersFit DEF Inv, TvlFits
  <2>2. Fits(apyRows, "index_apy", runs', rangeEnd', due', calls')
    BY <1>2, OthersFit DEF Inv, ApyFits
  <2> QED
    BY <1>2, <2>1, <2>2 DEF TvlFits, ApyFits
<1>18. TvcOk'
  BY <1>2, <1>5, <1>10, TvcStays DEF Inv
<1>19. ApyOk'
  BY <1>2 DEF Inv, ApyOk, PremiumsWithinApy
<1>20. SingleOk'
  BY <1>2, <1>10, SingleStays
<1> QED
  BY <1>4, <1>11, <1>13, <1>16, <1>17, <1>18, <1>19, <1>20 DEF Inv

-----------------------------------------------------------------------------
(* The invariant.                                                          *)

\* The empty tables satisfy the invariant.
LEMMA InitInv == Init => Inv
<1> SUFFICES ASSUME Init PROVE Inv
  OBVIOUS
<1>1. /\ lastBlock = 1 /\ runs = <<>> /\ positions = {} /\ rangeEnd = 0 /\ calls = {}
      /\ due = <<>> /\ failed = [tvc |-> {}, apy |-> {}, balances |-> {}] /\ faults = 0
      /\ tvlRows = <<>> /\ tvcRows = <<>> /\ apyRows = <<>>
      /\ tvls = [p \in Range(Protocols) |-> 0]
      /\ strategyRows = [s \in Strategy |-> <<>>]
      /\ indx = [apy |-> 0, additional |-> 0, at |-> 0, tvlAt |-> 0, premiums |-> 0,
                 incentives |-> 0]
      /\ premium \in Premium
  BY DEF Init
<1>2. TablesTyped
  <2>1. indx \in Apys
    BY <1>1 DEF Apys
  <2>2. failed \in Failures
    BY <1>1 DEF Failures
  <2>3. tvls \in [Range(Protocols) -> BlockOrNone]
    BY <1>1 DEF BlockOrNone
  <2>4. strategyRows \in [Strategy -> Seq(Block)]
    BY <1>1
  <2>5. faults \in 0..MaxFaults
    BY <1>1, StatsAssumption
  <2> QED
    BY <1>1, <2>1, <2>2, <2>3, <2>4, <2>5 DEF TablesTyped
<1>3. RunsOk
  <2>1. lastBlock \in 1 .. MaxBlock + 1 /\ ~(lastBlock > 1)
    BY <1>1, StatsAssumption
  <2>2. runs \in Seq(Block) /\ due \in Seq(Block) /\ DOMAIN runs = {} /\ DOMAIN due = {}
    BY <1>1
  <2> QED
    BY <1>1, <2>1, <2>2 DEF RunsOk, BlockOrNone
<1>4. CallsOk
  BY <1>1 DEF CallsOk
<1>5. TvlFits /\ ApyFits
  BY <1>1 DEF TvlFits, ApyFits, Fits
<1>6. \A f : Ended(f) = {}
  <2>1. Range(runs) = {} /\ Range(due) = {}
    BY <1>1 DEF Range
  <2> QED
    BY <2>1 DEF Ended
<1>7. TvcOk
  <2>1. Rising(tvcRows) /\ Range(tvcRows) = {}
    BY <1>1 DEF Rising, Range
  <2> QED
    BY <1>1, <2>1 DEF TvcOk
<1>8. BalancesOk
  BY <1>1 DEF BalancesOk
<1>9. ASSUME NEW s \in Strategy PROVE StrategyOk(s)
  <2>1. strategyRows[s] = <<>>
    BY <1>1
  <2>2. Rising(strategyRows[s]) /\ Range(strategyRows[s]) = {}
    BY <2>1 DEF Rising, Range
  <2>3. Read(s) = {}
    BY <1>6 DEF Read
  <2> QED
    BY <2>2, <2>3 DEF StrategyOk
<1>10. ApyOk
  BY <1>1 DEF ApyOk, PremiumsWithinApy
<1>11. SingleOk
  <2>1. Len(due) # 1
    BY <1>1
  <2> QED
    BY <2>1 DEF SingleOk
<1> QED
  BY <1>2, <1>3, <1>4, <1>5, <1>7, <1>8, <1>9, <1>10, <1>11 DEF Inv

\* Every step keeps the invariant.
LEMMA NextInv == Inv /\ [Next]_vars => Inv'
<1> SUFFICES ASSUME Inv, [Next]_vars PROVE Inv'
  OBVIOUS
<1>1. ASSUME NEW end \in Block, TakeRange(end) PROVE Inv'
  BY <1>1, TakeRangeKeeps
<1>2. ASSUME NEW call \in calls, CalcTvl(call) PROVE Inv'
  BY <1>2, CalcTvlKeeps
<1>3. ASSUME NEW call \in calls, CalcTvc(call) PROVE Inv'
  BY <1>3, CalcTvcKeeps
<1>4. ASSUME NEW call \in calls, CalcApy(call) PROVE Inv'
  BY <1>4, CalcApyKeeps
<1>5. ASSUME NEW call \in calls, CalcApyFails(call) PROVE Inv'
  BY <1>5, CalcApyFailsKeeps
<1>6. ASSUME NEW call \in calls, CalcAdditionalApy(call) PROVE Inv'
  BY <1>6, CalcAdditionalApyKeeps
<1>7. ASSUME NEW call \in calls, IndexApy(call) PROVE Inv'
  BY <1>7, IndexApyKeeps
<1>8. ASSUME NEW call \in calls, IndexStrategyBalances(call) PROVE Inv'
  BY <1>8, IndexStrategyBalancesKeeps
<1>9. CASE CommitRange
  BY <1>9, CommitRangeKeeps
<1>10. CASE UNCHANGED vars
  <2>1. /\ UNCHANGED <<lastBlock, runs, positions, premium, rangeEnd, calls, due, failed, faults>>
        /\ UNCHANGED <<indx, tvlRows, tvcRows, tvls, apyRows, strategyRows>>
    BY <1>10 DEF vars, tableVars, historyVars
  <2>2. TablesTyped'
    BY <2>1 DEF Inv, TablesTyped
  <2>3. RunsOk' /\ CallsOk'
    BY <2>1 DEF Inv, RunsOk, CallsOk, Precedes
  <2>4. TvlFits' /\ ApyFits'
    BY <2>1 DEF Inv, TvlFits, ApyFits
  <2>5. \A f : Ended(f)' = Ended(f)
    BY <2>1 DEF Ended, Left
  <2>6. TvcOk'
    BY <2>1, <2>5 DEF Inv, TvcOk
  <2>7. BalancesOk' /\ \A s \in Strategy : StrategyOk(s)'
    BY <2>1, <2>5 DEF Inv, BalancesOk, StrategyOk, Read
  <2>8. ApyOk'
    BY <2>1 DEF Inv, ApyOk, PremiumsWithinApy
  <2>9. SingleOk'
    BY <2>1 DEF Inv, SingleOk, Left, Expected, UpToDate
  <2> QED
    BY <2>2, <2>3, <2>4, <2>6, <2>7, <2>8, <2>9 DEF Inv
<1> QED
  BY <1>1, <1>2, <1>3, <1>4, <1>5, <1>6, <1>7, <1>8, <1>9, <1>10 DEF Next

\* The invariant holds in every reachable state.
LEMMA AlwaysInv == Spec => []Inv
BY InitInv, NextInv, PTL DEF Spec

-----------------------------------------------------------------------------
(* What the tables promise.                                                *)

\* No APY that is stored or served is negative, and every row is that of a block.
THEOREM TypesHold == Spec => []TypeOK
<1>1. Inv => TypeOK
  <2> SUFFICES ASSUME Inv PROVE TypeOK
    OBVIOUS
  <2>1. TablesTyped /\ RunsOk
    BY DEF Inv
  <2>2. tvlRows \in Seq([block : Block, value : Nat])
    <3>1. TvlRow \subseteq [block : Block, value : Nat]
      BY DEF TvlRow
    <3> QED
      BY <2>1, <3>1, SeqMonotonic DEF TablesTyped
  <2>3. failed.tvc \subseteq Block /\ failed.apy \subseteq Block
    BY <2>1 DEF TablesTyped, Failures
  <2> QED
    BY <2>1, <2>2, <2>3 DEF TypeOK, TablesTyped, RunsOk, ApyRow, BlockOrNone
<1> QED
  BY <1>1, AlwaysInv, PTL

\* Every period has one row of TVL and one of APY, in their order, however the
\* blocks fell into ranges; the other tables never go back (indexer.py:683-717).
THEOREM RowsHold == Spec => []RowsEveryPeriod
<1>1. Inv => RowsEveryPeriod
  <2> SUFFICES ASSUME Inv, Committed
               PROVE  /\ Blocks(tvlRows) = [i \in 1 .. (lastBlock - IndexerStartBlock - 1) \div Interval |->
                                               IndexerStartBlock - 1 + i * Interval]
                      /\ Blocks(apyRows) = [i \in 1 .. (lastBlock - IndexerStartBlock - 1) \div Interval |->
                                               IndexerStartBlock - 1 + i * Interval]
                      /\ Rising(tvcRows) /\ \A s \in Strategy : Rising(strategyRows[s])
    BY DEF RowsEveryPeriod
  <2>1. rangeEnd = 0 /\ lastBlock > 1
    BY DEF Committed
  <2>2. Len(runs) = (lastBlock - IndexerStartBlock - 1) \div Interval
    BY <2>1 DEF Inv, RunsOk
  <2>3. /\ DOMAIN tvlRows = 1..Len(tvlRows) /\ DOMAIN apyRows = 1..Len(apyRows)
    BY DEF Inv, TablesTyped
  <2>4. Len(tvlRows) = Len(runs) /\ \A i \in DOMAIN tvlRows : tvlRows[i].block = Ends(i)
    BY <2>1 DEF Inv, TvlFits, Fits
  <2>5. Len(apyRows) = Len(runs) /\ \A i \in DOMAIN apyRows : apyRows[i].block = Ends(i)
    BY <2>1 DEF Inv, ApyFits, Fits
  <2>6. Rising(tvcRows) /\ \A s \in Strategy : Rising(strategyRows[s])
    BY DEF Inv, TvcOk, StrategyOk
  <2> QED
    BY <2>2, <2>3, <2>4, <2>5, <2>6 DEF Blocks, Ends
<1> QED
  BY <1>1, AlwaysInv, PTL

\* In every row the part of the APY from premiums is within the whole, also after
\* computations were skipped (indexer.py:297-334).
THEOREM PremiumsHold == Spec => []PremiumsWithinApy
<1>1. Inv => PremiumsWithinApy
  BY DEF Inv, ApyOk
<1> QED
  BY <1>1, AlwaysInv, PTL

\* A period that is alone in its range has a row with its own APY and TVL, if
\* there was a position to measure it by (indexer.py:91-104).
THEOREM SinglePeriodHolds == Spec => []SinglePeriodUpToDate
<1>1. Inv => SinglePeriodUpToDate
  BY DEF Inv, SingleOk, SinglePeriodUpToDate
<1> QED
  BY <1>1, AlwaysInv, PTL

\* What is counted in the newest row of stats_tvc is served with a tvl as new,
\* also after a failure half way (indexer.py:189-244, views/protocols.py:11-38).
THEOREM TvlsHold == Spec => []TvlsAsNewAsTvc
<1>1. Inv => TvlsAsNewAsTvc
  BY DEF Inv, TvcOk, TvlsAsNewAsTvc
<1> QED
  BY <1>1, AlwaysInv, PTL

\* A strategy is listed with the newest balance that could be read, whatever
\* failed before and after (indexer.py:376-389, views/strategies.py:6-27).
THEOREM StrategiesHold == Spec => []StrategiesListed
<1>1. Inv => StrategiesListed
  <2> SUFFICES ASSUME Inv, Committed, NEW s \in Strategy
               PROVE  LET read == {b \in Range(runs) :
                                      [strategy |-> s, block |-> b] \notin failed.balances}
                      IN  /\ s \in DOMAIN ListedStrategies <=>
                                (read # {} /\ Balance[Max(read)] # 0)
                          /\ s \in DOMAIN ListedStrategies =>
                                ListedStrategies[s] = Balance[Max(read)]
    BY DEF StrategiesListed
  <2> DEFINE read == {b \in Range(runs) :
                         [strategy |-> s, block |-> b] \notin failed.balances}
             rows == strategyRows[s]
  <2>1. Ended("index_strategy_balances") = Range(runs)
    BY EndedBetween DEF Inv, Committed
  <2>2. Read(s) = read
    BY <2>1 DEF Read
  <2>3. Rising(rows) /\ Range(rows) = read /\ rows \in Seq(Block)
    BY <2>2 DEF Inv, StrategyOk, TablesTyped
  <2>4. DOMAIN ListedStrategies =
           {t \in Strategy : strategyRows[t] # <<>> /\ Balance[Last(strategyRows[t])] # 0}
    BY DEF ListedStrategies
  <2>5. s \in DOMAIN ListedStrategies => ListedStrategies[s] = Balance[Last(rows)]
    BY <2>4 DEF ListedStrategies
  <2> HIDE DEF read, rows
  <2>6. rows # <<>> <=> read # {}
    <3>1. ASSUME rows # <<>> PROVE read # {}
      BY <2>3, <3>1, LastOfRising
    <3>2. ASSUME rows = <<>> PROVE read = {}
      <4>1. Range(<<>>) = {}
        BY DEF Range
      <4> QED
        BY <2>3, <3>2, <4>1
    <3> QED
      BY <3>1, <3>2
  <2>7. rows # <<>> => Max(read) = Last(rows)
    BY <2>3, LastOfRising
  <2>8. s \in DOMAIN ListedStrategies <=> (rows # <<>> /\ Balance[Last(rows)] # 0)
    BY <2>4 DEF rows
  <2>9. /\ s \in DOMAIN ListedStrategies <=> (read # {} /\ Balance[Max(read)] # 0)
        /\ s \in DOMAIN ListedStrategies => ListedStrategies[s] = Balance[Max(read)]
    BY <2>5, <2>6, <2>7, <2>8
  <2> QED
    BY <2>9 DEF read
<1> QED
  BY <1>1, AlwaysInv, PTL
-----------------------------------------------------------------------------
(* The pages of the lists.                                                 *)

\* What the client has of a list, T, of which S was there when it began: what it
\* has not yet is among the oldest rows.
ListOk(T, got, S, end) ==
    /\ T \in Seq(Block) /\ got \in Seq(Block)
    /\ Len(got) <= Len(T) /\ Range(got) \subseteq Range(T)
    /\ (got # <<>> \/ end) => S \subseteq Range(got) \cup {T[i] : i \in 1 .. Len(T) - Len(got)}
    /\ end => S \subseteq Range(got)

Begun(list) == client.rows[list] # <<>> \/ list \in client.finished

ClientOk ==
    /\ client \in [rows : [List -> Seq(Block)], finished : SUBSET List,
                   since : [List -> SUBSET Block]]
    /\ \A list \in List :
          ListOk(Table(list), client.rows[list], client.since[list], list \in client.finished)
    /\ Begun("apy") => "tvl" \in client.finished /\ Received("tvl") \subseteq client.since["apy"]

PagesInv == Inv /\ ClientOk

\* One more page of a list: it has the newest rows the client does not count among
\* its own, and nothing is left when it is not full.
LEMMA NextPage ==
    ASSUME NEW T \in Seq(Block), NEW got \in Seq(Block), Len(got) <= Len(T),
           Range(got) \subseteq Range(T)
    PROVE  LET page == FindAll(T, Len(got), Limit)
               all == got \o page
           IN  /\ page \in Seq(Block) /\ all \in Seq(Block)
               /\ Len(all) <= Len(T) /\ Range(all) \subseteq Range(T)
               /\ Range(got) \subseteq Range(all)
               /\ {T[i] : i \in 1 .. Len(T) - Len(got)}
                     \subseteq Range(all) \cup {T[i] : i \in 1 .. Len(T) - Len(all)}
               /\ Len(page) < Limit => Len(all) = Len(T)
<1> DEFINE n == Len(T)
           k == Len(got)
           rev == Reverse(T)
           m == Min({k + Limit, n})
           page == SubSeq(rev, k + 1, m)
           all == got \o page
<1>1. n \in Nat /\ k \in Nat /\ k <= n /\ Limit \in Nat /\ Limit >= 1
  BY PagesAssumption
<1>2. /\ rev \in Seq(Block) /\ Len(rev) = n
      /\ \A j \in 1..n : rev[j] = T[n - j + 1]
  <2>1. rev = [j \in 1..n |-> T[n - j + 1]]
    BY DEF Reverse
  <2>2. \A j \in 1..n : T[n - j + 1] \in Block
    OBVIOUS
  <2> QED
    BY <2>1, <2>2
<1>3. FindAll(T, Len(got), Limit) = page
  BY DEF FindAll
<1>4. m \in Nat /\ k <= m /\ m <= n /\ (m = n \/ m = k + Limit)
  <2>1. \E x \in {k + Limit, n} : \A y \in {k + Limit, n} : x <= y
    BY <1>1
  <2>2. m \in {k + Limit, n} /\ m <= n
    BY <2>1 DEF Min
  <2> HIDE DEF m
  <2> QED
    BY <1>1, <2>2
<1> HIDE DEF n, k, rev, m
<1>5. page \in Seq(Block) /\ Len(page) = m - k /\ \A j \in 1 .. m - k : page[j] = rev[k + j]
  <2>1. \A j \in k + 1 .. m : rev[j] \in Block
    BY <1>1, <1>2, <1>4
  <2>2. /\ page \in Seq(Block)
        /\ Len(page) = IF k + 1 <= m THEN m - (k + 1) + 1 ELSE 0
        /\ \A j \in 1 .. m - (k + 1) + 1 : page[j] = rev[(k + 1) + j - 1]
    BY <1>1, <1>2, <1>4, <2>1, SubSeqProperties
  <2>3. m - (k + 1) + 1 = m - k /\ \A j \in 1 .. m - k : (k + 1) + j - 1 = k + j
    BY <1>1, <1>4
  <2> HIDE DEF page
  <2> QED
    BY <1>1, <1>4, <2>2, <2>3
<1> HIDE DEF page
<1>6. /\ all \in Seq(Block) /\ Len(all) = m
      /\ \A j \in 1..k : all[j] = got[j]
      /\ \A j \in 1 .. m - k : all[k + j] = page[j]
  <2>1. k + (m - k) = m
    BY <1>1, <1>4
  <2> QED
    BY <1>1, <1>4, <1>5, <2>1 DEF k
<1> HIDE DEF all
<1>7. \A j \in 1 .. m - k : page[j] = T[n - (k + j) + 1] /\ n - (k + j) + 1 \in 1..n
  BY <1>1, <1>2, <1>4, <1>5
<1>8. Range(got) \subseteq Range(all)
  <2>1. DOMAIN got = 1..k /\ DOMAIN all = 1..m /\ 1..k \subseteq 1..m
    BY <1>1, <1>4, <1>6 DEF k
  <2> QED
    BY <1>6, <2>1 DEF Range
<1>9. Range(all) \subseteq Range(T)
  <2> SUFFICES ASSUME NEW j \in 1..m PROVE all[j] \in Range(T)
    BY <1>6 DEF Range
  <2>1. CASE j \in 1..k
    BY <1>6, <2>1 DEF Range, k
  <2>2. CASE j \notin 1..k
    <3>1. j - k \in 1 .. m - k /\ k + (j - k) = j
      BY <1>1, <1>4, <2>2
    <3>2. all[j] = page[j - k]
      BY <1>6, <3>1
    <3>3. page[j - k] \in Range(T)
      BY <1>7, <3>1 DEF Range, n
    <3> QED
      BY <3>2, <3>3
  <2> QED
    BY <2>1, <2>2
<1>10. ASSUME NEW i \in 1 .. n - k, i \notin 1 .. n - m PROVE T[i] \in Range(all)
  <2> DEFINE j == n - i + 1 - k
  <2>1. j \in 1 .. m - k /\ n - (k + j) + 1 = i /\ k + j \in 1..m
    BY <1>1, <1>4, <1>10
  <2>2. all[k + j] = T[i]
    BY <1>6, <1>7, <2>1
  <2> QED
    BY <1>6, <2>1, <2>2 DEF Range
<1>11. {T[i] : i \in 1 .. n - k} \subseteq Range(all) \cup {T[i] : i \in 1 .. n - m}
  BY <1>10
<1>12. Len(page) < Limit => m = n
  BY <1>1, <1>4, <1>5
<1> QED
  BY <1>3, <1>4, <1>5, <1>6, <1>8, <1>9, <1>11, <1>12 DEF all, n, k

\* The lists are lists of blocks.
LEMMA TablesOfBlocks ==
    ASSUME Inv, NEW list \in List
    PROVE  Table(list) \in Seq(Block)
<1>1. tvlRows \in Seq(TvlRow) /\ apyRows \in Seq(ApyRow) /\ tvcRows \in Seq(Block)
  BY DEF Inv, TablesTyped
<1>2. ASSUME NEW R, \A row \in R : row.block \in Block, NEW t \in Seq(R)
      PROVE  Blocks(t) \in Seq(Block)
  <2>1. Len(t) \in Nat /\ DOMAIN t = 1 .. Len(t) /\ \A i \in 1 .. Len(t) : t[i].block \in Block
    BY <1>2
  <2>2. Blocks(t) = [i \in 1 .. Len(t) |-> t[i].block]
    BY <2>1 DEF Blocks
  <2> QED
    BY <2>1, <2>2
<1>3. Blocks(tvlRows) \in Seq(Block)
  BY <1>1, <1>2 DEF TvlRow
<1>4. Blocks(apyRows) \in Seq(Block)
  BY <1>1, <1>2 DEF ApyRow
<1> QED
  BY <1>1, <1>3, <1>4 DEF Table, List

\* A step of the indexer adds at most one row to a table, as its newest.
LEMMA TablesGrow ==
    ASSUME Inv, Inv', [Next]_vars, NEW list \in List
    PROVE  \/ Table(list)' = Table(list)
           \/ \E b \in Block : Table(list)' = Append(Table(list), b)
<1>1. /\ tvlRows \in Seq(TvlRow) /\ apyRows \in Seq(ApyRow) /\ tvcRows \in Seq(Block)
      /\ tvlRows' \in Seq(TvlRow) /\ apyRows' \in Seq(ApyRow) /\ tvcRows' \in Seq(Block)
  BY DEF Inv, TablesTyped
<1>2. /\ \A row \in TvlRow : row.block \in Block
      /\ \A row \in ApyRow : row.block \in Block
  BY DEF TvlRow, ApyRow
<1>3. ASSUME NEW R, \A row \in R : row.block \in Block, NEW t \in Seq(R), NEW row \in R
      PROVE  Blocks(Append(t, row)) = Append(Blocks(t), row.block)
  <2> DEFINE n == Len(t)
  <2>1. n \in Nat /\ DOMAIN t = 1..n /\ DOMAIN Append(t, row) = 1 .. n + 1
    OBVIOUS
  <2>2. Blocks(t) \in Seq(Block) /\ Len(Blocks(t)) = n /\ \A i \in 1..n : Blocks(t)[i] = t[i].block
    BY <1>3, <2>1 DEF Blocks
  <2>3. /\ Blocks(Append(t, row)) = [i \in 1 .. n + 1 |-> Append(t, row)[i].block]
        /\ Append(t, row)[n + 1] = row /\ \A i \in 1..n : Append(t, row)[i] = t[i]
    BY <2>1 DEF Blocks
  <2> HIDE DEF n
  <2>4. \A i \in 1 .. n + 1 : Append(t, row)[i].block = Append(Blocks(t), row.block)[i]
    BY <1>3, <2>1, <2>2, <2>3
  <2>5. Append(Blocks(t), row.block) = [i \in 1 .. n + 1 |-> Append(Blocks(t), row.block)[i]]
    BY <1>3, <2>1, <2>2
  <2> QED
    BY <2>3, <2>4, <2>5
<1>4. \/ UNCHANGED <<tvlRows, tvcRows, apyRows>>
      \/ UNCHANGED <<tvlRows, apyRows>> /\ \E b \in Block : tvcRows' = Append(tvcRows, b)
      \/ UNCHANGED <<tvcRows, apyRows>> /\ \E row \in TvlRow : tvlRows' = Append(tvlRows, row)
      \/ UNCHANGED <<tvlRows, tvcRows>> /\ \E row \in ApyRow : apyRows' = Append(apyRows, row)
  <2>1. CASE UNCHANGED vars
    BY <2>1 DEF vars, tableVars
  <2>2. ASSUME NEW end \in Block, TakeRange(end) PROVE UNCHANGED <<tvlRows, tvcRows, apyRows>>
    BY <2>2 DEF TakeRange, tableVars
  <2>3. CASE CommitRange
    BY <2>3 DEF CommitRange, tableVars
  <2>4. ASSUME NEW c \in calls, CalcTvl(c)
        PROVE  UNCHANGED <<tvcRows, apyRows>> /\ \E row \in TvlRow : tvlRows' = Append(tvlRows, row)
    <3>1. c.block \in Block
      BY <2>4, Called DEF CalcTvl
    <3>2. [block |-> c.block, value |-> Tvl[c.block]] \in TvlRow
      BY <3>1, StatsAssumption DEF TvlRow
    <3> QED
      BY <2>4, <3>2 DEF CalcTvl
  <2>5. ASSUME NEW c \in calls, CalcTvc(c)
        PROVE  /\ UNCHANGED <<tvlRows, apyRows>>
               /\ tvcRows' = tvcRows \/ \E b \in Block : tvcRows' = Append(tvcRows, b)
    <3>1. c.block \in Block
      BY <2>5, Called DEF CalcTvc
    <3> QED
      BY <2>5, <3>1 DEF CalcTvc, Stored
  <2>6. ASSUME NEW c \in calls,
               CalcApy(c) \/ CalcApyFails(c) \/ CalcAdditionalApy(c) \/ IndexStrategyBalances(c)
        PROVE  UNCHANGED <<tvlRows, tvcRows, apyRows>>
    BY <2>6 DEF CalcApy, CalcApyFails, CalcAdditionalApy, IndexStrategyBalances, tableVars
  <2>7. ASSUME NEW c \in calls, IndexApy(c)
        PROVE  UNCHANGED <<tvlRows, tvcRows>> /\ \E row \in ApyRow : apyRows' = Append(apyRows, row)
    <3> DEFINE row == [block |-> c.block, apys |-> [indx EXCEPT !.apy = @ + indx.additional]]
    <3>1. c.block \in Block
      BY <2>7, Called DEF IndexApy
    <3>2. indx \in Apys
      BY DEF Inv, TablesTyped
    <3>3. row \in ApyRow
      BY <3>1, <3>2 DEF ApyRow, Apys
    <3> QED
      BY <2>7, <3>3 DEF IndexApy
  <2> QED
    BY <2>1, <2>2, <2>3, <2>4, <2>5, <2>6, <2>7 DEF Next
<1>5. CASE list = "tvl"
  <2>1. Table(list) = Blocks(tvlRows) /\ Table(list)' = Blocks(tvlRows)'
    BY <1>5 DEF Table
  <2>2. ASSUME NEW row \in TvlRow, tvlRows' = Append(tvlRows, row)
        PROVE  Blocks(tvlRows') = Append(Blocks(tvlRows), row.block) /\ row.block \in Block
    BY <1>1, <1>2, <1>3, <2>2
  <2>3. tvlRows' = tvlRows => Blocks(tvlRows') = Blocks(tvlRows)
    OBVIOUS
  <2> QED
    BY <1>4, <2>1, <2>2, <2>3
<1>6. CASE list = "tvc"
  BY <1>4, <1>6 DEF Table
<1>7. CASE list = "apy"
  <2>1. Table(list) = Blocks(apyRows) /\ Table(list)' = Blocks(apyRows)'
    BY <1>7 DEF Table
  <2>2. ASSUME NEW row \in ApyRow, apyRows' = Append(apyRows, row)
        PROVE  Blocks(apyRows') = Append(Blocks(apyRows), row.block) /\ row.block \in Block
    BY <1>1, <1>2, <1>3, <2>2
  <2>3. apyRows' = apyRows => Blocks(apyRows') = Blocks(apyRows)
    OBVIOUS
  <2> QED
    BY <1>4, <2>1, <2>2, <2>3
<1> QED
  BY <1>5, <1>6, <1>7 DEF List

\* A row that is added moves the others on, and the client has what it had.
LEMMA ListStays ==
    ASSUME NEW T, NEW b \in Block, NEW got, NEW S, NEW end \in BOOLEAN, ListOk(T, got, S, end)
    PROVE  ListOk(Append(T, b), got, S, end)
<1> DEFINE n == Len(T)
           k == Len(got)
           U == Append(T, b)
<1>1. T \in Seq(Block) /\ got \in Seq(Block) /\ k <= n /\ n \in Nat /\ k \in Nat
  BY DEF ListOk
<1>2. /\ U \in Seq(Block) /\ Len(U) = n + 1 /\ DOMAIN U = 1 .. n + 1 /\ DOMAIN T = 1..n
      /\ \A i \in 1..n : U[i] = T[i]
  BY <1>1
<1> HIDE DEF U, n, k
<1>3. Range(T) \subseteq Range(U)
  BY <1>1, <1>2 DEF Range
<1>4. {T[i] : i \in 1 .. n - k} \subseteq {U[i] : i \in 1 .. (n + 1) - k}
  <2>1. \A i \in 1 .. n - k : i \in 1 .. (n + 1) - k /\ U[i] = T[i]
    BY <1>1, <1>2
  <2> QED
    BY <2>1
<1>5. k <= n + 1
  BY <1>1
<1> QED
  BY <1>1, <1>2, <1>3, <1>4, <1>5 DEF ListOk, U, n, k

\* Between ranges the tables of TVL and of APY have the same periods.
LEMMA SamePeriods ==
    ASSUME Inv, rangeEnd = 0
    PROVE  Table("tvl") = Table("apy")
<1>1. tvlRows \in Seq(TvlRow) /\ apyRows \in Seq(ApyRow)
  BY DEF Inv, TablesTyped
<1>2. /\ Len(tvlRows) = Len(runs) /\ Len(apyRows) = Len(runs)
      /\ \A i \in DOMAIN tvlRows : tvlRows[i].block = Ends(i)
      /\ \A i \in DOMAIN apyRows : apyRows[i].block = Ends(i)
  BY DEF Inv, TvlFits, ApyFits, Fits
<1>3. DOMAIN tvlRows = DOMAIN apyRows
  BY <1>1, <1>2
<1>4. Blocks(tvlRows) = [i \in DOMAIN tvlRows |-> Ends(i)]
      /\ Blocks(apyRows) = [i \in DOMAIN apyRows |-> Ends(i)]
  BY <1>2 DEF Blocks
<1> QED
  BY <1>3, <1>4 DEF Table

\* Steps of the indexer leave the client what it has.
LEMMA IndexerKeeps ==
    ASSUME PagesInv, Inv', [Next]_vars, UNCHANGED client
    PROVE  ClientOk'
<1>1. ASSUME NEW list \in List
      PROVE  ListOk(Table(list)', client.rows[list], client.since[list], list \in client.finished)
  <2>1. ListOk(Table(list), client.rows[list], client.since[list], list \in client.finished)
    BY DEF PagesInv, ClientOk
  <2>2. \/ Table(list)' = Table(list)
        \/ \E b \in Block : Table(list)' = Append(Table(list), b)
    BY TablesGrow DEF PagesInv
  <2>3. CASE Table(list)' = Table(list)
    BY <2>1, <2>3
  <2>4. ASSUME NEW b \in Block, Table(list)' = Append(Table(list), b)
        PROVE  ListOk(Table(list)', client.rows[list], client.since[list], list \in client.finished)
    <3> DEFINE T == Table(list)
               got == client.rows[list]
               S == client.since[list]
               end == list \in client.finished
    <3>1. ListOk(T, got, S, end)
      BY <2>1
    <3>2. end \in BOOLEAN
      OBVIOUS
    <3> HIDE DEF T, got, S, end
    <3>3. ListOk(Append(T, b), got, S, end)
      BY <3>1, <3>2, ListStays
    <3> QED
      BY <2>4, <3>3 DEF T, got, S, end
  <2> QED
    BY <2>2, <2>3, <2>4
<1>2. Begun("apy")' = Begun("apy") /\ Received("tvl")' = Received("tvl")
  BY DEF Begun, Received
<1> QED
  BY <1>1, <1>2 DEF PagesInv, ClientOk

\* A page leaves the client with a list it may be in the middle of.
LEMMA AskKeeps ==
    ASSUME PagesInv, NEW list \in List, AskPage(list)
    PROVE  ClientOk'
<1> DEFINE T == Table(list)
           got == client.rows[list]
           page == FindAll(T, Len(got), Limit)
           all == got \o page
           began == IF got = <<>> THEN Range(T) ELSE client.since[list]
           end == Len(page) < Limit
<1>1. /\ client \in [rows : [List -> Seq(Block)], finished : SUBSET List,
                     since : [List -> SUBSET Block]]
      /\ list \notin client.finished /\ rangeEnd = 0
      /\ list = "apy" => "tvl" \in client.finished
      /\ UNCHANGED vars
  BY DEF PagesInv, ClientOk, AskPage
<1>2. ListOk(T, got, client.since[list], FALSE)
  <2>1. ListOk(T, got, client.since[list], list \in client.finished)
    BY DEF PagesInv, ClientOk
  <2> QED
    BY <1>1, <2>1 DEF ListOk
<1>3. /\ T \in Seq(Block) /\ got \in Seq(Block) /\ Len(got) <= Len(T)
      /\ Range(got) \subseteq Range(T)
  BY <1>2 DEF ListOk
<1>4. /\ page \in Seq(Block) /\ all \in Seq(Block)
      /\ Len(all) <= Len(T) /\ Range(all) \subseteq Range(T) /\ Range(got) \subseteq Range(all)
      /\ {T[i] : i \in 1 .. Len(T) - Len(got)}
            \subseteq Range(all) \cup {T[i] : i \in 1 .. Len(T) - Len(all)}
      /\ end => Len(all) = Len(T)
  BY <1>3, NextPage
<1>5. /\ client'.rows = [client.rows EXCEPT ![list] = all]
      /\ client'.since = [client.since EXCEPT ![list] = began]
      /\ client'.finished = IF end THEN client.finished \cup {list} ELSE client.finished
      /\ client' = [rows |-> client'.rows, since |-> client'.since,
                    finished |-> client'.finished]
  <2>1. client' = [client EXCEPT
            !.rows = [client.rows EXCEPT ![list] = all],
            !.since = IF got = <<>> THEN [client.since EXCEPT ![list] = Range(T)]
                      ELSE client.since,
            !.finished = IF end THEN client.finished \cup {list} ELSE client.finished]
    BY DEF AskPage
  <2>2. [client.since EXCEPT ![list] = client.since[list]] = client.since
    BY <1>1
  <2> HIDE DEF all, got, T, end, page
  <2> QED
    BY <1>1, <2>1, <2>2
<1>6. began \in SUBSET Block
  BY <1>1, <1>3 DEF Range
<1>7. began \subseteq Range(got) \cup {T[i] : i \in 1 .. Len(T) - Len(got)}
  <2>1. CASE got # <<>>
    BY <1>2, <2>1 DEF ListOk
  <2>2. CASE got = <<>>
    <3>1. Len(T) - Len(got) = Len(T) /\ DOMAIN T = 1 .. Len(T)
      BY <1>3, <2>2
    <3> QED
      BY <2>2, <3>1 DEF Range
  <2> QED
    BY <2>1, <2>2
<1> HIDE DEF all, began, page
<1>8. began \subseteq Range(all) \cup {T[i] : i \in 1 .. Len(T) - Len(all)}
  BY <1>4, <1>7
<1>9. end => began \subseteq Range(all)
  <2>1. ASSUME end PROVE 1 .. Len(T) - Len(all) = {}
    <3>1. Len(T) \in Nat /\ Len(all) = Len(T)
      BY <1>3, <1>4, <2>1
    <3> QED
      BY <3>1
  <2> QED
    BY <1>8, <2>1
<1>10. ListOk(T, all, began, end)
  BY <1>3, <1>4, <1>8, <1>9 DEF ListOk
<1> HIDE DEF end
<1>11. \A l \in List : Table(l)' = Table(l)
  BY <1>1 DEF vars, tableVars, Table
<1>12. ASSUME NEW l \in List
       PROVE  ListOk(Table(l)', client'.rows[l], client'.since[l], l \in client'.finished)
  <2>1. CASE l = list
    <3>1. /\ client'.rows[l] = all /\ client'.since[l] = began
          /\ (l \in client'.finished) = (end = TRUE)
      BY <1>1, <1>5, <2>1
    <3>2. CASE end
      BY <1>10, <1>11, <2>1, <3>1, <3>2
    <3>3. CASE ~end
      BY <1>10, <1>11, <2>1, <3>1, <3>3 DEF ListOk
    <3> QED
      BY <3>2, <3>3
  <2>2. CASE l # list
    <3>1. /\ client'.rows[l] = client.rows[l] /\ client'.since[l] = client.since[l]
          /\ l \in client'.finished <=> l \in client.finished
      BY <1>1, <1>5, <2>2
    <3>2. ListOk(Table(l), client.rows[l], client.since[l], l \in client.finished)
      BY DEF PagesInv, ClientOk
    <3>3. CASE l \in client.finished
      BY <1>11, <3>1, <3>2, <3>3 DEF ListOk
    <3>4. CASE l \notin client.finished
      BY <1>11, <3>1, <3>2, <3>4 DEF ListOk
    <3> QED
      BY <3>3, <3>4
  <2> QED
    BY <2>1, <2>2
<1>13. client' \in [rows : [List -> Seq(Block)], finished : SUBSET List,
                    since : [List -> SUBSET Block]]
  <2>1. client'.rows \in [List -> Seq(Block)]
    BY <1>1, <1>4, <1>5
  <2>2. client'.since \in [List -> SUBSET Block]
    BY <1>1, <1>5, <1>6
  <2>3. client'.finished \in SUBSET List
    BY <1>1, <1>5
  <2> QED
    BY <1>5, <2>1, <2>2, <2>3
<1>14. Begun("apy")' => "tvl" \in client'.finished /\ Received("tvl")' \subseteq client'.since["apy"]
  <2> SUFFICES ASSUME Begun("apy")'
               PROVE  "tvl" \in client'.finished /\ Received("tvl")' \subseteq client'.since["apy"]
    OBVIOUS
  <2>1. "tvl" \in List /\ "apy" \in List
    BY DEF List
  <2>2. CASE list = "apy"
    <3>1. "tvl" \in client.finished /\ "tvl" \in client'.finished
      BY <1>1, <1>5, <2>2
    <3>2. Received("tvl")' = Received("tvl")
      BY <1>1, <1>5, <2>1, <2>2 DEF Received
    <3>3. client'.since["apy"] = began
      BY <1>1, <1>5, <2>1, <2>2
    <3>4. CASE got = <<>>
      <4>1. Received("tvl") \subseteq Range(Table("tvl"))
        BY <2>1 DEF PagesInv, ClientOk, ListOk, Received
      <4>2. Table("tvl") = T
        BY <1>1, <2>2, SamePeriods DEF PagesInv
      <4> QED
        BY <3>1, <3>2, <3>3, <3>4, <4>1, <4>2 DEF began
    <3>5. CASE got # <<>>
      <4>1. Begun("apy")
        BY <2>2, <3>5 DEF Begun
      <4> QED
        BY <2>2, <3>1, <3>2, <3>3, <3>5, <4>1 DEF began, PagesInv, ClientOk
    <3> QED
      BY <3>4, <3>5
  <2>3. CASE list # "apy"
    <3>1. /\ client'.rows["apy"] = client.rows["apy"] /\ client'.since["apy"] = client.since["apy"]
          /\ "apy" \in client'.finished <=> "apy" \in client.finished
      BY <1>1, <1>5, <2>1, <2>3
    <3>2. Begun("apy")
      BY <3>1 DEF Begun
    <3>3. "tvl" \in client.finished /\ Received("tvl") \subseteq client.since["apy"]
      BY <3>2 DEF PagesInv, ClientOk
    <3>4. list # "tvl"
      BY <1>1, <3>3
    <3>5. Received("tvl")' = Received("tvl")
      BY <1>1, <1>5, <2>1, <3>4 DEF Received
    <3> QED
      BY <1>1, <1>5, <3>1, <3>3, <3>5
  <2> QED
    BY <2>2, <2>3
<1> QED
  BY <1>12, <1>13, <1>14 DEF ClientOk

\* A client that begins has nothing.
LEMMA FreshOk ==
    ASSUME Inv, client' = Fresh, UNCHANGED vars
    PROVE  ClientOk'
<1>1. /\ client'.rows = [l \in List |-> <<>>] /\ client'.finished = {}
      /\ client'.since = [l \in List |-> {}]
      /\ client' \in [rows : [List -> Seq(Block)], finished : SUBSET List,
                      since : [List -> SUBSET Block]]
  BY DEF Fresh
<1>2. ASSUME NEW list \in List
      PROVE  ListOk(Table(list)', client'.rows[list], client'.since[list],
                    list \in client'.finished)
  <2>1. Table(list)' = Table(list)
    BY DEF vars, tableVars, Table
  <2>2. Table(list) \in Seq(Block)
    BY TablesOfBlocks
  <2>3. Range(<<>>) = {} /\ Len(<<>>) = 0 /\ <<>> \in Seq(Block)
    BY DEF Range
  <2>4. ListOk(Table(list), <<>>, {}, FALSE)
    BY <2>2, <2>3 DEF ListOk
  <2>5. client'.rows[list] = <<>> /\ client'.since[list] = {} /\ list \notin client'.finished
    BY <1>1
  <2> QED
    BY <2>1, <2>4, <2>5 DEF ListOk
<1>3. ~Begun("apy")'
  BY <1>1 DEF Begun, List
<1> QED
  BY <1>1, <1>2, <1>3 DEF ClientOk

\* The client's invariant, and the indexer's, hold throughout.
LEMMA AlwaysPagesInv == PagesSpec => []PagesInv
<1>1. PagesInit => PagesInv
  <2> SUFFICES ASSUME PagesInit PROVE PagesInv
    OBVIOUS
  <2>1. Inv
    BY InitInv DEF PagesInit
  <2>2. /\ client.rows = [l \in List |-> <<>>] /\ client.finished = {}
        /\ client.since = [l \in List |-> {}]
        /\ client \in [rows : [List -> Seq(Block)], finished : SUBSET List,
                       since : [List -> SUBSET Block]]
    BY DEF PagesInit, Fresh
  <2>3. Range(<<>>) = {} /\ Len(<<>>) = 0 /\ <<>> \in Seq(Block)
    BY DEF Range
  <2>4. tvlRows = <<>> /\ tvcRows = <<>> /\ apyRows = <<>>
    BY DEF PagesInit, Init
  <2>5. \A list \in List : Table(list) = <<>>
    BY <2>4 DEF Table, Blocks, List
  <2>6. ListOk(<<>>, <<>>, {}, FALSE)
    BY <2>3 DEF ListOk
  <2>7. ~Begun("apy")
    BY <2>2 DEF Begun, List
  <2>8. ASSUME NEW list \in List
        PROVE  ListOk(Table(list), client.rows[list], client.since[list],
                      list \in client.finished)
    <3>1. client.rows[list] = <<>> /\ client.since[list] = {} /\ list \notin client.finished
      BY <2>2
    <3> QED
      BY <2>5, <2>6, <3>1 DEF ListOk
  <2> QED
    BY <2>1, <2>2, <2>7, <2>8 DEF PagesInv, ClientOk
<1>2. PagesInv /\ [PagesNext]_pagesVars => PagesInv'
  <2> SUFFICES ASSUME PagesInv, [PagesNext]_pagesVars PROVE PagesInv'
    OBVIOUS
  <2>1. [Next]_vars
    BY DEF PagesNext, pagesVars, AskPage, AskAgain
  <2>2. Inv /\ Inv'
    BY <2>1, NextInv DEF PagesInv
  <2>3. ASSUME UNCHANGED client PROVE ClientOk'
    BY <2>1, <2>2, <2>3, IndexerKeeps
  <2>4. ASSUME NEW list \in List, AskPage(list) PROVE ClientOk'
    BY <2>4, AskKeeps
  <2>5. ASSUME AskAgain PROVE ClientOk'
    BY <2>2, <2>5, FreshOk DEF AskAgain
  <2>6. ClientOk'
    BY <2>3, <2>4, <2>5 DEF PagesNext, pagesVars
  <2> QED
    BY <2>2, <2>6 DEF PagesInv
<1> QED
  BY <1>1, <1>2, PTL DEF PagesSpec

\* Whatever is committed between two pages, a client misses none of the rows that
\* were there when it began, for every length of a list and every size of pages
\* (views/stats.py:15, models/stats_tvl.py:37).
THEOREM PagesHold == PagesSpec => []PagesMissNothing
<1>1. PagesInv => PagesMissNothing
  BY DEF PagesInv, ClientOk, ListOk, Received, PagesMissNothing
<1> QED
  BY <1>1, AlwaysPagesInv, PTL

\* A client that reads the TVLs and then the APYs has an APY for each period it has
\* a TVL of (views/stats.py:69-72, indexer.py:91-104).
THEOREM TvlAndApyHold == PagesSpec => []TvlRowsHaveApy
<1>1. PagesInv => TvlRowsHaveApy
  <2> SUFFICES ASSUME PagesInv, "apy" \in client.finished
               PROVE  Received("tvl") \subseteq Received("apy")
    BY DEF TvlRowsHaveApy
  <2>1. "apy" \in List
    BY DEF List
  <2>2. Received("tvl") \subseteq client.since["apy"]
    BY DEF PagesInv, ClientOk, Begun
  <2>3. client.since["apy"] \subseteq Received("apy")
    BY <2>1 DEF PagesInv, ClientOk, ListOk, Received
  <2> QED
    BY <2>2, <2>3
<1> QED
  BY <1>1, AlwaysPagesInv, PTL
=============================================================================
