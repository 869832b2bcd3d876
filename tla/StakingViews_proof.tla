------------------------- MODULE StakingViews_proof -------------------------
(***************************************************************************)
(* Proofs about StakingViews: whatever is committed between the statements *)
(* of a request, its answer is what the contract says at one block.        *)
(***************************************************************************)
EXTENDS StakingViews, StakingLedger_proof, SequenceTheorems

-----------------------------------------------------------------------------
(* Multiples.                                                              *)

\* A multiple is at least once the divisor.
LEMMA MultipleAtLeast ==
    ASSUME NEW d \in Nat \ {0}, NEW x \in Nat \ {0}, x % d = 0
    PROVE  d <= x
<1> DEFINE q == x \div d
<1>1. q \in Int /\ x = d * q
  <2>1. q \in Int /\ x % d \in 0 .. d - 1 /\ x = d * q + (x % d)
    OBVIOUS
  <2> QED
    BY <2>1
<1> HIDE DEF q
<1>2. q >= 1
  <2> SUFFICES ASSUME q <= 0 PROVE FALSE
    BY <1>1
  <2>1. -q \in Nat /\ d * (-q) >= 0 /\ d * (-q) = -(d * q) /\ d * q \in Int
    BY <1>1
  <2> QED
    BY <1>1, <2>1
<1>3. q - 1 \in Nat /\ d * (q - 1) >= 0 /\ d * (q - 1) = d * q - d /\ d * q \in Int
  BY <1>1, <1>2
<1> QED
  BY <1>1, <1>3

\* Counting from a multiple finds the same multiples.
LEMMA MultipleFrom ==
    ASSUME NEW d \in Nat \ {0}, NEW x \in Nat, x % d = 0, NEW y \in Nat, x <= y
    PROVE  (y - x) % d = 0 <=> y % d = 0
<1> DEFINE q == x \div d
           p == y \div d
           r == y % d
<1>1. q \in Int /\ x = d * q
  <2>1. q \in Int /\ x % d \in 0 .. d - 1 /\ x = d * q + (x % d)
    OBVIOUS
  <2> QED
    BY <2>1
<1>2. p \in Int /\ r \in 0 .. d - 1 /\ y = d * p + r
  OBVIOUS
<1> HIDE DEF q, p, r
<1>3. p - q \in Int /\ d * (p - q) = d * p - d * q /\ d * p \in Int /\ d * q \in Int
  BY <1>1, <1>2
<1>4. y - x = d * (p - q) + r /\ y - x \in Int
  BY <1>1, <1>2, <1>3
<1> DEFINE z == y - x
           k == p - q
<1> HIDE DEF z, k
<1>5. z = d * k + r /\ k \in Int /\ r \in 0 .. d - 1 /\ z \in Int
  BY <1>2, <1>3, <1>4 DEF z, k
<1>6. z % d = r
  BY <1>5
<1> QED
  BY <1>6 DEF z, r

-----------------------------------------------------------------------------
(* The interval functions of a range, and the height.                      *)

ResetCall(b) == [event |-> [kind |-> "interval"], block |-> b]

\* The interval functions that are left are those due after the last run; when
\* all have run, the next is due at the end of the range or later.  So none is
\* due before the last range's end, and no height is beyond the range.
ResetsOk ==
    /\ metaBlock <= End
    /\ rangeEnd = 0 => lastBlock - 1 <= lastRun + Interval
    /\ rangeEnd # 0 => \A b \in Nat : ResetCall(b) \in calls <=> b \in DueResets(rangeEnd)
    /\ \A c \in calls : /\ lastBlock - 1 <= c.block
                        /\ c.event.kind = "interval" => c = ResetCall(c.block)

\* The resets due before a block: the multiples of the interval past the last run, below the block.
LEMMA DueIs ==
    ASSUME Inv, NEW end \in Nat, NEW b
    PROVE  /\ b \in DueResets(end) <=> b \in lastRun + 1 .. end - 1 /\ (b - lastRun) % Interval = 0
           /\ b \in DueResets(end) => b \in Nat /\ lastRun + Interval <= b /\ b < end
           /\ lastRun \in Nat /\ Interval \in Nat \ {0}
<1>1. lastRun \in Nat /\ Interval \in Nat \ {0}
  BY LedgerAssumption DEF Inv, DbOk, Height
<1>2. b \in DueResets(end) <=> b \in lastRun + 1 .. end - 1 /\ (b - lastRun) % Interval = 0
  BY DEF DueResets
<1>3. ASSUME b \in DueResets(end) PROVE b \in Nat /\ lastRun + Interval <= b /\ b < end
  <2>1. b \in lastRun + 1 .. end - 1 /\ (b - lastRun) % Interval = 0
    BY <1>2, <1>3
  <2>2. b - lastRun \in Nat \ {0} /\ b \in Nat /\ b < end
    BY <1>1, <2>1
  <2>3. Interval <= b - lastRun
    BY <1>1, <2>1, <2>2, MultipleAtLeast
  <2> QED
    BY <1>1, <2>2, <2>3
<1> QED
  BY <1>1, <1>2, <1>3

\* A period after the last run, the interval function is due.
LEMMA NextDue ==
    ASSUME Inv, NEW end \in Nat, lastRun + Interval < end
    PROVE  lastRun + Interval \in DueResets(end) /\ lastRun + Interval \in Nat
<1>1. lastRun \in Nat /\ Interval \in Nat \ {0}
  BY LedgerAssumption DEF Inv, DbOk, Height
<1>2. (lastRun + Interval) - lastRun = Interval /\ Interval % Interval = 0
  <2>1. ASSUME NEW d \in Nat \ {0} PROVE d % d = 0
    <3>1. d = d * 1 + 0
      BY <2>1
    <3> QED
      BY <3>1
  <2> QED
    BY <1>1, <2>1
<1> QED
  BY <1>1, <1>2 DEF DueResets

\* Taking a range queues the resets that are due before its end.
LEMMA TakeRangeResets ==
    ASSUME Inv, ResetsOk, NEW end \in Block, TakeRange(end)
    PROVE  ResetsOk'
<1>1. /\ rangeEnd = 0 /\ rangeEnd' = end /\ calls' = RangeCalls(lastBlock, end)
      /\ lastBlock <= end /\ end <= head /\ end \in Nat \ {0}
      /\ UNCHANGED <<metaBlock, lastRun, lastBlock>>
      /\ lastBlock \in Nat \ {0} /\ head \in Nat
  BY RangeBounds DEF TakeRange, dbVars, Block
<1>2. metaBlock' <= End'
  <2>1. metaBlock <= lastBlock - 1 /\ metaBlock \in Nat
    BY <1>1 DEF ResetsOk, End, Inv, DbOk, Height
  <2> QED
    BY <1>1, <2>1 DEF End
<1>3. \A b \in DueResets(end) : b \in Nat /\ lastRun + Interval <= b
  BY <1>1, DueIs
<1>4. \A b \in lastBlock..end : b \in 1..head /\ events[b].kind # "interval"
  BY <1>1, EventCall
<1>5. ASSUME NEW b \in Nat PROVE ResetCall(b) \in calls' <=> b \in DueResets(rangeEnd)'
  <2>1. ASSUME ResetCall(b) \in calls' PROVE b \in DueResets(end)
    <3>1. \/ \E k \in lastBlock..end : ResetCall(b) = [event |-> events[k], block |-> k]
          \/ \E k \in DueResets(end) : ResetCall(b) = [event |-> [kind |-> "interval"], block |-> k]
      BY <1>1, <2>1 DEF RangeCalls
    <3>2. ResetCall(b).event.kind = "interval" /\ ResetCall(b).block = b
      BY DEF ResetCall
    <3> QED
      BY <1>4, <3>1, <3>2
  <2>2. b \in DueResets(end) => ResetCall(b) \in calls'
    BY <1>1 DEF RangeCalls, ResetCall
  <2>3. DueResets(rangeEnd)' = DueResets(end)
    BY <1>1 DEF DueResets
  <2> QED
    BY <2>1, <2>2, <2>3
<1>6. ASSUME NEW c \in calls'
      PROVE  lastBlock - 1 <= c.block /\ (c.event.kind = "interval" => c = ResetCall(c.block))
  <2>1. CASE \E k \in lastBlock..end : c = [event |-> events[k], block |-> k]
    BY <1>1, <1>4, <2>1
  <2>2. CASE \E k \in DueResets(end) : c = ResetCall(k)
    <3>1. PICK k \in DueResets(end) : c = ResetCall(k)
      BY <2>2
    <3>2. c.block = k
      BY <3>1 DEF ResetCall
    <3>3. lastBlock - 1 <= lastRun + Interval /\ lastRun \in Nat /\ Interval \in Nat
      BY <1>1, DueIs DEF ResetsOk
    <3> QED
      BY <1>1, <1>3, <3>1, <3>2, <3>3
  <2> QED
    BY <1>1, <1>6, <2>1, <2>2 DEF RangeCalls, ResetCall
<1> QED
  BY <1>1, <1>2, <1>5, <1>6 DEF ResetsOk

\* When a range is committed, no reset before its end is due any more.
LEMMA CommitRangeResets ==
    ASSUME Inv, ResetsOk, CommitRange
    PROVE  ResetsOk'
<1>1. /\ calls = {} /\ calls' = {} /\ rangeEnd # 0 /\ rangeEnd' = 0 /\ rangeEnd \in Nat
      /\ End = rangeEnd /\ lastBlock' = rangeEnd + 1 /\ UNCHANGED <<metaBlock, lastRun>>
  BY RangeBounds DEF CommitRange
<1>2. End' = End
  BY <1>1 DEF End
<1>3. lastRun \in Nat /\ Interval \in Nat
  BY <1>1, DueIs
<1>4. rangeEnd <= lastRun + Interval
  <2> SUFFICES ASSUME lastRun + Interval < rangeEnd PROVE FALSE
    BY <1>1, <1>3
  <2>1. lastRun + Interval \in DueResets(rangeEnd) /\ lastRun + Interval \in Nat
    BY <1>1, NextDue
  <2> QED
    BY <1>1, <2>1 DEF ResetsOk
<1> QED
  BY <1>1, <1>2, <1>4 DEF ResetsOk

\* An event's handler moves the height to its block, at most.
LEMMA EventResets ==
    ASSUME Inv, ResetsOk, NEW c \in calls, First(c), Return(c), c.event.kind # "interval",
           lastRun' = lastRun, metaBlock' \in {metaBlock, c.block}
    PROVE  ResetsOk'
<1>1. End' = End /\ UNCHANGED <<lastBlock, rangeEnd>> /\ calls' = calls \ {c}
  BY FirstHandled DEF Return
<1>2. metaBlock' <= End'
  BY <1>1, CallFacts, RangeBounds DEF ResetsOk
<1>3. \A b : ResetCall(b) # c
  BY DEF ResetCall
<1>4. DueResets(rangeEnd)' = DueResets(rangeEnd)
  BY <1>1 DEF DueResets
<1> QED
  BY <1>1, <1>2, <1>3, <1>4 DEF ResetsOk

\* A reset that ran is no longer due, and the later ones still are.
LEMMA IntervalResets ==
    ASSUME Inv, ResetsOk, NEW c \in calls, IntervalReset(c)
    PROVE  ResetsOk'
<1> DEFINE n == c.block
<1>1. First(c) /\ Return(c) /\ c.event.kind = "interval" /\ lastRun' = n /\ metaBlock' = n
  BY DEF IntervalReset, Handles, Reset
<1>2. End' = End /\ UNCHANGED <<lastBlock, rangeEnd>> /\ calls' = calls \ {c}
  BY <1>1, FirstHandled DEF Return
<1>3. n \in 1..End /\ End \in Nat /\ rangeEnd \in Nat /\ rangeEnd # 0 /\ Rank(c) = 4
  BY <1>1, CallFacts, RangeBounds, Ranks
<1>4. c = ResetCall(n) /\ n \in DueResets(rangeEnd)
  BY <1>1, <1>3 DEF ResetsOk
<1>5. /\ lastRun \in Nat /\ Interval \in Nat \ {0}
      /\ n - lastRun \in Nat /\ (n - lastRun) % Interval = 0
  BY <1>3, <1>4, DueIs
<1>6. ASSUME NEW b \in Nat, n <= b
      PROVE  (b - n) % Interval = 0 <=> (b - lastRun) % Interval = 0
  <2>1. n \in Nat /\ lastRun \in Nat /\ lastRun <= n
    BY <1>3, <1>5
  <2> HIDE DEF n
  <2>2. b - lastRun \in Nat /\ n - lastRun <= b - lastRun /\ (b - lastRun) - (n - lastRun) = b - n
    BY <1>6, <2>1
  <2> QED
    BY <1>5, <2>2, MultipleFrom
<1>7. ASSUME NEW b \in Nat PROVE ResetCall(b) \in calls' <=> b \in DueResets(rangeEnd)'
  <2>1. ResetCall(b) = c <=> b = n
    <3>1. ResetCall(b).block = b
      BY DEF ResetCall
    <3> QED
      BY <1>4, <3>1
  <2>2. ResetCall(b) \in calls' <=> b \in DueResets(rangeEnd) /\ b # n
    BY <1>2, <1>3, <2>1 DEF ResetsOk
  <2>3. b \in DueResets(rangeEnd)' <=> b \in n + 1 .. rangeEnd - 1 /\ (b - n) % Interval = 0
    BY <1>1, <1>2 DEF DueResets
  <2>4. ASSUME b \in DueResets(rangeEnd), b # n PROVE n < b
    <3>1. ResetCall(b) \in calls \ {c}
      BY <1>3, <2>1, <2>4 DEF ResetsOk
    <3>2. Rank(ResetCall(b)) = 4 /\ ResetCall(b).block = b
      BY Ranks DEF ResetCall
    <3> QED
      BY <1>1, <1>3, <3>1, <3>2 DEF First
  <2>5. b \in DueResets(rangeEnd) <=> b \in lastRun + 1 .. rangeEnd - 1 /\ (b - lastRun) % Interval = 0
    BY <1>3, DueIs
  <2> QED
    BY <1>3, <1>5, <1>6, <2>2, <2>3, <2>4, <2>5
<1> QED
  BY <1>1, <1>2, <1>3, <1>7 DEF ResetsOk

\* Every step of the ledger keeps which resets are left and how far the height is.
LEMMA NextResets ==
    ASSUME Inv, ResetsOk, [Next]_vars
    PROVE  ResetsOk'
<1>1. CASE UNCHANGED <<metaBlock, lastBlock, lastRun, rangeEnd, calls>>
  <2>1. End' = End /\ DueResets(rangeEnd)' = DueResets(rangeEnd)
    BY <1>1 DEF End, DueResets
  <2> QED
    BY <1>1, <2>1 DEF ResetsOk
<1>2. CASE Contract
  <2>1. UNCHANGED <<dbVars, rangeVars>>
    BY <1>2 DEF Contract, EmptyBlock, Burn, Transfer, Restake, ArbRestake, Mint, Mined
  <2> QED
    BY <1>1, <2>1 DEF dbVars, rangeVars
<1>3. ASSUME NEW end \in Block, TakeRange(end) PROVE ResetsOk'
  BY <1>3, TakeRangeResets
<1>4. ASSUME NEW c \in calls, HandleMint(c) \/ HandleTransfer(c) \/ HandleBurn(c) \/ HandleRestaked(c)
      PROVE  ResetsOk'
  <2>1. First(c) /\ Return(c) /\ c.event.kind # "interval" /\ lastRun' = lastRun
    BY <1>4 DEF HandleMint, HandleTransfer, HandleBurn, HandleRestaked, Handles
  <2>2. metaBlock' \in {metaBlock, c.block}
    BY <1>4 DEF HandleMint, HandleTransfer, HandleBurn, HandleRestaked, Reset
  <2> QED
    BY <2>1, <2>2, EventResets
<1>5. ASSUME NEW c \in calls, IntervalReset(c) PROVE ResetsOk'
  BY <1>5, IntervalResets
<1>6. CASE CommitRange
  BY <1>6, CommitRangeResets
<1>7. CASE UNCHANGED vars
  BY <1>1, <1>7 DEF vars, dbVars, rangeVars
<1> QED
  BY <1>2, <1>3, <1>4, <1>5, <1>6, <1>7 DEF Next, Indexer

-----------------------------------------------------------------------------
(* The time of the values.                                                 *)

\* The time is not later than the height, even where the height moves back: a
\* time within the range means that a row was there then, and until the rows
\* are brought up to date again one stays: burns are over, or the row is one
\* minted in this range, which cannot be burned in it.
StampOk ==
    ~anchorMissing =>
        /\ lastTime <= metaBlock
        /\ lastTime >= lastBlock =>
              \/ Rows # {} /\ \A c \in calls : Rank(c) > 1
              \/ \E id \in Rows : \E k \in lastBlock..End : Is({"mint"}, id, k)
        /\ lastTime = metaBlock \/ \A id \in Rows : ~At(metaBlock - 1)[id].exists

\* What reset_balance_factor does to the time and the height: it calculates for
\* rows that were there, or there was no row, or no time has passed.
LEMMA ResetStamp ==
    ASSUME Inv, ResetsOk, StampOk, NEW c \in calls, NEW f, Reset(c.block, f), ~anchorMissing'
    PROVE  /\ ~anchorMissing /\ metaBlock' = c.block
           /\ \/ lastTime' = c.block /\ Rows # {}
              \/ /\ lastTime' = lastTime /\ lastTime <= c.block
                 /\ Rows = {} \/ metaBlock = c.block
<1> DEFINE b == c.block
<1>1. ~anchorMissing /\ metaBlock' = b /\ lastTime' = (IF Computes(b) THEN b ELSE lastTime)
  BY DEF Reset, TimeAfterReset
<1>2. /\ b \in Nat /\ b # 0 /\ lastBlock - 1 <= b /\ lastBlock \in Nat
      /\ lastTime \in Nat /\ metaBlock \in Nat
  BY CallFacts, RangeBounds DEF ResetsOk, Inv, DbOk, Height
<1>3. lastTime <= metaBlock
  BY <1>1 DEF StampOk
<1>4. CASE Computes(b)
  <2>1. Rows # {}
    BY <1>4 DEF Computes, Anchors, Candidates
  <2> QED
    BY <1>1, <1>4, <2>1
<1>5. CASE ~Computes(b) /\ metaBlock \in {0, b}
  <2>1. metaBlock = 0 => Rows = {}
    BY DEF Inv, DbOk, Rows
  <2> QED
    BY <1>1, <1>2, <1>3, <1>5, <2>1
<1>6. CASE ~Computes(b) /\ metaBlock \notin {0, b}
  <2>1. Rows = {}
    BY <1>6 DEF Computes, Reset
  <2>2. ~(lastTime >= lastBlock)
    BY <1>1, <2>1 DEF StampOk
  <2> QED
    BY <1>1, <1>2, <1>6, <2>1, <2>2
<1> QED
  BY <1>4, <1>5, <1>6

\* What the other side of a step leaves alone.
LEMMA StampStays ==
    ASSUME Inv, ResetsOk, StampOk, UNCHANGED <<positions, metaBlock, lastTime, lastBlock, anchorMissing>>,
           \A b \in 0..head : At(b)' = At(b),
           \/ UNCHANGED <<calls, rangeEnd>> /\ \A id : \A k \in 1..head : Is({"mint"}, id, k)' = Is({"mint"}, id, k)
           \/ rangeEnd = 0
    PROVE  StampOk'
<1> SUFFICES ASSUME ~anchorMissing' PROVE StampOk'
  BY DEF StampOk
<1>1. Rows' = Rows /\ UNCHANGED <<metaBlock, lastTime, lastBlock>> /\ ~anchorMissing
  BY DEF Rows
<1>2. lastTime <= metaBlock
  BY <1>1 DEF StampOk
<1>3. /\ metaBlock \in Nat /\ metaBlock <= End /\ End \in Nat /\ End <= head /\ head \in Nat
      /\ lastBlock \in Nat /\ lastTime \in Nat
  BY RangeBounds DEF Inv, DbOk, Height, ResetsOk
<1>4. lastTime = metaBlock \/ \A id \in Rows : ~At(metaBlock - 1)'[id].exists
  <2>1. CASE metaBlock = 0
    BY <2>1 DEF Inv, DbOk, Rows
  <2>2. CASE metaBlock # 0
    <3>1. metaBlock - 1 \in 0..head
      BY <1>3, <2>2
    <3>2. At(metaBlock - 1)' = At(metaBlock - 1)
      BY <1>1, <3>1
    <3> QED
      BY <1>1, <3>2 DEF StampOk
  <2> QED
    BY <2>1, <2>2
<1>5. CASE rangeEnd = 0
  <2>1. ~(lastTime >= lastBlock)
    BY <1>2, <1>3, <1>5 DEF End
  <2> QED
    BY <1>1, <1>2, <1>4, <2>1 DEF StampOk
<1>6. CASE /\ UNCHANGED <<calls, rangeEnd>>
           /\ \A id : \A k \in 1..head : Is({"mint"}, id, k)' = Is({"mint"}, id, k)
  <2>1. End' = End
    BY <1>1, <1>6 DEF End
  <2>2. \A k \in lastBlock..End : k \in 1..head
    BY RangeBounds
  <2>3. lastTime >= lastBlock =>
              \/ Rows # {} /\ \A c \in calls : Rank(c) > 1
              \/ \E id \in Rows : \E k \in lastBlock..End : Is({"mint"}, id, k)'
    BY <1>1, <1>6, <2>2 DEF StampOk
  <2>4. \A c : Rank(c)' = Rank(c)
    BY DEF Rank
  <2> QED
    BY <1>1, <1>2, <1>4, <1>6, <2>1, <2>3, <2>4 DEF StampOk
<1> QED
  BY <1>5, <1>6

\* A stage after the transfers: the same rows are there, and no burn is left.
LEMMA LaterStamp ==
    ASSUME Inv, ResetsOk, StampOk, NEW c \in calls, First(c), Return(c), Rank(c) > 1,
           NEW f, Reset(c.block, f), Rows' = Rows
    PROVE  StampOk'
<1> SUFFICES ASSUME ~anchorMissing' PROVE StampOk'
  BY DEF StampOk
<1> DEFINE b == c.block
<1>1. /\ UNCHANGED <<book, lastBlock>> /\ End' = End /\ calls' = calls \ {c}
      /\ \A n : At(n)' = At(n)
  BY FirstHandled DEF Return
<1>2. /\ ~anchorMissing /\ metaBlock' = b
      /\ \/ lastTime' = b /\ Rows # {}
         \/ lastTime' = lastTime /\ lastTime <= b /\ (Rows = {} \/ metaBlock = b)
  BY ResetStamp
<1>3. b \in Nat
  BY CallFacts, RangeBounds
<1>4. \A d \in calls' : Rank(d)' > 1
  <2>1. ASSUME NEW d \in calls' PROVE Rank(d)' > 1
    <3>1. d \in calls /\ d # c /\ Rank(d) \in Nat /\ Rank(c) \in Nat
      BY <1>1, <2>1, CallFacts
    <3>2. Rank(c) <= Rank(d)
      BY <3>1, FirstHandled DEF Precedes
    <3> QED
      BY <3>1, <3>2 DEF Rank
  <2> QED
    BY <2>1
<1>5. CASE lastTime' = b /\ Rows # {}
  BY <1>2, <1>3, <1>4, <1>5 DEF StampOk
<1>6. CASE lastTime' = lastTime /\ lastTime <= b /\ Rows = {}
  <2>1. ~(lastTime >= lastBlock)
    BY <1>2, <1>6 DEF StampOk
  <2> QED
    BY <1>1, <1>2, <1>6, <2>1 DEF StampOk
<1>7. CASE lastTime' = lastTime /\ lastTime <= b /\ metaBlock = b
  <2>2. lastTime >= lastBlock => Rows # {}
    BY <1>2, <1>7 DEF StampOk
  <2>3. metaBlock' = metaBlock
    BY <1>2, <1>7
  <2>4. lastTime' = metaBlock' \/ \A id \in Rows' : ~At(metaBlock - 1)[id].exists
    BY <1>1, <1>2, <1>7 DEF StampOk
  <2>5. At(metaBlock - 1)' = At(metaBlock - 1)
    BY <1>1, <2>3 DEF At
  <2> QED
    BY <1>1, <1>2, <1>4, <1>7, <2>2, <2>3, <2>4, <2>5 DEF StampOk
<1> QED
  BY <1>2, <1>5, <1>6, <1>7

\* The handler of a mint keeps what is said of the time and the height: its row is of its own block.
LEMMA MintStamp ==
    ASSUME Inv, ResetsOk, StampOk, NEW c \in calls, HandleMint(c)
    PROVE  StampOk'
<1> SUFFICES ASSUME ~anchorMissing' PROVE StampOk'
  BY DEF StampOk
<1> DEFINE b == c.block
           t == c.event.id
<1>1. /\ First(c) /\ Return(c) /\ c.event.kind = "mint" /\ c.event.kind # "interval"
  BY DEF HandleMint, Handles
<1>2. PICK f \in FactorsAfter(b) :
         /\ Reset(b, f)
         /\ positions' = [Scaled(f) EXCEPT ![t] =
                     [exists |-> TRUE, owner |-> c.event.to, usdc |-> Balance(t, b),
                      lockupEnd |-> book[b][t].lockupEnd, restakeCount |-> 0]]
  BY DEF HandleMint
<1>3. /\ UNCHANGED <<book, lastBlock>> /\ End' = End /\ calls' = calls \ {c}
      /\ \A n : At(n)' = At(n)
      /\ \A kinds, id, n : Is(kinds, id, n)' = Is(kinds, id, n)
  BY <1>1, FirstHandled DEF Return
<1>4. /\ ~anchorMissing /\ metaBlock' = b
      /\ \/ lastTime' = b /\ Rows # {}
         \/ lastTime' = lastTime /\ lastTime <= b /\ (Rows = {} \/ metaBlock = b)
  BY <1>2, ResetStamp
<1>5. b \in Nat /\ b \in lastBlock..End /\ b \in 1..head /\ t \in Id /\ Is({"mint"}, t, b) /\ head \in Nat
  BY <1>1, EventHandled, RangeBounds
<1>6. Rows' = Rows \cup {t}
  <2>1. f \in Int
    BY <1>2, FactorTyped
  <2>2. \A id \in Id : Scaled(f)[id].exists <=> positions[id].exists
    BY <2>1, ScaledRows
  <2>3. Scaled(f) \in [Id -> {NoRow} \cup Row]
    BY <2>1, ScaledRows
  <2>4. \A id \in Id : positions'[id].exists <=> positions[id].exists \/ id = t
    BY <1>2, <1>5, <2>2, <2>3
  <2> QED
    BY <1>5, <2>4 DEF Rows
<1>7. ~At(b - 1)[t].exists
  <2>1. Told(t, b) /\ b - 1 \in 0 .. b - 1
    BY <1>5 DEF Inv, ChainOk
  <2> QED
    BY <1>5, <2>1 DEF Told
<1>8. \E id \in Rows' : \E k \in lastBlock..End : Is({"mint"}, id, k)'
  BY <1>3, <1>5, <1>6
<1>9. lastTime' <= metaBlock'
  BY <1>4, <1>5
<1>10. lastTime' = metaBlock' \/ \A id \in Rows' : ~At(b - 1)[id].exists
  BY <1>4, <1>6, <1>7 DEF StampOk
<1>11. At(metaBlock - 1)' = At(b - 1)
  BY <1>3, <1>4 DEF At
<1> QED
  BY <1>3, <1>8, <1>9, <1>10, <1>11 DEF StampOk

\* A position that is minted in the range is not burned in it.
LEMMA NotBurned ==
    ASSUME Inv, rangeEnd # 0, NEW id \in Id, NEW j \in lastBlock..End, NEW k \in lastBlock..End,
           Is({"mint"}, id, j)
    PROVE  ~Is({"burn"}, id, k)
<1> SUFFICES ASSUME Is({"burn"}, id, k) PROVE FALSE
  OBVIOUS
<1>1. j \in 1..head /\ k \in 1..head /\ k - j <= MaxRange /\ head \in Nat
  BY RangeBounds
<1>2. CASE j < k
  <2>1. k \in j + 1 .. head
    BY <1>1, <1>2
  <2>2. Is({"mint", "restaked", "arb_restaked"}, id, j) /\ Is({"burn", "restaked", "arb_restaked"}, id, k)
    BY DEF Is
  <2> QED
    BY <1>1, <2>1, <2>2, OnceInRange DEF Inv
<1>3. CASE k < j
  <2>1. Told(id, j) /\ Told(id, k)
    BY <1>1 DEF Inv, ChainOk
  <2>2. Is({"transfer", "burn", "restaked", "arb_restaked"}, id, k)
    BY DEF Is
  <2>3. At(k - 1)[id].exists /\ k - 1 \in 0 .. j - 1
    BY <1>1, <1>3, <2>1, <2>2 DEF Told
  <2> QED
    BY <2>1, <2>3 DEF Told
<1>4. CASE j = k
  BY <1>4 DEF Is
<1> QED
  BY <1>1, <1>2, <1>3, <1>4

\* The handler of a burn moves neither the time nor the height, and takes one row away.
LEMMA BurnStamp ==
    ASSUME Inv, ResetsOk, StampOk, NEW c \in calls, HandleBurn(c)
    PROVE  StampOk'
<1> SUFFICES ASSUME ~anchorMissing' PROVE StampOk'
  BY DEF StampOk
<1> DEFINE t == c.event.id
<1>1. /\ First(c) /\ Return(c) /\ c.event.kind = "burn" /\ c.event.kind # "interval"
      /\ positions' = [positions EXCEPT ![t] = NoRow]
      /\ UNCHANGED <<metaBlock, lastTime, anchorMissing>> /\ ~anchorMissing
  BY DEF HandleBurn, Handles, historyVars
<1>2. /\ UNCHANGED <<book, lastBlock>> /\ End' = End
      /\ \A n : At(n)' = At(n)
      /\ \A kinds, id, n : Is(kinds, id, n)' = Is(kinds, id, n)
  BY <1>1, FirstHandled
<1>3. c.block \in lastBlock..End /\ t \in Id /\ Is({"burn"}, t, c.block) /\ rangeEnd # 0
  BY <1>1, EventHandled, CallFacts
<1>4. Rank(c) = 1
  BY <1>1, Ranks
<1>5. Rows' = Rows \ {t}
  <2>1. positions \in [Id -> {NoRow} \cup Row] /\ ~NoRow.exists
    BY DEF Inv, DbOk, NoRow
  <2>2. \A id \in Id : positions'[id].exists <=> positions[id].exists /\ id # t
    BY <1>1, <1>3, <2>1
  <2> QED
    BY <2>2 DEF Rows
<1>6. lastTime >= lastBlock => \E id \in Rows' : \E k \in lastBlock..End : Is({"mint"}, id, k)
  <2> SUFFICES ASSUME lastTime >= lastBlock
               PROVE  \E id \in Rows' : \E k \in lastBlock..End : Is({"mint"}, id, k)
    OBVIOUS
  <2>1. PICK id \in Rows : \E k \in lastBlock..End : Is({"mint"}, id, k)
    BY <1>1, <1>4 DEF StampOk
  <2>2. id \in Id /\ id # t
    BY <1>3, <2>1, NotBurned DEF Rows
  <2> QED
    BY <1>5, <2>1, <2>2
<1>7. At(metaBlock - 1)' = At(metaBlock - 1)
  BY <1>1, <1>2 DEF At
<1> QED
  BY <1>1, <1>2, <1>5, <1>6, <1>7 DEF StampOk

\* The handler of a transfer moves neither the time nor the height, and changes no balance.
LEMMA TransferStamp ==
    ASSUME Inv, ResetsOk, StampOk, NEW c \in calls, HandleTransfer(c)
    PROVE  StampOk'
<1> DEFINE t == c.event.id
<1>1. /\ First(c) /\ Return(c) /\ c.event.kind = "transfer" /\ c.event.kind # "interval"
      /\ positions' = [positions EXCEPT ![t].owner = c.event.to]
      /\ UNCHANGED <<metaBlock, lastTime, anchorMissing>>
  BY DEF HandleTransfer, Handles, historyVars
<1>2. /\ UNCHANGED <<book, lastBlock>> /\ End' = End /\ calls' = calls \ {c}
      /\ \A kinds, id, n : Is(kinds, id, n)' = Is(kinds, id, n)
  BY <1>1, FirstHandled DEF Return
<1>3. t \in Id /\ Is({"transfer"}, t, c.block) /\ c.block \in lastBlock..End /\ Told(t, c.block)
  BY <1>1, EventHandled DEF Inv, ChainOk
<1>4. Rows' = Rows
  <2>1. positions \in [Id -> {NoRow} \cup Row]
    BY DEF Inv, DbOk
  <2>2. ASSUME NEW id \in Id PROVE positions'[id].exists <=> positions[id].exists
    <3>1. CASE id = t /\ positions[id] \in Row
      BY <1>1, <2>1, <3>1 DEF Row
    <3>2. CASE id = t /\ positions[id] = NoRow
      <4>1. positions'[id] = [NoRow EXCEPT !.owner = c.event.to]
        BY <1>1, <2>1, <3>2
      <4> QED
        BY <3>2, <4>1 DEF NoRow
    <3>3. CASE id # t
      BY <1>1, <2>1, <3>3
    <3> QED
      BY <2>1, <3>1, <3>2, <3>3
  <2> QED
    BY <2>2 DEF Rows
<1>5. At(metaBlock - 1)' = At(metaBlock - 1)
  BY <1>1, <1>2 DEF At
<1>6. \A d \in calls' : d \in calls /\ Rank(d)' = Rank(d)
  BY <1>2 DEF Rank
<1> QED
  BY <1>1, <1>2, <1>4, <1>5, <1>6 DEF StampOk

\* Committing a range moves neither the time nor the height, and changes no row.
LEMMA CommitRangeStamp ==
    ASSUME Inv, ResetsOk, StampOk, CommitRange
    PROVE  StampOk'
<1>1. /\ rangeEnd # 0 /\ lastBlock' = End + 1
      /\ UNCHANGED <<book, positions, metaBlock, lastTime, anchorMissing>>
  BY DEF CommitRange, End, chainVars, historyVars
<1>2. Rows' = Rows /\ At(metaBlock - 1)' = At(metaBlock - 1)
  BY <1>1 DEF Rows, At
<1>3. metaBlock \in Nat /\ lastTime \in Nat /\ End \in Nat /\ metaBlock <= End
  BY RangeBounds DEF Inv, DbOk, Height, ResetsOk
<1>4. ~anchorMissing => ~(lastTime' >= lastBlock')
  BY <1>1, <1>3 DEF StampOk
<1> QED
  BY <1>1, <1>2, <1>4 DEF StampOk

\* A new block leaves the old ones as they are.
LEMMA Grown ==
    ASSUME Inv, Contract
    PROVE  /\ head' = head + 1 /\ \A b \in 0..head : At(b)' = At(b)
           /\ \A kinds, id : \A b \in 1..head : Is(kinds, id, b)' = Is(kinds, id, b)
           /\ UNCHANGED <<dbVars, rangeVars, historyVars>>
<1>1. PICK e, after : Mined(e, after)
  BY DEF Contract, EmptyBlock, Burn, Transfer, Restake, ArbRestake, Mint
<1>2. /\ events \in Seq(Events) /\ book \in Seq([Id -> {NoRow} \cup ContractRow])
      /\ Len(book) = Len(events)
      /\ events' = Append(events, e) /\ book' = Append(book, after)
      /\ UNCHANGED <<dbVars, rangeVars, historyVars>>
  BY <1>1 DEF Inv, ChainOk, Mined, head
<1>3. /\ Len(events') = Len(events) + 1 /\ \A b \in 1 .. Len(events) : events'[b] = events[b]
      /\ \A b \in 1 .. Len(book) : book'[b] = book[b]
  BY <1>2
<1>4. \A b \in 0..head : At(b)' = At(b)
  BY <1>2, <1>3 DEF At, head
<1> QED
  BY <1>2, <1>3, <1>4 DEF Is, head

\* Every step of the ledger keeps what is said of the time and the height.
LEMMA NextStamp ==
    ASSUME Inv, ResetsOk, StampOk, [Next]_vars
    PROVE  StampOk'
<1>1. CASE Contract
  BY <1>1, Grown, StampStays DEF dbVars, rangeVars, historyVars
<1>2. ASSUME NEW end \in Block, TakeRange(end) PROVE StampOk'
  <2>1. /\ rangeEnd = 0
        /\ UNCHANGED <<events, book, positions, metaBlock, lastTime, lastBlock, anchorMissing>>
    BY <1>2 DEF TakeRange, chainVars, dbVars, historyVars
  <2>2. \A b : At(b)' = At(b)
    BY <2>1 DEF At
  <2> QED
    BY <2>1, <2>2, StampStays
<1>3. ASSUME NEW c \in calls, HandleRestaked(c) PROVE StampOk'
  <2>1. /\ First(c) /\ Return(c) /\ c.event.kind \in {"restaked", "arb_restaked"}
        /\ c.event.kind # "interval"
    BY <1>3 DEF HandleRestaked, Handles
  <2>2. PICK f \in FactorsAfter(c.block) :
          Reset(c.block, f) /\ positions' = Restaked(Scaled(f), c.event.id, c.block)
    BY <1>3 DEF HandleRestaked
  <2>3. /\ Scaled(f) \in [Id -> {NoRow} \cup Row]
        /\ \A id \in Id : Scaled(f)[id].exists <=> positions[id].exists
    BY <2>2, FactorTyped, ScaledRows
  <2>4. c.event.id \in Id
    BY <2>1, EventHandled
  <2>5. Rows' = Rows
    <3>1. ASSUME NEW id \in Id PROVE positions'[id].exists <=> Scaled(f)[id].exists
      <4>1. CASE ~Scaled(f)[c.event.id].exists
        BY <2>2, <4>1 DEF Restaked
      <4>2. CASE Scaled(f)[c.event.id].exists /\ id # c.event.id
        BY <2>2, <2>3, <2>4, <4>2 DEF Restaked
      <4>3. CASE Scaled(f)[c.event.id].exists /\ id = c.event.id
        <5>1. Scaled(f)[id] \in Row
          BY <2>3, <4>3 DEF NoRow
        <5>2. positions'[id].exists = Scaled(f)[id].exists
          BY <2>2, <2>3, <2>4, <4>3, <5>1 DEF Restaked, Row
        <5> QED
          BY <5>2
      <4> QED
        BY <4>1, <4>2, <4>3
    <3> QED
      BY <2>3, <3>1 DEF Rows
  <2>6. Rank(c) > 1
    BY <2>1, Ranks
  <2> QED
    BY <2>1, <2>2, <2>5, <2>6, LaterStamp
<1>4. ASSUME NEW c \in calls, IntervalReset(c) PROVE StampOk'
  <2>1. First(c) /\ Return(c) /\ Rank(c) > 1
    BY <1>4, Ranks DEF IntervalReset, Handles
  <2>2. PICK f \in FactorsAfter(c.block) : Reset(c.block, f) /\ positions' = Scaled(f)
    BY <1>4 DEF IntervalReset
  <2>3. \A id \in Id : Scaled(f)[id].exists <=> positions[id].exists
    BY <2>2, FactorTyped, ScaledRows
  <2>4. Rows' = Rows
    BY <2>2, <2>3 DEF Rows
  <2> QED
    BY <2>1, <2>2, <2>4, LaterStamp
<1>5. ASSUME NEW c \in calls, HandleMint(c) \/ HandleTransfer(c) \/ HandleBurn(c) PROVE StampOk'
  BY <1>5, MintStamp, TransferStamp, BurnStamp
<1>6. CASE CommitRange
  BY <1>6, CommitRangeStamp
<1>7. CASE UNCHANGED vars
  <2>1. UNCHANGED <<events, book, positions, metaBlock, lastTime, lastBlock, anchorMissing,
                    calls, rangeEnd>>
    BY <1>7 DEF vars, chainVars, dbVars, rangeVars, historyVars
  <2>2. \A b : At(b)' = At(b)
    BY <2>1 DEF At
  <2>3. \A kinds, id, b : Is(kinds, id, b)' = Is(kinds, id, b)
    BY <2>1 DEF Is
  <2> QED
    BY <2>1, <2>2, <2>3, StampStays
<1> QED
  BY <1>1, <1>2, <1>3, <1>4, <1>5, <1>6, <1>7 DEF Next, Indexer

-----------------------------------------------------------------------------
(* The request.                                                            *)

Asked(view, since, read) == [view |-> view, since |-> since, read |-> read]

\* The rows are the contract's at a block indexed since the first one, and worth
\* what they were at a height of at least m.
Matched(rows, first, m) ==
    \E b \in first - 1 .. lastBlock - 1 : Matches(rows, 0, b, m)

\* No reset will move the height back behind m.
NotAfter(m) == m \in Nat /\ m <= metaBlock /\ m <= lastBlock - 1

StakingRead ==
    \E since \in 1..lastBlock : \E rows, state :
        /\ Matched(rows, since, 0)
        /\ \/ request = Asked("staking", since, <<rows>>)
           \/ request = Asked("staking", since, <<rows, state>>) /\ state.factor = 0

StatusRead ==
    \E since \in 1..lastBlock : \E state, m, rows :
        /\ state.lastBlock \in 1..lastBlock
        /\ \/ request = Asked("status", since, <<state>>)
           \/ NotAfter(m) /\ request = Asked("status", since, <<state, m>>)
           \/ Matched(rows, state.lastBlock, m) /\ request = Asked("status", since, <<state, m, rows>>)

RequestOk == request = NoRequest \/ StakingRead \/ StatusRead

ViewsInv == Inv /\ ResetsOk /\ StampOk /\ RequestOk

\* A sequence that is one longer, with this last element, is what Append returns.
LEMMA AppendIs ==
    ASSUME NEW S, NEW s \in Seq(S), NEW t \in Seq(S), NEW e \in S,
           Len(t) = Len(s) + 1, t[Len(t)] = e, \A i \in 1..Len(s) : t[i] = s[i]
    PROVE  Append(s, e) = t
<1>1. /\ Append(s, e) \in Seq(S) /\ Len(Append(s, e)) = Len(s) + 1
      /\ Append(s, e)[Len(s) + 1] = e
      /\ \A i \in 1..Len(s) : Append(s, e)[i] = s[i]
  BY AppendProperties
<1>2. Len(s) \in Nat
  OBVIOUS
<1>3. \A i \in 1..Len(t) : Append(s, e)[i] = t[i]
  BY <1>1, <1>2
<1> QED
  BY <1>1, <1>3, SeqEqual

\* The second result appended to the first.
LEMMA SecondResult == ASSUME NEW a, NEW b PROVE Append(<<a>>, b) = <<a, b>>
<1>1. /\ <<a>> \in Seq({a, b}) /\ <<a, b>> \in Seq({a, b}) /\ b \in {a, b}
      /\ Len(<<a, b>>) = Len(<<a>>) + 1 /\ <<a, b>>[Len(<<a, b>>)] = b
      /\ \A i \in 1..Len(<<a>>) : <<a, b>>[i] = <<a>>[i]
  OBVIOUS
<1> QED
  BY <1>1, AppendIs

\* The third result appended to the first two.
LEMMA ThirdResult == ASSUME NEW a, NEW b, NEW c PROVE Append(<<a, b>>, c) = <<a, b, c>>
<1>1. /\ <<a, b>> \in Seq({a, b, c}) /\ <<a, b, c>> \in Seq({a, b, c}) /\ c \in {a, b, c}
      /\ Len(<<a, b, c>>) = Len(<<a, b>>) + 1 /\ <<a, b, c>>[Len(<<a, b, c>>)] = c
      /\ \A i \in 1..Len(<<a, b>>) : <<a, b, c>>[i] = <<a, b>>[i]
  OBVIOUS
<1> QED
  BY <1>1, AppendIs

\* The statements of the views.
LEMMA StatementsAre ==
    /\ DOMAIN Statements = {"staking", "status"}
    /\ Statements["staking"] = <<"positions", "indexer_state">>
    /\ Statements["status"] = <<"indexer_state", "meta", "positions">>
BY DEF Statements

\* What the next statement adds to a request.
LEMMA ReadAppends ==
    ASSUME NEW view, NEW since, NEW read, request = Asked(view, since, read), Read
    PROVE  /\ Len(read) # Len(Statements[view])
           /\ request' = Asked(view, since, Append(read, Result(Statements[view][Len(read) + 1])))
BY DEF Read, Answered, Asked

\* Between ranges the table is the contract's at the last block, worth what it is
\* at the height of the meta table.
LEMMA MatchesNow ==
    ASSUME Inv, ResetsOk, rangeEnd = 0, NEW m \in Nat, m <= metaBlock
    PROVE  Matches(positions, 0, lastBlock - 1, m)
<1>1. /\ End = lastBlock - 1 /\ End \in lastBlock - 1 .. End /\ lastBlock - 1 \in Nat
      /\ End \in 0..head
  BY RangeBounds DEF End
<1>2. \A kinds, id : Seen(kinds, id, End)
  BY <1>1, RangeBounds DEF Seen
<1>3. ASSUME NEW id \in Id
      PROVE  /\ positions[id].exists <=> At(End)[id].exists
             /\ positions[id].exists =>
                   /\ positions[id].owner = At(End)[id].owner
                   /\ ValuesCount => positions[id].usdc = At(End)[id].share + Price[metaBlock]
                   /\ positions[id].usdc \in Int
  <2>1. RowOk(id)
    BY DEF Inv
  <2>2. positions[id].exists <=> At(End)[id].exists
    BY <1>1, <1>2, <2>1 DEF RowOk, ExistsOk
  <2>3. positions[id].exists =>
           /\ positions[id].owner = At(End)[id].owner
           /\ ValuesCount => positions[id].usdc = At(End)[id].share + Price[metaBlock]
    BY <1>1, <1>2, <2>1, <2>2 DEF RowOk, OwnerOk, ValueOk, ValuesCount
  <2> QED
    BY <2>2, <2>3, TableRows
<1>4. \E height \in Block : /\ height >= m
                            /\ \A id \in Id : positions[id].exists => height = metaBlock
  <2>1. metaBlock \in 0..MaxBlock /\ MaxBlock \in Nat \ {0}
    BY RangeBounds DEF Inv, DbOk, Height
  <2>2. CASE metaBlock = 0
    <3>1. 1 \in Block /\ 1 >= m
      BY <2>1, <2>2 DEF Block
    <3> QED
      BY <2>2, <3>1 DEF Inv, DbOk
  <2>3. CASE metaBlock # 0
    <3>1. metaBlock \in Block /\ metaBlock >= m
      BY <2>1, <2>3 DEF Block
    <3> QED
      BY <3>1
  <2> QED
    BY <2>2, <2>3
<1>5. \A id \in Id : positions[id].exists => positions[id].usdc + 0 = positions[id].usdc
  BY <1>3
<1>6. At(End) = IF lastBlock - 1 = 0 THEN [id \in Id |-> NoRow] ELSE book[lastBlock - 1]
  BY <1>1 DEF At
<1> QED
  BY <1>3, <1>4, <1>5, <1>6 DEF Matches

\* What a step of the ledger may do to what a request has read: the book and the
\* last block only grow, and the height does not move back behind the last range.
LEMMA Growth ==
    ASSUME Inv, ResetsOk, [Next]_vars
    PROVE  /\ lastBlock <= lastBlock' /\ \A b \in 0..head : At(b)' = At(b)
           /\ metaBlock' = metaBlock \/ lastBlock - 1 <= metaBlock'
           /\ ValuesCount' => ValuesCount
<1>0. lastBlock \in Nat
  BY RangeBounds
<1>1. CASE Contract
  BY <1>0, <1>1, Grown DEF dbVars, historyVars, ValuesCount
<1>2. ASSUME UNCHANGED <<book, lastBlock, metaBlock>>, ValuesCount' => ValuesCount
      PROVE  /\ lastBlock <= lastBlock' /\ \A b \in 0..head : At(b)' = At(b)
             /\ metaBlock' = metaBlock
  BY <1>0, <1>2 DEF At
<1>3. ASSUME NEW end \in Block, TakeRange(end)
      PROVE  UNCHANGED <<book, lastBlock, metaBlock>> /\ (ValuesCount' => ValuesCount)
  BY <1>3 DEF TakeRange, chainVars, dbVars, historyVars, ValuesCount
<1>4. ASSUME NEW c \in calls, HandleTransfer(c) \/ HandleBurn(c)
      PROVE  UNCHANGED <<book, lastBlock, metaBlock>> /\ (ValuesCount' => ValuesCount)
  BY <1>4 DEF HandleTransfer, HandleBurn, Return, chainVars, historyVars, ValuesCount
<1>5. ASSUME NEW c \in calls, HandleMint(c) \/ HandleRestaked(c) \/ IntervalReset(c)
      PROVE  /\ lastBlock <= lastBlock' /\ \A b \in 0..head : At(b)' = At(b)
             /\ lastBlock - 1 <= metaBlock'
             /\ ValuesCount' => ValuesCount
  <2>1. UNCHANGED <<book, lastBlock>>
    BY <1>5 DEF HandleMint, HandleRestaked, IntervalReset, Return, chainVars
  <2>2. \E f : Reset(c.block, f)
    BY <1>5 DEF HandleMint, HandleRestaked, IntervalReset
  <2>3. metaBlock' = c.block /\ lastBlock - 1 <= c.block /\ (ValuesCount' => ValuesCount)
    BY <2>2 DEF Reset, ResetsOk, ValuesCount
  <2> QED
    BY <1>0, <2>1, <2>3 DEF At
<1>6. CASE CommitRange
  <2>1. lastBlock <= lastBlock'
    BY <1>0, <1>6, RangeBounds DEF CommitRange
  <2>2. UNCHANGED <<book, metaBlock>> /\ (ValuesCount' => ValuesCount)
    BY <1>6 DEF CommitRange, chainVars, historyVars, ValuesCount
  <2> QED
    BY <2>1, <2>2 DEF At
<1>7. CASE UNCHANGED vars
  BY <1>2, <1>7 DEF vars, chainVars, dbVars, historyVars, ValuesCount
<1> QED
  BY <1>1, <1>2, <1>3, <1>4, <1>5, <1>6, <1>7 DEF Next, Indexer

\* What matched goes on to match.
LEMMA MatchesOn ==
    ASSUME Inv, Inv', ResetsOk, [Next]_vars,
           NEW rows, NEW first \in Nat \ {0}, NEW m, Matched(rows, first, m)
    PROVE  Matched(rows, first, m)'
<1>1. PICK b \in first - 1 .. lastBlock - 1 : Matches(rows, 0, b, m)
  BY DEF Matched
<1>2. b \in 0..head /\ b \in (first - 1 .. lastBlock - 1)'
  <2>1. /\ lastBlock \in Nat /\ lastBlock - 1 <= head /\ head \in Nat
        /\ first \in Nat /\ first >= 1
    BY RangeBounds
  <2>2. PICK z \in Nat : z = lastBlock'
    BY DEF Inv, CallsOk
  <2>3. lastBlock <= z
    BY <2>2, Growth
  <2>4. b \in 0..head /\ b \in first - 1 .. z - 1
    BY <2>1, <2>3
  <2> QED
    BY <2>2, <2>4
<1>3. At(b)' = At(b) /\ (ValuesCount' => ValuesCount)
  BY <1>2, Growth
<1>4. /\ \A id \in Id : /\ rows[id].exists <=> At(b)[id].exists
                        /\ rows[id].exists => rows[id].owner = At(b)[id].owner
      /\ ValuesCount => \E height \in Block : /\ height >= m
            /\ \A id \in Id : rows[id].exists =>
                  rows[id].usdc + 0 = At(b)[id].share + Price[height]
  BY <1>1 DEF Matches, At
<1>5. Matches(rows, 0, b, m)'
  BY <1>3, <1>4 DEF Matches, At
<1> QED
  BY <1>2, <1>5 DEF Matched

\* A block up to the cursor stays up to the cursor: the cursor never moves back.
LEMMA LaterBlock ==
    ASSUME Inv, Inv', ResetsOk, [Next]_vars, NEW b \in 1..lastBlock
    PROVE  b \in (1..lastBlock)' /\ b \in Nat \ {0}
<1>1. lastBlock \in Nat
  BY RangeBounds
<1>2. PICK z \in Nat : z = lastBlock'
  BY DEF Inv, CallsOk
<1>3. lastBlock <= z
  BY <1>2, Growth
<1> QED
  BY <1>1, <1>2, <1>3

\* A height that no reset will move back behind stays one.
LEMMA StillNotAfter ==
    ASSUME Inv, Inv', ResetsOk, [Next]_vars, NEW m, NotAfter(m)
    PROVE  NotAfter(m)'
<1>1. lastBlock \in Nat /\ metaBlock \in Nat /\ m \in Nat /\ m <= metaBlock /\ m <= lastBlock - 1
  BY RangeBounds DEF NotAfter, Inv, DbOk, Height
<1>2. PICK z \in Nat : z = lastBlock'
  BY DEF Inv, CallsOk
<1>3. PICK h \in Nat : h = metaBlock'
  BY DEF Inv, DbOk, Height
<1>4. lastBlock <= z /\ (h = metaBlock \/ lastBlock - 1 <= h)
  BY <1>2, <1>3, Growth
<1>5. m <= h /\ m <= z - 1
  BY <1>1, <1>4
<1> QED
  BY <1>1, <1>2, <1>3, <1>5 DEF NotAfter

\* What was read stays right while the indexer goes on.
LEMMA LedgerRequest ==
    ASSUME Inv, Inv', ResetsOk, RequestOk, [Next]_vars, UNCHANGED request
    PROVE  RequestOk'
<1>1. CASE request = NoRequest
  BY <1>1 DEF RequestOk
<1>2. CASE StakingRead
  <2>1. PICK since \in 1..lastBlock : \E rows, state :
           /\ Matched(rows, since, 0)
           /\ \/ request = Asked("staking", since, <<rows>>)
              \/ request = Asked("staking", since, <<rows, state>>) /\ state.factor = 0
    BY <1>2 DEF StakingRead
  <2>2. PICK rows, state :
           /\ Matched(rows, since, 0)
           /\ \/ request = Asked("staking", since, <<rows>>)
              \/ request = Asked("staking", since, <<rows, state>>) /\ state.factor = 0
    BY <2>1
  <2>3. since \in (1..lastBlock)' /\ Matched(rows, since, 0)'
    BY <2>2, LaterBlock, MatchesOn
  <2> QED
    BY <2>2, <2>3 DEF RequestOk, StakingRead
<1>3. CASE StatusRead
  <2>1. PICK since \in 1..lastBlock : \E state, m, rows :
           /\ state.lastBlock \in 1..lastBlock
           /\ \/ request = Asked("status", since, <<state>>)
              \/ NotAfter(m) /\ request = Asked("status", since, <<state, m>>)
              \/ /\ Matched(rows, state.lastBlock, m)
                 /\ request = Asked("status", since, <<state, m, rows>>)
    BY <1>3 DEF StatusRead
  <2>2. PICK state, m, rows :
           /\ state.lastBlock \in 1..lastBlock
           /\ \/ request = Asked("status", since, <<state>>)
              \/ NotAfter(m) /\ request = Asked("status", since, <<state, m>>)
              \/ /\ Matched(rows, state.lastBlock, m)
                 /\ request = Asked("status", since, <<state, m, rows>>)
    BY <2>1
  <2>3. since \in (1..lastBlock)' /\ state.lastBlock \in (1..lastBlock)'
    BY <2>2, LaterBlock
  <2>4. NotAfter(m) => NotAfter(m)'
    BY StillNotAfter
  <2>5. state.lastBlock \in Nat \ {0}
    BY <2>2, LaterBlock
  <2>6. Matched(rows, state.lastBlock, m) => Matched(rows, state.lastBlock, m)'
    BY <2>5, MatchesOn
  <2> QED
    BY <2>2, <2>3, <2>4, <2>6 DEF RequestOk, StatusRead
<1> QED
  BY <1>1, <1>2, <1>3 DEF RequestOk

\* The first statement of a request.
LEMMA AskRequest ==
    ASSUME Inv, ResetsOk, NEW view \in DOMAIN Statements, Ask(view)
    PROVE  RequestOk'
<1>1. /\ rangeEnd = 0 /\ UNCHANGED vars
      /\ request' = Asked(view, lastBlock, <<Result(Statements[view][1])>>)
  BY DEF Ask, Asked
<1>2. PICK n \in Nat \ {0} : n = lastBlock
  BY RangeBounds
<1>3. lastBlock' = n
  BY <1>1, <1>2 DEF vars, dbVars
<1>4. CASE view = "staking"
  <2>1. Result(Statements[view][1]) = positions
    BY <1>4, StatementsAre DEF Result
  <2>2. PICK rows : rows = positions
    OBVIOUS
  <2>3. request' = Asked("staking", n, <<rows>>)
    BY <1>1, <1>2, <1>4, <2>1, <2>2
  <2>4. Matches(rows, 0, n - 1, 0)
    BY <1>1, <1>2, <2>2, MatchesNow DEF Inv, DbOk, Height
  <2>5. Matched(rows, n, 0)
    BY <1>2, <2>4 DEF Matched
  <2>6. Matched(rows, n, 0)'
    BY <1>1, <2>5 DEF Matched, Matches, ValuesCount, vars, chainVars, dbVars, historyVars
  <2>7. n \in (1..lastBlock)'
    BY <1>2, <1>3
  <2> QED
    BY <2>3, <2>6, <2>7 DEF RequestOk, StakingRead
<1>5. CASE view = "status"
  <2>1. Result(Statements[view][1]) = [lastBlock |-> lastBlock, factor |-> factor]
    BY <1>5, StatementsAre DEF Result
  <2>2. PICK state : state = [lastBlock |-> lastBlock, factor |-> factor]
    OBVIOUS
  <2>3. request' = Asked("status", n, <<state>>)
    BY <1>1, <1>2, <1>5, <2>1, <2>2
  <2>4. state.lastBlock = n
    BY <1>2, <2>2
  <2>5. n \in (1..lastBlock)'
    BY <1>2, <1>3
  <2> QED
    BY <2>3, <2>4, <2>5 DEF RequestOk, StatusRead
<1> QED
  BY <1>4, <1>5, StatementsAre

\* The next statement of /staking: the rows have been read, and the factor is 1.
LEMMA ReadStaking ==
    ASSUME Inv, Inv', ResetsOk, StakingRead, Read
    PROVE  RequestOk'
<1>1. PICK since \in 1..lastBlock : \E rows, state :
         /\ Matched(rows, since, 0)
         /\ \/ request = Asked("staking", since, <<rows>>)
            \/ request = Asked("staking", since, <<rows, state>>) /\ state.factor = 0
  BY DEF StakingRead
<1>2. PICK rows, other :
         /\ Matched(rows, since, 0)
         /\ \/ request = Asked("staking", since, <<rows>>)
            \/ request = Asked("staking", since, <<rows, other>>) /\ other.factor = 0
  BY <1>1
<1>3. PICK state : state = [lastBlock |-> lastBlock, factor |-> factor]
  OBVIOUS
<1>4. Len(<<rows>>) = 1 /\ Len(<<rows, other>>) = 2 /\ Len(Statements["staking"]) = 2
  BY StatementsAre
<1>5. ~(request = Asked("staking", since, <<rows, other>>))
  BY <1>4, ReadAppends
<1>6. Result(Statements["staking"][2]) = state
  BY <1>3, StatementsAre DEF Result
<1>7. request' = Asked("staking", since, <<rows, state>>)
  <2>1. request' = Asked("staking", since,
                      Append(<<rows>>, Result(Statements["staking"][Len(<<rows>>) + 1])))
    BY <1>2, <1>5, ReadAppends
  <2>2. Len(<<rows>>) + 1 = 2
    BY <1>4
  <2> QED
    BY <1>6, <2>1, <2>2, SecondResult
<1>8. state.factor = 0
  BY <1>3 DEF Inv, DbOk
<1>9. UNCHANGED vars
  BY DEF Read
<1>10. Matched(rows, since, 0)' /\ since \in (1..lastBlock)'
  BY <1>2, <1>9, LaterBlock, MatchesOn
<1> QED
  BY <1>7, <1>8, <1>10 DEF RequestOk, StakingRead

\* The next statement of /status: the height after the block, the rows after both.
LEMMA ReadStatus ==
    ASSUME Inv, Inv', ResetsOk, StatusRead, Read
    PROVE  RequestOk'
<1>1. PICK since \in 1..lastBlock : \E state, m, rows :
         /\ state.lastBlock \in 1..lastBlock
         /\ \/ request = Asked("status", since, <<state>>)
            \/ NotAfter(m) /\ request = Asked("status", since, <<state, m>>)
            \/ Matched(rows, state.lastBlock, m) /\ request = Asked("status", since, <<state, m, rows>>)
  BY DEF StatusRead
<1>2. PICK state, m, rows :
         /\ state.lastBlock \in 1..lastBlock
         /\ \/ request = Asked("status", since, <<state>>)
            \/ NotAfter(m) /\ request = Asked("status", since, <<state, m>>)
            \/ Matched(rows, state.lastBlock, m) /\ request = Asked("status", since, <<state, m, rows>>)
  BY <1>1
<1>3. rangeEnd = 0 /\ UNCHANGED vars
  BY DEF Read
<1>4. /\ Len(<<state>>) = 1 /\ Len(<<state, m>>) = 2 /\ Len(<<state, m, rows>>) = 3
      /\ Len(Statements["status"]) = 3
  BY StatementsAre
<1>5. since \in (1..lastBlock)' /\ state.lastBlock \in (1..lastBlock)' /\ state.lastBlock \in Nat \ {0}
  BY <1>2, <1>3, LaterBlock
<1>6. CASE request = Asked("status", since, <<state>>)
  <2>1. PICK h \in Nat : h = metaBlock
    BY DEF Inv, DbOk, Height
  <2>2. Result(Statements["status"][2]) = h
    BY <2>1, StatementsAre DEF Result
  <2>3. request' = Asked("status", since, <<state, h>>)
    <3>1. request' = Asked("status", since,
                        Append(<<state>>, Result(Statements["status"][Len(<<state>>) + 1])))
      BY <1>6, ReadAppends
    <3>2. Len(<<state>>) + 1 = 2
      BY <1>4
    <3> QED
      BY <2>2, <3>1, <3>2, SecondResult
  <2>4. NotAfter(h)
    BY <1>3, <2>1 DEF NotAfter, ResetsOk, End
  <2>5. NotAfter(h)'
    BY <1>3, <2>4, StillNotAfter
  <2> QED
    BY <1>5, <2>3, <2>5 DEF RequestOk, StatusRead
<1>7. CASE NotAfter(m) /\ request = Asked("status", since, <<state, m>>)
  <2>1. PICK now : now = positions
    OBVIOUS
  <2>2. Result(Statements["status"][3]) = now
    BY <2>1, StatementsAre DEF Result
  <2>3. request' = Asked("status", since, <<state, m, now>>)
    <3>1. request' = Asked("status", since,
                        Append(<<state, m>>, Result(Statements["status"][Len(<<state, m>>) + 1])))
      BY <1>7, ReadAppends
    <3>2. Len(<<state, m>>) + 1 = 3
      BY <1>4
    <3> QED
      BY <2>2, <3>1, <3>2, ThirdResult
  <2>4. Matches(now, 0, lastBlock - 1, m)
    BY <1>3, <1>7, <2>1, MatchesNow DEF NotAfter
  <2>5. lastBlock - 1 \in state.lastBlock - 1 .. lastBlock - 1
    BY <1>2, <1>5, RangeBounds
  <2>6. Matched(now, state.lastBlock, m)
    BY <2>4, <2>5 DEF Matched
  <2>7. Matched(now, state.lastBlock, m)'
    BY <1>3, <1>5, <2>6, MatchesOn
  <2> QED
    BY <1>5, <2>3, <2>7 DEF RequestOk, StatusRead
<1>8. CASE request = Asked("status", since, <<state, m, rows>>)
  BY <1>4, <1>8, ReadAppends
<1> QED
  BY <1>2, <1>6, <1>7, <1>8

-----------------------------------------------------------------------------
(* The theorems.                                                           *)

\* The invariant of the views holds when the service starts.
LEMMA ViewsInitInv == ViewsInit => ViewsInv
<1> SUFFICES ASSUME ViewsInit PROVE ViewsInv
  OBVIOUS
<1>1. Init /\ Inv /\ request = NoRequest
  BY InitInv DEF ViewsInit
<1>2. /\ metaBlock = 0 /\ lastTime = 0 /\ lastRun = 0 /\ lastBlock = 1 /\ rangeEnd = 0
      /\ calls = {} /\ Interval \in Nat \ {0} /\ End = 0
  BY <1>1, LedgerAssumption DEF Init, End
<1>3. ResetsOk
  BY <1>2 DEF ResetsOk
<1>4. StampOk
  BY <1>2 DEF StampOk
<1> QED
  BY <1>1, <1>3, <1>4 DEF ViewsInv, RequestOk

\* Every step of the indexer and of a request keeps the invariant of the views.
LEMMA ViewsNextInv == ViewsInv /\ [ViewsNext]_viewVars => ViewsInv'
<1> SUFFICES ASSUME ViewsInv, [ViewsNext]_viewVars PROVE ViewsInv'
  OBVIOUS
<1>1. [Next]_vars
  BY DEF ViewsNext, Ask, Read, Close, viewVars
<1>2. Inv' /\ ResetsOk' /\ StampOk'
  BY <1>1, NextInv, NextResets, NextStamp DEF ViewsInv
<1>3. ASSUME Next /\ UNCHANGED request PROVE RequestOk'
  BY <1>1, <1>2, <1>3, LedgerRequest DEF ViewsInv
<1>4. ASSUME NEW view \in DOMAIN Statements, Ask(view) PROVE RequestOk'
  BY <1>4, AskRequest DEF ViewsInv
<1>5. ASSUME Read PROVE RequestOk'
  <2>1. request # NoRequest
    BY <1>5 DEF Read
  <2> QED
    BY <1>2, <1>5, <2>1, ReadStaking, ReadStatus DEF ViewsInv, RequestOk
<1>6. ASSUME Close PROVE RequestOk'
  BY <1>6 DEF Close, RequestOk, NoRequest
<1>7. ASSUME UNCHANGED viewVars PROVE RequestOk'
  BY <1>1, <1>2, <1>7, LedgerRequest DEF ViewsInv, viewVars
<1>8. RequestOk'
  BY <1>3, <1>4, <1>5, <1>6, <1>7 DEF ViewsNext
<1> QED
  BY <1>2, <1>8 DEF ViewsInv

\* The inductive invariant.
LEMMA AlwaysViewsInv == ViewsSpec => []ViewsInv
<1> QED
  BY ViewsInitInv, ViewsNextInv, PTL DEF ViewsSpec

\* However many commits fall between the two statements of /staking, it answers
\* with the contract's positions at one block indexed since it began, and with
\* values of one height (views/staking.py:20-40).
THEOREM StakingAnswerHolds == ViewsSpec => []StakingAnswerExact
<1>1. ViewsInv => StakingAnswerExact
  <2> SUFFICES ASSUME ViewsInv, request.view = "staking", Answered
               PROVE  \E b \in request.since - 1 .. lastBlock - 1 :
                         Matches(Got("positions"), Got("indexer_state").factor, b, 0)
    BY DEF StakingAnswerExact, Complete
  <2>1. request # NoRequest /\ ~StatusRead
    BY DEF NoRequest, StatusRead, Asked
  <2>2. PICK since \in 1..lastBlock : \E rows, state :
           /\ Matched(rows, since, 0)
           /\ \/ request = Asked("staking", since, <<rows>>)
              \/ request = Asked("staking", since, <<rows, state>>) /\ state.factor = 0
    BY <2>1 DEF ViewsInv, RequestOk, StakingRead
  <2>3. PICK rows, state :
           /\ Matched(rows, since, 0)
           /\ \/ request = Asked("staking", since, <<rows>>)
              \/ request = Asked("staking", since, <<rows, state>>) /\ state.factor = 0
    BY <2>2
  <2>4. Len(<<rows>>) = 1 /\ Len(Statements["staking"]) = 2
    BY StatementsAre
  <2>5. request = Asked("staking", since, <<rows, state>>) /\ state.factor = 0
    BY <2>3, <2>4 DEF Answered, Asked
  <2>6. request.read = <<rows, state>> /\ request.since = since
    BY <2>5 DEF Asked
  <2>7. Got("positions") = rows /\ Got("indexer_state") = state
    BY <2>6, StatementsAre DEF Got
  <2> QED
    BY <2>3, <2>5, <2>6, <2>7 DEF Matched
<1> QED
  BY <1>1, AlwaysViewsInv, PTL

\* What /status lists is never older than the block and the height it says it is
\* of, though three statements read them one after the other (views/status.py:8-11).
THEOREM StatusHolds == ViewsSpec => []StatusNotBehind
<1>1. ViewsInv => StatusNotBehind
  <2> SUFFICES ASSUME ViewsInv, request.view = "status", Answered
               PROVE  \E b \in Got("indexer_state").lastBlock - 1 .. lastBlock - 1 :
                         Matches(Got("positions"), 0, b, Got("meta"))
    BY DEF StatusNotBehind, Complete
  <2>1. request # NoRequest /\ ~StakingRead
    BY DEF NoRequest, StakingRead, Asked
  <2>2. PICK since \in 1..lastBlock : \E state, m, rows :
           /\ state.lastBlock \in 1..lastBlock
           /\ \/ request = Asked("status", since, <<state>>)
              \/ NotAfter(m) /\ request = Asked("status", since, <<state, m>>)
              \/ Matched(rows, state.lastBlock, m) /\ request = Asked("status", since, <<state, m, rows>>)
    BY <2>1 DEF ViewsInv, RequestOk, StatusRead
  <2>3. PICK state, m, rows :
           /\ state.lastBlock \in 1..lastBlock
           /\ \/ request = Asked("status", since, <<state>>)
              \/ NotAfter(m) /\ request = Asked("status", since, <<state, m>>)
              \/ Matched(rows, state.lastBlock, m) /\ request = Asked("status", since, <<state, m, rows>>)
    BY <2>2
  <2>4. Len(<<state>>) = 1 /\ Len(<<state, m>>) = 2 /\ Len(Statements["status"]) = 3
    BY StatementsAre
  <2>5. /\ request.read = <<state, m, rows>>
        /\ Matched(rows, state.lastBlock, m)
    BY <2>3, <2>4 DEF Answered, Asked
  <2>6. Got("indexer_state") = state /\ Got("meta") = m /\ Got("positions") = rows
    BY <2>5, StatementsAre DEF Got
  <2> QED
    BY <2>5, <2>6 DEF Matched
<1> QED
  BY <1>1, AlwaysViewsInv, PTL

\* The time /staking gives for the values is never later than their height, and it
\* is earlier only for positions minted at that height (indexer.py:153-154, 369).
THEOREM StampHolds == ViewsSpec => []StampNotAhead
<1>1. ViewsInv => StampNotAhead
  <2> SUFFICES ASSUME ViewsInv, ~anchorMissing
               PROVE  /\ lastTime <= metaBlock
                      /\ lastTime = metaBlock \/ \A id \in Rows :
                            metaBlock = 1 \/ ~book[metaBlock - 1][id].exists
    BY DEF StampNotAhead
  <2>1. /\ lastTime <= metaBlock
        /\ lastTime = metaBlock \/ \A id \in Rows : ~At(metaBlock - 1)[id].exists
    BY DEF ViewsInv, StampOk
  <2>2. metaBlock \in Nat
    BY DEF ViewsInv, Inv, DbOk, Height
  <2>3. metaBlock # 1 => At(metaBlock - 1) = book[metaBlock - 1]
    BY <2>2 DEF At
  <2> QED
    BY <2>1, <2>3
<1> QED
  BY <1>1, AlwaysViewsInv, PTL

-----------------------------------------------------------------------------
(* The points of /stats/unlock.                                            *)

\* Every position was minted.
LEMMA MintedBefore ==
    ASSUME ChainOk, NEW id \in Id, NEW b \in 0..head, At(b)[id].exists
    PROVE  \E i \in 1..b : Is({"mint"}, id, i)
<1> DEFINE T == {n \in 0..head : At(n)[id].exists => \E i \in 1..n : Is({"mint"}, id, i)}
<1>1. head \in Nat
  BY DEF ChainOk, head
<1>2. 0 \in T
  BY <1>1 DEF At, NoRow
<1>3. ASSUME NEW n \in 0..head, n \in T, n < head PROVE n + 1 \in T
  <2>1. n + 1 \in 1..head /\ (n + 1) - 1 = n
    BY <1>1, <1>3
  <2>2. /\ Is({"burn"}, id, n + 1) => ~At(n + 1)[id].exists
        /\ \/ Is({"mint", "burn"}, id, n + 1)
           \/ At(n + 1)[id].exists <=> At(n)[id].exists
    BY <2>1 DEF ChainOk, Told
  <2>3. Is({"mint", "burn"}, id, n + 1) => Is({"mint"}, id, n + 1) \/ Is({"burn"}, id, n + 1)
    BY DEF Is
  <2>4. SUFFICES ASSUME At(n + 1)[id].exists PROVE \E i \in 1 .. n + 1 : Is({"mint"}, id, i)
    BY <2>1
  <2>5. CASE Is({"mint"}, id, n + 1)
    BY <1>1, <2>1, <2>5
  <2>6. CASE At(n)[id].exists
    <3>1. PICK i \in 1..n : Is({"mint"}, id, i)
      BY <1>3, <2>6
    <3>2. i \in 1 .. n + 1
      BY <1>1
    <3> QED
      BY <3>1, <3>2
  <2> QED
    BY <2>2, <2>3, <2>4, <2>5, <2>6
<1> HIDE DEF T
<1>4. \A n \in 0..head : n \in T
  BY <1>1, <1>2, <1>3, IntervalInduction
<1> QED
  BY <1>4 DEF T

\* There are no more dates than blocks.
LEMMA DatesAreFew ==
    ASSUME Inv, Committed
    PROVE  IsFiniteSet(Dates) /\ Dates \subseteq Nat
<1> DEFINE g == [i \in 1..head |-> DateOf(positions[events[i].id].lockupEnd)]
<1>1. head \in Nat /\ ChainOk
  BY DEF Inv, ChainOk, head
<1>2. IsFiniteSet({g[i] : i \in 1..head})
  <2> DEFINE R == {g[i] : i \in 1..head}
  <2>1. g \in Surjection(1..head, R)
    BY DEF Surjection
  <2>2. IsFiniteSet(1..head)
    BY <1>1, FS_Interval
  <2> HIDE DEF g, R
  <2>3. IsFiniteSet(R)
    BY <2>1, <2>2, FS_Surjection
  <2> QED
    BY <2>3 DEF R
<1>3. ASSUME NEW id \in Rows PROVE \E i \in 1..head : g[i] = DateOf(positions[id].lockupEnd)
  <2>1. id \in Id /\ positions[id].exists
    BY DEF Rows
  <2>2. /\ Indexed = At(End)
        /\ positions[id].exists <=> Indexed[id].exists
    BY <2>1, BetweenRanges DEF Inv, RowOk, ExistsOk
  <2>3. PICK b \in 0..head : b = End
    BY <1>1, RangeBounds
  <2>4. At(b)[id].exists
    BY <2>1, <2>2, <2>3
  <2>5. PICK i \in 1..b : Is({"mint"}, id, i)
    BY <1>1, <2>1, <2>4, MintedBefore
  <2>6. i \in 1..head /\ events[i].id = id
    BY <1>1, <2>5 DEF Is
  <2> QED
    BY <2>6
<1>4. Dates \subseteq {g[i] : i \in 1..head}
  BY <1>3 DEF Dates
<1>5. \A id \in Rows : DateOf(positions[id].lockupEnd) \in Nat
  <2> SUFFICES ASSUME NEW id \in Id, positions[id].exists
               PROVE  DateOf(positions[id].lockupEnd) \in Nat
    BY DEF Rows
  <2>1. positions[id].lockupEnd \in Nat
    BY TableRows DEF Inv
  <2>2. Day \in Nat \ {0}
    BY ViewsAssumption
  <2> QED
    BY <2>1, <2>2 DEF DateOf
<1> HIDE DEF g
<1> QED
  BY <1>2, <1>4, <1>5, FS_Subset DEF Dates

Earlier == {p \in Nat \X Nat : p[1] < p[2]}

\* The dates are listed, each once and in order.
LEMMA DatesListed ==
    ASSUME Inv, Committed
    PROVE  /\ Lists(UnlockDates, Cardinality(Dates), Dates, Earlier)
           /\ Cardinality(Dates) \in Nat /\ Len(UnlockDates) = Cardinality(Dates)
           /\ DOMAIN UnlockDates = 1..Cardinality(Dates)
<1> DEFINE n == Cardinality(Dates)
           Sorted(s) == \A i, j \in DOMAIN s : i < j => s[i] < s[j]
<1>1. IsFiniteSet(Dates) /\ Dates \subseteq Nat /\ n \in Nat
  BY DatesAreFew, FS_CardinalityType
<1>2. \A x, y \in Nat : <<x, y>> \in Earlier <=> x < y
  BY DEF Earlier
<1>3. StrictOrder(Dates, Earlier)
  <2>1. StrictOrder(Nat, Earlier)
    BY <1>2 DEF StrictOrder
  <2> QED
    BY <1>1, <2>1, OrderOfPart
<1>4. /\ \E s \in Listings(Dates) : \A i, j \in 1..n : i < j => <<s[i], s[j]>> \in Earlier
      /\ \A s \in Listings(Dates) :
            (\A i, j \in 1..n : i < j => <<s[i], s[j]>> \in Earlier) => Lists(s, n, Dates, Earlier)
  BY <1>1, <1>3, SortedListing
<1> HIDE DEF n
<1>5. ASSUME NEW s \in SetToSeqs(Dates)
      PROVE  /\ s \in Listings(Dates) /\ DOMAIN s = 1..n
             /\ Sorted(s) <=> \A i, j \in 1..n : i < j => <<s[i], s[j]>> \in Earlier
  <2>1. s \in Listings(Dates) /\ s \in [1..n -> Dates]
    BY DEF SetToSeqs, Listings, n
  <2>2. \A i \in 1..n : s[i] \in Nat
    BY <1>1, <2>1
  <2> QED
    BY <1>2, <2>1, <2>2
<1>6. SetToSeqs(Dates) = Listings(Dates)
  BY DEF SetToSeqs, Listings
<1> DEFINE s == UnlockDates
<1>7. s \in SetToSeqs(Dates) /\ Sorted(s)
  <2>1. \E t \in SetToSeqs(Dates) : Sorted(t)
    BY <1>4, <1>5, <1>6
  <2> QED
    BY <2>1 DEF UnlockDates
<1> HIDE DEF s, Sorted
<1>8. Lists(s, n, Dates, Earlier) /\ DOMAIN s = 1..n
  BY <1>4, <1>5, <1>7
<1>9. Len(s) = n
  BY <1>1, <1>8
<1> QED
  BY <1>1, <1>8, <1>9 DEF s, n

\* The positions that unlock on none of the first i dates.
After(i) == {id \in Rows : \A j \in 1..i : DateOf(positions[id].lockupEnd) # UnlockDates[j]}

\* What the loop over the dates has left after i of them: the positions of the other dates.
LEMMA RemainingIs ==
    ASSUME Len(UnlockDates) \in Nat, NEW i \in 0 .. Len(UnlockDates)
    PROVE  Remaining[i] = After(i)
<1> DEFINE n == Len(UnlockDates)
           Subtracts(f) == f = [k \in 0..n |->
                                   IF k = 0 THEN Rows ELSE f[k - 1] \ UnlockOn(UnlockDates[k])]
<1>1. \A k \in 1..n : After(k) = After(k - 1) \ UnlockOn(UnlockDates[k])
  <2> SUFFICES ASSUME NEW k \in 1..n PROVE After(k) = After(k - 1) \ UnlockOn(UnlockDates[k])
    OBVIOUS
  <2>1. \A j : j \in 1..k <=> j \in 1 .. k - 1 \/ j = k
    OBVIOUS
  <2> QED
    BY <2>1 DEF After, UnlockOn
<1>2. After(0) = Rows
  BY DEF After
<1>3. \E f : Subtracts(f)
  <2> DEFINE g == [k \in 0..n |-> After(k)]
  <2>1. \A k \in 0..n : k # 0 => k - 1 \in 0..n /\ k \in 1..n
    OBVIOUS
  <2>2. \A k \in 0..n : g[k] = IF k = 0 THEN Rows ELSE g[k - 1] \ UnlockOn(UnlockDates[k])
    BY <1>1, <1>2, <2>1
  <2>3. g = [k \in 0..n |-> g[k]]
    OBVIOUS
  <2> HIDE DEF g, n
  <2>4. Subtracts(g)
    BY <2>2, <2>3
  <2> QED
    BY <2>4
<1>4. Subtracts(Remaining)
  <2>1. Remaining = CHOOSE f : Subtracts(f)
    BY DEF Remaining
  <2> HIDE DEF Subtracts
  <2> QED
    BY <1>3, <2>1
<1> DEFINE T == {k \in 0..n : Remaining[k] = After(k)}
<1>5. \A k \in 0..n : Remaining[k] =
         IF k = 0 THEN Rows ELSE Remaining[k - 1] \ UnlockOn(UnlockDates[k])
  <2> HIDE DEF n
  <2> QED
    BY <1>4
<1> HIDE DEF Subtracts
<1>6. 0 \in T
  <2>1. 0 \in 0..n
    OBVIOUS
  <2> HIDE DEF n
  <2> QED
    BY <1>2, <1>5, <2>1
<1>7. ASSUME NEW k \in 0..n, k \in T, k < n PROVE k + 1 \in T
  <2>1. k + 1 \in 0..n /\ k + 1 \in 1..n /\ k + 1 # 0 /\ (k + 1) - 1 = k
    BY <1>7
  <2>2. Remaining[k + 1] = Remaining[k] \ UnlockOn(UnlockDates[k + 1])
    BY <1>5, <2>1
  <2>3. After(k + 1) = After(k) \ UnlockOn(UnlockDates[k + 1])
    BY <1>1, <2>1
  <2> QED
    BY <1>7, <2>1, <2>2, <2>3
<1>8. i \in T
  <2> HIDE DEF T
  <2>1. n \in Nat
    OBVIOUS
  <2> HIDE DEF n
  <2>2. \A k \in 0..n : k \in T
    BY <1>6, <1>7, <2>1, IntervalInduction
  <2> QED
    BY <2>2 DEF n
<1> QED
  BY <1>8

\* Whatever positions the contract has and however long a day is, subtracting date
\* by date what unlocks leaves the contract's positions that are locked longer
\* (views/stats.py:84-116).
THEOREM PointsHold == ViewsSpec => []PointsMatchContract
<1>1. Inv /\ Committed => PointsMatchContract
  <2> SUFFICES ASSUME Inv, Committed PROVE PointsMatchContract
    OBVIOUS
  <2> DEFINE n == Cardinality(Dates)
             s == UnlockDates
             On(id) == DateOf(positions[id].lockupEnd)
  <2>1. /\ Lists(s, n, Dates, Earlier) /\ n \in Nat /\ Len(s) = n /\ DOMAIN s = 1..n
        /\ Dates \subseteq Nat
    BY DatesListed, DatesAreFew
  <2>2. \A i \in 1..n : DataPoints[i].date = s[i] /\ DataPoints[i].value = After(i)
    <3>1. \A i \in 1..n : i \in 0 .. Len(s)
      BY <2>1
    <3>2. \A i \in 1..n : Remaining[i] = After(i)
      BY <2>1, <3>1, RemainingIs
    <3>3. \A i \in 1..n : DataPoints[i] = [date |-> s[i], value |-> Remaining[i]]
      BY <2>1 DEF DataPoints
    <3> SUFFICES ASSUME NEW i \in 1..n
                 PROVE  DataPoints[i].date = s[i] /\ DataPoints[i].value = After(i)
      OBVIOUS
    <3>4. Remaining[i] = After(i) /\ DataPoints[i] = [date |-> s[i], value |-> Remaining[i]]
      BY <3>2, <3>3
    <3> HIDE DEF s, n
    <3> QED
      BY <3>4
  <2>3. DOMAIN DataPoints = 1..n
    BY <2>1 DEF DataPoints
  <2>4. \A i \in 1..n : After(i) = {id \in Rows : On(id) > s[i]}
    <3> SUFFICES ASSUME NEW i \in 1..n, NEW id \in Rows
                 PROVE  (\A j \in 1..i : On(id) # s[j]) <=> On(id) > s[i]
      BY DEF After
    <3>1. On(id) \in Dates
      BY DEF Dates
    <3> HIDE DEF s, n, On
    <3>2. PICK k \in 1..n : s[k] = On(id)
      BY <2>1, <3>1 DEF Lists
    <3>3. /\ \A j \in 1..n : s[j] \in Nat
          /\ \A j, m \in 1..n : j < m => s[j] < s[m]
      BY <2>1 DEF Lists, Earlier
    <3>4. \A j \in 1..i : j \in 1..n
      BY <2>1
    <3>5. CASE k <= i
      <4>1. k \in 1..i
        BY <2>1, <3>5
      <4>2. k = i \/ k < i
        BY <2>1, <3>5
      <4>3. ~(s[k] > s[i])
        BY <3>3, <4>2
      <4> QED
        BY <3>2, <4>1, <4>3
    <3>6. CASE i < k
      <4>1. s[k] > s[i]
        BY <3>3, <3>6
      <4>2. \A j \in 1..i : s[j] # s[k]
        <5> SUFFICES ASSUME NEW j \in 1..i PROVE s[j] # s[k]
          OBVIOUS
        <5>1. j \in 1..n /\ j < k
          BY <2>1, <3>4, <3>6
        <5>2. s[j] < s[k] /\ s[j] \in Nat /\ s[k] \in Nat
          BY <3>3, <5>1
        <5> QED
          BY <5>2
      <4> QED
        BY <3>2, <4>1, <4>2
    <3> QED
      BY <2>1, <3>5, <3>6
  <2>5. ASSUME NEW id \in Id
        PROVE  /\ positions[id].exists <=> Indexed[id].exists
               /\ positions[id].exists => positions[id].lockupEnd = Indexed[id].lockupEnd
    <3>1. Indexed = At(End) /\ End \in lastBlock - 1 .. End /\ \A kinds : Seen(kinds, id, End)
      BY BetweenRanges
    <3>2. RowOk(id)
      BY DEF Inv
    <3> QED
      BY <3>1, <3>2 DEF RowOk, ExistsOk, LockupOk
  <2>6. \A i \in 1..n : DataPoints[i].value =
           {id \in Id : Indexed[id].exists /\ DateOf(Indexed[id].lockupEnd) > DataPoints[i].date}
    <3> HIDE DEF s, n
    <3> QED
      BY <2>2, <2>4, <2>5 DEF Rows
  <2>7. Rows # {} => Last(DataPoints).value = {}
    <3> SUFFICES ASSUME NEW id \in Rows PROVE Last(DataPoints).value = {}
      OBVIOUS
    <3>1. PICK k \in 1..n : s[k] = On(id)
      <4>1. On(id) \in Dates
        BY DEF Dates
      <4> QED
        BY <2>1, <4>1 DEF Lists
    <3>2. n \in 1..n
      BY <2>1, <3>1
    <3>3. Len(DataPoints) = n
      BY <2>1, <2>3
    <3>4. Last(DataPoints).value = After(n)
      BY <2>2, <3>2, <3>3 DEF Last
    <3>5. After(n) = {}
      <4> SUFFICES ASSUME NEW x \in Rows PROVE \E j \in 1..n : On(x) = s[j]
        BY DEF After
      <4>1. On(x) \in Dates
        BY DEF Dates
      <4> QED
        BY <2>1, <4>1 DEF Lists
    <3> QED
      BY <3>4, <3>5
  <2> QED
    BY <2>3, <2>6, <2>7 DEF PointsMatchContract
<1>2. ViewsInv => PointsMatchContract
  <2>1. ViewsInv => Inv
    BY DEF ViewsInv
  <2>2. ~Committed => PointsMatchContract
    BY DEF PointsMatchContract
  <2> QED
    BY <1>1, <2>1, <2>2
<1> QED
  BY <1>2, AlwaysViewsInv, PTL
=============================================================================
