--------------------------- MODULE StakingLedger ---------------------------
(***************************************************************************)
(* The table staking_positions and how it follows the staking contract.    *)
(*                                                                         *)
(* The indexer reads a position from the contract only when it is minted   *)
(* or restaked.  At every mint, every restake and every run of the         *)
(* interval function it brings all rows up to date together: it reads one  *)
(* position, the anchor, and multiplies all rows by what that one grew by. *)
(* This is right as long as all rows are at the same block height.         *)
(*                                                                         *)
(* A value is a share of the pool times the pool's price per share.  Only  *)
(* products and quotients of values occur, so a value is represented by    *)
(* its logarithm: balance = share + Price[block], and a factor is added.   *)
(* SHER, rounding and the width of the columns are left out.               *)
(*                                                                         *)
(* The indexer's transactions are those of IndexerLoop; here a range is    *)
(* the set of its handler calls, of which the first is made next.          *)
(***************************************************************************)
EXTENDS Integers, Sequences

CONSTANTS
    Id,             \* tokens
    Owner,          \* accounts
    MaxBlock,       \* bound: the chain stops growing
    Price,          \* the pool's price per share at each block, a logarithm
    Periods,        \* lockup periods, in blocks
    SafeTime,       \* the seven days of calc_balance_factor, in blocks
    MaxRange,       \* a range has at most MaxRange + 1 blocks
    Interval        \* blocks between two runs of the interval function

Block == 1..MaxBlock

\* A position cannot expire twice within a range: 100_000 blocks are two weeks,
\* the shortest lockup is longer.  The safe time is seven days.
ASSUME LedgerAssumption ==
    /\ MaxBlock \in Nat \ {0}
    /\ Price \in [Block -> Int]
    /\ Periods \subseteq Nat /\ SafeTime \in Nat \ {0}
    /\ MaxRange \in Nat /\ \A p \in Periods : MaxRange < p
    /\ Interval \in Nat \ {0}

None == [kind |-> "none"]
NoRow == [exists |-> FALSE]

VARIABLES
    events,         \* events[b]: the event of block b
    book,           \* book[b]: the contract's positions after block b
    positions,      \* table staking_positions
    factor,         \* indexer_state.balance_factor
    metaBlock,      \* staking_positions_meta: block of usdc_last_updated, 0 before
    lastTime,       \* the block of indexer_state.last_time, 0 before
    lastBlock,      \* indexer_state.last_block
    lastRun,        \* block_last_run of reset_balance_factor
    rangeEnd,       \* end_block of the open range, 0 when none is open
    calls,          \* the handler calls the range has left
    anchorMissing,  \* history: rows were brought up to date without an anchor
    anchorAhead     \* history: or by one whose row was ahead of the block

chainVars == <<events, book>>
dbVars == <<positions, factor, metaBlock, lastTime, lastBlock, lastRun>>
rangeVars == <<rangeEnd, calls>>
historyVars == <<anchorMissing, anchorAhead>>
vars == <<chainVars, dbVars, rangeVars, historyVars>>

head == Len(events)

\* A row has every column a reader asks for, with an owner that is an account,
\* and the bookkeeping numbers are those of blocks.
TypeOK ==
    /\ head \in 0..MaxBlock /\ Len(book) = head
    /\ \A id \in Id : positions[id].exists =>
          /\ positions[id].usdc \in Int /\ positions[id].owner \in Owner
          /\ positions[id].lockupEnd \in Nat /\ positions[id].restakeCount \in Nat
    /\ factor \in Int
    /\ metaBlock \in 0..MaxBlock /\ lastTime \in 0..MaxBlock /\ lastBlock \in 1 .. MaxBlock + 1
    /\ lastRun \in 0..MaxBlock /\ rangeEnd \in 0..MaxBlock
    /\ anchorMissing \in BOOLEAN /\ anchorAhead \in BOOLEAN

Init ==
    /\ events = <<>> /\ book = <<>>
    /\ positions = [id \in Id |-> NoRow]
    /\ factor = 0 /\ metaBlock = 0 /\ lastTime = 0 /\ lastBlock = 1 /\ lastRun = 0
    /\ rangeEnd = 0 /\ calls = {}
    /\ anchorMissing = FALSE /\ anchorAhead = FALSE

-----------------------------------------------------------------------------
(* The contract.  A block holds at most one event.                         *)

\* The contract's positions before the next block.
Now == IF head = 0 THEN [id \in Id |-> NoRow] ELSE book[head]

Mined(e, after) ==
    /\ head < MaxBlock
    /\ events' = Append(events, e)
    /\ book' = Append(book, after)
    /\ UNCHANGED <<dbVars, rangeVars, historyVars>>

EmptyBlock == Mined(None, Now)

NeverMinted(id) == \A b \in 1..head : ~book[b][id].exists

Mint(id, owner, period) ==
    /\ NeverMinted(id)
    /\ Mined([kind |-> "mint", id |-> id, to |-> owner],
             [Now EXCEPT ![id] = [exists |-> TRUE, owner |-> owner, share |-> 0,
                                  lockupEnd |-> head + 1 + period]])

Transfer(id, owner) ==
    /\ Now[id].exists
    /\ Mined([kind |-> "transfer", id |-> id, to |-> owner],
             [Now EXCEPT ![id].owner = owner])

\* Redeeming and restaking need a lockup that has ended.
Expired(id) == Now[id].exists /\ Now[id].lockupEnd <= head + 1

Burn(id) ==
    /\ Expired(id)
    /\ Mined([kind |-> "burn", id |-> id], [Now EXCEPT ![id] = NoRow])

Restake(id, period) ==
    /\ Expired(id)
    /\ Mined([kind |-> "restaked", id |-> id],
             [Now EXCEPT ![id].lockupEnd = head + 1 + period])

\* Somebody else restakes the position and is paid out of it.
ArbRestake(id, period) ==
    /\ Expired(id)
    /\ Mined([kind |-> "arb_restaked", id |-> id],
             [Now EXCEPT ![id].lockupEnd = head + 1 + period, ![id].share = @ - 1])

Contract ==
    \/ EmptyBlock
    \/ \E id \in Id :
          \/ Burn(id)
          \/ \E owner \in Owner : Transfer(id, owner)
          \/ \E period \in Periods :
                \/ Restake(id, period)
                \/ ArbRestake(id, period)
                \/ \E owner \in Owner : Mint(id, owner, period)

-----------------------------------------------------------------------------
(* Taking a range.                                                         *)

\* The blocks for which the interval function is due at the end of the range.
DueResets(end) == {b \in lastRun + 1 .. end - 1 : (b - lastRun) % Interval = 0}

\* The events of the range, and the interval functions.
RangeCalls(first, end) ==
    {[event |-> events[b], block |-> b] : b \in {c \in first..end : events[c] # None}}
        \cup {[event |-> [kind |-> "interval"], block |-> b] : b \in DueResets(end)}

\* All Transfer events of the range come first, then all Restaked, then all
\* ArbRestaked, then the interval functions; each of them in block order.
Stages ==
    <<{"mint", "transfer", "burn"}, {"restaked"}, {"arb_restaked"}, {"interval"}>>

Rank(call) == CHOOSE i \in DOMAIN Stages : call.event.kind \in Stages[i]

First(call) ==
    /\ call \in calls
    /\ \A c \in calls \ {call} : \/ Rank(call) < Rank(c)
                                 \/ Rank(call) = Rank(c) /\ call.block < c.block

TakeRange(end) ==
    /\ rangeEnd = 0
    /\ lastBlock <= end /\ end <= head /\ end - lastBlock <= MaxRange
    /\ rangeEnd' = end
    /\ calls' = RangeCalls(lastBlock, end)
    /\ UNCHANGED <<chainVars, dbVars, historyVars>>

CommitRange ==
    /\ rangeEnd # 0 /\ calls = {}
    /\ lastBlock' = rangeEnd + 1
    /\ rangeEnd' = 0
    /\ UNCHANGED <<chainVars, positions, factor, metaBlock, lastTime, lastRun, calls, historyVars>>

-----------------------------------------------------------------------------
(* Bringing all rows up to date: reset_balance_factor at block b.          *)

Rows == {id \in Id : positions[id].exists}

\* tokenBalanceOf at block b: reverts for a token that is not there then.
Balance(id, b) == book[b][id].share + Price[b]

\* Not about to expire, and the contract answers for it.
Candidates(b) ==
    {id \in Rows : b + SafeTime <= positions[id].lockupEnd /\ book[b][id].exists}

\* The largest candidate; which one of equals is left to the database.
Anchors(b) ==
    {a \in Candidates(b) : \A id \in Candidates(b) : positions[id].usdc <= positions[a].usdc}

\* calc_balance_factor: nothing is computed before there is a first height, nor
\* when no time has passed, nor without an anchor.
Computes(b) == metaBlock # 0 /\ metaBlock # b /\ Anchors(b) # {}

\* What indexer_state.balance_factor may be after it.
FactorsAfter(b) ==
    IF Computes(b) THEN {Balance(a, b) - positions[a].usdc : a \in Anchors(b)} ELSE {factor}

\* StakingPositionsMeta.update: every row is multiplied by the factor.
Scaled(f) ==
    [id \in Id |-> IF positions[id].exists
                   THEN [positions[id] EXCEPT !.usdc = @ + f] ELSE NoRow]

\* Mutant: the factor stays as it was calculated.
FactorAfterReset_Kept(f) == f

\* The factor is 1 again when it has been applied.
FactorAfterReset(f) == 0

\* Mutant: the time is that of the range's end.
TimeAfterReset_RangeEnd(b) == IF Computes(b) THEN rangeEnd ELSE lastTime

\* indexer_state.last_time moves only when a factor was calculated.
TimeAfterReset(b) == IF Computes(b) THEN b ELSE lastTime

\* The row of a has been read from the contract at an arbitrage later than b.
Ahead(a, b) ==
    \E c \in b + 1 .. rangeEnd :
        /\ events[c].kind = "arb_restaked" /\ events[c].id = a
        /\ [event |-> events[c], block |-> c] \notin calls

\* reset_balance_factor(b), leaving the rows as they are to be updated further.
Reset(b, f) ==
    /\ factor' = FactorAfterReset(f)
    /\ metaBlock' = b
    /\ lastTime' = TimeAfterReset(b)
    /\ anchorMissing' = \/ anchorMissing
                        \/ (metaBlock \notin {0, b} /\ Rows # {} /\ Anchors(b) = {})
    /\ anchorAhead' = \/ anchorAhead
                      \/ (Computes(b) /\ \E a \in Anchors(b) : Ahead(a, b))

-----------------------------------------------------------------------------
(* The handlers.                                                           *)

\* The call of a handler is the first one that is left.
Handles(call, kinds) == First(call) /\ call.event.kind \in kinds

Return(call) == calls' = calls \ {call} /\ UNCHANGED <<chainVars, lastBlock, rangeEnd>>

\* Transfer from the zero address: all rows are brought to the block, then the
\* new one is read from the contract at that block.
HandleMint(call) ==
    LET b == call.block
        t == call.event.id
    IN  /\ Handles(call, {"mint"})
        /\ \E f \in FactorsAfter(b) :
              /\ Reset(b, f)
              /\ positions' = [Scaled(f) EXCEPT ![t] =
                     [exists |-> TRUE, owner |-> call.event.to, usdc |-> Balance(t, b),
                      lockupEnd |-> book[b][t].lockupEnd, restakeCount |-> 0]]
        /\ Return(call) /\ UNCHANGED lastRun

\* A transfer between accounts.
HandleTransfer(call) ==
    /\ Handles(call, {"transfer"})
    /\ positions' = [positions EXCEPT ![call.event.id].owner = call.event.to]
    /\ Return(call) /\ UNCHANGED <<factor, metaBlock, lastTime, lastRun, historyVars>>

\* Mutant: the row of a burned position is given to the zero address.
HandleBurn_KeepsRow(call) ==
    /\ Handles(call, {"burn"})
    /\ positions' = [positions EXCEPT ![call.event.id].owner = "zero"]
    /\ Return(call) /\ UNCHANGED <<factor, metaBlock, lastTime, lastRun, historyVars>>

\* A transfer to the zero address.
HandleBurn(call) ==
    /\ Handles(call, {"burn"})
    /\ positions' = [positions EXCEPT ![call.event.id] = NoRow]
    /\ Return(call) /\ UNCHANGED <<factor, metaBlock, lastTime, lastRun, historyVars>>

\* Mutant: the end of the lockup is not read again.
Restaked_KeepsLockup(rows, t, b) ==
    IF ~rows[t].exists THEN rows
    ELSE [rows EXCEPT ![t].usdc = Balance(t, b), ![t].restakeCount = @ + 1]

\* Restaked and ArbRestaked: all rows are brought to the block, then the row is
\* read again; a row that is gone is left alone.
Restaked(rows, t, b) ==
    IF ~rows[t].exists THEN rows
    ELSE [rows EXCEPT ![t].usdc = Balance(t, b), ![t].lockupEnd = book[b][t].lockupEnd,
                      ![t].restakeCount = @ + 1]

HandleRestaked(call) ==
    LET b == call.block IN
    /\ Handles(call, {"restaked", "arb_restaked"})
    /\ \E f \in FactorsAfter(b) :
          Reset(b, f) /\ positions' = Restaked(Scaled(f), call.event.id, b)
    /\ Return(call) /\ UNCHANGED lastRun

\* The interval function.
IntervalReset(call) ==
    LET b == call.block IN
    /\ Handles(call, {"interval"})
    /\ \E f \in FactorsAfter(b) : Reset(b, f) /\ positions' = Scaled(f)
    /\ lastRun' = b
    /\ Return(call)

Indexer ==
    \/ \E end \in Block : TakeRange(end)
    \/ \E call \in calls :
          \/ HandleMint(call) \/ HandleTransfer(call) \/ HandleBurn(call)
          \/ HandleRestaked(call) \/ IntervalReset(call)
    \/ CommitRange

Next == Contract \/ Indexer

Spec == Init /\ [][Next]_vars

-----------------------------------------------------------------------------
Committed == rangeEnd = 0 /\ lastBlock > 1

\* The contract's positions at the last block that was indexed.
Indexed == book[lastBlock - 1]

\* Whatever the order in which a range's events were handled, the table holds
\* the contract's positions with their owners and lockups (indexer.py:443-466,
\* 515-523).
TableMatchesContract ==
    Committed => \A id \in Id :
        /\ positions[id].exists <=> Indexed[id].exists
        /\ positions[id].exists =>
              /\ positions[id].owner = Indexed[id].owner
              /\ positions[id].lockupEnd = Indexed[id].lockupEnd

\* Every row is worth its share at the price of the height in
\* staking_positions_meta.  The share is that of the last block indexed: a position
\* restaked after the height counts with the share it has since then.
AtMetaHeight ==
    \A id \in Rows : positions[id].usdc = Indexed[id].share + Price[metaBlock]

\* Multiplying all rows by the growth of one keeps every row exact, across
\* mints, burns and restakes handled out of block order and heights that move
\* back, unless rows were brought to a height no anchor existed for or the
\* anchor had been restaked later than that height (indexer.py:106-161, 343-374).
ValuesStayExact == (Committed /\ ~anchorMissing /\ ~anchorAhead) => AtMetaHeight

\* README.md:9-10: "All positions in the `staking_positions` table have usdc values
\* at the same block height. This height is stored in `staking_positions_meta`."
\* Here where every update had an anchor.
SameHeight == (Committed /\ ~anchorMissing) => AtMetaHeight
=============================================================================
