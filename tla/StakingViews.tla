---------------------------- MODULE StakingViews ----------------------------
(***************************************************************************)
(* What the service answers about staking positions while the indexer goes *)
(* on: GET /staking, GET /status and GET /stats/unlock.                    *)
(*                                                                         *)
(* A request runs its statements one by one in a transaction at read       *)
(* committed, so each sees what was committed last, and a commit may fall  *)
(* between two of them.  While a range is open nothing is committed: a     *)
(* statement then sees what it would have seen before, and is put there.   *)
(* Positions of all users are asked for at once.  APYs and increments,     *)
(* which are the same for all rows, are left out.                          *)
(***************************************************************************)
EXTENDS StakingLedger, SequencesExt

CONSTANTS
    Day             \* blocks of a day

ASSUME ViewsAssumption == Day \in Nat \ {0}

VARIABLES
    request         \* the view asked for, what it has read, and last_block when it began

viewVars == <<vars, request>>

NoRequest == [view |-> "none"]

ViewsInit == Init /\ request = NoRequest

\* Mutant: the positions are read before the block they are indexed to.
Statements_PositionsFirst ==
    [staking |-> <<"positions", "indexer_state">>,
     status |-> <<"positions", "indexer_state", "meta">>]

\* The tables a view reads, in the order of its statements.
Statements ==
    [staking |-> <<"positions", "indexer_state">>,
     status |-> <<"indexer_state", "meta", "positions">>]

\* What a statement returns.
Result(table) ==
    CASE table = "positions" -> positions
      [] table = "indexer_state" -> [lastBlock |-> lastBlock, factor |-> factor]
      [] table = "meta" -> metaBlock

\* The first statement, and each of the next ones.
Ask(view) ==
    /\ request = NoRequest /\ rangeEnd = 0
    /\ request' = [view |-> view, since |-> lastBlock, read |-> <<Result(Statements[view][1])>>]
    /\ UNCHANGED vars

Answered == request # NoRequest /\ Len(request.read) = Len(Statements[request.view])

Read ==
    /\ request # NoRequest /\ ~Answered /\ rangeEnd = 0
    /\ request' = [request EXCEPT !.read =
                      Append(@, Result(Statements[request.view][Len(request.read) + 1]))]
    /\ UNCHANGED vars

\* An answer is looked at before anything else happens.
Close == Answered /\ request' = NoRequest /\ UNCHANGED vars

ViewsNext ==
    \/ ~Answered /\ Next /\ UNCHANGED request
    \/ \E view \in DOMAIN Statements : Ask(view)
    \/ Read \/ Close

ViewsSpec == ViewsInit /\ [][ViewsNext]_viewVars

-----------------------------------------------------------------------------
(* GET /stats/unlock, one statement.  A sum over positions is represented  *)
(* by the set of them.                                                     *)

DateOf(b) == b \div Day

Dates == {DateOf(positions[id].lockupEnd) : id \in Rows}

\* Mutant: the dates are not sorted upwards.
UnlockDates_Descending ==
    CHOOSE dates \in SetToSeqs(Dates) : \A i, j \in DOMAIN dates : i < j => dates[i] > dates[j]

\* group by date, order by date.
UnlockDates ==
    CHOOSE dates \in SetToSeqs(Dates) : \A i, j \in DOMAIN dates : i < j => dates[i] < dates[j]

UnlockOn(date) == {id \in Rows : DateOf(positions[id].lockupEnd) = date}

\* What is left after i dates, by subtracting what unlocks on each.
Remaining[i \in 0 .. Len(UnlockDates)] ==
    IF i = 0 THEN Rows ELSE Remaining[i - 1] \ UnlockOn(UnlockDates[i])

DataPoints == [i \in DOMAIN UnlockDates |-> [date |-> UnlockDates[i], value |-> Remaining[i]]]

-----------------------------------------------------------------------------
\* The request has all it asked for.
Complete(view) == request.view = view /\ Answered

\* What it has read from a table.
Got(table) ==
    request.read[CHOOSE i \in DOMAIN Statements[request.view] :
                    Statements[request.view][i] = table]

ValuesCount == ~anchorMissing /\ ~anchorAhead

\* These are the contract's positions after block b, worth what they were at a
\* height of at least h.
Matches(rows, f, b, h) ==
    LET contract == IF b = 0 THEN [id \in Id |-> NoRow] ELSE book[b]
        Exact(height) == \A id \in Id : rows[id].exists =>
                            rows[id].usdc + f = contract[id].share + Price[height]
    IN  /\ \A id \in Id : /\ rows[id].exists <=> contract[id].exists
                          /\ rows[id].exists => rows[id].owner = contract[id].owner
        /\ ValuesCount => \E height \in Block : height >= h /\ Exact(height)

\* However many commits fall between its two statements, /staking answers with
\* the contract's positions at one block that was indexed meanwhile, and with
\* values of one height, though it multiplies values and a factor of two
\* transactions (views/staking.py:20-40).
StakingAnswerExact ==
    Complete("staking") =>
        \E b \in request.since - 1 .. lastBlock - 1 :
            Matches(Got("positions"), Got("indexer_state").factor, b, 0)

\* What /status lists is never older than the block and the height it says it
\* is of, only newer (views/status.py:8-11).
StatusNotBehind ==
    Complete("status") =>
        \E b \in Got("indexer_state").lastBlock - 1 .. lastBlock - 1 :
            Matches(Got("positions"), 0, b, Got("meta"))

\* last_time, which /staking gives as the time of the values, is never later
\* than their height, so that nobody is shown increments too few; and it is
\* earlier only for positions minted at that height (indexer.py:153-154, 369).
StampNotAhead ==
    (Committed /\ ~anchorMissing) =>
        /\ lastTime <= metaBlock
        /\ lastTime = metaBlock \/ \A id \in Rows :
              metaBlock = 1 \/ ~book[metaBlock - 1][id].exists

\* Each point of /stats/unlock is worth the positions of the contract that are
\* locked beyond its date, and the last is worth nothing (views/stats.py:84-116).
PointsMatchContract ==
    Committed =>
        /\ \A i \in DOMAIN DataPoints : DataPoints[i].value =
              {id \in Id : Indexed[id].exists /\ DateOf(Indexed[id].lockupEnd) > DataPoints[i].date}
        /\ Rows # {} => Last(DataPoints).value = {}
=============================================================================
