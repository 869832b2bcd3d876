----------------------------- MODULE Dependents -----------------------------
(***************************************************************************)
(* The tables claims, claim_status, fundraise_positions and airdrops.      *)
(*                                                                         *)
(* What their handlers have in common is that they need a row that was to  *)
(* come before: a claim its protocol, a status its claim, a fundraise      *)
(* claim its purchase, an airdrop claim the row that an operator imports   *)
(* with a script.  A handler that does not find it raises: the range is    *)
(* rolled back and taken again.  So is one with a claim whose ancillary    *)
(* data the handler cannot parse, and that for ever.                       *)
(*                                                                         *)
(* The faults of IndexerLoop are left out: here only a handler raises.     *)
(* There is one protocol, and each distributor drops to one account.  A    *)
(* block stands for its timestamp.                                         *)
(***************************************************************************)
EXTENDS Integers, Sequences, FiniteSets, SequencesExt, FiniteSetsExt

CONSTANTS
    Buyer,          \* accounts that buy in the fundraise
    Distributor,    \* MERKLE_DISTRIBUTORS_WSS
    Importer,       \* processes of import_airdrop_data.py
    MaxClaims,      \* bound: claims of the protocol
    MaxBlock,       \* bound: the chain stops growing
    MaxRange        \* a range has at most MaxRange + 1 blocks

ASSUME DependentsAssumption ==
    /\ MaxClaims \in Nat /\ MaxBlock \in Nat \ {0} /\ MaxRange \in Nat
    /\ IsFiniteSet(Distributor) /\ IsFiniteSet(Importer)

ClaimId == 1..MaxClaims
Block == 1..MaxBlock

\* Of ClaimStatus.Status the states that differ in how they follow each other.
NonExistent == 0
SpccPending == 1
SpccApproved == 2
UmaPriceProposed == 4
UmaPending == 7
Cleaned == 11
PaidOut == 12
Status == {SpccPending, SpccApproved, UmaPriceProposed, UmaPending, Cleaned, PaidOut}

VARIABLES
    events,         \* events[b]: the events of block b, as they were emitted
    unparsable,     \* the claims whose ancillary data, which the contract keeps, has
                    \* a pair without a colon
    db,             \* the committed tables
    tx,             \* the tables as the open transaction sees them
    airdrops,       \* airdrops[d]: how many rows d has in table airdrops
    running,        \* the imports with an open transaction
    pending,        \* pending[i]: the rows that i is about to commit
    lastBlock,      \* indexer_state.last_block
    rangeEnd,       \* end_block of the open range, 0 when none is open
    calls,          \* the handler calls the range has left
    overlapped      \* history: an import began while another was running

indexerVars == <<tx, db, lastBlock, rangeEnd, calls>>
importVars == <<airdrops, running, pending, overlapped>>
vars == <<events, unparsable, indexerVars, importVars>>

head == Len(events)

Tables == [protocol : BOOLEAN, claims : SUBSET ClaimId,
           statuses : Seq([claim : ClaimId, status : Status, timestamp : Block]),
           positions : [Buyer -> [amount : Nat, claimedAt : Block \cup {0}]],
           claimedAt : [Distributor -> Block \cup {0}]]

\* A status is one of those the readers know, and never the absence of a claim.
TypeOK ==
    /\ head \in 0..MaxBlock /\ unparsable \subseteq ClaimId
    /\ db \in Tables /\ tx \in Tables
    /\ airdrops \in [Distributor -> 0..Cardinality(Importer)]
    /\ running \subseteq Importer /\ pending \in [Importer -> SUBSET Distributor]
    /\ lastBlock \in 1 .. MaxBlock + 1 /\ rangeEnd \in 0..MaxBlock
    /\ overlapped \in BOOLEAN

NoTables == [protocol |-> FALSE, claims |-> {}, statuses |-> <<>>,
             positions |-> [b \in Buyer |-> [amount |-> 0, claimedAt |-> 0]],
             claimedAt |-> [d \in Distributor |-> 0]]

Init ==
    /\ events = <<>> /\ unparsable = {} /\ db = NoTables /\ tx = NoTables
    /\ airdrops = [d \in Distributor |-> 0] /\ running = {} /\ pending = [i \in Importer |-> {}]
    /\ lastBlock = 1 /\ rangeEnd = 0 /\ calls = {} /\ overlapped = FALSE

-----------------------------------------------------------------------------
(* The contracts: one transaction in a block.  Blocks without one are left *)
(* out, nothing here depends on how far apart blocks are.                  *)

ProtocolAdded == [class |-> "ProtocolAdded"]
ClaimCreated(c) == [class |-> "ClaimCreated", claim |-> c]
StatusChanged(c, s) == [class |-> "ClaimStatusChanged", claim |-> c, state |-> s]
ClaimPayout(c) == [class |-> "ClaimPayout", claim |-> c]
Purchase(b) == [class |-> "Purchase", buyer |-> b]
FundraiseClaim(b) == [class |-> "Claim", buyer |-> b]
AirdropClaim(d) == [class |-> "Claimed", distributor |-> d]

Emitted(e, b) == \E i \in 1..b : e \in Range(events[i])

Created(b) == {c \in ClaimId : Emitted(ClaimCreated(c), b)}

\* Event i of block b changes the state of c.
Changes(b, i, c) == events[b][i].class = "ClaimStatusChanged" /\ events[b][i].claim = c

\* The state that c is in.
State(c) ==
    LET blocks == {b \in 1..head : \E i \in DOMAIN events[b] : Changes(b, i, c)}
        last == {i \in DOMAIN events[Max(blocks)] : Changes(Max(blocks), i, c)}
    IN  IF blocks = {} THEN NonExistent ELSE events[Max(blocks)][Max(last)].state

Mined(emitted) ==
    /\ head < MaxBlock
    /\ events' = Append(events, emitted)
    /\ UNCHANGED <<indexerVars, importVars>>

Emits(emitted) == Mined(emitted) /\ UNCHANGED unparsable

AddProtocol == ~Emitted(ProtocolAdded, head) /\ Emits(<<ProtocolAdded>>)

\* A protocol has one claim at a time; claims are numbered.
StartClaim(c) ==
    /\ Emitted(ProtocolAdded, head)
    /\ Created(head) = 1 .. c - 1
    /\ \A d \in 1 .. c - 1 : State(d) \in {NonExistent, Cleaned}
    /\ Mined(<<ClaimCreated(c), StatusChanged(c, SpccPending)>>)
    /\ UNCHANGED unparsable \/ unparsable' = unparsable \cup {c}

\* The committee approves, the agent withdraws, or the claim is escalated, which
\* takes it through several states in one block.
ChangeStatus(c) ==
    /\ State(c) = SpccPending
    /\ \E states \in {<<SpccApproved>>, <<Cleaned>>, <<UmaPriceProposed, UmaPending>>} :
          Emits([i \in DOMAIN states |-> StatusChanged(c, states[i])])

\* A payout deletes the claim, which is a change of its state.
PayOut(c) ==
    /\ State(c) = SpccApproved
    /\ Emits(<<StatusChanged(c, NonExistent), ClaimPayout(c)>>)

\* Every purchase is of the same amount.
Buy(b) == ~Emitted(FundraiseClaim(b), head) /\ Emits(<<Purchase(b)>>)

ClaimFundraise(b) ==
    /\ Emitted(Purchase(b), head) /\ ~Emitted(FundraiseClaim(b), head)
    /\ Emits(<<FundraiseClaim(b)>>)

ClaimAirdrop(d) == ~Emitted(AirdropClaim(d), head) /\ Emits(<<AirdropClaim(d)>>)

Contracts ==
    \/ AddProtocol
    \/ \E c \in ClaimId : StartClaim(c) \/ ChangeStatus(c) \/ PayOut(c)
    \/ \E b \in Buyer : Buy(b) \/ ClaimFundraise(b)
    \/ \E d \in Distributor : ClaimAirdrop(d)

-----------------------------------------------------------------------------
(* The script that imports the airdrops of one distributor, without the    *)
(* indexer's lock.                                                         *)

\* Mutant: a row is inserted without a look at those that are there.
Missing_All(d) == {d}

\* Airdrop.insert: a row that is there already is not repeated.
Missing(d) == IF airdrops[d] = 0 THEN {d} ELSE {}

\* A row that is there twice makes the script fail.
BeginImport(i) ==
    /\ i \notin running
    /\ \E d \in Distributor : airdrops[d] <= 1 /\ pending' = [pending EXCEPT ![i] = Missing(d)]
    /\ running' = running \cup {i}
    /\ overlapped' = (overlapped \/ running # {})
    /\ UNCHANGED <<events, unparsable, indexerVars, airdrops>>

CommitImport(i) ==
    /\ i \in running
    /\ airdrops' = [d \in Distributor |->
                       IF d \in pending[i] THEN airdrops[d] + 1 ELSE airdrops[d]]
    /\ running' = running \ {i}
    /\ pending' = [pending EXCEPT ![i] = {}]
    /\ UNCHANGED <<events, unparsable, indexerVars, overlapped>>

-----------------------------------------------------------------------------
(* The indexer takes a range.                                              *)

\* Mutant: the statuses of claims are handled before the claims.
Classes_StatusFirst ==
    <<"Purchase", "ProtocolAdded", "ClaimStatusChanged", "ClaimCreated", "ClaimPayout",
      "Claim">> \o [i \in 1 .. Cardinality(Distributor) |-> "Claimed"]

\* The order of Indexer.events.  A class is known by its name only, so each
\* distributor's class returns the claims of all distributors.
Classes ==
    <<"Purchase", "ProtocolAdded", "ClaimCreated", "ClaimStatusChanged", "ClaimPayout",
      "Claim">> \o [i \in 1 .. Cardinality(Distributor) |-> "Claimed"]

\* The calls of a pass, for the events of its class in first..end.
CallsOf(pass, first, end) ==
    UNION {{[pass |-> pass, block |-> b, index |-> i] :
               i \in {j \in DOMAIN events[b] : events[b][j].class = Classes[pass]}} : b \in first..end}

RangeCalls(first, end) == UNION {CallsOf(pass, first, end) : pass \in DOMAIN Classes}

TakeRange(end) ==
    /\ rangeEnd = 0
    /\ lastBlock <= end /\ end <= head /\ end - lastBlock <= MaxRange
    /\ rangeEnd' = end
    /\ calls' = RangeCalls(lastBlock, end)
    /\ UNCHANGED <<events, unparsable, db, tx, lastBlock, importVars>>

CommitRange ==
    /\ rangeEnd # 0 /\ calls = {}
    /\ db' = tx
    /\ lastBlock' = rangeEnd + 1
    /\ rangeEnd' = 0
    /\ UNCHANGED <<events, unparsable, tx, calls, importVars>>

-----------------------------------------------------------------------------
(* The handlers.                                                           *)

Event(call) == events[call.block][call.index]

\* Pass after pass, in each of them as the events were emitted.
Precedes(c, d) ==
    \/ c.pass < d.pass
    \/ c.pass = d.pass /\ c.block < d.block
    \/ c.pass = d.pass /\ c.block = d.block /\ c.index < d.index

\* The call of a handler is the first one that is left.
Handles(call, class) ==
    /\ call \in calls /\ \A c \in calls \ {call} : Precedes(call, c)
    /\ Event(call).class = class

Return(call) ==
    /\ calls' = calls \ {call}
    /\ UNCHANGED <<events, unparsable, db, lastBlock, rangeEnd, importVars>>

HandleProtocolAdded(call) ==
    /\ Handles(call, "ProtocolAdded")
    /\ tx' = [tx EXCEPT !.protocol = TRUE]
    /\ Return(call)

\* A claim of an unknown protocol is ignored.
HandleClaimCreated(call) ==
    /\ Handles(call, "ClaimCreated")
    /\ tx.protocol => Event(call).claim \notin unparsable
    /\ tx' = IF tx.protocol THEN [tx EXCEPT !.claims = @ \cup {Event(call).claim}] ELSE tx
    /\ Return(call)

\* ClaimStatus.insert; the foreign key wants the claim.
Inserted(call, s) ==
    Append(tx.statuses, [claim |-> Event(call).claim, status |-> s, timestamp |-> call.block])

\* Mutant: the deletion of a claim is stored like any other state.
HandleClaimStatusChanged_Deleted(call) ==
    /\ Handles(call, "ClaimStatusChanged") /\ Event(call).claim \in tx.claims
    /\ tx' = [tx EXCEPT !.statuses = Inserted(call, Event(call).state)]
    /\ Return(call)

\* The deletion of a claim is not stored.
HandleClaimStatusChanged(call) ==
    /\ Handles(call, "ClaimStatusChanged")
    /\ \/ Event(call).state = NonExistent /\ UNCHANGED tx
       \/ /\ Event(call).state # NonExistent /\ Event(call).claim \in tx.claims
          /\ tx' = [tx EXCEPT !.statuses = Inserted(call, Event(call).state)]
    /\ Return(call)

HandleClaimPayout(call) ==
    /\ Handles(call, "ClaimPayout") /\ Event(call).claim \in tx.claims
    /\ tx' = [tx EXCEPT !.statuses = Inserted(call, PaidOut)]
    /\ Return(call)

\* Mutant: the row of a second purchase replaces that of the first.
Purchased_Replaced(amount) == 1

\* The first purchase inserts the row, the others add to it.
Purchased(amount) == amount + 1

HandlePurchase(call) ==
    /\ Handles(call, "Purchase")
    /\ tx' = [tx EXCEPT !.positions[Event(call).buyer].amount = Purchased(@)]
    /\ Return(call)

HandleClaim(call) ==
    /\ Handles(call, "Claim") /\ tx.positions[Event(call).buyer].amount > 0
    /\ tx' = [tx EXCEPT !.positions[Event(call).buyer].claimedAt = call.block]
    /\ Return(call)

\* Mutant: of the rows to mark only one that is not marked yet is looked for.
Found_Unclaimed(d) == airdrops[d] = 1 /\ tx.claimedAt[d] = 0

\* mark_claimed finds exactly one row.
Found(d) == airdrops[d] = 1

\* Mutant: the claim is looked for by its index, whatever the contract.
Marked_AnyContract(d, block) == [e \in Distributor |-> block]

Marked(d, block) == [tx.claimedAt EXCEPT ![d] = block]

HandleClaimed(call) ==
    /\ Handles(call, "Claimed") /\ Found(Event(call).distributor)
    /\ tx' = [tx EXCEPT !.claimedAt = Marked(Event(call).distributor, call.block)]
    /\ Return(call)

\* The handler of the next event does not find the row it needs.
LacksRow(call) ==
    \/ /\ Handles(call, "ClaimStatusChanged")
       /\ Event(call).state # NonExistent /\ Event(call).claim \notin tx.claims
    \/ Handles(call, "ClaimPayout") /\ Event(call).claim \notin tx.claims
    \/ Handles(call, "Claim") /\ tx.positions[Event(call).buyer].amount = 0
    \/ Handles(call, "Claimed") /\ ~Found(Event(call).distributor)

\* It cannot take the ancillary data of a claim apart, which raises a ValueError.
CannotParse(call) ==
    Handles(call, "ClaimCreated") /\ tx.protocol /\ Event(call).claim \in unparsable

Raises(call) == LacksRow(call) \/ CannotParse(call)

\* The transaction is rolled back, the range taken again.
Abort(call) ==
    /\ Raises(call)
    /\ tx' = db
    /\ rangeEnd' = 0 /\ calls' = {}
    /\ UNCHANGED <<events, unparsable, db, lastBlock, importVars>>

Indexer ==
    \/ \E end \in Block : TakeRange(end)
    \/ \E call \in calls :
          \/ HandleProtocolAdded(call) \/ HandleClaimCreated(call)
          \/ HandleClaimStatusChanged(call) \/ HandleClaimPayout(call)
          \/ HandlePurchase(call) \/ HandleClaim(call) \/ HandleClaimed(call)
          \/ Abort(call)
    \/ CommitRange

Next ==
    \/ Contracts
    \/ \E i \in Importer : BeginImport(i) \/ CommitImport(i)
    \/ Indexer

Spec == Init /\ [][Next]_vars

\* The indexer takes its next step.  Nobody has to import anything.
FairSpec == Spec /\ WF_vars(Indexer)

-----------------------------------------------------------------------------
(* What readers get.                                                       *)

\* Claim.get_active_claim_by_protocol: the newest claim that has a status.
ActiveClaim(tables) ==
    LET listed == {tables.statuses[i].claim : i \in DOMAIN tables.statuses}
    IN  IF listed = {} THEN 0 ELSE Max(listed)

\* Mutant: the newest come first by their time only; of those of one time, the
\* oldest.
Before_ByTime(rows, i, j) ==
    \/ rows[i].timestamp > rows[j].timestamp
    \/ rows[i].timestamp = rows[j].timestamp /\ i < j

\* The order of ClaimStatus.get_claim_status: by time, then by id, newest first.
Before(rows, i, j) ==
    \/ rows[i].timestamp > rows[j].timestamp
    \/ rows[i].timestamp = rows[j].timestamp /\ i > j

\* A set as a sequence in this order.
InOrder(S, Op(_, _)) ==
    CHOOSE s \in SetToSeqs(S) : \A i, j \in DOMAIN s : i < j => Op(s[i], s[j])

\* The statuses of c as they are listed.
Listed(tables, c) ==
    LET ids == {i \in DOMAIN tables.statuses : tables.statuses[i].claim = c}
        order == InOrder(ids, LAMBDA i, j : Before(tables.statuses, i, j))
    IN  [i \in DOMAIN order |-> tables.statuses[order[i]].status]

-----------------------------------------------------------------------------
\* The last block the committed tables know of.
Indexed == lastBlock - 1

\* An event that gives c a state that readers see.
Shows(e, c) ==
    /\ e.class = "ClaimPayout" \/ (e.class = "ClaimStatusChanged" /\ e.state # NonExistent)
    /\ e.claim = c

Shown(e) == IF e.class = "ClaimPayout" THEN PaidOut ELSE e.state

\* The states that c went through up to block b, as they were emitted, and PaidOut
\* for the deletion after a payout.
StoredStates(c, b) ==
    LET places == UNION {{<<k, i>> : i \in DOMAIN events[k]} : k \in 1..b}
        order == InOrder({p \in places : Shows(events[p[1]][p[2]], c)},
                         LAMBDA p, q : p[1] < q[1] \/ (p[1] = q[1] /\ p[2] < q[2]))
    IN  [i \in DOMAIN order |-> Shown(events[order[i][1]][order[i][2]])]

\* At any commit the newest claim is that of the contract up to the block that was
\* indexed, and each claim is listed with the states it went through, newest first,
\* although payouts are handled after all other states of a range.  The view asks
\* for the claim and then for the states of the one it got: ranges committed between
\* the two leave it with a claim and the states it has at a later commit
\* (indexer.py:538-590, claim.py:55-64, claim_status.py:59-67, views/claims.py:9-14).
ViewTellsTheStates ==
    /\ ActiveClaim(db) = Max(Created(Indexed) \cup {0})
    /\ \A c \in ClaimId : Listed(db, c) = Reverse(StoredStates(c, Indexed))

\* The handlers only ever wait for an import: whatever the range, the protocol
\* of a claim, the claim of a status and the purchase of a fundraise claim are
\* there before them (indexer.py:54-86, 538-603).
OnlyImportsAreMissing == \A call \in calls : LacksRow(call) => Event(call).class = "Claimed"

\* A buyer's position is the sum of what was bought up to the block that was
\* indexed, and claimed if it was, however often ranges were taken again
\* (indexer.py:468-483, fundraise_position.py:35-42).
FundraiseMatches ==
    \A b \in Buyer :
        /\ db.positions[b].amount =
              Cardinality({i \in 1..Indexed : Purchase(b) \in Range(events[i])})
        /\ db.positions[b].claimedAt # 0 <=> Emitted(FundraiseClaim(b), Indexed)

\* A row is marked when, and at the block, its own distributor says so: no claim
\* is lost because its row was imported late (airdrop.py:49-60).
AirdropsMatch ==
    \A d \in Distributor : \A b \in 0..MaxBlock :
        db.claimedAt[d] = b <=>
            IF b = 0 THEN ~Emitted(AirdropClaim(d), Indexed)
            ELSE b <= Indexed /\ AirdropClaim(d) \in Range(events[b])

\* Importing twice is harmless unless both imports run at once: only then can a
\* row be there twice, which mark_claimed does not survive (airdrop.py:30-47).
DuplicatesFromOverlapOnly == \A d \in Distributor : airdrops[d] > 1 => overlapped

\* A range that waits for an import is taken again until it succeeds: with all
\* airdrops imported once, everything is indexed, unless a claim cannot be parsed
\* (indexer.py:558-561, 592-597, 676-678).
ImportedThenIndexed ==
    (\A d \in Distributor : airdrops[d] = 1) ~>
        (lastBlock > head \/ unparsable # {} \/ \E d \in Distributor : airdrops[d] > 1)
=============================================================================
