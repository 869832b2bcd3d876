-------------------------- MODULE ProtocolRegistry --------------------------
(***************************************************************************)
(* The tables protocols, protocols_premiums, protocols_nonstakers and      *)
(* protocols_coverages, and how they follow the protocol manager contract. *)
(*                                                                         *)
(* The contract emits several events in one block.  The indexer handles    *)
(* the events of a range class by class, in the order of Indexer.events,   *)
(* and not in the order they were emitted.  The transaction around a range *)
(* is that of IndexerLoop; here a range is the set of its handler calls,   *)
(* of which the first is made next, and a block stands for its timestamp. *)
(***************************************************************************)
EXTENDS Integers, Sequences

CONSTANTS
    Protocol,       \* protocols, by their bytes identifier
    Agent,          \* accounts that can be a protocol's agent
    Amount,         \* positive amounts: premiums and coverages
    Share,          \* positive shares of a premium that go to nonstakers
    MaxBlock,       \* bound: the chain stops growing
    MaxRange,       \* a range has at most MaxRange + 1 blocks
    Window          \* the seven days of ProtocolCoverage.update, in blocks

ASSUME RegistryAssumption ==
    /\ MaxBlock \in Nat \ {0} /\ MaxRange \in Nat /\ Window \in Nat \ {0}
    /\ Amount \subseteq Nat \ {0} /\ Share \subseteq Nat \ {0}

Block == 1..MaxBlock

\* The agent of a row that was just added.
NoAgent == "0x0"
\* The agent a removed protocol is transferred to.
AddressZero == "address zero"
NoRow == [exists |-> FALSE]

VARIABLES
    events,         \* events[b]: the set of events of block b
    book,           \* book[b]: the contract's protocols after block b
    protocols,      \* table protocols
    premiums,       \* premiums[p]: rows of p in protocols_premiums, oldest first
    nonstakers,     \* nonstakers[p]: likewise protocols_nonstakers
    coverages,      \* coverages[p]: likewise protocols_coverages
    lastBlock,      \* indexer_state.last_block
    rangeEnd,       \* end_block of the open range, 0 when none is open
    calls,          \* the handler calls the range has left
    flapped         \* history: protocols added and then removed within a range

chainVars == <<events, book>>
tableVars == <<protocols, premiums, nonstakers, coverages>>
vars == <<chainVars, tableVars, lastBlock, rangeEnd, calls, flapped>>

head == Len(events)

\* Every row is one the tables and their readers can hold: an amount of coverage
\* is never zero, an agent is an account or one of the two placeholders.
TypeOK ==
    /\ head \in 0..MaxBlock /\ Len(book) = head
    /\ \A p \in Protocol :
          /\ protocols[p].exists => /\ protocols[p].agent \in Agent \cup {NoAgent, AddressZero}
                                    /\ protocols[p].endedAt \in 0..MaxBlock
          /\ \A i \in DOMAIN premiums[p] :
                premiums[p][i] \in [premium : Amount \cup {0}, setAt : Block]
          /\ \A i \in DOMAIN nonstakers[p] :
                nonstakers[p][i] \in [nonstakers : Share \cup {0}, setAt : Block]
          /\ \A i \in DOMAIN coverages[p] :
                coverages[p][i] \in [amount : Amount, setAt : Block, claimableUntil : Nat]
    /\ lastBlock \in 1 .. MaxBlock + 1 /\ rangeEnd \in 0..MaxBlock
    /\ flapped \subseteq Protocol

Init ==
    /\ events = <<>> /\ book = <<>>
    /\ protocols = [p \in Protocol |-> NoRow]
    /\ premiums = [p \in Protocol |-> <<>>]
    /\ nonstakers = [p \in Protocol |-> <<>>]
    /\ coverages = [p \in Protocol |-> <<>>]
    /\ lastBlock = 1 /\ rangeEnd = 0 /\ calls = {} /\ flapped = {}

-----------------------------------------------------------------------------
(* The contract: at most one transaction in a block.                       *)

Inactive == [active |-> FALSE, agent |-> AddressZero, premium |-> 0, nonstakers |-> 0,
             coverage |-> 0]

Now == IF head = 0 THEN [p \in Protocol |-> Inactive] ELSE book[head]

Mined(emitted, after) ==
    /\ head < MaxBlock
    /\ events' = Append(events, emitted)
    /\ book' = Append(book, after)
    /\ UNCHANGED <<tableVars, lastBlock, rangeEnd, calls, flapped>>

EmptyBlock == Mined({}, Now)

Event(class, p) == [class |-> class, protocol |-> p]
AgentTransfer(p, a) == [class |-> "AgentTransfer", protocol |-> p, to |-> a]
Updated(p, c, s) == [class |-> "Updated", protocol |-> p, coverage |-> c, nonstakers |-> s]
PremiumChanged(p, m) == [class |-> "PremiumChanged", protocol |-> p, premium |-> m]

AddProtocol(p, a, c, s) ==
    /\ ~Now[p].active
    /\ Mined({AgentTransfer(p, a), Event("Added", p), Updated(p, c, s)},
             [Now EXCEPT ![p] = [active |-> TRUE, agent |-> a, premium |-> 0,
                                 nonstakers |-> s, coverage |-> c]])

UpdateProtocol(p, c, s) ==
    /\ Now[p].active
    /\ Mined({Updated(p, c, s)}, [Now EXCEPT ![p].coverage = c, ![p].nonstakers = s])

SetPremium(p, m) ==
    /\ Now[p].active
    /\ Mined({PremiumChanged(p, m)}, [Now EXCEPT ![p].premium = m])

TransferAgent(p, a) ==
    /\ Now[p].active
    /\ Mined({AgentTransfer(p, a)}, [Now EXCEPT ![p].agent = a])

\* Removal, by the owner or by an arbitrageur.
RemoveProtocol(p, class) ==
    /\ Now[p].active
    /\ Mined({PremiumChanged(p, 0), AgentTransfer(p, AddressZero), Updated(p, 0, 0),
              Event("Removed", p), Event(class, p)},
             [Now EXCEPT ![p] = Inactive])

Contract ==
    \/ EmptyBlock
    \/ \E p \in Protocol :
          \/ \E class \in {"Removed", "RemovedByArb"} : RemoveProtocol(p, class)
          \/ \E a \in Agent : TransferAgent(p, a)
          \/ \E m \in Amount : SetPremium(p, m)
          \/ \E c \in Amount, s \in Share :
                \/ UpdateProtocol(p, c, s)
                \/ \E a \in Agent : AddProtocol(p, a, c, s)

-----------------------------------------------------------------------------
(* Taking a range.                                                         *)

\* Mutant: agents are transferred before protocols are added, as emitted.
Classes_AsEmitted == <<"Removed", "RemovedByArb", "AgentTransfer", "Added", "Updated",
                       "PremiumChanged">>

\* Mutant: the coverage of a protocol is handled before the protocol is added.
Classes_UpdatedFirst == <<"Removed", "RemovedByArb", "Updated", "Added", "AgentTransfer",
                          "PremiumChanged">>

\* The order of Indexer.events.
Classes == <<"Removed", "RemovedByArb", "Added", "AgentTransfer", "Updated",
             "PremiumChanged">>

\* The events of the range.
RangeCalls(first, end) ==
    UNION {{[event |-> e, block |-> b] : e \in events[b]} : b \in first..end}

\* They are handled class after class and those of one class in block order; a
\* block holds at most one event of a class.
Rank(call) == CHOOSE i \in DOMAIN Classes : Classes[i] = call.event.class

First(call) ==
    /\ call \in calls
    /\ \A c \in calls \ {call} : \/ Rank(call) < Rank(c)
                                 \/ Rank(call) = Rank(c) /\ call.block < c.block

Emits(class, p, b) == \E e \in events[b] : e.class = class /\ e.protocol = p

TakeRange(end) ==
    /\ rangeEnd = 0
    /\ lastBlock <= end /\ end <= head /\ end - lastBlock <= MaxRange
    /\ rangeEnd' = end
    /\ calls' = RangeCalls(lastBlock, end)
    /\ flapped' = flapped \cup {p \in Protocol : \E b, c \in lastBlock..end :
                                   b < c /\ Emits("Added", p, b) /\ Emits("Removed", p, c)}
    /\ UNCHANGED <<chainVars, tableVars, lastBlock>>

CommitRange ==
    /\ rangeEnd # 0 /\ calls = {}
    /\ lastBlock' = rangeEnd + 1
    /\ rangeEnd' = 0
    /\ UNCHANGED <<chainVars, tableVars, calls, flapped>>

-----------------------------------------------------------------------------
(* The handlers.                                                           *)

\* The call of a handler is the first one that is left.
Handles(call, classes) == First(call) /\ call.event.class \in classes

Return(call) == calls' = calls \ {call} /\ UNCHANGED <<chainVars, lastBlock, rangeEnd, flapped>>

\* Protocol.remove: coverage ends; an unknown protocol is ignored.
HandleRemoved(call) ==
    LET p == call.event.protocol IN
    /\ Handles(call, {"Removed", "RemovedByArb"})
    /\ protocols' = IF protocols[p].exists
                    THEN [protocols EXCEPT ![p].endedAt = call.block] ELSE protocols
    /\ Return(call) /\ UNCHANGED <<premiums, nonstakers, coverages>>

\* Mutant: a protocol that was removed stays so.
Added_Again(p) ==
    IF protocols[p].exists THEN protocols[p]
    ELSE [exists |-> TRUE, agent |-> NoAgent, endedAt |-> 0]

\* Protocol.insert: the row of a new protocol, or an old row enabled again.
Added(p) ==
    IF protocols[p].exists THEN [protocols[p] EXCEPT !.endedAt = 0]
    ELSE [exists |-> TRUE, agent |-> NoAgent, endedAt |-> 0]

HandleAdded(call) ==
    /\ Handles(call, {"Added"})
    /\ protocols' = [protocols EXCEPT ![call.event.protocol] = Added(call.event.protocol)]
    /\ Return(call) /\ UNCHANGED <<premiums, nonstakers, coverages>>

HandleAgentTransfer(call) ==
    LET p == call.event.protocol IN
    /\ Handles(call, {"AgentTransfer"})
    /\ protocols' = IF protocols[p].exists
                    THEN [protocols EXCEPT ![p].agent = call.event.to] ELSE protocols
    /\ Return(call) /\ UNCHANGED <<premiums, nonstakers, coverages>>

\* ProtocolCoverage.get_protocol_coverages, as positions in rows.
TwoNewest(rows) == DOMAIN rows \cap {Len(rows) - 1, Len(rows)}

Until(rows, indices, t) ==
    [i \in DOMAIN rows |-> IF i \in indices THEN [rows[i] EXCEPT !.claimableUntil = t]
                           ELSE rows[i]]

NewCoverage(c, t) == [amount |-> c, setAt |-> t, claimableUntil |-> 0]

\* A new coverage closes the second newest row, if there are two.
Replaced(rows, c, t) ==
    Append(Until(rows, {Len(rows) - 1}, t), NewCoverage(c, t))

\* Mutant: a removed protocol's coverage is stored like any other.
Covered_ZeroToo(rows, c, t) == Replaced(rows, c, t)

\* Mutant: the newest coverage is closed, not the one before it.
Covered_ClosesNewest(rows, c, t) ==
    IF c = 0 THEN Until(rows, TwoNewest(rows), t + Window)
    ELSE Append(Until(rows, IF Len(rows) >= 2 THEN {Len(rows)} ELSE {}, t), NewCoverage(c, t))

\* ProtocolCoverage.update.  Without coverage the two newest rows stay claimable
\* for the window.
Covered(rows, c, t) ==
    IF c = 0 THEN Until(rows, TwoNewest(rows), t + Window) ELSE Replaced(rows, c, t)

\* The insert of premiums and nonstakers: a row that is there is not repeated.
Saved(rows, row) ==
    IF \E i \in DOMAIN rows : rows[i] = row THEN rows ELSE Append(rows, row)

HandleUpdated(call) ==
    LET p == call.event.protocol IN
    /\ Handles(call, {"Updated"})
    /\ IF protocols[p].exists
       THEN /\ coverages' = [coverages EXCEPT ![p] =
                   Covered(@, call.event.coverage, call.block)]
            /\ nonstakers' = [nonstakers EXCEPT ![p] =
                   Saved(@, [nonstakers |-> call.event.nonstakers, setAt |-> call.block])]
       ELSE UNCHANGED <<coverages, nonstakers>>
    /\ Return(call) /\ UNCHANGED <<protocols, premiums>>

HandlePremiumChanged(call) ==
    LET p == call.event.protocol IN
    /\ Handles(call, {"PremiumChanged"})
    /\ premiums' = IF protocols[p].exists
                   THEN [premiums EXCEPT ![p] =
                            Saved(@, [premium |-> call.event.premium, setAt |-> call.block])]
                   ELSE premiums
    /\ Return(call) /\ UNCHANGED <<protocols, nonstakers, coverages>>

Indexer ==
    \/ \E end \in Block : TakeRange(end)
    \/ \E call \in calls :
          \/ HandleRemoved(call) \/ HandleAdded(call) \/ HandleAgentTransfer(call)
          \/ HandleUpdated(call) \/ HandlePremiumChanged(call)
    \/ CommitRange

Next == Contract \/ Indexer

Spec == Init /\ [][Next]_vars

-----------------------------------------------------------------------------
\* GET /protocols joins each protocol with its newest premium: without a premium
\* it is not listed.  The coverages it lists are the TwoNewest.
Listed == {p \in Protocol : protocols[p].exists /\ premiums[p] # <<>>}

\* Between two ranges, when the tables are visible to readers.
Committed == rangeEnd = 0 /\ lastBlock > 1

\* The contract's protocols at the last block that was indexed.
Indexed == book[lastBlock - 1]

Newest(rows) == rows[Len(rows)]

LatestPremium(p) == IF premiums[p] = <<>> THEN 0 ELSE Newest(premiums[p]).premium

LatestNonstakers(p) == IF nonstakers[p] = <<>> THEN 0 ELSE Newest(nonstakers[p]).nonstakers

\* A protocol has the contract's agent, premium and nonstakers' share, and its newest
\* coverage is the contract's, or closed when there is none.
DetailsMatch(p) ==
    /\ Indexed[p].active => protocols[p].exists
    /\ Indexed[p].premium > 0 => p \in Listed
    /\ protocols[p].exists =>
          /\ protocols[p].agent = Indexed[p].agent
          /\ LatestPremium(p) = Indexed[p].premium
          /\ LatestNonstakers(p) = Indexed[p].nonstakers
          /\ Indexed[p].active => Newest(coverages[p]).amount = Indexed[p].coverage
          /\ ~Indexed[p].active => Newest(coverages[p]).claimableUntil # 0

\* After every range the details of each protocol are the contract's, and all that
\* pay a premium are listed.  Handling the events class by class loses nothing
\* (indexer.py:53-86, 485-536, views/protocols.py:11-26).
DetailsMatchContract == Committed => \A p \in Protocol : DetailsMatch(p)

\* At every block calc_apy can find the nonstakers of a protocol that pays a
\* premium; without that row it raises, in this range and every retry of it
\* (protocol_premium.py:64-81).
PremiumsHaveNonstakers ==
    Committed => \A p \in Protocol : LatestPremium(p) > 0 => nonstakers[p] # <<>>

\* A protocol can claim against its two newest coverages, which are listed, and
\* against no older one (protocol_coverage.py:22-65, views/protocols.py:25-34).
OldCoveragesClosed ==
    Committed => \A p \in Protocol :
        \A i \in DOMAIN coverages[p] \ TwoNewest(coverages[p]) :
            coverages[p][i].claimableUntil \in 1 .. lastBlock - 1

\* The end of coverage is recorded for removed protocols and for no other.
StatusMatches(p) ==
    protocols[p].exists => (protocols[p].endedAt = 0 <=> Indexed[p].active)

\* Removals are handled before additions; only a protocol added and then removed
\* within one range ends up with the wrong status (indexer.py:71-86, 509-513).
StatusMatchesUnlessFlapped ==
    Committed => \A p \in Protocol \ flapped : StatusMatches(p)
=============================================================================
