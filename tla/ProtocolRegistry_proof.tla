----------------------- MODULE ProtocolRegistry_proof -----------------------
(***************************************************************************)
(* Proofs about ProtocolRegistry: for every chain, however its blocks are  *)
(* cut into ranges, handling the events class by class leaves the tables   *)
(* as the contract has it.                                                 *)
(***************************************************************************)
EXTENDS ProtocolRegistry, NatLemmas

-----------------------------------------------------------------------------
(* The chain.                                                              *)

\* The contract after block b.
At(b) == IF b = 0 THEN [p \in Protocol |-> Inactive] ELSE book[b]

ContractRow == [active : BOOLEAN, agent : Agent \cup {AddressZero}, premium : Amount \cup {0},
                nonstakers : Share \cup {0}, coverage : Amount \cup {0}]

Events ==
    [class : {"Removed", "RemovedByArb", "Added"}, protocol : Protocol]
    \cup [class : {"AgentTransfer"}, protocol : Protocol, to : Agent \cup {AddressZero}]
    \cup [class : {"Updated"}, protocol : Protocol, coverage : Amount \cup {0},
          nonstakers : Share \cup {0}]
    \cup [class : {"PremiumChanged"}, protocol : Protocol, premium : Amount \cup {0}]

\* An event says what changed, and what no event says did not change.
Told(p, b) ==
    LET was == At(b - 1)[p]
        is == At(b)[p]
    IN  /\ \A e \in events[b] :
              e.protocol = p =>
                  /\ e.class = "AgentTransfer" => is.agent = e.to
                  /\ e.class = "PremiumChanged" => is.premium = e.premium
                  /\ e.class = "Updated" => /\ is.coverage = e.coverage
                                            /\ is.nonstakers = e.nonstakers
        /\ Emits("AgentTransfer", p, b) \/ is.agent = was.agent
        /\ Emits("PremiumChanged", p, b) \/ is.premium = was.premium
        /\ \/ Emits("Updated", p, b)
           \/ is.coverage = was.coverage /\ is.nonstakers = was.nonstakers

\* A protocol is added, is active, and is removed.
LifeCycle(p, b) ==
    LET was == At(b - 1)[p]
        is == At(b)[p]
    IN  /\ Emits("Added", p, b) => /\ ~was.active /\ is.active
                                   /\ Emits("AgentTransfer", p, b) /\ Emits("Updated", p, b)
        /\ Emits("Removed", p, b) => was.active /\ ~is.active
        /\ Emits("RemovedByArb", p, b) => Emits("Removed", p, b)
        /\ Emits("Added", p, b) \/ Emits("Removed", p, b) \/ is.active = was.active
        /\ \A class \in {"AgentTransfer", "Updated", "PremiumChanged"} :
              Emits(class, p, b) => was.active \/ Emits("Added", p, b)

\* Only an active protocol has coverage, a premium and a nonstakers' share.
Terms(row) ==
    IF row.active THEN row.coverage # 0 /\ row.nonstakers # 0
                  ELSE row.coverage = 0 /\ row.premium = 0 /\ row.agent = AddressZero

OneOfAClass(b) == \A d, e \in events[b] : d.class = e.class => d = e

ChainOk ==
    /\ events \in Seq(SUBSET Events) /\ book \in Seq([Protocol -> ContractRow])
    /\ Len(book) = head /\ head <= MaxBlock
    /\ \A b \in 1..head : /\ OneOfAClass(b)
                          /\ \A p \in Protocol : /\ Told(p, b) /\ LifeCycle(p, b)
                                                 /\ Terms(book[b][p])

-----------------------------------------------------------------------------
(* The range.                                                              *)

\* The last block of the open range, or of the one before it.
End == IF rangeEnd = 0 THEN lastBlock - 1 ELSE rangeEnd

Precedes(c, d) == Rank(c) < Rank(d) \/ (Rank(c) = Rank(d) /\ c.block < d.block)

\* The calls that are left are the last ones of the range.
CallsOk ==
    /\ lastBlock \in Nat \ {0} /\ rangeEnd \in Nat /\ lastBlock - 1 <= End /\ End <= head
    /\ rangeEnd # 0 => lastBlock <= rangeEnd
    /\ rangeEnd = 0 => calls = {}
    /\ calls \subseteq RangeCalls(lastBlock, End)
    /\ \A c \in calls, d \in RangeCalls(lastBlock, End) : Precedes(c, d) => d \in calls

\* A call for an event of this class is left.
Left(class, p, b) ==
    \E c \in calls : c.event.class = class /\ c.event.protocol = p /\ c.block = b

\* The events of this class are handled up to block b, and not after it.
HandledTo(class, p, b) ==
    /\ b \in lastBlock - 1 .. End
    /\ \A k \in lastBlock..b : ~Left(class, p, k)
    /\ \A k \in b + 1 .. End : Emits(class, p, k) => Left(class, p, k)

EmittedBy(class, p, b) == \E k \in 1..b : Emits(class, p, k)

-----------------------------------------------------------------------------
(* The tables: each one is what the contract had when the events of its    *)
(* class that are handled were emitted.                                    *)

RowAgent == Agent \cup {NoAgent, AddressZero}
EndBlock == 0..MaxBlock

ProtocolRow == [exists : BOOLEAN, agent : RowAgent, endedAt : EndBlock]
PremiumRow == [premium : Amount \cup {0}, setAt : Block]
NonstakersRow == [nonstakers : Share \cup {0}, setAt : Block]
CoverageRow == [amount : Amount, setAt : Block, claimableUntil : Nat]

TablesTyped ==
    /\ protocols \in [Protocol -> {NoRow} \cup ProtocolRow]
    /\ premiums \in [Protocol -> Seq(PremiumRow)]
    /\ nonstakers \in [Protocol -> Seq(NonstakersRow)]
    /\ coverages \in [Protocol -> Seq(CoverageRow)]
    /\ flapped \subseteq Protocol

\* The rows are older than the calls that are left.
RowsOlder(rows, class, p) ==
    \A i \in DOMAIN rows : /\ rows[i].setAt <= End
                           /\ \A b \in 1..End : Left(class, p, b) => rows[i].setAt < b

ExistsOk(p) ==
    /\ \A b \in 1..End : Emits("Added", p, b) => protocols[p].exists \/ Left("Added", p, b)
    /\ protocols[p].exists => EmittedBy("Added", p, End)

AgentOk(p) ==
    \A b \in 0..End :
        HandledTo("AgentTransfer", p, b) /\ EmittedBy("AgentTransfer", p, b) =>
            protocols[p].exists /\ protocols[p].agent = At(b)[p].agent

PremiumOk(p) ==
    /\ RowsOlder(premiums[p], "PremiumChanged", p)
    /\ \A b \in 0..End :
          HandledTo("PremiumChanged", p, b) => LatestPremium(p) = At(b)[p].premium

NonstakersOk(p) ==
    /\ RowsOlder(nonstakers[p], "Updated", p)
    /\ \A b \in 0..End :
          HandledTo("Updated", p, b) => LatestNonstakers(p) = At(b)[p].nonstakers

CoverageOk(p) ==
    \A b \in 0..End :
        HandledTo("Updated", p, b) /\ EmittedBy("Updated", p, b) =>
            /\ coverages[p] # <<>>
            /\ IF At(b)[p].coverage = 0 THEN Newest(coverages[p]).claimableUntil # 0
               ELSE Newest(coverages[p]).amount = At(b)[p].coverage

OldOnesClosed(p) ==
    \A i \in 1 .. Len(coverages[p]) - 2 : coverages[p][i].claimableUntil \in 1..End

InRange(class, p) == \E b \in lastBlock..End : Emits(class, p, b)
SomeLeft(class, p) == \E b \in lastBlock..End : Left(class, p, b)

\* A protocol that did not flap is removed at most once in a range, and then
\* added at most once.
StatusOk(p) ==
    p \notin flapped =>
        /\ ~\E b, c \in lastBlock..End : b < c /\ Emits("Added", p, b) /\ Emits("Removed", p, c)
        /\ protocols[p].exists =>
              IF InRange("Added", p) /\ ~SomeLeft("Added", p) THEN protocols[p].endedAt = 0
              ELSE IF InRange("Removed", p) /\ ~SomeLeft("Removed", p)
              THEN protocols[p].endedAt # 0
              ELSE protocols[p].endedAt = 0 <=> At(lastBlock - 1)[p].active

TablesOk(p) ==
    /\ ExistsOk(p) /\ AgentOk(p) /\ PremiumOk(p) /\ NonstakersOk(p)
    /\ CoverageOk(p) /\ OldOnesClosed(p) /\ StatusOk(p)

Inv == ChainOk /\ CallsOk /\ TablesTyped /\ \A p \in Protocol : TablesOk(p)

-----------------------------------------------------------------------------
(* Lemmas about the chain.                                                 *)

\* The order of Indexer.events as numbers.
LEMMA Ranks ==
    ASSUME NEW c
    PROVE  /\ c.event.class = "Removed" => Rank(c) = 1
           /\ c.event.class = "RemovedByArb" => Rank(c) = 2
           /\ c.event.class = "Added" => Rank(c) = 3
           /\ c.event.class = "AgentTransfer" => Rank(c) = 4
           /\ c.event.class = "Updated" => Rank(c) = 5
           /\ c.event.class = "PremiumChanged" => Rank(c) = 6
<1>1. /\ DOMAIN Classes = 1..6
      /\ Classes[1] = "Removed" /\ Classes[2] = "RemovedByArb" /\ Classes[3] = "Added"
      /\ Classes[4] = "AgentTransfer" /\ Classes[5] = "Updated" /\ Classes[6] = "PremiumChanged"
  BY DEF Classes
<1>2. ASSUME NEW i \in 1..6, c.event.class = Classes[i] PROVE Rank(c) = i
  <2>1. \A j \in 1..6 : Classes[j] = c.event.class => j = i
    BY <1>1, <1>2
  <2>2. \E j \in 1..6 : Classes[j] = c.event.class
    BY <1>2
  <2> QED
    BY <1>1, <2>1, <2>2 DEF Rank
<1> QED
  BY <1>1, <1>2

\* The fields of an event.
LEMMA EventFields ==
    ASSUME NEW e \in Events
    PROVE  /\ e.protocol \in Protocol
           /\ e.class \in {"Removed", "RemovedByArb", "Added", "AgentTransfer", "Updated",
                           "PremiumChanged"}
           /\ e.class = "AgentTransfer" => e.to \in Agent \cup {AddressZero}
           /\ e.class = "Updated" => e.coverage \in Amount \cup {0}
           /\ e.class = "Updated" => e.nonstakers \in Share \cup {0}
           /\ e.class = "PremiumChanged" => e.premium \in Amount \cup {0}
BY DEF Events

\* The rows of the contract, and what it starts from.
LEMMA Rows ==
    ASSUME ChainOk, NEW p \in Protocol, NEW b \in 0..head
    PROVE  At(b)[p] \in ContractRow /\ Terms(At(b)[p])
<1>1. Inactive \in ContractRow /\ Terms(Inactive)
  BY DEF Inactive, ContractRow, Terms
<1>2. CASE b = 0
  BY <1>1, <1>2 DEF At
<1>3. CASE b # 0
  <2>1. b \in 1..head /\ head \in Nat
    BY <1>3 DEF ChainOk, head
  <2>2. book[b] \in [Protocol -> ContractRow]
    BY <2>1 DEF ChainOk
  <2>3. Terms(book[b][p])
    BY <2>1 DEF ChainOk
  <2> QED
    BY <1>3, <2>2, <2>3 DEF At
<1> QED
  BY <1>2, <1>3

\* Between two events of a class, what they tell stays.
LEMMA Quiet ==
    ASSUME ChainOk, NEW p \in Protocol, NEW b \in 0..head, NEW c \in b..head
    PROVE  /\ (\A k \in b + 1 .. c : ~Emits("AgentTransfer", p, k)) =>
                  At(c)[p].agent = At(b)[p].agent
           /\ (\A k \in b + 1 .. c : ~Emits("PremiumChanged", p, k)) =>
                  At(c)[p].premium = At(b)[p].premium
           /\ (\A k \in b + 1 .. c : ~Emits("Updated", p, k)) =>
                  /\ At(c)[p].coverage = At(b)[p].coverage
                  /\ At(c)[p].nonstakers = At(b)[p].nonstakers
<1>1. head \in Nat
  BY DEF ChainOk, head
<1>2. ASSUME NEW n \in b .. head, n < head
      PROVE  /\ Emits("AgentTransfer", p, n + 1) \/ At(n + 1)[p].agent = At(n)[p].agent
             /\ Emits("PremiumChanged", p, n + 1) \/ At(n + 1)[p].premium = At(n)[p].premium
             /\ \/ Emits("Updated", p, n + 1)
                \/ /\ At(n + 1)[p].coverage = At(n)[p].coverage
                   /\ At(n + 1)[p].nonstakers = At(n)[p].nonstakers
  <2>1. n + 1 \in 1..head /\ Told(p, n + 1) /\ (n + 1) - 1 = n
    BY <1>1, <1>2 DEF ChainOk
  <2> QED
    BY <2>1 DEF Told
<1>3. ASSUME \A k \in b + 1 .. c : ~Emits("AgentTransfer", p, k)
      PROVE  At(c)[p].agent = At(b)[p].agent
  <2> DEFINE S == {n \in Nat : At(n)[p].agent = At(b)[p].agent}
  <2>1. b \in S
    BY <1>1
  <2>2. ASSUME NEW n \in b..c, n \in S, n < c PROVE n + 1 \in S
    <3>1. n \in b..head /\ n < head /\ n + 1 \in b + 1 .. c /\ n + 1 \in Nat
      BY <1>1, <2>2
    <3> QED
      BY <1>2, <1>3, <2>2, <3>1
  <2> HIDE DEF S
  <2>3. c \in S
    BY <1>1, <2>1, <2>2, IntervalInduction
  <2> QED
    BY <2>3 DEF S
<1>4. ASSUME \A k \in b + 1 .. c : ~Emits("PremiumChanged", p, k)
      PROVE  At(c)[p].premium = At(b)[p].premium
  <2> DEFINE S == {n \in Nat : At(n)[p].premium = At(b)[p].premium}
  <2>1. b \in S
    BY <1>1
  <2>2. ASSUME NEW n \in b..c, n \in S, n < c PROVE n + 1 \in S
    <3>1. n \in b..head /\ n < head /\ n + 1 \in b + 1 .. c /\ n + 1 \in Nat
      BY <1>1, <2>2
    <3> QED
      BY <1>2, <1>4, <2>2, <3>1
  <2> HIDE DEF S
  <2>3. c \in S
    BY <1>1, <2>1, <2>2, IntervalInduction
  <2> QED
    BY <2>3 DEF S
<1>5. ASSUME \A k \in b + 1 .. c : ~Emits("Updated", p, k)
      PROVE  At(c)[p].coverage = At(b)[p].coverage /\ At(c)[p].nonstakers = At(b)[p].nonstakers
  <2> DEFINE S == {n \in Nat : /\ At(n)[p].coverage = At(b)[p].coverage
                               /\ At(n)[p].nonstakers = At(b)[p].nonstakers}
  <2>1. b \in S
    BY <1>1
  <2>2. ASSUME NEW n \in b..c, n \in S, n < c PROVE n + 1 \in S
    <3>1. n \in b..head /\ n < head /\ n + 1 \in b + 1 .. c /\ n + 1 \in Nat
      BY <1>1, <2>2
    <3> QED
      BY <1>2, <1>5, <2>2, <3>1
  <2> HIDE DEF S
  <2>3. c \in S
    BY <1>1, <2>1, <2>2, IntervalInduction
  <2> QED
    BY <2>3 DEF S
<1> QED
  BY <1>3, <1>4, <1>5

\* A step that mines nothing leaves the chain as it is.
LEMMA SameChain ==
    ASSUME ChainOk, events' = events, book' = book
    PROVE  /\ ChainOk' /\ head' = head /\ \A b : At(b)' = At(b)
           /\ \A class, p, b : Emits(class, p, b)' = Emits(class, p, b)
<1>1. head' = head
  BY DEF head
<1>2. \A b : At(b)' = At(b)
  BY DEF At
<1>3. \A class, p, b : Emits(class, p, b)' = Emits(class, p, b)
  BY DEF Emits
<1>4. ASSUME NEW b \in 1..head
      PROVE  /\ OneOfAClass(b)'
             /\ \A p \in Protocol : Told(p, b)' /\ LifeCycle(p, b)' /\ Terms(book'[b][p])
  <2>1. OneOfAClass(b)'
    BY DEF ChainOk, OneOfAClass
  <2>2. ASSUME NEW p \in Protocol PROVE Told(p, b)' /\ LifeCycle(p, b)' /\ Terms(book'[b][p])
    <3>1. Told(p, b) /\ LifeCycle(p, b) /\ Terms(book[b][p])
      BY DEF ChainOk
    <3>2. Told(p, b)'
      BY <3>1 DEF Told, At, Emits
    <3>3. LifeCycle(p, b)'
      BY <3>1 DEF LifeCycle, At, Emits
    <3> QED
      BY <3>1, <3>2, <3>3
  <2> QED
    BY <2>1, <2>2
<1>5. ChainOk'
  BY <1>1, <1>4 DEF ChainOk, head, Terms
<1> QED
  BY <1>1, <1>2, <1>3, <1>5

\* A protocol stays active until it is removed, and inactive until it is added.
LEMMA Lives ==
    ASSUME ChainOk, NEW p \in Protocol, NEW b \in 0..head, NEW c \in b..head
    PROVE  /\ (\A k \in b + 1 .. c : ~Emits("Removed", p, k)) /\ At(b)[p].active =>
                  At(c)[p].active
           /\ (\A k \in b + 1 .. c : ~Emits("Added", p, k)) /\ ~At(b)[p].active =>
                  ~At(c)[p].active
<1>1. head \in Nat
  BY DEF ChainOk, head
<1>2. ASSUME NEW n \in b .. head, n < head
      PROVE  n + 1 \in 1..head /\ LifeCycle(p, n + 1) /\ (n + 1) - 1 = n
  BY <1>1, <1>2 DEF ChainOk
<1>3. ASSUME \A k \in b + 1 .. c : ~Emits("Removed", p, k), At(b)[p].active
      PROVE  At(c)[p].active
  <2> DEFINE S == {n \in Nat : At(n)[p].active}
  <2>1. b \in S
    BY <1>1, <1>3
  <2>2. ASSUME NEW n \in b..c, n \in S, n < c PROVE n + 1 \in S
    BY <1>1, <1>2, <1>3, <2>2 DEF LifeCycle
  <2> HIDE DEF S
  <2>3. c \in S
    BY <1>1, <2>1, <2>2, IntervalInduction
  <2> QED
    BY <2>3 DEF S
<1>4. ASSUME \A k \in b + 1 .. c : ~Emits("Added", p, k), ~At(b)[p].active
      PROVE  ~At(c)[p].active
  <2> DEFINE S == {n \in Nat : ~At(n)[p].active}
  <2>1. b \in S
    BY <1>1, <1>4
  <2>2. ASSUME NEW n \in b..c, n \in S, n < c PROVE n + 1 \in S
    BY <1>1, <1>2, <1>4, <2>2 DEF LifeCycle
  <2> HIDE DEF S
  <2>3. c \in S
    BY <1>1, <2>1, <2>2, IntervalInduction
  <2> QED
    BY <2>3 DEF S
<1> QED
  BY <1>3, <1>4

\* Who is active was added before, with an agent and a coverage.
LEMMA WasAdded ==
    ASSUME ChainOk, NEW p \in Protocol, NEW b \in 0..head, At(b)[p].active
    PROVE  /\ EmittedBy("Added", p, b)
           /\ EmittedBy("AgentTransfer", p, b)
           /\ EmittedBy("Updated", p, b)
<1>1. head \in Nat /\ ~At(0)[p].active
  BY DEF ChainOk, head, At, Inactive
<1>2. PICK k \in 1..b : Emits("Added", p, k)
  BY <1>1, Lives
<1>3. LifeCycle(p, k)
  BY <1>1, <1>2 DEF ChainOk
<1> QED
  BY <1>2, <1>3 DEF LifeCycle, EmittedBy

-----------------------------------------------------------------------------
(* The contract's steps.                                                   *)

\* A new block leaves the old ones, and the tables, as they are.
LEMMA Appended ==
    ASSUME Inv, NEW emitted \in SUBSET Events, NEW after \in [Protocol -> ContractRow],
           Mined(emitted, after), NEW n \in Nat, n = head + 1
    PROVE  /\ head \in Nat /\ head' = head + 1 /\ head' <= MaxBlock /\ Len(book') = head'
           /\ events' \in Seq(SUBSET Events) /\ book' \in Seq([Protocol -> ContractRow])
           /\ events'[n] = emitted /\ \A b \in 1..head : events'[b] = events[b]
           /\ At(n)' = after /\ \A b \in 0..head : At(b)' = At(b)
           /\ At(head) = Now
           /\ \A class, p : \A b \in 1..head : Emits(class, p, b)' = Emits(class, p, b)
           /\ UNCHANGED <<tableVars, lastBlock, rangeEnd, calls, flapped>>
<1>1. /\ events \in Seq(SUBSET Events) /\ book \in Seq([Protocol -> ContractRow])
      /\ Len(book) = Len(events) /\ head < MaxBlock
      /\ events' = Append(events, emitted) /\ book' = Append(book, after)
      /\ UNCHANGED <<tableVars, lastBlock, rangeEnd, calls, flapped>>
  BY DEF Inv, ChainOk, Mined, head
<1>2. Len(events) \in Nat /\ MaxBlock \in Nat
  BY <1>1, RegistryAssumption
<1>3. /\ events' \in Seq(SUBSET Events) /\ Len(events') = Len(events) + 1
      /\ events'[Len(events) + 1] = emitted
      /\ \A b \in 1 .. Len(events) : events'[b] = events[b]
  BY <1>1
<1>4. /\ book' \in Seq([Protocol -> ContractRow]) /\ Len(book') = Len(book) + 1
      /\ book'[Len(book) + 1] = after
      /\ \A b \in 1 .. Len(book) : book'[b] = book[b]
  BY <1>1
<1>5. At(n)' = after /\ \A b \in 0..head : At(b)' = At(b)
  <2>1. n # 0 /\ book'[n] = after
    BY <1>1, <1>2, <1>4 DEF head
  <2> QED
    BY <1>1, <1>2, <1>4, <2>1 DEF At, head
<1>6. At(head) = Now
  BY DEF At, Now
<1>7. \A class, p : \A b \in 1..head : Emits(class, p, b)' = Emits(class, p, b)
  BY <1>3 DEF Emits, head
<1> QED
  BY <1>1, <1>2, <1>3, <1>4, <1>5, <1>6, <1>7 DEF head

\* What a new block has to tell.
NewBlock(emitted, after) ==
    /\ \A d, e \in emitted : d.class = e.class => d = e
    /\ \A p \in Protocol :
          LET is == after[p]
              was == Now[p]
              Has(class) == \E e \in emitted : e.class = class /\ e.protocol = p
          IN  /\ Terms(is)
              /\ \A e \in emitted :
                    e.protocol = p =>
                        /\ e.class = "AgentTransfer" => is.agent = e.to
                        /\ e.class = "PremiumChanged" => is.premium = e.premium
                        /\ e.class = "Updated" => /\ is.coverage = e.coverage
                                                  /\ is.nonstakers = e.nonstakers
              /\ Has("AgentTransfer") \/ is.agent = was.agent
              /\ Has("PremiumChanged") \/ is.premium = was.premium
              /\ \/ Has("Updated")
                 \/ is.coverage = was.coverage /\ is.nonstakers = was.nonstakers
              /\ Has("Added") => ~was.active /\ is.active /\ Has("AgentTransfer") /\ Has("Updated")
              /\ Has("Removed") => was.active /\ ~is.active
              /\ Has("RemovedByArb") => Has("Removed")
              /\ Has("Added") \/ Has("Removed") \/ is.active = was.active
              /\ \A class \in {"AgentTransfer", "Updated", "PremiumChanged"} :
                    Has(class) => was.active \/ Has("Added")

\* A block that tells it keeps the invariant.
LEMMA MinedKeeps ==
    ASSUME Inv, NEW emitted \in SUBSET Events, NEW after \in [Protocol -> ContractRow],
           Mined(emitted, after), NewBlock(emitted, after)
    PROVE  Inv'
<1>0. PICK n \in Nat : n = head + 1
  BY DEF Inv, ChainOk, head
<1>1. /\ head \in Nat /\ head' = head + 1 /\ head' <= MaxBlock /\ Len(book') = head'
      /\ events' \in Seq(SUBSET Events) /\ book' \in Seq([Protocol -> ContractRow])
      /\ events'[n] = emitted /\ \A b \in 1..head : events'[b] = events[b]
      /\ At(n)' = after /\ \A b \in 0..head : At(b)' = At(b)
      /\ At(head) = Now
      /\ \A class, p : \A b \in 1..head : Emits(class, p, b)' = Emits(class, p, b)
      /\ UNCHANGED <<tableVars, lastBlock, rangeEnd, calls, flapped>>
  BY <1>0, Appended
<1>2. ChainOk'
  <2>1. ASSUME NEW b \in 1..head
        PROVE  /\ OneOfAClass(b)'
               /\ \A p \in Protocol : Told(p, b)' /\ LifeCycle(p, b)' /\ Terms(book[b][p])'
    <3>1. /\ OneOfAClass(b)
          /\ \A p \in Protocol : Told(p, b) /\ LifeCycle(p, b) /\ Terms(book[b][p])
      BY DEF Inv, ChainOk
    <3>2. /\ At(b)' = At(b) /\ At(b - 1)' = At(b - 1) /\ events'[b] = events[b]
          /\ \A class, p : Emits(class, p, b)' = Emits(class, p, b)
      BY <1>1
    <3>3. book'[b] = book[b]
      BY <3>2 DEF At
    <3> QED
      BY <3>1, <3>2, <3>3 DEF OneOfAClass, Told, LifeCycle, Terms
  <2>2. /\ OneOfAClass(n)'
        /\ \A p \in Protocol : Told(p, n)' /\ LifeCycle(p, n)' /\ Terms(book[n][p])'
    <3>1. /\ At(n)' = after /\ At(n - 1)' = Now /\ events'[n] = emitted /\ book'[n] = after
      BY <1>0, <1>1 DEF At
    <3>2. \A class, p : Emits(class, p, n)' <=> \E e \in emitted : e.class = class /\ e.protocol = p
      BY <3>1 DEF Emits
    <3>3. OneOfAClass(n)'
      BY <3>1 DEF NewBlock, OneOfAClass
    <3>4. ASSUME NEW p \in Protocol PROVE Told(p, n)' /\ Terms(book[n][p])'
      BY <3>1, <3>2 DEF NewBlock, Told, Terms
    <3>5. ASSUME NEW p \in Protocol PROVE LifeCycle(p, n)'
      BY <3>1, <3>2 DEF NewBlock, LifeCycle
    <3> QED
      BY <3>3, <3>4, <3>5
  <2>3. \A b \in 1..head' : b \in 1..head \/ b = n
    BY <1>0, <1>1
  <2> QED
    BY <1>1, <2>1, <2>2, <2>3 DEF ChainOk
<1>3. End' = End /\ End \in 0..head
  BY <1>1 DEF Inv, CallsOk, End
<1>4. CallsOk' /\ TablesTyped'
  <2>1. \A b \in lastBlock..End : events'[b] = events[b]
    BY <1>1, <1>3 DEF Inv, CallsOk
  <2>2. RangeCalls(lastBlock, End)' = RangeCalls(lastBlock, End)
    BY <1>1, <1>3, <2>1 DEF RangeCalls
  <2>3. UNCHANGED <<lastBlock, rangeEnd, calls, flapped>> /\ End <= head'
    BY <1>1, <1>3
  <2>4. /\ lastBlock \in Nat \ {0} /\ rangeEnd \in Nat /\ lastBlock - 1 <= End
        /\ rangeEnd # 0 => lastBlock <= rangeEnd
        /\ rangeEnd = 0 => calls = {}
        /\ calls \subseteq RangeCalls(lastBlock, End)
        /\ \A c \in calls, d \in RangeCalls(lastBlock, End) : Precedes(c, d) => d \in calls
    BY DEF Inv, CallsOk
  <2>5. CallsOk'
    BY <1>3, <2>2, <2>3, <2>4 DEF CallsOk
  <2>6. TablesTyped'
    BY <1>1, <2>3 DEF Inv, TablesTyped, tableVars
  <2> QED
    BY <2>5, <2>6
<1>5. ASSUME NEW p \in Protocol PROVE TablesOk(p)'
  <2>1. \A class : \A b \in 1..End : Emits(class, p, b)' = Emits(class, p, b)
    BY <1>1, <1>3
  <2>2. \A class, b : Left(class, p, b)' = Left(class, p, b)
    BY <1>1 DEF Left
  <2>3. \A b \in 0..End : At(b)' = At(b)
    BY <1>1, <1>3
  <2>4. \A class : \A b \in 0..End : /\ HandledTo(class, p, b)' = HandledTo(class, p, b)
                                     /\ EmittedBy(class, p, b)' = EmittedBy(class, p, b)
    BY <1>1, <1>3, <2>1, <2>2 DEF HandledTo, EmittedBy
  <2>5. lastBlock - 1 \in 0..End /\ lastBlock \in Nat \ {0}
    BY <1>3 DEF Inv, CallsOk
  <2>6. \A class : /\ InRange(class, p)' = InRange(class, p)
                   /\ SomeLeft(class, p)' = SomeLeft(class, p)
    BY <1>1, <1>3, <2>1, <2>2, <2>5 DEF InRange, SomeLeft
  <2>7. UNCHANGED <<protocols[p], premiums[p], nonstakers[p], coverages[p], flapped>>
    BY <1>1 DEF tableVars
  <2>8. ExistsOk(p)' /\ AgentOk(p)'
    BY <1>3, <2>1, <2>2, <2>3, <2>4, <2>7 DEF Inv, TablesOk, ExistsOk, AgentOk
  <2>9. PremiumOk(p)' /\ NonstakersOk(p)'
    BY <1>3, <2>2, <2>3, <2>4, <2>7
       DEF Inv, TablesOk, PremiumOk, NonstakersOk, RowsOlder, LatestPremium, LatestNonstakers
  <2>10. CoverageOk(p)' /\ OldOnesClosed(p)'
    BY <1>3, <2>3, <2>4, <2>7 DEF Inv, TablesOk, CoverageOk, OldOnesClosed
  <2>11. StatusOk(p)'
    BY <1>1, <1>3, <2>1, <2>3, <2>5, <2>6, <2>7 DEF Inv, TablesOk, StatusOk
  <2> QED
    BY <2>8, <2>9, <2>10, <2>11 DEF TablesOk
<1> QED
  BY <1>2, <1>4, <1>5 DEF Inv

\* Each of the contract's steps tells what it changes.
LEMMA ContractKeeps ==
    ASSUME Inv, Contract
    PROVE  Inv'
<1> USE RegistryAssumption
<1>1. Now \in [Protocol -> ContractRow] /\ \A p \in Protocol : Now[p] \in ContractRow /\ Terms(Now[p])
  <2>1. head \in 0..head /\ At(head) = Now
    BY DEF Inv, ChainOk, head, At, Now
  <2>2. Now \in [Protocol -> ContractRow]
    <3>1. Inactive \in ContractRow
      BY DEF Inactive, ContractRow
    <3> QED
      BY <2>1, <3>1 DEF Inv, ChainOk, head, Now
  <2> QED
    BY <2>1, <2>2, Rows DEF Inv
<1>2. CASE EmptyBlock
  <2>1. NewBlock({}, Now)
    BY <1>1 DEF NewBlock
  <2> QED
    BY <1>1, <1>2, <2>1, MinedKeeps DEF EmptyBlock
<1>3. ASSUME NEW p \in Protocol, NEW class \in {"Removed", "RemovedByArb"},
             RemoveProtocol(p, class)
      PROVE  Inv'
  <2> DEFINE emitted == {PremiumChanged(p, 0), AgentTransfer(p, AddressZero), Updated(p, 0, 0),
                         Event("Removed", p), Event(class, p)}
             after == [Now EXCEPT ![p] = Inactive]
  <2>1. emitted \in SUBSET Events
    BY DEF Events, PremiumChanged, AgentTransfer, Updated, Event
  <2>2. Inactive \in ContractRow /\ Terms(Inactive)
    BY DEF Inactive, ContractRow, Terms
  <2>3. after \in [Protocol -> ContractRow]
    BY <1>1, <2>2
  <2>4. NewBlock(emitted, after)
    <3>1. /\ after[p] = Inactive /\ \A q \in Protocol : q # p => after[q] = Now[q]
          /\ Now[p].active
      BY <1>1, <1>3 DEF RemoveProtocol
    <3>2. \A d, e \in emitted : d.class = e.class => d = e
      BY DEF PremiumChanged, AgentTransfer, Updated, Event
    <3>3. \A e \in emitted :
             /\ e.protocol = p /\ e.class # "Added"
             /\ e.class = "AgentTransfer" => e.to = AddressZero
             /\ e.class = "PremiumChanged" => e.premium = 0
             /\ e.class = "Updated" => e.coverage = 0 /\ e.nonstakers = 0
      BY DEF PremiumChanged, AgentTransfer, Updated, Event
    <3>4. \A k \in {"PremiumChanged", "AgentTransfer", "Updated", "Removed"} :
             \E e \in emitted : e.class = k /\ e.protocol = p
      BY DEF PremiumChanged, AgentTransfer, Updated, Event
    <3>5. /\ ~Inactive.active /\ Inactive.agent = AddressZero /\ Inactive.premium = 0
          /\ Inactive.coverage = 0 /\ Inactive.nonstakers = 0
      BY DEF Inactive
    <3> HIDE DEF emitted, after
    <3> QED
      BY <1>1, <2>2, <3>1, <3>2, <3>3, <3>4, <3>5 DEF NewBlock
  <2> QED
    BY <1>3, <2>1, <2>3, <2>4, MinedKeeps DEF RemoveProtocol
<1>4. ASSUME NEW p \in Protocol, NEW a \in Agent, TransferAgent(p, a)
      PROVE  Inv'
  <2> DEFINE emitted == {AgentTransfer(p, a)}
             row == [Now[p] EXCEPT !.agent = a]
             after == [Now EXCEPT ![p] = row]
  <2>1. emitted \in SUBSET Events
    BY DEF Events, AgentTransfer
  <2>2. row \in ContractRow
    BY <1>1 DEF ContractRow
  <2>3. after \in [Protocol -> ContractRow]
    BY <1>1, <2>2
  <2>4. NewBlock(emitted, after)
    BY <1>1, <1>4, <2>2 DEF NewBlock, TransferAgent, AgentTransfer, ContractRow, Terms
  <2> QED
    BY <1>1, <1>4, <2>1, <2>3, <2>4, MinedKeeps DEF TransferAgent
<1>5. ASSUME NEW p \in Protocol, NEW m \in Amount, SetPremium(p, m)
      PROVE  Inv'
  <2> DEFINE emitted == {PremiumChanged(p, m)}
             row == [Now[p] EXCEPT !.premium = m]
             after == [Now EXCEPT ![p] = row]
  <2>1. emitted \in SUBSET Events
    BY DEF Events, PremiumChanged
  <2>2. row \in ContractRow
    BY <1>1 DEF ContractRow
  <2>3. after \in [Protocol -> ContractRow]
    BY <1>1, <2>2
  <2>4. NewBlock(emitted, after)
    BY <1>1, <1>5, <2>2 DEF NewBlock, SetPremium, PremiumChanged, ContractRow, Terms
  <2> QED
    BY <1>1, <1>5, <2>1, <2>3, <2>4, MinedKeeps DEF SetPremium
<1>6. ASSUME NEW p \in Protocol, NEW c \in Amount, NEW s \in Share, UpdateProtocol(p, c, s)
      PROVE  Inv'
  <2> DEFINE emitted == {Updated(p, c, s)}
             row == [Now[p] EXCEPT !.coverage = c, !.nonstakers = s]
             after == [Now EXCEPT ![p] = row]
  <2>1. emitted \in SUBSET Events
    BY DEF Events, Updated
  <2>2. row \in ContractRow
    BY <1>1 DEF ContractRow
  <2>3. after \in [Protocol -> ContractRow]
    BY <1>1, <2>2
  <2>4. NewBlock(emitted, after)
    BY <1>1, <1>6, <2>2 DEF NewBlock, UpdateProtocol, Updated, ContractRow, Terms
  <2> QED
    BY <1>1, <1>6, <2>1, <2>3, <2>4, MinedKeeps DEF UpdateProtocol
<1>7. ASSUME NEW p \in Protocol, NEW c \in Amount, NEW s \in Share, NEW a \in Agent,
             AddProtocol(p, a, c, s)
      PROVE  Inv'
  <2> DEFINE emitted == {AgentTransfer(p, a), Event("Added", p), Updated(p, c, s)}
             row == [active |-> TRUE, agent |-> a, premium |-> 0, nonstakers |-> s,
                     coverage |-> c]
             after == [Now EXCEPT ![p] = row]
  <2>1. emitted \in SUBSET Events
    BY DEF Events, AgentTransfer, Updated, Event
  <2>2. row \in ContractRow /\ Terms(row)
    BY DEF ContractRow, Terms
  <2>3. after \in [Protocol -> ContractRow]
    BY <1>1, <2>2
  <2>4. NewBlock(emitted, after)
    <3>1. /\ after[p] = row /\ \A q \in Protocol : q # p => after[q] = Now[q]
          /\ ~Now[p].active /\ Now[p].premium = 0
      BY <1>1, <1>7 DEF AddProtocol, Terms
    <3>2. \A d, e \in emitted : d.class = e.class => d = e
      BY DEF AgentTransfer, Updated, Event
    <3>3. \A e \in emitted :
             /\ e.protocol = p /\ e.class \in {"AgentTransfer", "Added", "Updated"}
             /\ e.class = "AgentTransfer" => e.to = a
             /\ e.class = "Updated" => e.coverage = c /\ e.nonstakers = s
      BY DEF AgentTransfer, Updated, Event
    <3>4. \A k \in {"AgentTransfer", "Added", "Updated"} :
             \E e \in emitted : e.class = k /\ e.protocol = p
      BY DEF AgentTransfer, Updated, Event
    <3>5. /\ row.active /\ row.agent = a /\ row.premium = 0
          /\ row.coverage = c /\ row.nonstakers = s
      OBVIOUS
    <3> HIDE DEF emitted, after, row
    <3> QED
      BY <1>1, <2>2, <3>1, <3>2, <3>3, <3>4, <3>5 DEF NewBlock
  <2> QED
    BY <1>1, <1>7, <2>1, <2>3, <2>4, MinedKeeps DEF AddProtocol
<1> QED
  BY <1>2, <1>3, <1>4, <1>5, <1>6, <1>7 DEF Contract

-----------------------------------------------------------------------------
(* The range and its calls.                                                *)

\* A call that is left is for an event of a block of the range.
LEMMA CallFacts ==
    ASSUME Inv, NEW c \in RangeCalls(lastBlock, End)
    PROVE  /\ c.block \in lastBlock..End /\ c.block \in 1..head
           /\ c.event \in events[c.block] /\ c.event \in Events
           /\ c = [event |-> c.event, block |-> c.block]
           /\ Emits(c.event.class, c.event.protocol, c.block)
<1>1. PICK b \in lastBlock..End : c \in {[event |-> e, block |-> b] : e \in events[b]}
  BY DEF RangeCalls
<1>2. c.block = b /\ c.event \in events[b] /\ c = [event |-> c.event, block |-> b]
  BY <1>1
<1>3. b \in 1..head
  <2>1. lastBlock \in Nat \ {0} /\ End \in Int /\ head \in Nat /\ End <= head
    BY DEF Inv, CallsOk, ChainOk, head, End
  <2> QED
    BY <2>1
<1>4. events[b] \in SUBSET Events
  BY <1>3 DEF Inv, ChainOk, head
<1> QED
  BY <1>1, <1>2, <1>3, <1>4 DEF Emits

\* An event of the range has its call.
LEMMA HasCall ==
    ASSUME Inv, NEW class, NEW p, NEW b \in lastBlock..End, Emits(class, p, b)
    PROVE  \E c \in RangeCalls(lastBlock, End) :
              c.event.class = class /\ c.event.protocol = p /\ c.block = b
<1>1. PICK e \in events[b] : e.class = class /\ e.protocol = p
  BY DEF Emits
<1>2. [event |-> e, block |-> b] \in RangeCalls(lastBlock, End)
  BY DEF RangeCalls
<1> QED
  BY <1>1, <1>2

\* Two calls of one class and one block are the same.
LEMMA OneCall ==
    ASSUME Inv, NEW c \in RangeCalls(lastBlock, End), NEW d \in RangeCalls(lastBlock, End),
           c.event.class = d.event.class, c.block = d.block
    PROVE  c = d
<1>1. c.event = d.event
  BY CallFacts DEF Inv, ChainOk, OneOfAClass
<1> QED
  BY <1>1, CallFacts

\* The first call is handled: its class is handled to its block, the others are
\* handled to where they were.
LEMMA FirstHandled ==
    ASSUME Inv, NEW c \in calls, First(c), Return(c)
    PROVE  /\ rangeEnd # 0 /\ c \in RangeCalls(lastBlock, End) /\ End' = End
           /\ UNCHANGED <<chainVars, lastBlock, rangeEnd, flapped>>
           /\ ChainOk' /\ CallsOk'
           /\ c.event.protocol \in Protocol /\ c.block - 1 \in 0..End
           /\ HandledTo(c.event.class, c.event.protocol, c.block - 1)
           /\ \A b : ~Emits(c.event.class, c.event.protocol, b) \/ b \notin lastBlock..End
                     \/ b <= c.block \/ Left(c.event.class, c.event.protocol, b)'
           /\ \A b \in 0..End :
                 HandledTo(c.event.class, c.event.protocol, b)' =>
                    /\ c.block <= b
                    /\ \A k \in c.block + 1 .. b : ~Emits(c.event.class, c.event.protocol, k)
           /\ ~Left(c.event.class, c.event.protocol, c.block)'
           /\ \A class, p, b :
                 Left(class, p, b)' =>  Left(class, p, b)
           /\ \A class, p, b :
                 class # c.event.class \/ p # c.event.protocol \/ b # c.block =>
                    Left(class, p, b)' = Left(class, p, b)
           /\ \A d \in calls : d = c \/ Precedes(c, d)
<1> DEFINE X == c.event.class
           p == c.event.protocol
           k == c.block
<1>1. /\ calls' = calls \ {c} /\ UNCHANGED <<chainVars, lastBlock, rangeEnd, flapped>>
      /\ UNCHANGED <<events, book>>
  BY DEF Return, chainVars
<1>2. c \in RangeCalls(lastBlock, End) /\ calls \subseteq RangeCalls(lastBlock, End)
  BY DEF Inv, CallsOk
<1>3. /\ rangeEnd # 0 /\ rangeEnd \in Nat /\ lastBlock \in Nat \ {0} /\ End \in Nat /\ End <= head
      /\ head \in Nat /\ lastBlock - 1 <= End
  BY DEF Inv, CallsOk, ChainOk, head, End
<1>4. /\ k \in lastBlock..End /\ k \in 1..head /\ Emits(X, p, k) /\ c.event \in Events
      /\ X \in {"Removed", "RemovedByArb", "Added", "AgentTransfer", "Updated",
                "PremiumChanged"}
      /\ p \in Protocol
  BY <1>2, CallFacts, EventFields
<1>5. \A d \in calls : d = c \/ Precedes(c, d)
  BY DEF First, Precedes
<1>6. End' = End /\ RangeCalls(lastBlock, End)' = RangeCalls(lastBlock, End) /\ head' = head
  BY <1>1 DEF End, RangeCalls, head
<1>7. ChainOk'
  BY <1>1, SameChain DEF Inv
<1>8. \A a, d \in RangeCalls(lastBlock, End) : Rank(a) \in Nat /\ Rank(d) \in Nat
  BY CallFacts, EventFields, Ranks
<1>9. CallsOk'
  <2>1. ASSUME NEW a \in calls', NEW d \in RangeCalls(lastBlock, End), Precedes(a, d)
        PROVE  d \in calls'
    <3>1. d \in calls
      BY <1>1, <2>1 DEF Inv, CallsOk
    <3>2. CASE d = c
      <4>1. Precedes(c, a)
        BY <1>1, <1>5, <2>1
      <4>2. a.block \in Int /\ c.block \in Int
        BY <1>1, <1>2, CallFacts
      <4> QED
        BY <1>1, <1>2, <1>8, <2>1, <3>2, <4>1, <4>2 DEF Precedes
    <3> QED
      BY <1>1, <3>1, <3>2
  <2>2. calls' \subseteq RangeCalls(lastBlock, End)
    BY <1>1, <1>2
  <2> QED
    BY <1>1, <1>3, <1>6, <2>1, <2>2 DEF Inv, CallsOk, Precedes
<1>10. ~Left(X, p, k)'
  <2>1. ASSUME NEW d \in calls', d.event.class = X, d.block = k PROVE FALSE
    <3>1. d = c
      BY <1>1, <1>2, <2>1, OneCall
    <3> QED
      BY <1>1, <2>1, <3>1
  <2> QED
    BY <2>1 DEF Left
<1>11. \A class, q, b : Left(class, q, b)' => Left(class, q, b)
  BY <1>1 DEF Left
<1>12. \A class, q, b : class # X \/ q # p \/ b # k => Left(class, q, b)' = Left(class, q, b)
  BY <1>1 DEF Left
<1>13. ASSUME NEW b \in lastBlock..End, b > k, Emits(X, p, b) PROVE Left(X, p, b)'
  <2>1. PICK d \in RangeCalls(lastBlock, End) :
            d.event.class = X /\ d.event.protocol = p /\ d.block = b
    BY <1>13, HasCall
  <2>2. Rank(d) = Rank(c)
    BY <1>4, <2>1, Ranks
  <2>3. d \in calls
    BY <1>13, <2>1, <2>2 DEF Precedes, Inv, CallsOk
  <2> QED
    BY <1>1, <1>3, <1>4, <1>13, <2>1, <2>3 DEF Left
<1>14. ASSUME NEW b \in lastBlock..k - 1 PROVE ~Left(X, p, b)
  <2>1. ASSUME NEW d \in calls, d.event.class = X, d.block = b PROVE FALSE
    <3>1. Rank(d) = Rank(c)
      BY <1>4, <2>1, Ranks
    <3>2. d # c /\ ~(c.block < d.block)
      BY <1>3, <1>4, <1>14, <2>1
    <3>3. Rank(c) \in Nat
      BY <1>2, <1>8
    <3> QED
      BY <1>5, <3>1, <3>2, <3>3 DEF Precedes
  <2> QED
    BY <2>1 DEF Left
<1>15. HandledTo(X, p, k - 1)
  <2>1. k - 1 \in lastBlock - 1 .. End
    BY <1>3, <1>4
  <2>2. ASSUME NEW j \in (k - 1) + 1 .. End, Emits(X, p, j) PROVE Left(X, p, j)
    <3>1. j = k \/ (j > k /\ j \in lastBlock..End)
      BY <1>3, <1>4
    <3>2. Left(X, p, k)
      BY DEF Left
    <3> QED
      BY <1>11, <1>13, <2>2, <3>1, <3>2
  <2> QED
    BY <1>14, <2>1, <2>2 DEF HandledTo
<1>16. ASSUME NEW b \in 0..End, HandledTo(X, p, b)'
       PROVE  k <= b /\ \A j \in k + 1 .. b : ~Emits(X, p, j)
  <2>1. \A j : Emits(X, p, j)' = Emits(X, p, j)
    BY <1>1 DEF Emits
  <2>2. k <= b
    BY <1>1, <1>3, <1>4, <1>6, <1>10, <1>16, <2>1 DEF HandledTo
  <2>3. ASSUME NEW j \in k + 1 .. b, Emits(X, p, j) PROVE FALSE
    <3>1. j \in lastBlock..End /\ j > k /\ j \in lastBlock..b
      BY <1>3, <1>4
    <3>2. Left(X, p, j)'
      BY <1>13, <2>3, <3>1
    <3> QED
      BY <1>1, <1>16, <3>1, <3>2 DEF HandledTo
  <2> QED
    BY <2>2, <2>3
<1> QED
  <2>1. k - 1 \in 0..End
    BY <1>3, <1>4
  <2>2. \A b : ~Emits(X, p, b) \/ b \notin lastBlock..End \/ b <= k \/ Left(X, p, b)'
    BY <1>3, <1>4, <1>13
  <2> QED
    BY <1>1, <1>2, <1>3, <1>4, <1>5, <1>6, <1>7, <1>9, <1>10, <1>11, <1>12, <1>15, <1>16,
       <2>1, <2>2

\* The rows of a protocol.
LEMMA RowTypes ==
    ASSUME Inv, NEW p \in Protocol
    PROVE  /\ premiums[p] \in Seq(PremiumRow) /\ nonstakers[p] \in Seq(NonstakersRow)
           /\ coverages[p] \in Seq(CoverageRow)
           /\ \A i \in DOMAIN premiums[p] : premiums[p][i].setAt \in Nat
           /\ \A i \in DOMAIN nonstakers[p] : nonstakers[p][i].setAt \in Nat
<1>1. /\ premiums[p] \in Seq(PremiumRow) /\ nonstakers[p] \in Seq(NonstakersRow)
      /\ coverages[p] \in Seq(CoverageRow)
  BY DEF Inv, TablesTyped
<1>2. \A i \in DOMAIN premiums[p] : premiums[p][i] \in PremiumRow
  BY <1>1
<1>3. \A i \in DOMAIN nonstakers[p] : nonstakers[p][i] \in NonstakersRow
  BY <1>1
<1>4. Block \subseteq Nat
  BY RegistryAssumption DEF Block
<1> QED
  BY <1>1, <1>2, <1>3, <1>4 DEF PremiumRow, NonstakersRow

\* A range starts with every call, and with no event handled.
LEMMA TakeRangeKeeps ==
    ASSUME Inv, NEW end \in Block, TakeRange(end)
    PROVE  Inv'
<1>1. /\ rangeEnd = 0 /\ calls = {} /\ End = lastBlock - 1
      /\ lastBlock \in Nat \ {0} /\ head \in Nat /\ end \in Nat /\ lastBlock <= end /\ end <= head
      /\ rangeEnd' = end /\ calls' = RangeCalls(lastBlock, end) /\ End' = end
      /\ flapped \subseteq flapped'
      /\ UNCHANGED <<events, book, protocols, premiums, nonstakers, coverages, lastBlock>>
  BY RegistryAssumption
     DEF Inv, CallsOk, ChainOk, TakeRange, End, chainVars, tableVars, Block, head
<1>2. ChainOk' /\ (\A b : At(b)' = At(b))
      /\ \A class, p, b : Emits(class, p, b)' = Emits(class, p, b)
  BY <1>1, SameChain DEF Inv
<1>3. RangeCalls(lastBlock, End)' = RangeCalls(lastBlock, end)
  BY <1>1 DEF RangeCalls
<1>4. CallsOk'
  BY <1>1, <1>3 DEF Inv, CallsOk, head
<1>5. TablesTyped'
  BY <1>1 DEF Inv, TablesTyped, TakeRange
<1>6. ASSUME NEW class, NEW p, NEW b \in lastBlock..end
      PROVE  Left(class, p, b)' <=> Emits(class, p, b)
  <2>1. ASSUME Emits(class, p, b) PROVE Left(class, p, b)'
    <3>1. PICK e \in events[b] : e.class = class /\ e.protocol = p
      BY <2>1 DEF Emits
    <3>2. [event |-> e, block |-> b] \in calls'
      BY <1>1 DEF RangeCalls
    <3> QED
      BY <3>1, <3>2 DEF Left
  <2>2. ASSUME Left(class, p, b)' PROVE Emits(class, p, b)
    <3>1. PICK c \in calls' : c.event.class = class /\ c.event.protocol = p /\ c.block = b
      BY <2>2 DEF Left
    <3>2. PICK k \in lastBlock..end : c \in {[event |-> e, block |-> k] : e \in events[k]}
      BY <1>1 DEF RangeCalls
    <3> QED
      BY <3>1, <3>2 DEF Emits
  <2> QED
    BY <2>1, <2>2
<1>7. ASSUME NEW class, NEW p, NEW b \in Nat PROVE Left(class, p, b)' => b \in lastBlock..end
  <2>1. ASSUME NEW c \in calls' PROVE c.block \in lastBlock..end
    <3>1. PICK k \in lastBlock..end : c \in {[event |-> e, block |-> k] : e \in events[k]}
      BY <1>1 DEF RangeCalls
    <3> QED
      BY <3>1
  <2> QED
    BY <2>1 DEF Left
<1>8. ASSUME NEW class, NEW p, NEW b \in 0..end, HandledTo(class, p, b)'
      PROVE  /\ b \in lastBlock - 1 .. end /\ \A k \in lastBlock..b : ~Emits(class, p, k)
             /\ HandledTo(class, p, lastBlock - 1)
             /\ EmittedBy(class, p, b) => EmittedBy(class, p, lastBlock - 1)
  <2>1. b \in lastBlock - 1 .. end /\ \A k \in lastBlock..b : ~Emits(class, p, k)
    BY <1>1, <1>2, <1>6, <1>8 DEF HandledTo
  <2>2. HandledTo(class, p, lastBlock - 1)
    BY <1>1 DEF HandledTo, Left
  <2>3. EmittedBy(class, p, b) => EmittedBy(class, p, lastBlock - 1)
    BY <1>1, <2>1 DEF EmittedBy
  <2> QED
    BY <2>1, <2>2, <2>3
<1>9. \A class, p, b : EmittedBy(class, p, b)' = EmittedBy(class, p, b)
  BY <1>2 DEF EmittedBy
<1>10. ASSUME NEW p \in Protocol PROVE TablesOk(p)'
  <2> DEFINE l == lastBlock - 1
  <2>1. l \in 0..End /\ l \in 0..head /\ TablesOk(p)
    BY <1>1 DEF Inv
  <2>2. \A b \in l..end : /\ b \in l..head
                          /\ l + 1 = lastBlock
    BY <1>1
  <2>3. ExistsOk(p)'
    <3>1. ASSUME NEW b \in 1..end, Emits("Added", p, b)
          PROVE  protocols[p].exists \/ Left("Added", p, b)'
      <4>1. CASE b \in lastBlock..end
        BY <1>6, <3>1, <4>1
      <4>2. CASE b \in 1..End
        BY <1>1, <2>1, <3>1, <4>2 DEF TablesOk, ExistsOk, Left
      <4> QED
        BY <1>1, <4>1, <4>2
    <3>2. protocols[p].exists => EmittedBy("Added", p, end)
      BY <1>1, <2>1 DEF TablesOk, ExistsOk, EmittedBy
    <3> QED
      BY <1>1, <1>2, <1>9, <3>1, <3>2 DEF ExistsOk
  <2>4. AgentOk(p)'
    <3>1. ASSUME NEW b \in 0..end, HandledTo("AgentTransfer", p, b)',
                 EmittedBy("AgentTransfer", p, b)
          PROVE  protocols[p].exists /\ protocols[p].agent = At(b)[p].agent
      BY <1>8, <2>1, <2>2, <3>1, Quiet DEF Inv, TablesOk, AgentOk
    <3> QED
      BY <1>1, <1>2, <1>9, <3>1 DEF AgentOk
  <2>5. ASSUME NEW rows, NEW class, RowsOlder(rows, class, p),
               \A i \in DOMAIN rows : rows[i].setAt \in Nat
        PROVE  /\ \A i \in DOMAIN rows : rows[i].setAt <= end
               /\ \A i \in DOMAIN rows, b \in 1..end : Left(class, p, b)' => rows[i].setAt < b
    <3>1. \A i \in DOMAIN rows : rows[i].setAt <= lastBlock - 1
      BY <1>1, <2>5 DEF RowsOlder
    <3> QED
      BY <1>1, <1>7, <2>5, <3>1
  <2>6. /\ \A i \in DOMAIN premiums[p] : premiums[p][i].setAt \in Nat
        /\ \A i \in DOMAIN nonstakers[p] : nonstakers[p][i].setAt \in Nat
    BY RowTypes
  <2>7. PremiumOk(p)'
    <3>1. ASSUME NEW b \in 0..end, HandledTo("PremiumChanged", p, b)'
          PROVE  LatestPremium(p) = At(b)[p].premium
      BY <1>8, <2>1, <2>2, <3>1, Quiet DEF Inv, TablesOk, PremiumOk
    <3>2. RowsOlder(premiums[p], "PremiumChanged", p)'
      BY <1>1, <2>1, <2>5, <2>6 DEF TablesOk, PremiumOk, RowsOlder
    <3> QED
      BY <1>1, <1>2, <3>1, <3>2 DEF PremiumOk, LatestPremium
  <2>8. NonstakersOk(p)'
    <3>1. ASSUME NEW b \in 0..end, HandledTo("Updated", p, b)'
          PROVE  LatestNonstakers(p) = At(b)[p].nonstakers
      BY <1>8, <2>1, <2>2, <3>1, Quiet DEF Inv, TablesOk, NonstakersOk
    <3>2. RowsOlder(nonstakers[p], "Updated", p)'
      BY <1>1, <2>1, <2>5, <2>6 DEF TablesOk, NonstakersOk, RowsOlder
    <3> QED
      BY <1>1, <1>2, <3>1, <3>2 DEF NonstakersOk, LatestNonstakers
  <2>9. CoverageOk(p)'
    <3>1. ASSUME NEW b \in 0..end, HandledTo("Updated", p, b)', EmittedBy("Updated", p, b)
          PROVE  /\ coverages[p] # <<>>
                 /\ IF At(b)[p].coverage = 0 THEN Newest(coverages[p]).claimableUntil # 0
                    ELSE Newest(coverages[p]).amount = At(b)[p].coverage
      <4>1. At(b)[p].coverage = At(l)[p].coverage
        BY <1>8, <2>1, <2>2, <3>1, Quiet DEF Inv
      <4>2. HandledTo("Updated", p, l) /\ EmittedBy("Updated", p, l)
        BY <1>8, <3>1
      <4> QED
        BY <2>1, <4>1, <4>2 DEF TablesOk, CoverageOk
    <3> QED
      BY <1>1, <1>2, <1>9, <3>1 DEF CoverageOk
  <2>10. OldOnesClosed(p)'
    BY <1>1, <2>1 DEF TablesOk, OldOnesClosed
  <2>11. StatusOk(p)'
    <3>1. /\ \A class : InRange(class, p)' <=> SomeLeft(class, p)'
          /\ ~InRange("Added", p) /\ ~InRange("Removed", p)
      BY <1>1, <1>2, <1>6 DEF InRange, SomeLeft
    <3>2. p \notin flapped' =>
              /\ p \notin flapped
              /\ ~\E b, c \in lastBlock..end : b < c /\ Emits("Added", p, b) /\ Emits("Removed", p, c)
      BY <1>1 DEF TakeRange
    <3> QED
      BY <1>1, <1>2, <2>1, <3>1, <3>2 DEF TablesOk, StatusOk
  <2> QED
    BY <2>3, <2>4, <2>7, <2>8, <2>9, <2>10, <2>11 DEF TablesOk
<1> QED
  BY <1>2, <1>4, <1>5, <1>10 DEF Inv

\* A range that has no calls left is handled to its end.
LEMMA CommitRangeKeeps ==
    ASSUME Inv, CommitRange
    PROVE  Inv'
<1>1. /\ calls = {} /\ calls' = {} /\ End = rangeEnd /\ rangeEnd' = 0 /\ rangeEnd \in Nat
      /\ lastBlock' = rangeEnd + 1 /\ lastBlock \in Nat \ {0} /\ lastBlock <= rangeEnd
      /\ rangeEnd <= head /\ head \in Nat /\ rangeEnd # 0
      /\ UNCHANGED <<events, book, protocols, premiums, nonstakers, coverages, flapped>>
  BY DEF Inv, CallsOk, ChainOk, CommitRange, End, chainVars, tableVars, head
<1>2. End' = End /\ lastBlock' - 1 = End /\ head' = head
  BY <1>1 DEF End, head
<1>3. ChainOk' /\ (\A b : At(b)' = At(b))
      /\ \A class, p, b : Emits(class, p, b)' = Emits(class, p, b)
  BY <1>1, SameChain DEF Inv
<1>4. \A class, p, b : ~Left(class, p, b) /\ ~Left(class, p, b)'
  BY <1>1 DEF Left
<1>5. CallsOk'
  BY <1>1, <1>2 DEF CallsOk
<1>6. TablesTyped'
  BY <1>1 DEF Inv, TablesTyped
<1>7. ASSUME NEW class, NEW p, NEW b \in 0..End, HandledTo(class, p, b)'
      PROVE  HandledTo(class, p, b)
  <2>1. b = End
    BY <1>1, <1>2, <1>7 DEF HandledTo
  <2> QED
    BY <1>1, <1>4, <2>1 DEF HandledTo
<1>8. \A class, p, b : EmittedBy(class, p, b)' = EmittedBy(class, p, b)
  BY <1>3 DEF EmittedBy
<1>9. ASSUME NEW p \in Protocol PROVE TablesOk(p)'
  <2>1. TablesOk(p)
    BY DEF Inv
  <2>2. ExistsOk(p)'
    BY <1>1, <1>2, <1>3, <1>4, <1>8, <2>1 DEF TablesOk, ExistsOk
  <2>3. AgentOk(p)'
    BY <1>1, <1>2, <1>3, <1>7, <1>8, <2>1 DEF TablesOk, AgentOk
  <2>4. PremiumOk(p)'
    BY <1>1, <1>2, <1>3, <1>4, <1>7, <2>1 DEF TablesOk, PremiumOk, RowsOlder, LatestPremium
  <2>5. NonstakersOk(p)'
    BY <1>1, <1>2, <1>3, <1>4, <1>7, <2>1 DEF TablesOk, NonstakersOk, RowsOlder, LatestNonstakers
  <2>6. CoverageOk(p)'
    BY <1>1, <1>2, <1>3, <1>7, <1>8, <2>1 DEF TablesOk, CoverageOk
  <2>7. OldOnesClosed(p)'
    BY <1>1, <1>2, <2>1 DEF TablesOk, OldOnesClosed
  <2>8. StatusOk(p)'
    <3> SUFFICES ASSUME p \notin flapped, protocols[p].exists
                 PROVE  protocols[p].endedAt = 0 <=> At(End)[p].active
      <4>1. \A class : ~InRange(class, p)' /\ ~\E b, c \in lastBlock' .. End : b < c
        BY <1>1, <1>2 DEF InRange
      <4> QED
        BY <1>1, <1>2, <1>3, <4>1 DEF StatusOk
    <3>1. /\ ~\E b, c \in lastBlock..End : b < c /\ Emits("Added", p, b) /\ Emits("Removed", p, c)
          /\ \A class : ~SomeLeft(class, p)
      BY <1>4, <2>1 DEF TablesOk, StatusOk, SomeLeft
    <3>2. End \in 0..head /\ lastBlock - 1 \in 0..head /\ End \in lastBlock - 1 .. head
      BY <1>1
    <3>3. CASE InRange("Added", p)
      <4>1. protocols[p].endedAt = 0
        BY <2>1, <3>1, <3>3 DEF TablesOk, StatusOk
      <4>2. PICK b \in lastBlock..End : Emits("Added", p, b)
        BY <3>3 DEF InRange
      <4>3. b \in 0..head /\ At(b)[p].active /\ End \in b..head
        <5>1. b \in 1..head /\ End \in b..head
          BY <1>1
        <5> QED
          BY <4>2, <5>1 DEF Inv, ChainOk, LifeCycle
      <4>4. \A k \in b + 1 .. End : ~Emits("Removed", p, k)
        BY <1>1, <3>1, <4>2
      <4> QED
        BY <4>1, <4>3, <4>4, Lives DEF Inv
    <3>4. CASE ~InRange("Added", p) /\ InRange("Removed", p)
      <4>1. protocols[p].endedAt # 0
        BY <2>1, <3>1, <3>4 DEF TablesOk, StatusOk
      <4>2. PICK b \in lastBlock..End : Emits("Removed", p, b)
        BY <3>4 DEF InRange
      <4>3. b \in 0..head /\ ~At(b)[p].active /\ End \in b..head
        <5>1. b \in 1..head /\ End \in b..head
          BY <1>1
        <5> QED
          BY <4>2, <5>1 DEF Inv, ChainOk, LifeCycle
      <4>4. \A k \in b + 1 .. End : ~Emits("Added", p, k)
        BY <1>1, <3>4 DEF InRange
      <4> QED
        BY <4>1, <4>3, <4>4, Lives DEF Inv
    <3>5. CASE ~InRange("Added", p) /\ ~InRange("Removed", p)
      <4>1. protocols[p].endedAt = 0 <=> At(lastBlock - 1)[p].active
        BY <2>1, <3>1, <3>5 DEF TablesOk, StatusOk
      <4>2. \A k \in (lastBlock - 1) + 1 .. End : ~Emits("Added", p, k) /\ ~Emits("Removed", p, k)
        BY <1>1, <3>5 DEF InRange
      <4>3. At(lastBlock - 1)[p] \in ContractRow /\ At(End)[p] \in ContractRow
        BY <3>2, Rows DEF Inv
      <4> QED
        BY <3>2, <4>1, <4>2, <4>3, Lives DEF Inv, ContractRow
    <3> QED
      BY <3>3, <3>4, <3>5
  <2> QED
    BY <2>2, <2>3, <2>4, <2>5, <2>6, <2>7, <2>8 DEF TablesOk
<1> QED
  BY <1>3, <1>5, <1>6, <1>9 DEF Inv

-----------------------------------------------------------------------------
(* The handlers.                                                           *)

\* A handled call changes nothing for other classes and other protocols.
LEMMA OthersStay ==
    ASSUME Inv, NEW c \in calls, First(c), Return(c), NEW class, NEW q,
           class # c.event.class \/ q # c.event.protocol
    PROVE  /\ \A b : Left(class, q, b)' = Left(class, q, b)
           /\ \A b : HandledTo(class, q, b)' = HandledTo(class, q, b)
           /\ SomeLeft(class, q)' = SomeLeft(class, q)
<1>1. /\ End' = End /\ lastBlock' = lastBlock /\ UNCHANGED <<events, book>>
      /\ \A b : Left(class, q, b)' = Left(class, q, b)
  BY FirstHandled DEF chainVars
<1>2. \A b : Emits(class, q, b)' = Emits(class, q, b)
  BY <1>1 DEF Emits
<1> QED
  BY <1>1, <1>2 DEF HandledTo, SomeLeft

\* So what these say of the tables stays true where the tables stay as they are.
LEMMA Untouched ==
    ASSUME Inv, NEW c \in calls, First(c), Return(c), NEW q \in Protocol
    PROVE  LET Other(class) == class # c.event.class \/ q # c.event.protocol
               sameExists == protocols'[q].exists = protocols[q].exists
           IN  /\ sameExists /\ Other("Added") => ExistsOk(q)'
               /\ sameExists /\ protocols'[q].agent = protocols[q].agent
                     /\ Other("AgentTransfer") => AgentOk(q)'
               /\ premiums'[q] = premiums[q] /\ Other("PremiumChanged") => PremiumOk(q)'
               /\ nonstakers'[q] = nonstakers[q] /\ Other("Updated") => NonstakersOk(q)'
               /\ coverages'[q] = coverages[q] /\ Other("Updated") => CoverageOk(q)'
               /\ coverages'[q] = coverages[q] => OldOnesClosed(q)'
               /\ sameExists /\ protocols'[q].endedAt = protocols[q].endedAt
                     /\ Other("Added") /\ Other("Removed") => StatusOk(q)'
<1> DEFINE Other(class) == class # c.event.class \/ q # c.event.protocol
<1>1. /\ End' = End /\ UNCHANGED <<events, book, lastBlock, flapped>>
  BY FirstHandled DEF chainVars
<1>2. \A class : Other(class) =>
          /\ \A b : Left(class, q, b)' = Left(class, q, b)
          /\ \A b : HandledTo(class, q, b)' = HandledTo(class, q, b)
          /\ SomeLeft(class, q)' = SomeLeft(class, q)
  BY OthersStay
<1>3. /\ \A class, b : Emits(class, q, b)' = Emits(class, q, b)
      /\ \A class, b : EmittedBy(class, q, b)' = EmittedBy(class, q, b)
      /\ \A class : InRange(class, q)' = InRange(class, q)
      /\ \A b : At(b)' = At(b)
  BY <1>1 DEF Emits, EmittedBy, InRange, At
<1>4. TablesOk(q)
  BY DEF Inv
<1> HIDE DEF Other
<1>5. protocols'[q].exists = protocols[q].exists /\ Other("Added") => ExistsOk(q)'
  BY <1>1, <1>2, <1>3, <1>4 DEF TablesOk, ExistsOk
<1>6. protocols'[q].exists = protocols[q].exists /\ protocols'[q].agent = protocols[q].agent
         /\ Other("AgentTransfer") => AgentOk(q)'
  BY <1>1, <1>2, <1>3, <1>4 DEF TablesOk, AgentOk
<1>7. premiums'[q] = premiums[q] /\ Other("PremiumChanged") => PremiumOk(q)'
  BY <1>1, <1>2, <1>3, <1>4 DEF TablesOk, PremiumOk, RowsOlder, LatestPremium
<1>8. nonstakers'[q] = nonstakers[q] /\ Other("Updated") => NonstakersOk(q)'
  BY <1>1, <1>2, <1>3, <1>4 DEF TablesOk, NonstakersOk, RowsOlder, LatestNonstakers
<1>9. coverages'[q] = coverages[q] /\ Other("Updated") => CoverageOk(q)'
  BY <1>1, <1>2, <1>3, <1>4 DEF TablesOk, CoverageOk
<1>10. coverages'[q] = coverages[q] => OldOnesClosed(q)'
  BY <1>1, <1>4 DEF TablesOk, OldOnesClosed
<1>11. protocols'[q].exists = protocols[q].exists /\ protocols'[q].endedAt = protocols[q].endedAt
         /\ Other("Added") /\ Other("Removed") => StatusOk(q)'
  BY <1>1, <1>2, <1>3, <1>4 DEF TablesOk, StatusOk
<1> QED
  BY <1>5, <1>6, <1>7, <1>8, <1>9, <1>10, <1>11 DEF Other

\* In the range of a call, a protocol that did not flap is added at most once,
\* and removed at most once.
LEMMA AtMostOnce ==
    ASSUME Inv, NEW p \in Protocol, p \notin flapped, rangeEnd # 0,
           NEW b \in lastBlock..End, NEW c \in lastBlock..End, b < c
    PROVE  /\ ~(Emits("Added", p, b) /\ Emits("Added", p, c))
           /\ ~(Emits("Removed", p, b) /\ Emits("Removed", p, c))
<1>1. /\ lastBlock \in Nat \ {0} /\ End \in Nat /\ head \in Nat /\ End <= head
      /\ StatusOk(p) /\ ChainOk
  BY DEF Inv, TablesOk, CallsOk, ChainOk, End, head
<1>2. b \in 1..head /\ c \in 1..head /\ c - 1 \in b..head /\ b \in 0..head
  BY <1>1
<1>3. LifeCycle(p, b) /\ LifeCycle(p, c)
  BY <1>1, <1>2 DEF ChainOk
<1>4. ASSUME Emits("Added", p, b), Emits("Added", p, c) PROVE FALSE
  <2>1. At(b)[p].active /\ ~At(c - 1)[p].active
    BY <1>3, <1>4 DEF LifeCycle
  <2>2. PICK k \in b + 1 .. c - 1 : Emits("Removed", p, k)
    BY <1>1, <1>2, <2>1, Lives
  <2>3. k \in lastBlock..End /\ b < k
    BY <1>1, <1>2
  <2> QED
    BY <1>1, <1>4, <2>2, <2>3 DEF StatusOk
<1>5. ASSUME Emits("Removed", p, b), Emits("Removed", p, c) PROVE FALSE
  <2>1. ~At(b)[p].active /\ At(c - 1)[p].active
    BY <1>3, <1>5 DEF LifeCycle
  <2>2. PICK k \in b + 1 .. c - 1 : Emits("Added", p, k)
    BY <1>1, <1>2, <2>1, Lives
  <2>3. k \in lastBlock..End /\ k < c
    BY <1>1, <1>2
  <2> QED
    BY <1>1, <1>5, <2>2, <2>3 DEF StatusOk
<1> QED
  BY <1>4, <1>5

\* A row that exists is one of the table.
LEMMA ExistingRow ==
    ASSUME Inv, NEW p \in Protocol
    PROVE  /\ protocols \in [Protocol -> {NoRow} \cup ProtocolRow]
           /\ protocols[p].exists \in BOOLEAN
           /\ protocols[p].exists => protocols[p] \in ProtocolRow
<1>1. protocols \in [Protocol -> {NoRow} \cup ProtocolRow]
  BY DEF Inv, TablesTyped
<1>2. protocols[p] \in {NoRow} \cup ProtocolRow
  BY <1>1
<1>3. NoRow.exists = FALSE
  BY DEF NoRow
<1>4. \A r \in ProtocolRow : r.exists \in BOOLEAN
  BY DEF ProtocolRow
<1> QED
  BY <1>1, <1>2, <1>3, <1>4

\* A removal ends the coverage; it is handled before any addition.
LEMMA RemovedKeeps ==
    ASSUME Inv, NEW c \in calls, HandleRemoved(c)
    PROVE  Inv'
<1> DEFINE p == c.event.protocol
           row == [protocols[p] EXCEPT !.endedAt = c.block]
<1>1. /\ First(c) /\ Return(c) /\ c.event.class \in {"Removed", "RemovedByArb"}
      /\ UNCHANGED <<premiums, nonstakers, coverages>>
      /\ protocols' = IF protocols[p].exists THEN [protocols EXCEPT ![p] = row] ELSE protocols
  BY DEF HandleRemoved, Handles
<1>2. /\ rangeEnd # 0 /\ c \in RangeCalls(lastBlock, End) /\ End' = End /\ p \in Protocol
      /\ UNCHANGED <<chainVars, lastBlock, rangeEnd, flapped>>
      /\ ChainOk' /\ CallsOk' /\ ~Left(c.event.class, p, c.block)'
      /\ \A class, q, b : Left(class, q, b)' => Left(class, q, b)
      /\ \A d \in calls : d = c \/ Precedes(c, d)
  BY <1>1, FirstHandled
<1>3. /\ c.block \in lastBlock..End /\ c.block \in 1..head /\ c.block \in EndBlock /\ c.block # 0
      /\ Emits(c.event.class, p, c.block)
  BY <1>2, CallFacts, RegistryAssumption DEF Inv, ChainOk, head, EndBlock
<1>4. /\ TablesTyped' /\ \A q \in Protocol : /\ protocols'[q].exists = protocols[q].exists
                                             /\ protocols'[q].agent = protocols[q].agent
                                             /\ q # p => protocols'[q] = protocols[q]
      /\ protocols[p].exists => protocols'[p].endedAt = c.block
  <2>1. CASE protocols[p].exists
    <3>1. protocols[p] \in ProtocolRow /\ protocols \in [Protocol -> {NoRow} \cup ProtocolRow]
      BY <1>2, <2>1, ExistingRow
    <3>2. row \in ProtocolRow
      BY <1>3, <3>1 DEF ProtocolRow
    <3>3. protocols' = [protocols EXCEPT ![p] = row]
      BY <1>1, <2>1
    <3>4. row.exists = protocols[p].exists /\ row.agent = protocols[p].agent /\ row.endedAt = c.block
      BY <3>1 DEF ProtocolRow
    <3> QED
      BY <1>1, <1>2, <3>1, <3>2, <3>3, <3>4 DEF Inv, TablesTyped
  <2>2. CASE ~protocols[p].exists
    BY <1>1, <1>2, <2>2 DEF Inv, TablesTyped
  <2> QED
    BY <2>1, <2>2
<1>5. StatusOk(p)'
  <2> SUFFICES ASSUME p \notin flapped PROVE StatusOk(p)'
    BY <1>2 DEF StatusOk
  <2>1. /\ StatusOk(p) /\ UNCHANGED <<events, book, lastBlock, flapped>>
        /\ InRange("Removed", p)' /\ InRange("Added", p)' = InRange("Added", p)
        /\ Emits("Removed", p, c.block)
    <3>1. Emits("Removed", p, c.block)
      BY <1>1, <1>2, <1>3 DEF Inv, ChainOk, LifeCycle
    <3> QED
      BY <1>2, <1>3, <3>1 DEF Inv, TablesOk, InRange, Emits, chainVars
  <2>2. ASSUME NEW b \in lastBlock..End, Left("Removed", p, b)' PROVE FALSE
    <3>1. PICK d \in calls : d.event.class = "Removed" /\ d.event.protocol = p /\ d.block = b
      BY <1>2, <2>2 DEF Left
    <3>2. d \in RangeCalls(lastBlock, End)
      BY DEF Inv, CallsOk
    <3>3. Emits("Removed", p, b)
      BY <3>1, <3>2, CallFacts
    <3>4. c.event.class = "Removed" /\ d # c => c.block < b
      BY <1>2, <3>1, Ranks DEF Precedes
    <3>5. CASE c.event.class = "Removed"
      BY <1>2, <1>3, <2>1, <2>2, <3>1, <3>3, <3>4, <3>5, AtMostOnce
    <3>6. CASE c.event.class = "RemovedByArb"
      BY <1>2, <3>1, <3>6, Ranks DEF Precedes
    <3> QED
      BY <1>1, <3>5, <3>6
  <2>3. ~SomeLeft("Removed", p)'
    BY <1>2, <2>2 DEF SomeLeft, chainVars
  <2>4. InRange("Added", p) => SomeLeft("Added", p)'
    <3>1. ASSUME NEW b \in lastBlock..End, Emits("Added", p, b) PROVE Left("Added", p, b)'
      <4>1. PICK d \in RangeCalls(lastBlock, End) :
                d.event.class = "Added" /\ d.event.protocol = p /\ d.block = b
        BY <3>1, HasCall
      <4>2. Precedes(c, d) /\ d # c
        BY <1>1, <4>1, Ranks DEF Precedes
      <4>3. d \in calls'
        BY <1>1, <4>2 DEF Inv, CallsOk, Return
      <4> QED
        BY <4>1, <4>3 DEF Left
    <3> QED
      BY <1>2, <3>1 DEF InRange, SomeLeft
  <2>5. c.block # 0
    BY <1>3
  <2> QED
    BY <1>2, <1>4, <2>1, <2>3, <2>4, <2>5 DEF StatusOk, Emits
<1>6. ASSUME NEW q \in Protocol PROVE TablesOk(q)'
  <2>1. /\ ExistsOk(q)' /\ AgentOk(q)' /\ PremiumOk(q)' /\ NonstakersOk(q)'
        /\ CoverageOk(q)' /\ OldOnesClosed(q)'
        /\ q # p => StatusOk(q)'
    BY <1>1, <1>4, Untouched
  <2>2. q = p => StatusOk(q)'
    BY <1>5 DEF StatusOk, SomeLeft, InRange, Left, Emits, At, End
  <2> QED
    BY <2>1, <2>2 DEF TablesOk
<1> QED
  BY <1>2, <1>4, <1>6 DEF Inv

\* The calls of the class that are left are for later blocks.
LEMMA LaterLeft ==
    ASSUME Inv, NEW c \in calls, First(c), Return(c), NEW p, NEW b,
           Left(c.event.class, p, b)'
    PROVE  c.block < b
<1>1. /\ c \in RangeCalls(lastBlock, End) /\ calls \subseteq RangeCalls(lastBlock, End)
      /\ calls' = calls \ {c} /\ \A d \in calls : d = c \/ Precedes(c, d)
  BY FirstHandled DEF Return, Inv, CallsOk
<1>2. PICK d \in calls' : d.event.class = c.event.class /\ d.block = b
  BY DEF Left
<1>3. Rank(c) = Rank(d) /\ Rank(c) \in Nat
  BY <1>1, <1>2, CallFacts, EventFields, Ranks
<1> QED
  BY <1>1, <1>2, <1>3 DEF Precedes

\* What is said of a protocol is said after it was added, and is handled after that.
LEMMA Known ==
    ASSUME Inv, NEW c \in calls, First(c), Return(c),
           c.event.class \in {"AgentTransfer", "Updated", "PremiumChanged"}
    PROVE  protocols[c.event.protocol].exists
<1> DEFINE p == c.event.protocol
<1>1. /\ c \in RangeCalls(lastBlock, End) /\ p \in Protocol
      /\ \A d \in calls : d = c \/ Precedes(c, d)
  BY FirstHandled
<1>2. /\ c.block \in 1..head /\ c.block \in 1..End /\ Emits(c.event.class, p, c.block)
      /\ lastBlock \in Nat \ {0} /\ head \in Nat /\ End \in Int /\ ChainOk
  BY <1>1, CallFacts DEF Inv, CallsOk, ChainOk, head, End
<1>3. LifeCycle(p, c.block) /\ c.block - 1 \in 0..head
  BY <1>1, <1>2 DEF ChainOk
<1>4. PICK k \in 1..c.block : Emits("Added", p, k)
  <2>1. CASE Emits("Added", p, c.block)
    BY <1>2, <2>1
  <2>2. CASE At(c.block - 1)[p].active
    <3>1. EmittedBy("Added", p, c.block - 1)
      BY <1>1, <1>2, <1>3, <2>2, WasAdded
    <3> QED
      BY <1>2, <3>1 DEF EmittedBy
  <2> QED
    BY <1>2, <1>3, <2>1, <2>2 DEF LifeCycle
<1>5. ~Left("Added", p, k)
  <2>1. ASSUME NEW d \in calls, d.event.class = "Added" PROVE FALSE
    BY <1>1, <2>1, Ranks DEF Precedes
  <2> QED
    BY <2>1 DEF Left
<1>6. k \in 1..End
  BY <1>2, <1>4
<1> QED
  BY <1>1, <1>4, <1>5, <1>6 DEF Inv, TablesOk, ExistsOk

\* What the event of a handled call tells is true as long as the class is handled.
LEMMA Latest ==
    ASSUME Inv, NEW c \in calls, First(c), Return(c), NEW b \in 0..End,
           HandledTo(c.event.class, c.event.protocol, b)'
    PROVE  LET now == At(b)[c.event.protocol] IN
           /\ c.event.class = "AgentTransfer" => now.agent = c.event.to
           /\ c.event.class = "PremiumChanged" => now.premium = c.event.premium
           /\ c.event.class = "Updated" => /\ now.coverage = c.event.coverage
                                           /\ now.nonstakers = c.event.nonstakers
<1> DEFINE p == c.event.protocol
<1>1. /\ c \in RangeCalls(lastBlock, End) /\ p \in Protocol /\ c.block <= b
      /\ \A k \in c.block + 1 .. b : ~Emits(c.event.class, p, k)
  BY FirstHandled
<1>2. /\ c.block \in 1..head /\ c.event \in events[c.block] /\ End <= head /\ head \in Nat
      /\ End \in Int /\ ChainOk
  BY <1>1, CallFacts DEF Inv, CallsOk, ChainOk, head, End
<1>3. Told(p, c.block)
  BY <1>1, <1>2 DEF ChainOk
<1>4. /\ c.event.class = "AgentTransfer" => At(c.block)[p].agent = c.event.to
      /\ c.event.class = "PremiumChanged" => At(c.block)[p].premium = c.event.premium
      /\ c.event.class = "Updated" => /\ At(c.block)[p].coverage = c.event.coverage
                                      /\ At(c.block)[p].nonstakers = c.event.nonstakers
  BY <1>2, <1>3 DEF Told
<1>5. c.block \in 0..head /\ b \in c.block..head
  BY <1>1, <1>2
<1> QED
  BY <1>1, <1>2, <1>4, <1>5, Quiet

\* An addition makes the row, or enables it again.
LEMMA AddedKeeps ==
    ASSUME Inv, NEW c \in calls, HandleAdded(c)
    PROVE  Inv'
<1> DEFINE p == c.event.protocol
           row == Added(p)
<1>1. /\ First(c) /\ Return(c) /\ c.event.class = "Added"
      /\ UNCHANGED <<premiums, nonstakers, coverages>>
      /\ protocols' = [protocols EXCEPT ![p] = row]
  BY DEF HandleAdded, Handles
<1>2. /\ rangeEnd # 0 /\ c \in RangeCalls(lastBlock, End) /\ End' = End /\ p \in Protocol
      /\ UNCHANGED <<events, book, lastBlock, rangeEnd, flapped>>
      /\ ChainOk' /\ CallsOk'
      /\ \A class, q, b : Left(class, q, b)' => Left(class, q, b)
      /\ \A d \in calls : d = c \/ Precedes(c, d)
  BY <1>1, FirstHandled DEF chainVars
<1>3. /\ c.block \in lastBlock..End /\ c.block \in 1..head /\ Emits("Added", p, c.block)
      /\ lastBlock \in Nat \ {0} /\ End \in Int
  BY <1>1, <1>2, CallFacts DEF Inv, CallsOk, End
<1>4. /\ row \in ProtocolRow /\ row.exists = TRUE /\ row.endedAt = 0
      /\ protocols[p].exists => row.agent = protocols[p].agent
  <2>1. 0 \in EndBlock /\ NoAgent \in RowAgent
    BY RegistryAssumption DEF EndBlock, RowAgent
  <2>2. CASE protocols[p].exists
    <3>1. protocols[p] \in ProtocolRow /\ row = [protocols[p] EXCEPT !.endedAt = 0]
      BY <1>2, <2>2, ExistingRow DEF Added
    <3>2. row \in ProtocolRow /\ row.exists = protocols[p].exists
          /\ row.agent = protocols[p].agent /\ row.endedAt = 0
      BY <2>1, <3>1 DEF ProtocolRow
    <3>3. protocols[p].exists = TRUE
      BY <1>2, <2>2, ExistingRow
    <3> QED
      BY <3>2, <3>3
  <2>3. CASE ~protocols[p].exists
    <3>1. row = [exists |-> TRUE, agent |-> NoAgent, endedAt |-> 0]
      BY <2>3 DEF Added
    <3> QED
      BY <2>1, <2>3, <3>1 DEF ProtocolRow
  <2> QED
    BY <2>2, <2>3
<1> HIDE DEF row
<1>5. /\ TablesTyped' /\ protocols'[p] = row
      /\ \A q \in Protocol : q # p => protocols'[q] = protocols[q]
  BY <1>1, <1>2, <1>4 DEF Inv, TablesTyped
<1>6. ExistsOk(p)'
  <2>1. EmittedBy("Added", p, End)'
    BY <1>2, <1>3 DEF EmittedBy, Emits
  <2> QED
    BY <1>4, <1>5, <2>1 DEF ExistsOk
<1>7. AgentOk(p)'
  <2>1. /\ \A b : HandledTo("AgentTransfer", p, b)' = HandledTo("AgentTransfer", p, b)
        /\ \A b : EmittedBy("AgentTransfer", p, b)' = EmittedBy("AgentTransfer", p, b)
        /\ \A b : At(b)' = At(b)
    BY <1>1, <1>2, OthersStay DEF EmittedBy, Emits, At
  <2> QED
    BY <1>2, <1>4, <1>5, <2>1 DEF Inv, TablesOk, AgentOk
<1>8. StatusOk(p)'
  <2> SUFFICES ASSUME p \notin flapped PROVE StatusOk(p)'
    BY <1>2 DEF StatusOk
  <2>1. StatusOk(p)
    BY <1>2 DEF Inv, TablesOk
  <2>2. ASSUME NEW b \in lastBlock..End, Left("Added", p, b)' PROVE FALSE
    <3>1. c.block < b
      BY <1>1, <2>2, LaterLeft
    <3>2. Left("Added", p, b)
      BY <1>2, <2>2
    <3>3. PICK d \in calls : d.event.class = "Added" /\ d.event.protocol = p /\ d.block = b
      BY <3>2 DEF Left
    <3>4. Emits("Added", p, b)
      BY <3>3, CallFacts DEF Inv, CallsOk
    <3> QED
      BY <1>2, <1>3, <3>1, <3>4, AtMostOnce
  <2>3. ~SomeLeft("Added", p)' /\ \A b, class : Emits(class, p, b)' = Emits(class, p, b)
    BY <1>2, <2>2 DEF SomeLeft, Emits
  <2> QED
    BY <1>2, <1>3, <1>4, <1>5, <2>1, <2>3 DEF StatusOk, InRange
<1>9. ASSUME NEW q \in Protocol PROVE TablesOk(q)'
  <2>1. /\ PremiumOk(q)' /\ NonstakersOk(q)' /\ CoverageOk(q)' /\ OldOnesClosed(q)'
        /\ q # p => ExistsOk(q)' /\ AgentOk(q)' /\ StatusOk(q)'
    BY <1>1, <1>5, Untouched
  <2>2. CASE q = p
    <3>1. ExistsOk(q)' /\ AgentOk(q)' /\ StatusOk(q)'
      BY <1>6, <1>7, <1>8, <2>2
         DEF ExistsOk, EmittedBy, AgentOk, HandledTo, StatusOk, SomeLeft, InRange, Left, Emits,
             At, End
    <3> QED
      BY <2>1, <3>1 DEF TablesOk
  <2> QED
    BY <2>1, <2>2 DEF TablesOk
<1> QED
  BY <1>2, <1>5, <1>9 DEF Inv

\* An agent's transfer is handled after the addition of its protocol.
LEMMA AgentTransferKeeps ==
    ASSUME Inv, NEW c \in calls, HandleAgentTransfer(c)
    PROVE  Inv'
<1> DEFINE p == c.event.protocol
           row == [protocols[p] EXCEPT !.agent = c.event.to]
<1>1. /\ First(c) /\ Return(c) /\ c.event.class = "AgentTransfer" /\ protocols[p].exists
      /\ UNCHANGED <<premiums, nonstakers, coverages>>
  BY Known DEF HandleAgentTransfer, Handles
<1>2. /\ rangeEnd # 0 /\ c \in RangeCalls(lastBlock, End) /\ End' = End /\ p \in Protocol
      /\ UNCHANGED <<events, book>> /\ ChainOk' /\ CallsOk' /\ flapped' = flapped
  BY <1>1, FirstHandled DEF chainVars
<1>3. /\ protocols[p] \in ProtocolRow /\ protocols \in [Protocol -> {NoRow} \cup ProtocolRow]
      /\ c.event.to \in RowAgent
  BY <1>1, <1>2, ExistingRow, CallFacts, EventFields DEF RowAgent
<1>4. /\ row \in ProtocolRow /\ row.agent = c.event.to
      /\ row.exists = protocols[p].exists /\ row.endedAt = protocols[p].endedAt
  BY <1>3 DEF ProtocolRow
<1>5. protocols' = [protocols EXCEPT ![p] = row]
  BY <1>1 DEF HandleAgentTransfer
<1> HIDE DEF row
<1>6. /\ TablesTyped' /\ protocols'[p] = row
      /\ \A q \in Protocol : q # p => protocols'[q] = protocols[q]
  BY <1>1, <1>2, <1>3, <1>4, <1>5 DEF Inv, TablesTyped
<1>7. AgentOk(p)'
  <2>1. ASSUME NEW b \in 0..End, HandledTo("AgentTransfer", p, b)'
        PROVE  At(b)[p].agent = c.event.to
    BY <1>1, <2>1, Latest
  <2>2. \A b : At(b)' = At(b)
    BY <1>2 DEF At
  <2> QED
    BY <1>1, <1>2, <1>4, <1>6, <2>1, <2>2 DEF AgentOk
<1>8. ASSUME NEW q \in Protocol PROVE TablesOk(q)'
  <2>1. protocols'[q].exists = protocols[q].exists /\ protocols'[q].endedAt = protocols[q].endedAt
    BY <1>4, <1>6
  <2>2. /\ PremiumOk(q)' /\ NonstakersOk(q)' /\ CoverageOk(q)' /\ OldOnesClosed(q)'
        /\ ExistsOk(q)' /\ StatusOk(q)'
        /\ q # p => AgentOk(q)'
    BY <1>1, <1>6, <2>1, Untouched
  <2>3. q = p => AgentOk(q)'
    BY <1>7 DEF AgentOk, EmittedBy, HandledTo, Left, Emits, At, End
  <2> QED
    BY <2>2, <2>3 DEF TablesOk
<1> QED
  BY <1>2, <1>6, <1>8 DEF Inv

\* A row that is newer than all others is appended.
LEMMA SavedNew ==
    ASSUME NEW R, NEW rows \in Seq(R), NEW row \in R,
           \A i \in DOMAIN rows : rows[i] # row
    PROVE  /\ Saved(rows, row) \in Seq(R) /\ Saved(rows, row) # <<>>
           /\ Len(Saved(rows, row)) = Len(rows) + 1
           /\ Newest(Saved(rows, row)) = row
           /\ \A i \in 1..Len(rows) : Saved(rows, row)[i] = rows[i]
           /\ Saved(rows, row)[Len(rows) + 1] = row
<1>1. Saved(rows, row) = Append(rows, row)
  BY DEF Saved
<1>2. /\ Append(rows, row) \in Seq(R) /\ Len(Append(rows, row)) = Len(rows) + 1
      /\ Len(rows) \in Nat
      /\ \A i \in 1..Len(rows) : Append(rows, row)[i] = rows[i]
      /\ Append(rows, row)[Len(rows) + 1] = row
  OBVIOUS
<1>3. Append(rows, row) # <<>>
  BY <1>2
<1> QED
  BY <1>1, <1>2, <1>3 DEF Newest

\* The same coverages, some with another end.
LEMMA UntilRows ==
    ASSUME NEW rows \in Seq(CoverageRow), NEW I, NEW e \in Nat
    PROVE  /\ Until(rows, I, e) \in Seq(CoverageRow) /\ Len(Until(rows, I, e)) = Len(rows)
           /\ \A i \in 1..Len(rows) :
                 /\ Until(rows, I, e)[i].amount = rows[i].amount
                 /\ Until(rows, I, e)[i].claimableUntil =
                       IF i \in I THEN e ELSE rows[i].claimableUntil
<1> DEFINE New(i) == IF i \in I THEN [rows[i] EXCEPT !.claimableUntil = e] ELSE rows[i]
<1>1. Until(rows, I, e) = [i \in 1..Len(rows) |-> New(i)] /\ Len(rows) \in Nat
  BY DEF Until
<1>2. ASSUME NEW i \in 1..Len(rows)
      PROVE  /\ New(i) \in CoverageRow /\ New(i).amount = rows[i].amount
             /\ New(i).claimableUntil = IF i \in I THEN e ELSE rows[i].claimableUntil
  <2>1. rows[i] \in CoverageRow
    OBVIOUS
  <2> QED
    BY <2>1 DEF CoverageRow
<1> HIDE DEF New
<1> QED
  BY <1>1, <1>2

\* Coverage ends: the newest row stays claimable for the window.
LEMMA EndedRows ==
    ASSUME NEW rows \in Seq(CoverageRow), rows # <<>>, NEW b \in Block
    PROVE  /\ Covered(rows, 0, b) \in Seq(CoverageRow) /\ Covered(rows, 0, b) # <<>>
           /\ Newest(Covered(rows, 0, b)).claimableUntil # 0
           /\ Len(Covered(rows, 0, b)) = Len(rows)
           /\ \A i \in 1 .. Len(rows) - 2 :
                 Covered(rows, 0, b)[i].claimableUntil = rows[i].claimableUntil
<1> DEFINE closed == Until(rows, TwoNewest(rows), b + Window)
           len == Len(rows)
<1>1. b + Window \in Nat \ {0} /\ len \in Nat /\ len \in 1..len /\ DOMAIN rows = 1..len
  BY RegistryAssumption DEF Block
<1>2. Covered(rows, 0, b) = closed
  BY DEF Covered
<1>3. TwoNewest(rows) = (1..len) \cap {len - 1, len}
  BY <1>1 DEF TwoNewest
<1>4. /\ closed \in Seq(CoverageRow) /\ Len(closed) = len
      /\ \A i \in 1..len : closed[i].claimableUntil =
            IF i \in TwoNewest(rows) THEN b + Window ELSE rows[i].claimableUntil
  BY <1>1, UntilRows
<1> HIDE DEF closed, len
<1>5. \A i \in 1 .. len - 2 : i \in 1..len /\ i \notin TwoNewest(rows)
  BY <1>1, <1>3
<1>6. len \in TwoNewest(rows)
  BY <1>1, <1>3
<1>7. closed # <<>> /\ closed[len].claimableUntil # 0
  BY <1>1, <1>4, <1>6
<1>8. \A i \in 1 .. len - 2 : closed[i].claimableUntil = rows[i].claimableUntil
  BY <1>4, <1>5
<1> QED
  BY <1>2, <1>4, <1>7, <1>8 DEF Newest, len

\* A coverage follows another, and closes the one before that.
LEMMA ReplacedRows ==
    ASSUME NEW rows \in Seq(CoverageRow), NEW n \in Amount, NEW b \in Block
    PROVE  /\ Covered(rows, n, b) \in Seq(CoverageRow) /\ Covered(rows, n, b) # <<>>
           /\ Newest(Covered(rows, n, b)).amount = n
           /\ Len(Covered(rows, n, b)) = Len(rows) + 1
           /\ \A i \in 1 .. Len(rows) - 1 :
                 /\ i = Len(rows) - 1 => Covered(rows, n, b)[i].claimableUntil = b
                 /\ i # Len(rows) - 1 =>
                       Covered(rows, n, b)[i].claimableUntil = rows[i].claimableUntil
<1> DEFINE old == Until(rows, {Len(rows) - 1}, b)
           new == NewCoverage(n, b)
           len == Len(rows)
<1>1. b \in Nat /\ len \in Nat /\ n # 0
  BY RegistryAssumption DEF Block
<1>2. Covered(rows, n, b) = Append(old, new)
  BY <1>1 DEF Covered, Replaced
<1>3. /\ old \in Seq(CoverageRow) /\ Len(old) = len
      /\ \A i \in 1..len : old[i].claimableUntil =
            IF i \in {len - 1} THEN b ELSE rows[i].claimableUntil
  <2>1. \A I : /\ Until(rows, I, b) \in Seq(CoverageRow) /\ Len(Until(rows, I, b)) = len
               /\ \A i \in 1..len : Until(rows, I, b)[i].claimableUntil =
                     IF i \in I THEN b ELSE rows[i].claimableUntil
    BY <1>1, UntilRows
  <2> HIDE DEF len
  <2>2. old = Until(rows, {len - 1}, b)
    BY DEF len
  <2> QED
    BY <2>1, <2>2
<1>4. new \in CoverageRow /\ new.amount = n
  BY <1>1 DEF NewCoverage, CoverageRow
<1> HIDE DEF old, new, len
<1>5. /\ Append(old, new) \in Seq(CoverageRow) /\ Len(Append(old, new)) = len + 1
      /\ Append(old, new)[len + 1] = new
      /\ \A i \in 1..len : Append(old, new)[i] = old[i]
  BY <1>3, <1>4
<1>6. Append(old, new) # <<>>
  BY <1>1, <1>5
<1>7. \A i \in 1 .. len - 1 :
         /\ i = len - 1 => Append(old, new)[i].claimableUntil = b
         /\ i # len - 1 => Append(old, new)[i].claimableUntil = rows[i].claimableUntil
  BY <1>1, <1>3, <1>5
<1> QED
  BY <1>2, <1>4, <1>5, <1>6, <1>7 DEF Newest, len

\* Of the older coverages only the one that is no longer among the two newest has
\* another end.
Follows(covered, rows, b) ==
    \/ /\ Len(covered) = Len(rows)
       /\ \A i \in 1 .. Len(rows) - 2 : covered[i].claimableUntil = rows[i].claimableUntil
    \/ /\ Len(covered) = Len(rows) + 1
       /\ \A i \in 1 .. Len(rows) - 1 :
             /\ i = Len(rows) - 1 => covered[i].claimableUntil = b
             /\ i # Len(rows) - 1 => covered[i].claimableUntil = rows[i].claimableUntil

\* After an update the newest coverage is the one that was told, or closed.
LEMMA CoveredRows ==
    ASSUME NEW rows \in Seq(CoverageRow), NEW n \in Amount \cup {0}, n = 0 => rows # <<>>,
           NEW b \in Block
    PROVE  /\ Covered(rows, n, b) \in Seq(CoverageRow) /\ Covered(rows, n, b) # <<>>
           /\ n = 0 => Newest(Covered(rows, n, b)).claimableUntil # 0
           /\ n # 0 => Newest(Covered(rows, n, b)).amount = n
           /\ Follows(Covered(rows, n, b), rows, b)
<1>1. CASE n = 0
  BY <1>1, EndedRows DEF Follows
<1>2. CASE n # 0
  <2>1. n \in Amount
    BY <1>2
  <2> QED
    BY <1>2, <2>1, ReplacedRows DEF Follows
<1> QED
  BY <1>1, <1>2

\* A change of premium is handled after all that was before it.
LEMMA PremiumChangedKeeps ==
    ASSUME Inv, NEW c \in calls, HandlePremiumChanged(c)
    PROVE  Inv'
<1> DEFINE p == c.event.protocol
           row == [premium |-> c.event.premium, setAt |-> c.block]
           new == Saved(premiums[p], row)
<1>1. /\ First(c) /\ Return(c) /\ c.event.class = "PremiumChanged"
      /\ UNCHANGED <<protocols, nonstakers, coverages>>
      /\ premiums' = [premiums EXCEPT ![p] = new]
  BY Known DEF HandlePremiumChanged, Handles
<1>2. /\ c \in RangeCalls(lastBlock, End) /\ c \in calls /\ End' = End /\ p \in Protocol
      /\ UNCHANGED <<events, book>> /\ ChainOk' /\ CallsOk' /\ flapped' = flapped
      /\ \A class, q, b : Left(class, q, b)' => Left(class, q, b)
  BY <1>1, FirstHandled DEF chainVars
<1>3. /\ c.block \in 1..End /\ c.block \in Block /\ c.block \in Nat
      /\ c.event.premium \in Amount \cup {0}
      /\ premiums[p] \in Seq(PremiumRow) /\ Len(premiums[p]) \in Nat
      /\ \A i \in DOMAIN premiums[p] : premiums[p][i].setAt \in Nat
  <2>1. c.block \in lastBlock..End /\ c.block \in 1..head /\ c.event \in Events
    BY <1>2, CallFacts
  <2> QED
    BY <1>1, <1>2, <2>1, EventFields, RowTypes, RegistryAssumption
       DEF Block, Inv, CallsOk, ChainOk, head, End
<1>4. row \in PremiumRow /\ row.premium = c.event.premium /\ row.setAt = c.block
  BY <1>3 DEF PremiumRow
<1> HIDE DEF row
<1>5. RowsOlder(premiums[p], "PremiumChanged", p) /\ Left("PremiumChanged", p, c.block)
  BY <1>1, <1>2 DEF Inv, TablesOk, PremiumOk, Left
<1>6. \A i \in DOMAIN premiums[p] : premiums[p][i].setAt < c.block
  BY <1>3, <1>5 DEF RowsOlder
<1>7. \A i \in DOMAIN premiums[p] : premiums[p][i] # row
  BY <1>3, <1>4, <1>6
<1>8. /\ new \in Seq(PremiumRow) /\ new # <<>> /\ Newest(new) = row
      /\ Len(new) = Len(premiums[p]) + 1 /\ new[Len(premiums[p]) + 1] = row
      /\ \A i \in 1..Len(premiums[p]) : new[i] = premiums[p][i]
  BY <1>3, <1>4, <1>7, SavedNew
<1> HIDE DEF new
<1>9. /\ TablesTyped' /\ premiums'[p] = new
      /\ \A q \in Protocol : q # p => premiums'[q] = premiums[q]
  BY <1>1, <1>2, <1>8 DEF Inv, TablesTyped
<1>10. PremiumOk(p)'
  <2>1. \A i \in 1..Len(new) : (i \in DOMAIN premiums[p] /\ new[i] = premiums[p][i]) \/ new[i] = row
    BY <1>3, <1>8
  <2>2. \A b : Left("PremiumChanged", p, b)' => c.block < b
    BY <1>1, LaterLeft
  <2>3. RowsOlder(premiums[p], "PremiumChanged", p)'
    <3>1. ASSUME NEW i \in DOMAIN new
          PROVE  new[i].setAt <= End /\ \A b \in 1..End : Left("PremiumChanged", p, b)' => new[i].setAt < b
      BY <1>2, <1>3, <1>4, <1>5, <1>8, <2>1, <2>2 DEF RowsOlder
    <3> QED
      BY <1>2, <1>9, <3>1 DEF RowsOlder
  <2>4. ASSUME NEW b \in 0..End, HandledTo("PremiumChanged", p, b)'
        PROVE  At(b)[p].premium = c.event.premium
    BY <1>1, <2>4, Latest
  <2>5. \A b : At(b)' = At(b)
    BY <1>2 DEF At
  <2> QED
    BY <1>2, <1>4, <1>8, <1>9, <2>3, <2>4, <2>5 DEF PremiumOk, LatestPremium
<1>11. ASSUME NEW q \in Protocol PROVE TablesOk(q)'
  <2>1. /\ NonstakersOk(q)' /\ CoverageOk(q)' /\ OldOnesClosed(q)'
        /\ ExistsOk(q)' /\ AgentOk(q)' /\ StatusOk(q)'
        /\ q # p => PremiumOk(q)'
    BY <1>1, <1>9, Untouched
  <2>2. q = p => PremiumOk(q)'
    BY <1>10 DEF PremiumOk, LatestPremium, RowsOlder, HandledTo, Left, Emits, At, End
  <2> QED
    BY <2>1, <2>2 DEF TablesOk
<1> QED
  BY <1>2, <1>9, <1>11 DEF Inv

\* An update of coverage and nonstakers' share: coverage ends only for a protocol
\* that had one.
LEMMA UpdatedKeeps ==
    ASSUME Inv, NEW c \in calls, HandleUpdated(c)
    PROVE  Inv'
<1> DEFINE p == c.event.protocol
           n == c.event.coverage
           row == [nonstakers |-> c.event.nonstakers, setAt |-> c.block]
           new == Saved(nonstakers[p], row)
           covered == Covered(coverages[p], n, c.block)
<1>1. /\ First(c) /\ Return(c) /\ c.event.class = "Updated"
      /\ UNCHANGED <<protocols, premiums>>
      /\ nonstakers' = [nonstakers EXCEPT ![p] = new]
      /\ coverages' = [coverages EXCEPT ![p] = covered]
  BY Known DEF HandleUpdated, Handles
<1>2. /\ c \in RangeCalls(lastBlock, End) /\ c \in calls /\ End' = End /\ p \in Protocol
      /\ UNCHANGED <<events, book>> /\ ChainOk' /\ CallsOk' /\ flapped' = flapped
      /\ \A class, q, b : Left(class, q, b)' => Left(class, q, b)
      /\ HandledTo("Updated", p, c.block - 1) /\ c.block - 1 \in 0..End
  BY <1>1, FirstHandled DEF chainVars
<1>3. /\ c.block \in 1..End /\ c.block \in Block /\ c.block \in Nat
      /\ c.event.nonstakers \in Share \cup {0} /\ n \in Amount \cup {0}
      /\ nonstakers[p] \in Seq(NonstakersRow) /\ Len(nonstakers[p]) \in Nat
      /\ \A i \in DOMAIN nonstakers[p] : nonstakers[p][i].setAt \in Nat
      /\ coverages[p] \in Seq(CoverageRow) /\ Len(coverages[p]) \in Nat
      /\ c.block \in 1..head /\ c.event \in events[c.block] /\ End <= head /\ head \in Nat
      /\ End \in Nat /\ Emits("Updated", p, c.block)
  <2>1. /\ c.block \in lastBlock..End /\ c.block \in 1..head /\ c.event \in Events
        /\ c.event \in events[c.block] /\ Emits("Updated", p, c.block)
    BY <1>1, <1>2, CallFacts
  <2> QED
    <3>1. /\ nonstakers[p] \in Seq(NonstakersRow) /\ coverages[p] \in Seq(CoverageRow)
          /\ \A i \in DOMAIN nonstakers[p] : nonstakers[p][i].setAt \in Nat
      BY <1>2, RowTypes
    <3>2. /\ lastBlock \in Nat \ {0} /\ End \in Nat /\ End <= head /\ head \in Nat
          /\ head <= MaxBlock
      BY DEF Inv, CallsOk, ChainOk, head, End
    <3>3. c.event.nonstakers \in Share \cup {0} /\ n \in Amount \cup {0}
      BY <1>1, <2>1, EventFields
    <3>4. c.block \in 1..End /\ c.block \in Block /\ c.block \in Nat
      BY <2>1, <3>2, RegistryAssumption DEF Block
    <3> QED
      BY <2>1, <3>1, <3>2, <3>3, <3>4
<1>4. row \in NonstakersRow /\ row.nonstakers = c.event.nonstakers /\ row.setAt = c.block
  BY <1>3 DEF NonstakersRow
<1> HIDE DEF row
<1>5. RowsOlder(nonstakers[p], "Updated", p) /\ Left("Updated", p, c.block)
  BY <1>1, <1>2 DEF Inv, TablesOk, NonstakersOk, Left
<1>6. \A i \in DOMAIN nonstakers[p] : nonstakers[p][i].setAt < c.block
  BY <1>3, <1>5 DEF RowsOlder
<1>7. \A i \in DOMAIN nonstakers[p] : nonstakers[p][i] # row
  BY <1>3, <1>4, <1>6
<1>8. /\ new \in Seq(NonstakersRow) /\ new # <<>> /\ Newest(new) = row
      /\ Len(new) = Len(nonstakers[p]) + 1 /\ new[Len(nonstakers[p]) + 1] = row
      /\ \A i \in 1..Len(nonstakers[p]) : new[i] = nonstakers[p][i]
  BY <1>3, <1>4, <1>7, SavedNew
<1> HIDE DEF new
<1>9. ASSUME n = 0 PROVE coverages[p] # <<>>
  <2>1. c.block - 1 \in 0..head /\ ChainOk /\ Told(p, c.block) /\ LifeCycle(p, c.block)
    BY <1>2, <1>3 DEF Inv, ChainOk
  <2>2. At(c.block)[p].coverage = 0 /\ Terms(At(c.block)[p])
    BY <1>1, <1>2, <1>3, <1>9, <2>1, Rows DEF Told
  <2>3. At(c.block - 1)[p].active
    BY <1>3, <2>1, <2>2 DEF LifeCycle, Terms
  <2>4. EmittedBy("Updated", p, c.block - 1)
    BY <1>2, <2>1, <2>3, WasAdded
  <2> QED
    BY <1>2, <2>4 DEF Inv, TablesOk, CoverageOk
<1>10. /\ covered \in Seq(CoverageRow) /\ covered # <<>>
       /\ n = 0 => Newest(covered).claimableUntil # 0
       /\ n # 0 => Newest(covered).amount = n
       /\ Follows(covered, coverages[p], c.block)
  <2>1. /\ coverages[p] \in Seq(CoverageRow) /\ n \in Amount \cup {0} /\ c.block \in Block
        /\ n = 0 => coverages[p] # <<>>
    BY <1>3, <1>9
  <2> QED
    BY <2>1, CoveredRows
<1> HIDE DEF covered
<1>13. /\ TablesTyped' /\ nonstakers'[p] = new /\ coverages'[p] = covered
       /\ \A q \in Protocol : q # p => nonstakers'[q] = nonstakers[q] /\ coverages'[q] = coverages[q]
  BY <1>1, <1>2, <1>8, <1>10 DEF Inv, TablesTyped
<1>14. ASSUME NEW b \in 0..End, HandledTo("Updated", p, b)'
       PROVE  At(b)[p].nonstakers = c.event.nonstakers /\ At(b)[p].coverage = n
  BY <1>1, <1>14, Latest
<1>15. \A b : At(b)' = At(b)
  BY <1>2 DEF At
<1>16. NonstakersOk(p)'
  <2>1. \A i \in 1..Len(new) : (i \in DOMAIN nonstakers[p] /\ new[i] = nonstakers[p][i]) \/ new[i] = row
    BY <1>3, <1>8
  <2>2. \A b : Left("Updated", p, b)' => c.block < b
    BY <1>1, LaterLeft
  <2>3. RowsOlder(nonstakers[p], "Updated", p)'
    <3>1. ASSUME NEW i \in DOMAIN new
          PROVE  new[i].setAt <= End /\ \A b \in 1..End : Left("Updated", p, b)' => new[i].setAt < b
      <4>1. CASE new[i] = row
        BY <1>3, <1>4, <2>2, <4>1
      <4>2. CASE i \in DOMAIN nonstakers[p] /\ new[i] = nonstakers[p][i]
        BY <1>2, <1>5, <4>2 DEF RowsOlder
      <4> QED
        BY <1>8, <2>1, <3>1, <4>1, <4>2
    <3> QED
      BY <1>2, <1>13, <3>1 DEF RowsOlder
  <2> QED
    BY <1>2, <1>4, <1>8, <1>13, <1>14, <1>15, <2>3 DEF NonstakersOk, LatestNonstakers
<1>17. CoverageOk(p)'
  BY <1>2, <1>10, <1>13, <1>14, <1>15 DEF CoverageOk
<1>18. OldOnesClosed(p)'
  <2>1. \A i \in 1 .. Len(coverages[p]) - 2 : coverages[p][i].claimableUntil \in 1..End
    BY <1>2 DEF Inv, TablesOk, OldOnesClosed
  <2>2. ASSUME NEW i \in 1 .. Len(covered) - 2 PROVE covered[i].claimableUntil \in 1..End
    <3> DEFINE len == Len(coverages[p])
    <3>1. CASE /\ Len(covered) = len
               /\ \A j \in 1 .. len - 2 : covered[j].claimableUntil = coverages[p][j].claimableUntil
      BY <2>1, <2>2, <3>1
    <3>2. CASE /\ Len(covered) = len + 1
               /\ \A j \in 1 .. len - 1 :
                     /\ j = len - 1 => covered[j].claimableUntil = c.block
                     /\ j # len - 1 => covered[j].claimableUntil = coverages[p][j].claimableUntil
      <4>1. CASE i = len - 1
        <5>1. i \in 1 .. len - 1
          BY <1>3, <2>2, <3>2, <4>1
        <5>2. covered[i].claimableUntil = c.block
          BY <3>2, <4>1, <5>1
        <5> QED
          BY <1>3, <5>2
      <4>2. CASE i \in 1 .. len - 2
        <5>1. i \in 1 .. len - 1 /\ i # len - 1
          BY <1>3, <4>2
        <5>2. covered[i].claimableUntil = coverages[p][i].claimableUntil
          BY <3>2, <5>1
        <5> QED
          BY <2>1, <4>2, <5>2
      <4> QED
        BY <1>3, <2>2, <3>2, <4>1, <4>2
    <3> QED
      BY <1>10, <3>1, <3>2 DEF Follows
  <2> QED
    BY <1>2, <1>13, <2>2 DEF OldOnesClosed
<1>19. ASSUME NEW q \in Protocol PROVE TablesOk(q)'
  <2>1. /\ PremiumOk(q)' /\ ExistsOk(q)' /\ AgentOk(q)' /\ StatusOk(q)'
        /\ q # p => NonstakersOk(q)' /\ CoverageOk(q)' /\ OldOnesClosed(q)'
    BY <1>1, <1>13, Untouched
  <2>2. q = p => NonstakersOk(q)'
    BY <1>16 DEF NonstakersOk, LatestNonstakers, RowsOlder, HandledTo, Left, Emits, At, End
  <2>3. q = p => CoverageOk(q)' /\ OldOnesClosed(q)'
    BY <1>17, <1>18
       DEF CoverageOk, OldOnesClosed, EmittedBy, HandledTo, Left, Emits, At, End
  <2> QED
    BY <2>1, <2>2, <2>3 DEF TablesOk
<1> QED
  BY <1>2, <1>13, <1>19 DEF Inv

-----------------------------------------------------------------------------
(* The invariant and the theorems.                                         *)

\* Nothing is mined, and nothing is indexed.
LEMMA InitInv == Init => Inv
<1> SUFFICES ASSUME Init PROVE Inv
  OBVIOUS
<1> USE RegistryAssumption
<1>1. /\ events = <<>> /\ book = <<>> /\ head = 0 /\ lastBlock = 1 /\ rangeEnd = 0
      /\ calls = {} /\ flapped = {} /\ End = 0
      /\ protocols = [p \in Protocol |-> NoRow]
      /\ premiums = [p \in Protocol |-> <<>>] /\ nonstakers = [p \in Protocol |-> <<>>]
      /\ coverages = [p \in Protocol |-> <<>>]
  BY DEF Init, head, End
<1>2. ChainOk
  BY <1>1 DEF ChainOk, head
<1>3. CallsOk
  BY <1>1 DEF CallsOk
<1>4. TablesTyped
  BY <1>1 DEF TablesTyped
<1>5. ASSUME NEW p \in Protocol PROVE TablesOk(p)
  <2>1. /\ premiums[p] = <<>> /\ nonstakers[p] = <<>> /\ coverages[p] = <<>>
        /\ ~protocols[p].exists
    BY <1>1 DEF NoRow
  <2>2. /\ At(0)[p].premium = 0 /\ At(0)[p].nonstakers = 0
        /\ \A class, b : b \in 0..0 => b = 0 /\ ~EmittedBy(class, p, b)
    BY DEF At, Inactive, EmittedBy
  <2>3. ExistsOk(p) /\ AgentOk(p) /\ CoverageOk(p)
    BY <1>1, <2>1, <2>2 DEF ExistsOk, AgentOk, CoverageOk
  <2>4. PremiumOk(p) /\ NonstakersOk(p)
    BY <1>1, <2>1, <2>2 DEF PremiumOk, NonstakersOk, RowsOlder, LatestPremium, LatestNonstakers
  <2>5. OldOnesClosed(p) /\ StatusOk(p)
    BY <1>1, <2>1 DEF OldOnesClosed, StatusOk
  <2> QED
    BY <2>3, <2>4, <2>5 DEF TablesOk
<1> QED
  BY <1>2, <1>3, <1>4, <1>5 DEF Inv

\* Every step keeps the invariant.
LEMMA NextInv == Inv /\ [Next]_vars => Inv'
<1> SUFFICES ASSUME Inv, [Next]_vars PROVE Inv'
  OBVIOUS
<1>1. CASE Contract
  BY <1>1, ContractKeeps
<1>2. CASE \E end \in Block : TakeRange(end)
  BY <1>2, TakeRangeKeeps
<1>3. CASE CommitRange
  BY <1>3, CommitRangeKeeps
<1>4. ASSUME NEW c \in calls,
             \/ HandleRemoved(c) \/ HandleAdded(c) \/ HandleAgentTransfer(c)
             \/ HandleUpdated(c) \/ HandlePremiumChanged(c)
      PROVE  Inv'
  <2>1. CASE HandleRemoved(c)
    BY <2>1, RemovedKeeps
  <2>2. CASE HandleAdded(c)
    BY <2>2, AddedKeeps
  <2>3. CASE HandleAgentTransfer(c)
    BY <2>3, AgentTransferKeeps
  <2>4. CASE HandleUpdated(c)
    BY <2>4, UpdatedKeeps
  <2>5. CASE HandlePremiumChanged(c)
    BY <2>5, PremiumChangedKeeps
  <2> QED
    BY <1>4, <2>1, <2>2, <2>3, <2>4, <2>5
<1>5. CASE UNCHANGED vars
  <2>1. /\ UNCHANGED <<events, book, protocols, premiums, nonstakers, coverages>>
        /\ UNCHANGED <<lastBlock, rangeEnd, calls, flapped>>
    BY <1>5 DEF vars, chainVars, tableVars
  <2>2. ChainOk'
    BY <2>1, SameChain DEF Inv
  <2>3. CallsOk'
    BY <2>1 DEF Inv, CallsOk, End, RangeCalls, head
  <2>4. TablesTyped'
    BY <2>1 DEF Inv, TablesTyped
  <2>5. ASSUME NEW p \in Protocol PROVE TablesOk(p)'
    <3>1. TablesOk(p)
      BY DEF Inv
    <3>2. ExistsOk(p)' /\ AgentOk(p)' /\ CoverageOk(p)' /\ OldOnesClosed(p)'
      BY <2>1, <3>1
         DEF TablesOk, ExistsOk, AgentOk, CoverageOk, OldOnesClosed, HandledTo, EmittedBy,
             Emits, Left, At, End
    <3>3. PremiumOk(p)' /\ NonstakersOk(p)'
      BY <2>1, <3>1
         DEF TablesOk, PremiumOk, NonstakersOk, RowsOlder, LatestPremium, LatestNonstakers,
             HandledTo, Emits, Left, At, End
    <3>4. StatusOk(p)'
      BY <2>1, <3>1 DEF TablesOk, StatusOk, InRange, SomeLeft, Emits, Left, At, End
    <3> QED
      BY <3>2, <3>3, <3>4 DEF TablesOk
  <2> QED
    BY <2>2, <2>3, <2>4, <2>5 DEF Inv
<1> QED
  BY <1>1, <1>2, <1>3, <1>4, <1>5 DEF Next, Indexer

\* The invariant holds of every state.
LEMMA AlwaysInv == Spec => []Inv
BY InitInv, NextInv, PTL DEF Spec

\* Between two ranges every class is handled to the last indexed block.
LEMMA AfterRange ==
    ASSUME Inv, Committed, NEW p \in Protocol, NEW l, l = lastBlock - 1
    PROVE  /\ End = l /\ l \in 1..head /\ l \in 0..End /\ l \in 0..head
           /\ Indexed[p] = At(l)[p] /\ Indexed[p] \in ContractRow /\ Terms(Indexed[p])
           /\ \A class : HandledTo(class, p, l)
           /\ \A class, b : ~Left(class, p, b)
           /\ \A class : ~InRange(class, p)
           /\ TablesOk(p) /\ ChainOk
<1>1. /\ rangeEnd = 0 /\ lastBlock > 1 /\ lastBlock \in Nat /\ End = l /\ End <= head
      /\ calls = {} /\ head \in Nat
  BY DEF Inv, CallsOk, ChainOk, Committed, End, head
<1>2. l \in 1..head /\ l \in 0..End /\ l \in 0..head
  BY <1>1
<1>3. Indexed[p] = At(l)[p]
  BY <1>1, <1>2 DEF Indexed, At
<1>4. At(l)[p] \in ContractRow /\ Terms(At(l)[p])
  BY <1>2, Rows DEF Inv
<1>5. \A class, b : ~Left(class, p, b)
  BY <1>1 DEF Left
<1>6. \A class : HandledTo(class, p, l) /\ ~InRange(class, p)
  BY <1>1, <1>5 DEF HandledTo, InRange
<1> QED
  BY <1>1, <1>2, <1>3, <1>4, <1>5, <1>6 DEF Inv

\* TypeOK: every row of the tables is one their readers can hold; no coverage of
\* zero is stored, no agent that is not an account (protocol_coverage.py:36-65).
THEOREM TypesHold == Spec => []TypeOK
<1>1. Inv => TypeOK
  <2> SUFFICES ASSUME Inv PROVE TypeOK
    OBVIOUS
  <2>1. /\ head \in 0..MaxBlock /\ Len(book) = head
        /\ lastBlock \in 1 .. MaxBlock + 1 /\ rangeEnd \in 0..MaxBlock /\ flapped \subseteq Protocol
    BY RegistryAssumption DEF Inv, ChainOk, CallsOk, TablesTyped, End, head
  <2>2. ASSUME NEW p \in Protocol
        PROVE  /\ protocols[p].exists => /\ protocols[p].agent \in RowAgent
                                         /\ protocols[p].endedAt \in EndBlock
               /\ \A i \in DOMAIN premiums[p] : premiums[p][i] \in PremiumRow
               /\ \A i \in DOMAIN nonstakers[p] : nonstakers[p][i] \in NonstakersRow
               /\ \A i \in DOMAIN coverages[p] : coverages[p][i] \in CoverageRow
    <3>1. /\ protocols[p].exists => /\ protocols[p].agent \in RowAgent
                                    /\ protocols[p].endedAt \in EndBlock
      BY ExistingRow DEF ProtocolRow
    <3>2. /\ premiums[p] \in Seq(PremiumRow) /\ nonstakers[p] \in Seq(NonstakersRow)
          /\ coverages[p] \in Seq(CoverageRow)
      BY RowTypes
    <3> QED
      BY <3>1, <3>2
  <2> QED
    BY <2>1, <2>2
       DEF TypeOK, RowAgent, EndBlock, PremiumRow, NonstakersRow, CoverageRow
<1> QED
  BY <1>1, AlwaysInv, PTL

\* DetailsMatchContract: whatever the contract did in the blocks of a range, and in
\* whatever order, handling its events class by class leaves agent, premium, share
\* of nonstakers and newest coverage as the contract has them (indexer.py:71-86, 737-771).
THEOREM DetailsHold == Spec => []DetailsMatchContract
<1>1. Inv => DetailsMatchContract
  <2> SUFFICES ASSUME Inv, Committed, NEW p \in Protocol PROVE DetailsMatch(p)
    BY DEF DetailsMatchContract
  <2> DEFINE l == lastBlock - 1
  <2>1. /\ End = l /\ l \in 1..head /\ l \in 0..End /\ l \in 0..head
        /\ Indexed[p] = At(l)[p] /\ Terms(Indexed[p])
        /\ \A class : HandledTo(class, p, l)
        /\ \A class, b : ~Left(class, p, b)
        /\ TablesOk(p) /\ ChainOk
    BY AfterRange
  <2> HIDE DEF l
  <2>2. Indexed[p].active => protocols[p].exists
    BY <2>1, WasAdded DEF EmittedBy, TablesOk, ExistsOk
  <2>3. LatestPremium(p) = Indexed[p].premium /\ LatestNonstakers(p) = Indexed[p].nonstakers
    BY <2>1 DEF TablesOk, PremiumOk, NonstakersOk
  <2>4. Indexed[p].premium > 0 => p \in Listed
    <3> SUFFICES ASSUME Indexed[p].premium > 0 PROVE p \in Listed
      OBVIOUS
    <3>1. Indexed[p].active
      BY <2>1 DEF Terms
    <3>2. premiums[p] # <<>>
      BY <2>3 DEF LatestPremium
    <3> QED
      BY <2>2, <3>1, <3>2 DEF Listed
  <2>5. ASSUME protocols[p].exists
        PROVE  /\ protocols[p].agent = Indexed[p].agent
               /\ Indexed[p].active => Newest(coverages[p]).amount = Indexed[p].coverage
               /\ ~Indexed[p].active => Newest(coverages[p]).claimableUntil # 0
    <3>1. PICK k \in 1..l : Emits("Added", p, k)
      BY <2>1, <2>5 DEF TablesOk, ExistsOk, EmittedBy
    <3>2. k \in 1..head
      BY <2>1 DEF head, ChainOk
    <3>3. LifeCycle(p, k)
      BY <2>1, <3>2 DEF ChainOk
    <3>4. EmittedBy("AgentTransfer", p, l) /\ EmittedBy("Updated", p, l)
      BY <3>1, <3>3 DEF LifeCycle, EmittedBy
    <3> QED
      BY <2>1, <3>4 DEF TablesOk, AgentOk, CoverageOk, Terms
  <2> QED
    BY <2>2, <2>3, <2>4, <2>5 DEF DetailsMatch
<1> QED
  BY <1>1, AlwaysInv, PTL

\* PremiumsHaveNonstakers: calc_apy never meets a premium without the share of
\* nonstakers it divides by (protocol_premium.py:64-81).
THEOREM NonstakersHold == Spec => []PremiumsHaveNonstakers
<1>1. Inv => PremiumsHaveNonstakers
  <2> SUFFICES ASSUME Inv, Committed, NEW p \in Protocol, LatestPremium(p) > 0
               PROVE  nonstakers[p] # <<>>
    BY DEF PremiumsHaveNonstakers
  <2> DEFINE l == lastBlock - 1
  <2>1. /\ l \in 0..End /\ Indexed[p] = At(l)[p] /\ Terms(Indexed[p]) /\ TablesOk(p)
        /\ \A class : HandledTo(class, p, l)
    BY AfterRange
  <2> HIDE DEF l
  <2>2. Indexed[p].premium # 0 /\ LatestNonstakers(p) = Indexed[p].nonstakers
    BY <2>1 DEF TablesOk, PremiumOk, NonstakersOk
  <2> QED
    BY <2>1, <2>2 DEF Terms, LatestNonstakers
<1> QED
  BY <1>1, AlwaysInv, PTL

\* OldCoveragesClosed: no coverage older than the two newest stays claimable for
\* ever (protocol_coverage.py:22-65).
THEOREM OldCoveragesHold == Spec => []OldCoveragesClosed
<1>1. Inv => OldCoveragesClosed
  <2> SUFFICES ASSUME Inv, Committed, NEW p \in Protocol,
                      NEW i \in DOMAIN coverages[p] \ TwoNewest(coverages[p])
               PROVE  coverages[p][i].claimableUntil \in 1 .. lastBlock - 1
    BY DEF OldCoveragesClosed
  <2>1. End = lastBlock - 1 /\ OldOnesClosed(p) /\ coverages[p] \in Seq(CoverageRow)
    BY AfterRange, RowTypes DEF TablesOk
  <2>2. i \in 1 .. Len(coverages[p]) - 2
    BY <2>1 DEF TwoNewest
  <2> QED
    BY <2>1, <2>2 DEF OldOnesClosed
<1> QED
  BY <1>1, AlwaysInv, PTL

\* StatusMatchesUnlessFlapped: only adding and removing a protocol within one range
\* can leave the wrong end of coverage (indexer.py:71-86, 509-513).
THEOREM StatusHolds == Spec => []StatusMatchesUnlessFlapped
<1>1. Inv => StatusMatchesUnlessFlapped
  <2> SUFFICES ASSUME Inv, Committed, NEW p \in Protocol \ flapped, protocols[p].exists
               PROVE  protocols[p].endedAt = 0 <=> Indexed[p].active
    BY DEF StatusMatchesUnlessFlapped, StatusMatches
  <2>1. /\ Indexed[p] = At(lastBlock - 1)[p] /\ TablesOk(p)
        /\ \A class : ~InRange(class, p)
    BY AfterRange
  <2> QED
    BY <2>1 DEF TablesOk, StatusOk
<1> QED
  BY <1>1, AlwaysInv, PTL
=============================================================================
