------------------------- MODULE StakingLedger_proof -------------------------
(***************************************************************************)
(* Proofs about StakingLedger: for every chain, price, anchor and cut into *)
(* ranges, the rows are the contract's positions, and worth what they are  *)
(* worth at the height of staking_positions_meta.                          *)
(***************************************************************************)
EXTENDS StakingLedger, NatLemmas

-----------------------------------------------------------------------------
(* The chain.                                                              *)

\* The contract after block b.
At(b) == IF b = 0 THEN [id \in Id |-> NoRow] ELSE book[b]

ContractRow == [exists : BOOLEAN, owner : Owner, share : Int, lockupEnd : Nat]

Events ==
    {None}
    \cup [kind : {"mint", "transfer"}, id : Id, to : Owner]
    \cup [kind : {"burn", "restaked", "arb_restaked"}, id : Id]

\* The event of block b is one of these kinds, and about this position.
Is(kinds, id, b) == events[b].kind \in kinds /\ events[b].id = id

\* What an event says of its position, and what stays when none says it.
Told(id, b) ==
    LET was == At(b - 1)[id]
        is == At(b)[id]
    IN  /\ Is({"mint"}, id, b) => \A j \in 0 .. b - 1 : ~At(j)[id].exists
        /\ Is({"transfer", "burn", "restaked", "arb_restaked"}, id, b) => was.exists
        /\ Is({"burn", "restaked", "arb_restaked"}, id, b) => was.lockupEnd <= b
        /\ Is({"mint", "transfer", "restaked", "arb_restaked"}, id, b) => is.exists
        /\ Is({"burn"}, id, b) => ~is.exists
        /\ Is({"mint", "transfer"}, id, b) => is.owner = events[b].to
        /\ Is({"mint", "restaked", "arb_restaked"}, id, b) => b + MaxRange < is.lockupEnd
        /\ Is({"mint", "burn"}, id, b) \/ (is.exists <=> was.exists)
        /\ is.exists /\ was.exists =>
              /\ ~Is({"mint", "burn"}, id, b)
              /\ Is({"transfer"}, id, b) \/ is.owner = was.owner
              /\ Is({"restaked", "arb_restaked"}, id, b) \/ is.lockupEnd = was.lockupEnd
              /\ Is({"arb_restaked"}, id, b) \/ is.share = was.share

ChainOk ==
    /\ events \in Seq(Events) /\ book \in Seq([Id -> {NoRow} \cup ContractRow])
    /\ Len(book) = head /\ head <= MaxBlock
    /\ \A b \in 1..head, id \in Id : Told(id, b)

-----------------------------------------------------------------------------
(* The range.                                                              *)

\* The last block of the open range, or of the one before it.
End == IF rangeEnd = 0 THEN lastBlock - 1 ELSE rangeEnd

\* The call for the event of block b.
CallOf(b) == [event |-> events[b], block |-> b]
Left(b) == CallOf(b) \in calls

IsReset(call) ==
    /\ call.event = [kind |-> "interval"]
    /\ call.block \in 1 .. End - 1

Precedes(c, d) == Rank(c) < Rank(d) \/ (Rank(c) = Rank(d) /\ c.block < d.block)

\* The calls that are left are the last ones of the range.
CallsOk ==
    /\ lastBlock \in Nat \ {0} /\ rangeEnd \in Nat /\ lastBlock - 1 <= End /\ End <= head
    /\ rangeEnd # 0 => lastBlock <= rangeEnd /\ rangeEnd - lastBlock <= MaxRange
    /\ rangeEnd = 0 => calls = {}
    /\ \A c \in calls : IsReset(c) \/ \E b \in lastBlock..End : c = CallOf(b) /\ events[b] # None
    /\ \A c \in calls : \A b \in lastBlock..End :
          events[b] # None /\ Precedes(c, CallOf(b)) => Left(b)

\* Of the events of these kinds for this position, those up to b are handled.
Seen(kinds, id, b) == \A k \in lastBlock..End : Is(kinds, id, k) => (Left(k) <=> b < k)

-----------------------------------------------------------------------------
(* The rows: each column is what the contract had when the events that are *)
(* handled, of the kinds that change it, were emitted.                     *)

Height == 0..MaxBlock
Row == [exists : BOOLEAN, owner : Owner, usdc : Int, lockupEnd : Nat, restakeCount : Nat]

DbOk ==
    /\ positions \in [Id -> {NoRow} \cup Row]
    /\ factor = 0
    /\ metaBlock \in Height /\ lastTime \in Height /\ lastRun \in Height
    /\ metaBlock = 0 => \A id \in Id : ~positions[id].exists
    /\ anchorMissing \in BOOLEAN /\ anchorAhead \in BOOLEAN

ExistsOk(id) ==
    \A b \in lastBlock - 1 .. End :
        Seen({"mint", "burn"}, id, b) => (positions[id].exists <=> At(b)[id].exists)

OwnerOk(id) ==
    \A b \in lastBlock - 1 .. End :
        positions[id].exists /\ At(b)[id].exists /\ Seen({"mint", "burn", "transfer"}, id, b) =>
            positions[id].owner = At(b)[id].owner

LockupOk(id) ==
    \A b \in lastBlock - 1 .. End :
        positions[id].exists /\ At(b)[id].exists /\ Seen({"restaked", "arb_restaked"}, id, b) =>
            positions[id].lockupEnd = At(b)[id].lockupEnd

ValueOk(id) ==
    ~anchorMissing /\ ~anchorAhead =>
        \A b \in lastBlock - 1 .. End :
            positions[id].exists /\ At(b)[id].exists /\ Seen({"arb_restaked"}, id, b) =>
                positions[id].usdc = At(b)[id].share + Price[metaBlock]

RowOk(id) == ExistsOk(id) /\ OwnerOk(id) /\ LockupOk(id) /\ ValueOk(id)

Inv == ChainOk /\ CallsOk /\ DbOk /\ \A id \in Id : RowOk(id)

-----------------------------------------------------------------------------
(* Lemmas about the chain.                                                 *)

\* The order of the stages as numbers.
LEMMA Ranks ==
    ASSUME NEW c
    PROVE  /\ c.event.kind \in {"mint", "transfer", "burn"} => Rank(c) = 1
           /\ c.event.kind = "restaked" => Rank(c) = 2
           /\ c.event.kind = "arb_restaked" => Rank(c) = 3
           /\ c.event.kind = "interval" => Rank(c) = 4
<1>1. /\ DOMAIN Stages = 1..4
      /\ Stages[1] = {"mint", "transfer", "burn"} /\ Stages[2] = {"restaked"}
      /\ Stages[3] = {"arb_restaked"} /\ Stages[4] = {"interval"}
  BY DEF Stages
<1>2. ASSUME NEW i \in 1..4, c.event.kind \in Stages[i] PROVE Rank(c) = i
  <2>1. \A j \in 1..4 : c.event.kind \in Stages[j] => j = i
    BY <1>1, <1>2
  <2> QED
    BY <1>1, <1>2, <2>1 DEF Rank
<1> QED
  BY <1>1, <1>2

\* The fields of an event.
LEMMA EventFields ==
    ASSUME NEW e \in Events
    PROVE  /\ e.kind \in {"none", "mint", "transfer", "burn", "restaked", "arb_restaked"}
           /\ e = None \/ (e.kind # "none" /\ e.id \in Id)
           /\ e.kind = "none" <=> e = None
           /\ e.kind \in {"mint", "transfer"} => e.to \in Owner
BY DEF Events, None

\* The contract's rows.
LEMMA ContractRows ==
    ASSUME ChainOk, NEW id \in Id, NEW b \in 0..head
    PROVE  /\ At(b)[id] \in {NoRow} \cup ContractRow
           /\ At(b)[id].exists \in BOOLEAN
           /\ At(b)[id].exists => At(b)[id] \in ContractRow
           /\ At(b)[id].exists => /\ At(b)[id].owner \in Owner /\ At(b)[id].share \in Int
                                  /\ At(b)[id].lockupEnd \in Nat
           /\ b # 0 => At(b) = book[b]
           /\ ~At(0)[id].exists
<1>1. At(b)[id] \in {NoRow} \cup ContractRow
  <2>1. CASE b = 0
    BY <2>1 DEF At
  <2>2. CASE b # 0
    <3>1. b \in 1..Len(book)
      BY <2>2 DEF ChainOk, head
    <3>2. book[b] \in [Id -> {NoRow} \cup ContractRow]
      BY <3>1 DEF ChainOk
    <3> QED
      BY <2>2, <3>2 DEF At
  <2> QED
    BY <2>1, <2>2
<1>2. ~NoRow.exists /\ NoRow.exists \in BOOLEAN
  BY DEF NoRow
<1>3. b # 0 => At(b) = book[b]
  BY DEF At
<1>4. ~At(0)[id].exists
  BY <1>2 DEF At
<1> QED
  BY <1>1, <1>2, <1>3, <1>4 DEF ContractRow

\* What a block tells of a position, from the block before.
LEMMA Tells ==
    ASSUME ChainOk, NEW id \in Id, NEW n \in 0..head, n < head
    PROVE  n + 1 \in 1..head /\ Told(id, n + 1) /\ (n + 1) - 1 = n
BY DEF ChainOk, head

\* Without a mint or a burn a position stays, or stays away.
LEMMA Still ==
    ASSUME ChainOk, NEW id \in Id, NEW b \in 0..head, NEW c \in b..head,
           \A k \in b + 1 .. c : ~Is({"mint", "burn"}, id, k)
    PROVE  At(c)[id].exists <=> At(b)[id].exists
<1> DEFINE S == {n \in Nat : At(n)[id].exists <=> At(b)[id].exists}
<1>1. head \in Nat
  BY DEF ChainOk, head
<1>2. b \in S /\ b \in Nat /\ c \in Nat /\ c \in b..c
  BY <1>1
<1>3. ASSUME NEW n \in b..c, n \in S, n < c PROVE n + 1 \in S
  <2>1. n \in 0..head /\ n < head /\ n + 1 \in b + 1 .. c /\ n + 1 \in Nat
    BY <1>1, <1>3
  <2>2. Told(id, n + 1) /\ (n + 1) - 1 = n
    BY <2>1, Tells
  <2>3. At(n + 1)[id].exists <=> At(n)[id].exists
    BY <2>1, <2>2 DEF Told
  <2> QED
    BY <1>3, <2>1, <2>3
<1> HIDE DEF S
<1>4. c \in S
  BY <1>2, <1>3, IntervalInduction
<1> QED
  BY <1>4 DEF S

\* A position that is there twice is there between, and neither minted nor
\* burned between: a token is minted once.
LEMMA Alive ==
    ASSUME ChainOk, NEW id \in Id, NEW b \in 0..head, NEW c \in b..head,
           At(b)[id].exists, At(c)[id].exists
    PROVE  /\ \A k \in b..c : At(k)[id].exists
           /\ \A k \in b + 1 .. c : ~Is({"mint", "burn"}, id, k)
<1>1. head \in Nat
  BY DEF ChainOk, head
<1>2. ASSUME NEW k \in b + 1 .. c PROVE ~Is({"mint"}, id, k)
  <2>1. k \in 1..head /\ b \in 0 .. k - 1
    BY <1>1
  <2>2. Told(id, k)
    BY <2>1 DEF ChainOk
  <2> QED
    BY <2>1, <2>2 DEF Told
<1>3. ASSUME NEW k \in b..c PROVE At(k)[id].exists
  <2> SUFFICES ASSUME ~At(k)[id].exists PROVE FALSE
    OBVIOUS
  <2> DEFINE S == {n \in Nat : ~At(n)[id].exists}
  <2>1. k \in S /\ k \in Nat /\ c \in Nat /\ c \in k..c
    BY <1>1
  <2>2. ASSUME NEW n \in k..c, n \in S, n < c PROVE n + 1 \in S
    <3>1. n \in 0..head /\ n < head /\ n + 1 \in b + 1 .. c /\ n + 1 \in Nat
      BY <1>1, <2>2
    <3>2. Told(id, n + 1) /\ (n + 1) - 1 = n
      BY <3>1, Tells
    <3>3. ~Is({"mint"}, id, n + 1)
      BY <1>2, <3>1
    <3>4. ~At(n + 1)[id].exists
      <4>1. CASE Is({"burn"}, id, n + 1)
        BY <3>2, <4>1 DEF Told
      <4>2. CASE ~Is({"burn"}, id, n + 1)
        <5>1. ~Is({"mint", "burn"}, id, n + 1)
          BY <3>3, <4>2 DEF Is
        <5> QED
          BY <2>2, <3>2, <5>1 DEF Told
      <4> QED
        BY <4>1, <4>2
    <3> QED
      BY <3>1, <3>4
  <2> HIDE DEF S
  <2>3. c \in S
    BY <2>1, <2>2, IntervalInduction
  <2> QED
    BY <2>3 DEF S
<1>4. ASSUME NEW k \in b + 1 .. c PROVE ~Is({"mint", "burn"}, id, k)
  <2>1. k \in b..c /\ k - 1 \in 0..head /\ k - 1 < head /\ (k - 1) + 1 = k /\ k - 1 \in b..c
    BY <1>1
  <2>2. Told(id, k)
    BY <2>1, Tells
  <2>3. At(k)[id].exists /\ At(k - 1)[id].exists
    BY <1>3, <2>1
  <2> QED
    BY <2>2, <2>3 DEF Told
<1> QED
  BY <1>3, <1>4
\* Between two events of a kind, what they tell stays.
LEMMA Quiet ==
    ASSUME ChainOk, NEW id \in Id, NEW b \in 0..head, NEW c \in b..head,
           At(b)[id].exists, At(c)[id].exists
    PROVE  /\ (\A k \in b + 1 .. c : ~Is({"mint", "burn", "transfer"}, id, k)) =>
                  At(c)[id].owner = At(b)[id].owner
           /\ (\A k \in b + 1 .. c : ~Is({"restaked", "arb_restaked"}, id, k)) =>
                  At(c)[id].lockupEnd = At(b)[id].lockupEnd
           /\ (\A k \in b + 1 .. c : ~Is({"arb_restaked"}, id, k)) =>
                  At(c)[id].share = At(b)[id].share
<1>1. head \in Nat
  BY DEF ChainOk, head
<1>2. ASSUME NEW n \in b..c, n < c
      PROVE  /\ \/ Is({"mint", "burn", "transfer"}, id, n + 1)
                \/ At(n + 1)[id].owner = At(n)[id].owner
             /\ \/ Is({"restaked", "arb_restaked"}, id, n + 1)
                \/ At(n + 1)[id].lockupEnd = At(n)[id].lockupEnd
             /\ Is({"arb_restaked"}, id, n + 1) \/ At(n + 1)[id].share = At(n)[id].share
  <2>1. n \in 0..head /\ n < head /\ n + 1 \in b..c
    BY <1>1, <1>2
  <2>2. Told(id, n + 1) /\ (n + 1) - 1 = n
    BY <2>1, Tells
  <2>3. At(n)[id].exists /\ At(n + 1)[id].exists
    BY <2>1, Alive
  <2>4. Is({"transfer"}, id, n + 1) => Is({"mint", "burn", "transfer"}, id, n + 1)
    BY DEF Is
  <2> QED
    BY <2>2, <2>3, <2>4 DEF Told
<1>3. ASSUME \A k \in b + 1 .. c : ~Is({"mint", "burn", "transfer"}, id, k)
      PROVE  At(c)[id].owner = At(b)[id].owner
  <2> DEFINE S == {n \in Nat : At(n)[id].owner = At(b)[id].owner}
  <2>1. b \in S /\ b \in Nat /\ c \in Nat /\ c \in b..c
    BY <1>1
  <2>2. ASSUME NEW n \in b..c, n \in S, n < c PROVE n + 1 \in S
    <3>1. n \in b..c /\ n < c /\ n + 1 \in b + 1 .. c /\ n + 1 \in Nat
      BY <1>1, <2>2
    <3>2. At(n + 1)[id].owner = At(n)[id].owner
      BY <1>2, <1>3, <3>1
    <3> QED
      BY <2>2, <3>1, <3>2
  <2> HIDE DEF S
  <2>3. c \in S
    BY <2>1, <2>2, IntervalInduction
  <2> QED
    BY <2>3 DEF S
<1>4. ASSUME \A k \in b + 1 .. c : ~Is({"restaked", "arb_restaked"}, id, k)
      PROVE  At(c)[id].lockupEnd = At(b)[id].lockupEnd
  <2> DEFINE S == {n \in Nat : At(n)[id].lockupEnd = At(b)[id].lockupEnd}
  <2>1. b \in S /\ b \in Nat /\ c \in Nat /\ c \in b..c
    BY <1>1
  <2>2. ASSUME NEW n \in b..c, n \in S, n < c PROVE n + 1 \in S
    <3>1. n \in b..c /\ n < c /\ n + 1 \in b + 1 .. c /\ n + 1 \in Nat
      BY <1>1, <2>2
    <3>2. At(n + 1)[id].lockupEnd = At(n)[id].lockupEnd
      BY <1>2, <1>4, <3>1
    <3> QED
      BY <2>2, <3>1, <3>2
  <2> HIDE DEF S
  <2>3. c \in S
    BY <2>1, <2>2, IntervalInduction
  <2> QED
    BY <2>3 DEF S
<1>5. ASSUME \A k \in b + 1 .. c : ~Is({"arb_restaked"}, id, k)
      PROVE  At(c)[id].share = At(b)[id].share
  <2> DEFINE S == {n \in Nat : At(n)[id].share = At(b)[id].share}
  <2>1. b \in S /\ b \in Nat /\ c \in Nat /\ c \in b..c
    BY <1>1
  <2>2. ASSUME NEW n \in b..c, n \in S, n < c PROVE n + 1 \in S
    <3>1. n \in b..c /\ n < c /\ n + 1 \in b + 1 .. c /\ n + 1 \in Nat
      BY <1>1, <2>2
    <3>2. At(n + 1)[id].share = At(n)[id].share
      BY <1>2, <1>5, <3>1
    <3> QED
      BY <2>2, <3>1, <3>2
  <2> HIDE DEF S
  <2>3. c \in S
    BY <2>1, <2>2, IntervalInduction
  <2> QED
    BY <2>3 DEF S
<1> QED
  BY <1>3, <1>4, <1>5

\* A step that mines nothing leaves the chain as it is.
LEMMA SameChain ==
    ASSUME ChainOk, events' = events, book' = book
    PROVE  /\ ChainOk' /\ head' = head /\ \A b : At(b)' = At(b)
           /\ \A kinds, id, b : Is(kinds, id, b)' = Is(kinds, id, b)
<1>1. head' = head
  BY DEF head
<1>2. \A b : At(b)' = At(b)
  BY DEF At
<1>3. \A kinds, id, b : Is(kinds, id, b)' = Is(kinds, id, b)
  BY DEF Is
<1>4. ASSUME NEW b \in 1..head, NEW id \in Id PROVE Told(id, b)'
  <2>1. Told(id, b)
    BY DEF ChainOk
  <2>2. /\ At(b)' = At(b) /\ At(b - 1)' = At(b - 1) /\ \A j : At(j)' = At(j)
        /\ events'[b] = events[b]
    BY <1>2
  <2> QED
    BY <2>1, <2>2, <1>3 DEF Told
<1>5. ChainOk'
  BY <1>1, <1>4 DEF ChainOk, head
<1> QED
  BY <1>1, <1>2, <1>3, <1>5

\* A lockup that begins in a range does not end in it: a position that is minted
\* or restaked at j is neither restaked nor burned at a later block of the range.
LEMMA OnceInRange ==
    ASSUME ChainOk, NEW id \in Id, NEW j \in 1..head, NEW k \in j + 1 .. head,
           k - j <= MaxRange,
           Is({"mint", "restaked", "arb_restaked"}, id, j)
    PROVE  ~Is({"burn", "restaked", "arb_restaked"}, id, k)
<1> DEFINE S == {n \in Nat : At(n)[id].exists => j + MaxRange < At(n)[id].lockupEnd}
<1>1. head \in Nat /\ MaxRange \in Nat
  BY LedgerAssumption DEF ChainOk, head
<1>2. j \in Nat /\ k - 1 \in Nat /\ k - 1 \in j .. k - 1 /\ k \in 1..head
  BY <1>1
<1>3. At(j)[id].exists /\ j + MaxRange < At(j)[id].lockupEnd
  <2>1. Told(id, j)
    BY DEF ChainOk
  <2>2. Is({"mint", "transfer", "restaked", "arb_restaked"}, id, j)
    BY DEF Is
  <2> QED
    BY <2>1, <2>2 DEF Told
<1>4. ASSUME NEW n \in j .. k - 1, n \in S, n < k - 1 PROVE n + 1 \in S
  <2>1. n \in 0..head /\ n < head /\ n + 1 \in Nat /\ j \in 0 .. (n + 1) - 1 /\ n + 1 \in 0..head
    BY <1>1, <1>4
  <2>2. Told(id, n + 1) /\ (n + 1) - 1 = n
    BY <2>1, Tells
  <2> SUFFICES ASSUME At(n + 1)[id].exists PROVE j + MaxRange < At(n + 1)[id].lockupEnd
    BY <2>1
  <2>3. ~Is({"mint"}, id, n + 1)
    BY <1>3, <2>1, <2>2 DEF Told
  <2>4. ~Is({"burn"}, id, n + 1)
    BY <2>2 DEF Told
  <2>5. ~Is({"mint", "burn"}, id, n + 1)
    BY <2>3, <2>4 DEF Is
  <2>6. At(n)[id].exists
    BY <2>2, <2>5 DEF Told
  <2>7. CASE Is({"restaked", "arb_restaked"}, id, n + 1)
    <3>1. Is({"mint", "restaked", "arb_restaked"}, id, n + 1)
      BY <2>7 DEF Is
    <3>2. n + 1 + MaxRange < At(n + 1)[id].lockupEnd
      BY <2>2, <3>1 DEF Told
    <3>3. At(n + 1)[id].lockupEnd \in Nat
      BY <2>1, ContractRows
    <3> QED
      BY <1>1, <1>4, <3>2, <3>3
  <2>8. CASE ~Is({"restaked", "arb_restaked"}, id, n + 1)
    <3>1. At(n + 1)[id].lockupEnd = At(n)[id].lockupEnd
      BY <2>2, <2>6, <2>8 DEF Told
    <3> QED
      BY <1>4, <2>6, <3>1
  <2> QED
    BY <2>7, <2>8
<1>5. j \in S
  BY <1>2, <1>3
<1> HIDE DEF S
<1>6. k - 1 \in S
  BY <1>2, <1>4, <1>5, IntervalInduction
<1> SUFFICES ASSUME Is({"burn", "restaked", "arb_restaked"}, id, k) PROVE FALSE
  OBVIOUS
<1>7. At(k - 1)[id].exists /\ At(k - 1)[id].lockupEnd <= k
  <2>1. Told(id, k)
    BY <1>2 DEF ChainOk
  <2>2. Is({"transfer", "burn", "restaked", "arb_restaked"}, id, k)
    BY DEF Is
  <2> QED
    BY <2>1, <2>2 DEF Told
<1>8. j + MaxRange < At(k - 1)[id].lockupEnd
  BY <1>6, <1>7 DEF S
<1>9. At(k - 1)[id].lockupEnd \in Nat
  BY <1>1, <1>2, <1>7, ContractRows
<1> QED
  BY <1>1, <1>2, <1>7, <1>8, <1>9
-----------------------------------------------------------------------------
(* The contract's steps.                                                   *)

\* A new block leaves the old ones, and the tables, as they are.
LEMMA Appended ==
    ASSUME Inv, NEW e \in Events, NEW after \in [Id -> {NoRow} \cup ContractRow],
           Mined(e, after), NEW n \in Nat, n = head + 1
    PROVE  /\ head \in Nat /\ head' = head + 1 /\ head' <= MaxBlock /\ Len(book') = head'
           /\ events' \in Seq(Events) /\ book' \in Seq([Id -> {NoRow} \cup ContractRow])
           /\ events'[n] = e /\ \A b \in 1..head : events'[b] = events[b]
           /\ At(n)' = after /\ \A b \in 0..head : At(b)' = At(b)
           /\ At(head) = Now
           /\ \A kinds, id : \A b \in 1..head : Is(kinds, id, b)' = Is(kinds, id, b)
           /\ UNCHANGED <<positions, factor, metaBlock, lastTime, lastRun, anchorMissing,
                          anchorAhead, lastBlock, rangeEnd, calls>>
<1>1. /\ events \in Seq(Events) /\ book \in Seq([Id -> {NoRow} \cup ContractRow])
      /\ Len(book) = Len(events) /\ head < MaxBlock
      /\ events' = Append(events, e) /\ book' = Append(book, after)
      /\ UNCHANGED <<positions, factor, metaBlock, lastTime, lastRun, anchorMissing,
                     anchorAhead, lastBlock, rangeEnd, calls>>
  BY DEF Inv, ChainOk, Mined, head, dbVars, rangeVars, historyVars
<1>2. Len(events) \in Nat /\ MaxBlock \in Nat
  BY <1>1, LedgerAssumption
<1>3. /\ events' \in Seq(Events) /\ Len(events') = Len(events) + 1
      /\ events'[Len(events) + 1] = e
      /\ \A b \in 1 .. Len(events) : events'[b] = events[b]
  BY <1>1
<1>4. /\ book' \in Seq([Id -> {NoRow} \cup ContractRow]) /\ Len(book') = Len(book) + 1
      /\ book'[Len(book) + 1] = after
      /\ \A b \in 1 .. Len(book) : book'[b] = book[b]
  BY <1>1
<1>5. At(n)' = after /\ \A b \in 0..head : At(b)' = At(b)
  <2>1. n # 0 /\ book'[n] = after
    BY <1>1, <1>2, <1>4 DEF head
  <2> QED
    BY <1>1, <1>2, <1>4, <2>1 DEF At, head
<1>6. At(head) = Now
  BY DEF At, Now
<1>7. \A kinds, id : \A b \in 1..head : Is(kinds, id, b)' = Is(kinds, id, b)
  BY <1>3 DEF Is, head
<1> QED
  BY <1>1, <1>2, <1>3, <1>4, <1>5, <1>6, <1>7 DEF head

\* What a new block has to tell of a position.
Says(e, after, id) ==
    LET was == Now[id]
        is == after[id]
        Of(kinds) == e.kind \in kinds /\ e.id = id
    IN  /\ Of({"mint"}) => NeverMinted(id)
        /\ Of({"transfer", "burn", "restaked", "arb_restaked"}) => was.exists
        /\ Of({"burn", "restaked", "arb_restaked"}) => was.lockupEnd <= head + 1
        /\ Of({"mint", "transfer", "restaked", "arb_restaked"}) => is.exists
        /\ Of({"burn"}) => ~is.exists
        /\ Of({"mint", "transfer"}) => is.owner = e.to
        /\ Of({"mint", "restaked", "arb_restaked"}) => head + 1 + MaxRange < is.lockupEnd
        /\ Of({"mint", "burn"}) \/ (is.exists <=> was.exists)
        /\ is.exists /\ was.exists =>
              /\ ~Of({"mint", "burn"})
              /\ Of({"transfer"}) \/ is.owner = was.owner
              /\ Of({"restaked", "arb_restaked"}) \/ is.lockupEnd = was.lockupEnd
              /\ Of({"arb_restaked"}) \/ is.share = was.share

\* A block that tells it keeps the invariant.
LEMMA MinedKeeps ==
    ASSUME Inv, NEW e \in Events, NEW after \in [Id -> {NoRow} \cup ContractRow],
           Mined(e, after), \A id \in Id : Says(e, after, id)
    PROVE  Inv'
<1>0. PICK n \in Nat : n = head + 1
  BY DEF Inv, ChainOk, head
<1>1. /\ head \in Nat /\ head' = head + 1 /\ head' <= MaxBlock /\ Len(book') = head'
      /\ events' \in Seq(Events) /\ book' \in Seq([Id -> {NoRow} \cup ContractRow])
      /\ events'[n] = e /\ \A b \in 1..head : events'[b] = events[b]
      /\ At(n)' = after /\ \A b \in 0..head : At(b)' = At(b)
      /\ At(head) = Now
      /\ \A kinds, id : \A b \in 1..head : Is(kinds, id, b)' = Is(kinds, id, b)
      /\ UNCHANGED <<positions, factor, metaBlock, lastTime, lastRun, anchorMissing,
                     anchorAhead, lastBlock, rangeEnd, calls>>
  BY <1>0, Appended
<1>2. ChainOk'
  <2>1. ASSUME NEW b \in 1..head, NEW id \in Id PROVE Told(id, b)'
    <3>1. Told(id, b)
      BY DEF Inv, ChainOk
    <3>2. /\ At(b)' = At(b) /\ At(b - 1)' = At(b - 1) /\ events'[b] = events[b]
          /\ \A kinds : Is(kinds, id, b)' = Is(kinds, id, b)
          /\ \A j \in 0 .. b - 1 : At(j)' = At(j)
      BY <1>1
    <3> QED
      BY <3>1, <3>2 DEF Told
  <2>2. ASSUME NEW id \in Id PROVE Told(id, n)'
    <3>1. /\ At(n)' = after /\ At(n - 1)' = Now /\ events'[n] = e
          /\ \A kinds : Is(kinds, id, n)' <=> e.kind \in kinds /\ e.id = id
      BY <1>0, <1>1 DEF Is
    <3>2. NeverMinted(id) => \A j \in 0 .. n - 1 : ~At(j)'[id].exists
      <4> SUFFICES ASSUME NeverMinted(id), NEW j \in 0 .. n - 1 PROVE ~At(j)'[id].exists
        OBVIOUS
      <4>1. j \in 0..head /\ At(j)' = At(j)
        BY <1>0, <1>1
      <4>2. j # 0 => ~At(j)[id].exists
        BY <4>1 DEF NeverMinted, At
      <4>3. j = 0 => ~At(j)[id].exists
        BY <4>1, ContractRows DEF Inv
      <4> QED
        BY <4>1, <4>2, <4>3
    <3>3. Says(e, after, id)
      OBVIOUS
    <3> QED
      BY <1>0, <3>1, <3>2, <3>3 DEF Says, Told
  <2>3. \A b \in 1..head' : b \in 1..head \/ b = n
    BY <1>0, <1>1
  <2> QED
    BY <1>1, <2>1, <2>2, <2>3 DEF ChainOk
<1>3. End' = End /\ End \in 0..head /\ lastBlock \in Nat \ {0}
  BY <1>1 DEF Inv, CallsOk, End
<1>4. /\ \A b \in 1..head : CallOf(b)' = CallOf(b) /\ Left(b)' = Left(b)
      /\ \A b \in lastBlock..End : b \in 1..head
  BY <1>1, <1>3 DEF CallOf, Left
<1>5. CallsOk'
  <2>1. /\ End <= head' /\ UNCHANGED <<lastBlock, rangeEnd, calls>>
    BY <1>1, <1>3
  <2>2. ASSUME NEW c \in calls
        PROVE  IsReset(c)' \/ \E b \in lastBlock..End : c = CallOf(b)' /\ events'[b] # None
    <3>1. IsReset(c) \/ \E b \in lastBlock..End : c = CallOf(b) /\ events[b] # None
      BY DEF Inv, CallsOk
    <3> QED
      BY <1>1, <1>3, <1>4, <3>1 DEF IsReset
  <2>3. ASSUME NEW c \in calls, NEW b \in lastBlock..End
        PROVE  (events'[b] # None /\ Precedes(c, CallOf(b)')) => Left(b)'
    <3>1. events[b] # None /\ Precedes(c, CallOf(b)) => Left(b)
      BY DEF Inv, CallsOk
    <3> QED
      BY <1>1, <1>4, <3>1
  <2> QED
    BY <1>3, <2>1, <2>2, <2>3 DEF Inv, CallsOk, Precedes, Rank
<1>6. DbOk'
  BY <1>1 DEF Inv, DbOk
<1>7. ASSUME NEW id \in Id PROVE RowOk(id)'
  <2>1. /\ \A b \in lastBlock - 1 .. End : At(b)' = At(b)
        /\ UNCHANGED <<positions[id], metaBlock, anchorMissing, anchorAhead, lastBlock>>
    <3>1. \A b \in lastBlock - 1 .. End : b \in 0..head
      BY <1>1, <1>3
    <3> QED
      BY <1>1, <3>1
  <2>2. \A kinds, b : Seen(kinds, id, b)' = Seen(kinds, id, b)
    BY <1>1, <1>3, <1>4 DEF Seen
  <2>3. RowOk(id)
    BY DEF Inv
  <2> QED
    BY <1>3, <2>1, <2>2, <2>3 DEF RowOk, ExistsOk, OwnerOk, LockupOk, ValueOk
<1> QED
  BY <1>2, <1>5, <1>6, <1>7 DEF Inv

\* A new block on the contract only adds to the chain: what the rows show up to the range's end stands.
LEMMA ContractKeeps ==
    ASSUME Inv, Contract
    PROVE  Inv'
<1>1. /\ Now \in [Id -> {NoRow} \cup ContractRow] /\ head \in Nat
      /\ \A id \in Id : /\ Now[id].exists => Now[id] \in ContractRow
                        /\ Now[id].exists \in BOOLEAN
  <2>1. head \in Nat /\ head \in 0..head /\ At(head) = Now
    BY DEF Inv, ChainOk, head, At, Now
  <2>2. Now \in [Id -> {NoRow} \cup ContractRow]
    <3>1. CASE head = 0
      BY <3>1 DEF Now
    <3>2. CASE head # 0
      <4>1. head \in 1..Len(book)
        BY <2>1, <3>2 DEF Inv, ChainOk
      <4> QED
        BY <3>2, <4>1 DEF Now, Inv, ChainOk
    <3> QED
      BY <3>1, <3>2
  <2> QED
    BY <2>1, <2>2, ContractRows DEF Inv
<1>2. /\ Periods \subseteq Nat /\ \A p \in Periods : MaxRange < p
      /\ MaxRange \in Nat
  BY LedgerAssumption
<1>3. NoRow \in {NoRow} \cup ContractRow /\ ~NoRow.exists
  BY DEF NoRow
<1>4. CASE EmptyBlock
  <2>1. None \in Events
    BY DEF Events
  <2>2. \A id \in Id : Says(None, Now, id)
    BY DEF Says, None
  <2> QED
    BY <1>1, <1>4, <2>1, <2>2, MinedKeeps DEF EmptyBlock
<1>5. ASSUME NEW id \in Id, NEW owner \in Owner, NEW period \in Periods, Mint(id, owner, period)
      PROVE  Inv'
  <2> DEFINE e == [kind |-> "mint", id |-> id, to |-> owner]
             row == [exists |-> TRUE, owner |-> owner, share |-> 0,
                     lockupEnd |-> head + 1 + period]
             after == [Now EXCEPT ![id] = row]
  <2>1. e \in Events /\ e.kind = "mint" /\ e.id = id /\ e.to = owner
    BY DEF Events
  <2>2. /\ row \in {NoRow} \cup ContractRow /\ row.exists /\ row.owner = owner
        /\ head + 1 + MaxRange < row.lockupEnd
    BY <1>1, <1>2 DEF ContractRow
  <2>3. Mined(e, after) /\ NeverMinted(id)
    BY <1>5 DEF Mint
  <2>4. ~Now[id].exists
    <3>1. CASE head = 0
      BY <1>3, <3>1 DEF Now
    <3>2. CASE head # 0
      BY <1>1, <2>3, <3>2 DEF Now, NeverMinted
    <3> QED
      BY <3>1, <3>2
  <2> HIDE DEF e, row
  <2>5. /\ after \in [Id -> {NoRow} \cup ContractRow] /\ after[id] = row
        /\ \A i \in Id : i # id => after[i] = Now[i]
    BY <1>1, <2>2
  <2> HIDE DEF after
  <2>6. ASSUME NEW i \in Id PROVE Says(e, after, i)
    BY <2>1, <2>2, <2>3, <2>4, <2>5 DEF Says
  <2> QED
    BY <2>1, <2>3, <2>5, <2>6, MinedKeeps
<1>6. ASSUME NEW id \in Id, NEW owner \in Owner, Transfer(id, owner)
      PROVE  Inv'
  <2> DEFINE e == [kind |-> "transfer", id |-> id, to |-> owner]
             row == [Now[id] EXCEPT !.owner = owner]
             after == [Now EXCEPT ![id].owner = owner]
  <2>1. e \in Events /\ e.kind = "transfer" /\ e.id = id /\ e.to = owner
    BY DEF Events
  <2>2. Mined(e, after) /\ Now[id].exists /\ Now[id] \in ContractRow
    BY <1>1, <1>6 DEF Transfer
  <2>3. /\ row \in ContractRow /\ row.exists = Now[id].exists /\ row.owner = owner
        /\ row.share = Now[id].share /\ row.lockupEnd = Now[id].lockupEnd
    BY <2>2 DEF ContractRow
  <2>4. after = [Now EXCEPT ![id] = row]
    BY <1>1
  <2> HIDE DEF e, row, after
  <2>5. /\ after \in [Id -> {NoRow} \cup ContractRow] /\ after[id] = row
        /\ \A i \in Id : i # id => after[i] = Now[i]
    BY <1>1, <2>3, <2>4
  <2>6. ASSUME NEW i \in Id PROVE Says(e, after, i)
    BY <2>1, <2>2, <2>3, <2>5 DEF Says
  <2> QED
    BY <2>1, <2>2, <2>5, <2>6, MinedKeeps
<1>7. ASSUME NEW id \in Id, Burn(id) PROVE Inv'
  <2> DEFINE e == [kind |-> "burn", id |-> id]
             after == [Now EXCEPT ![id] = NoRow]
  <2>1. e \in Events /\ e.kind = "burn" /\ e.id = id
    BY DEF Events
  <2>2. Mined(e, after) /\ Now[id].exists /\ Now[id].lockupEnd <= head + 1
    BY <1>7 DEF Burn, Expired
  <2> HIDE DEF e
  <2>3. /\ after \in [Id -> {NoRow} \cup ContractRow] /\ after[id] = NoRow
        /\ \A i \in Id : i # id => after[i] = Now[i]
    BY <1>1, <1>3
  <2> HIDE DEF after
  <2>4. ASSUME NEW i \in Id PROVE Says(e, after, i)
    BY <1>3, <2>1, <2>2, <2>3 DEF Says
  <2> QED
    BY <2>1, <2>2, <2>3, <2>4, MinedKeeps
<1>8. ASSUME NEW id \in Id, NEW period \in Periods, Restake(id, period) PROVE Inv'
  <2> DEFINE e == [kind |-> "restaked", id |-> id]
             row == [Now[id] EXCEPT !.lockupEnd = head + 1 + period]
             after == [Now EXCEPT ![id].lockupEnd = head + 1 + period]
  <2>1. e \in Events /\ e.kind = "restaked" /\ e.id = id
    BY DEF Events
  <2>2. /\ Mined(e, after) /\ Now[id].exists /\ Now[id].lockupEnd <= head + 1
        /\ Now[id] \in ContractRow
    BY <1>1, <1>8 DEF Restake, Expired
  <2>3. /\ row \in ContractRow /\ row.exists = Now[id].exists /\ row.owner = Now[id].owner
        /\ row.share = Now[id].share /\ head + 1 + MaxRange < row.lockupEnd
    <3> DEFINE l == head + 1 + period
    <3>1. l \in Nat /\ head + 1 + MaxRange < l
      BY <1>1, <1>2
    <3> HIDE DEF l
    <3>2. row = [Now[id] EXCEPT !.lockupEnd = l]
      BY DEF l
    <3> HIDE DEF row
    <3> QED
      BY <2>2, <3>1, <3>2 DEF ContractRow
  <2>4. after = [Now EXCEPT ![id] = row]
    BY <1>1
  <2> HIDE DEF e, row, after
  <2>5. /\ after \in [Id -> {NoRow} \cup ContractRow] /\ after[id] = row
        /\ \A i \in Id : i # id => after[i] = Now[i]
    BY <1>1, <2>3, <2>4
  <2>6. ASSUME NEW i \in Id PROVE Says(e, after, i)
    BY <2>1, <2>2, <2>3, <2>5 DEF Says
  <2> QED
    BY <2>1, <2>2, <2>5, <2>6, MinedKeeps
<1>9. ASSUME NEW id \in Id, NEW period \in Periods, ArbRestake(id, period) PROVE Inv'
  <2> DEFINE e == [kind |-> "arb_restaked", id |-> id]
             row == [Now[id] EXCEPT !.lockupEnd = head + 1 + period, !.share = @ - 1]
             after == [Now EXCEPT ![id].lockupEnd = head + 1 + period, ![id].share = @ - 1]
  <2>1. e \in Events /\ e.kind = "arb_restaked" /\ e.id = id
    BY DEF Events
  <2>2. /\ Mined(e, after) /\ Now[id].exists /\ Now[id].lockupEnd <= head + 1
        /\ Now[id] \in ContractRow
    BY <1>1, <1>9 DEF ArbRestake, Expired
  <2>3. /\ row \in ContractRow /\ row.exists = Now[id].exists /\ row.owner = Now[id].owner
        /\ head + 1 + MaxRange < row.lockupEnd
    <3> DEFINE l == head + 1 + period
               s == Now[id].share - 1
    <3>1. l \in Nat /\ head + 1 + MaxRange < l /\ s \in Int
      BY <1>1, <1>2, <2>2 DEF ContractRow
    <3>2. row = [Now[id] EXCEPT !.lockupEnd = l, !.share = s]
      BY <2>2 DEF ContractRow
    <3> HIDE DEF l, s
    <3> HIDE DEF row
    <3> QED
      BY <2>2, <3>1, <3>2 DEF ContractRow
  <2>4. after = [Now EXCEPT ![id] = row]
    BY <1>1
  <2> HIDE DEF e, row, after
  <2>5. /\ after \in [Id -> {NoRow} \cup ContractRow] /\ after[id] = row
        /\ \A i \in Id : i # id => after[i] = Now[i]
    BY <1>1, <2>3, <2>4
  <2>6. ASSUME NEW i \in Id PROVE Says(e, after, i)
    BY <2>1, <2>2, <2>3, <2>5 DEF Says
  <2> QED
    BY <2>1, <2>2, <2>5, <2>6, MinedKeeps
<1> QED
  BY <1>4, <1>5, <1>6, <1>7, <1>8, <1>9 DEF Contract
-----------------------------------------------------------------------------
(* The calls of a range.                                                   *)

\* The bounds of the range.
LEMMA RangeBounds ==
    ASSUME Inv
    PROVE  /\ lastBlock \in Nat \ {0} /\ rangeEnd \in Nat /\ End \in Nat /\ head \in Nat
           /\ lastBlock - 1 <= End /\ End <= head /\ head <= MaxBlock
           /\ rangeEnd # 0 => End = rangeEnd /\ End - lastBlock <= MaxRange
           /\ \A b \in lastBlock - 1 .. End : b \in 0..head
           /\ \A b \in lastBlock..End : b \in 1..head /\ b - 1 \in lastBlock - 1 .. End
           /\ MaxBlock \in Nat \ {0} /\ MaxRange \in Nat
BY LedgerAssumption DEF Inv, CallsOk, ChainOk, End, head

\* The event of a block, and its call.
LEMMA EventCall ==
    ASSUME Inv, NEW b \in 1..head
    PROVE  /\ events[b] \in Events
           /\ CallOf(b).event = events[b] /\ CallOf(b).block = b
           /\ events[b].kind \in {"none", "mint", "transfer", "burn", "restaked", "arb_restaked"}
           /\ events[b] = None \/ (events[b].kind # "none" /\ events[b].id \in Id)
           /\ events[b].kind = "none" <=> events[b] = None
           /\ events[b].kind \in {"mint", "transfer"} => events[b].to \in Owner
<1>1. events[b] \in Events
  BY DEF Inv, ChainOk, head
<1> QED
  BY <1>1, EventFields DEF CallOf

\* A call that is left is the interval function, or it is the event of a block
\* of the range.
LEMMA CallFacts ==
    ASSUME Inv, NEW c \in calls
    PROVE  /\ rangeEnd # 0
           /\ c.block \in 1..End /\ c.block \in 1..head
           /\ Rank(c) \in Nat
           /\ c.event.kind # "interval" =>
                 /\ c = CallOf(c.block) /\ c.event = events[c.block]
                 /\ c.block \in lastBlock..End /\ events[c.block] # None
           /\ c.event.kind = "interval" => c.block < End
<1>1. rangeEnd # 0
  BY DEF Inv, CallsOk
<1>2. CASE IsReset(c)
  BY <1>1, <1>2, RangeBounds, Ranks DEF IsReset
<1>3. CASE ~IsReset(c)
  <2>1. PICK b \in lastBlock..End : c = CallOf(b) /\ events[b] # None
    BY <1>3 DEF Inv, CallsOk
  <2>2. b \in 1..head /\ b \in 1..End
    BY <2>1, RangeBounds
  <2>3. c.event = events[b] /\ c.block = b
    BY <2>1, <2>2, EventCall
  <2>4. c.event.kind \in {"mint", "transfer", "burn", "restaked", "arb_restaked"}
    BY <2>1, <2>2, <2>3, EventCall
  <2>5. Rank(c) \in Nat
    BY <2>4, Ranks
  <2> QED
    BY <1>1, <2>1, <2>2, <2>3, <2>4, <2>5
<1> QED
  BY <1>2, <1>3

\* An event a block still has to handle belongs to the range being indexed, which is not yet committed.
LEMMA LeftFacts ==
    ASSUME Inv, NEW b \in 1..head, Left(b)
    PROVE  rangeEnd # 0 /\ b \in lastBlock..End /\ events[b] # None
<1>1. CallOf(b) \in calls /\ CallOf(b).event.kind # "interval" /\ CallOf(b).block = b
  BY EventCall DEF Left
<1> QED
  BY <1>1, CallFacts

\* The first call is handled and the others are left.
LEMMA FirstHandled ==
    ASSUME Inv, NEW c \in calls, First(c), Return(c)
    PROVE  /\ End' = End /\ UNCHANGED <<events, book, lastBlock, rangeEnd>>
           /\ ChainOk' /\ CallsOk'
           /\ \A b : At(b)' = At(b) /\ CallOf(b)' = CallOf(b)
           /\ \A kinds, id, b : Is(kinds, id, b)' = Is(kinds, id, b)
           /\ \A d \in calls : d = c \/ Precedes(c, d)
           /\ \A b : Left(b)' <=> Left(b) /\ CallOf(b) # c
<1>1. calls' = calls \ {c} /\ UNCHANGED <<events, book, lastBlock, rangeEnd>>
  BY DEF Return, chainVars
<1>2. End' = End /\ head' = head
  BY <1>1 DEF End, head
<1>3. /\ ChainOk' /\ \A b : At(b)' = At(b)
      /\ \A kinds, id, b : Is(kinds, id, b)' = Is(kinds, id, b)
  BY <1>1, SameChain DEF Inv
<1>4. \A d \in calls : d = c \/ Precedes(c, d)
  BY DEF First, Precedes
<1>5. \A b : CallOf(b)' = CallOf(b)
  BY <1>1 DEF CallOf
<1>6. \A b : Left(b)' <=> Left(b) /\ CallOf(b) # c
  BY <1>1, <1>5 DEF Left
<1>7. CallsOk'
  <2>1. ASSUME NEW a \in calls', NEW b \in lastBlock..End, events[b] # None,
               Precedes(a, CallOf(b))
        PROVE  Left(b)'
    <3>1. a \in calls /\ a # c
      BY <1>1
    <3>2. Left(b)
      BY <2>1, <3>1 DEF Inv, CallsOk
    <3>3. Precedes(c, a)
      BY <1>4, <3>1
    <3>4. /\ Rank(a) \in Nat /\ Rank(c) \in Nat
          /\ a.block \in Int /\ c.block \in Int
      BY <3>1, CallFacts
    <3>5. ~Precedes(a, c)
      BY <3>3, <3>4 DEF Precedes
    <3> QED
      BY <1>6, <2>1, <3>2, <3>5
  <2>2. ASSUME NEW a \in calls'
        PROVE  IsReset(a)' \/ \E b \in lastBlock..End : a = CallOf(b)' /\ events'[b] # None
    <3>1. IsReset(a) \/ \E b \in lastBlock..End : a = CallOf(b) /\ events[b] # None
      BY <1>1 DEF Inv, CallsOk
    <3> QED
      BY <1>1, <1>2, <1>5, <3>1 DEF IsReset
  <2>3. rangeEnd # 0
    BY CallFacts
  <2> QED
    BY <1>1, <1>2, <1>5, <2>1, <2>2, <2>3 DEF Inv, CallsOk, Precedes, Rank
<1> QED
  BY <1>1, <1>2, <1>3, <1>4, <1>5, <1>6, <1>7

\* What the handled call is not about is handled to where it was.
LEMMA OtherSeen ==
    ASSUME Inv, NEW c \in calls, First(c), Return(c), NEW kinds, NEW id, NEW b,
           c.event.kind = "interval" \/ ~(c.event.kind \in kinds /\ c.event.id = id)
    PROVE  Seen(kinds, id, b)' <=> Seen(kinds, id, b)
<1>1. /\ End' = End /\ UNCHANGED <<events, book, lastBlock, rangeEnd>>
      /\ \A j : Is(kinds, id, j)' = Is(kinds, id, j)
      /\ \A j : Left(j)' <=> Left(j) /\ CallOf(j) # c
  BY FirstHandled
<1>2. ASSUME NEW k \in lastBlock..End, Is(kinds, id, k) PROVE CallOf(k) # c
  <2>1. k \in 1..head
    BY RangeBounds
  <2>2. CallOf(k).event = events[k] /\ events[k].kind # "interval"
    BY <2>1, EventCall
  <2> QED
    BY <1>2, <2>2 DEF Is
<1> QED
  BY <1>1, <1>2 DEF Seen

\* The first call, when it is an event's.
LEMMA EventHandled ==
    ASSUME Inv, NEW c \in calls, First(c), Return(c), c.event.kind # "interval"
    PROVE  /\ c.block \in lastBlock..End /\ c.block \in 1..head
           /\ c.block - 1 \in lastBlock - 1 .. End
           /\ c.event = events[c.block] /\ c.event \in Events /\ c.event.id \in Id
           /\ Left(c.block) /\ ~Left(c.block)'
           /\ \A b : b # c.block => (Left(b)' <=> Left(b))
           /\ \A kinds, id : Is(kinds, id, c.block) <=> c.event.kind \in kinds /\ c.event.id = id
<1>1. /\ c = CallOf(c.block) /\ c.event = events[c.block]
      /\ c.block \in lastBlock..End /\ events[c.block] # None /\ c.block \in 1..head
  BY CallFacts
<1>2. c.event \in Events /\ c.event.id \in Id
  BY <1>1, EventCall
<1>3. \A b : CallOf(b).block = b
  BY DEF CallOf
<1>4. \A b : Left(b)' <=> Left(b) /\ CallOf(b) # c
  BY FirstHandled
<1>5. Left(c.block)
  BY <1>1 DEF Left
<1>6. c.block - 1 \in lastBlock - 1 .. End
  BY <1>1, RangeBounds
<1> QED
  BY <1>1, <1>2, <1>3, <1>4, <1>5, <1>6 DEF Is

\* Its stage is handled up to its block.
LEMMA StageSeen ==
    ASSUME Inv, NEW c \in calls, First(c), Return(c), c.event.kind # "interval",
           NEW kinds, NEW id, "none" \notin kinds,
           \A j \in lastBlock..End : Is(kinds, id, j) => Rank(CallOf(j)) = Rank(c)
    PROVE  /\ Seen(kinds, id, c.block - 1)
           /\ \A b \in lastBlock - 1 .. End :
                 Seen(kinds, id, b)' /\ Is(kinds, id, c.block) =>
                    c.block <= b /\ \A j \in c.block + 1 .. b : ~Is(kinds, id, j)
<1> DEFINE n == c.block
<1>1. /\ End' = End /\ UNCHANGED <<events, book, lastBlock, rangeEnd>>
      /\ \A j : Is(kinds, id, j)' = Is(kinds, id, j)
      /\ \A d \in calls : d = c \/ Precedes(c, d)
  BY FirstHandled
<1>2. /\ n \in lastBlock..End /\ n \in 1..head
      /\ c.event = events[n]
      /\ Left(n) /\ ~Left(n)' /\ \A b : b # n => (Left(b)' <=> Left(b))
  BY EventHandled
<1>3. /\ lastBlock \in Nat /\ End \in Nat /\ Rank(c) \in Nat
  BY RangeBounds, CallFacts
<1>4. ASSUME NEW j \in lastBlock..End, Is(kinds, id, j) PROVE Left(j) <=> n - 1 < j
  <2>1. j \in 1..head /\ CallOf(j).block = j /\ Rank(CallOf(j)) = Rank(c)
    BY <1>4, RangeBounds, EventCall
  <2>2. CASE j = n
    BY <1>2, <1>3, <2>2
  <2>3. CASE j < n
    <3>1. ~Precedes(c, CallOf(j)) /\ CallOf(j) # c
      BY <1>2, <1>3, <2>1, <2>3 DEF Precedes
    <3> QED
      BY <1>1, <1>2, <1>3, <2>3, <3>1 DEF Left
  <2>4. CASE n < j
    <3>1. Precedes(c, CallOf(j))
      BY <1>2, <1>3, <2>1, <2>4 DEF Precedes
    <3>2. events[j] # None
      BY <1>4, <2>1, EventCall DEF Is
    <3>3. Left(j)
      BY <1>4, <3>1, <3>2 DEF Inv, CallsOk
    <3> QED
      BY <1>2, <1>3, <2>4, <3>3
  <2> QED
    BY <1>2, <1>3, <2>2, <2>3, <2>4
<1>5. Seen(kinds, id, n - 1)
  BY <1>4 DEF Seen
<1>6. ASSUME NEW b \in lastBlock - 1 .. End, Seen(kinds, id, b)', Is(kinds, id, n)
      PROVE  n <= b /\ \A j \in n + 1 .. b : ~Is(kinds, id, j)
  <2>1. \A k \in lastBlock..End : Is(kinds, id, k) => (Left(k)' <=> b < k)
    BY <1>1, <1>6 DEF Seen
  <2>2. n <= b
    BY <1>2, <1>3, <1>6, <2>1
  <2>3. ASSUME NEW j \in n + 1 .. b, Is(kinds, id, j) PROVE FALSE
    <3>1. j \in lastBlock..End /\ j # n /\ n - 1 < j /\ ~(b < j)
      BY <1>2, <1>3
    <3> QED
      BY <1>2, <1>4, <2>1, <2>3, <3>1
  <2> QED
    BY <2>2, <2>3
<1> QED
  BY <1>5, <1>6
\* The rows of the table.
LEMMA TableRows ==
    ASSUME Inv, NEW id \in Id
    PROVE  /\ positions[id] \in {NoRow} \cup Row
           /\ positions[id].exists \in BOOLEAN
           /\ positions[id].exists =>
                 /\ positions[id] \in Row
                 /\ positions[id].owner \in Owner /\ positions[id].usdc \in Int
                 /\ positions[id].lockupEnd \in Nat /\ positions[id].restakeCount \in Nat
                 /\ metaBlock \in Block
           /\ NoRow.exists = FALSE
<1>1. NoRow.exists = FALSE
  BY DEF NoRow
<1>2. positions[id] \in {NoRow} \cup Row
  BY DEF Inv, DbOk
<1>3. positions[id].exists => metaBlock \in Block
  BY RangeBounds DEF Inv, DbOk, Height, Block
<1> QED
  BY <1>1, <1>2, <1>3 DEF Row

-----------------------------------------------------------------------------
(* Taking a range and committing it.                                       *)

\* Taking a range queues the calls of its blocks and touches no row.
LEMMA TakeRangeKeeps ==
    ASSUME Inv, NEW end \in Block, TakeRange(end)
    PROVE  Inv'
<1>1. /\ lastBlock \in Nat \ {0} /\ end \in Nat /\ head \in Nat /\ rangeEnd = 0
      /\ lastBlock <= end /\ end <= head /\ end - lastBlock <= MaxRange
      /\ End = lastBlock - 1 /\ rangeEnd' = end /\ end # 0
      /\ calls' = RangeCalls(lastBlock, end)
      /\ UNCHANGED <<events, book, positions, factor, metaBlock, lastTime, lastBlock, lastRun,
                     anchorMissing, anchorAhead>>
  BY RangeBounds DEF TakeRange, End, Block, chainVars, dbVars, historyVars
<1>2. End' = end /\ lastRun \in Nat
  BY <1>1 DEF End, Inv, DbOk, Height
<1>3. /\ ChainOk' /\ head' = head /\ \A b : At(b)' = At(b)
      /\ \A kinds, id, b : Is(kinds, id, b)' = Is(kinds, id, b)
  BY <1>1, SameChain DEF Inv
<1>4. \A b : CallOf(b)' = CallOf(b)
  BY <1>1 DEF CallOf
<1>5. ASSUME NEW b \in lastBlock..end PROVE Left(b)' <=> events[b] # None
  <2>1. b \in 1..head
    BY <1>1
  <2>2. events[b] # None => CallOf(b) \in RangeCalls(lastBlock, end)
    BY DEF RangeCalls, CallOf
  <2>3. CallOf(b) \in RangeCalls(lastBlock, end) => events[b] # None
    <3>1. events[b].kind # "interval"
      BY <2>1, EventCall
    <3> SUFFICES ASSUME CallOf(b) \in RangeCalls(lastBlock, end) PROVE events[b] # None
      OBVIOUS
    <3>2. CallOf(b).event = events[b] /\ CallOf(b).block = b
      BY <2>1, EventCall
    <3>3. \/ \E k \in lastBlock..end : CallOf(b) = [event |-> events[k], block |-> k] /\ events[k] # None
          \/ \E k \in DueResets(end) : CallOf(b) = [event |-> [kind |-> "interval"], block |-> k]
      BY DEF RangeCalls
    <3> QED
      BY <3>1, <3>2, <3>3
  <2> QED
    BY <1>1, <1>4, <2>2, <2>3 DEF Left
<1>6. CallsOk'
  <2>1. ASSUME NEW c \in calls'
        PROVE  IsReset(c)' \/ \E b \in lastBlock..end : c = CallOf(b)' /\ events'[b] # None
    <3>1. \/ \E b \in lastBlock..end : c = CallOf(b) /\ events[b] # None
          \/ \E b \in DueResets(end) : c = [event |-> [kind |-> "interval"], block |-> b]
      BY <1>1, <2>1 DEF RangeCalls, CallOf
    <3>2. \A b \in DueResets(end) : b \in 1 .. end - 1
      BY <1>1, <1>2 DEF DueResets
    <3> QED
      BY <1>1, <1>2, <1>4, <3>1, <3>2 DEF IsReset
  <2>2. end <= head' /\ lastBlock - 1 <= end
    BY <1>1, <1>3
  <2> QED
    BY <1>1, <1>2, <1>5, <2>1, <2>2 DEF CallsOk
<1>7. DbOk'
  BY <1>1 DEF Inv, DbOk
<1>8. ASSUME NEW kinds, "none" \notin kinds, NEW id, NEW b \in lastBlock - 1 .. end,
             Seen(kinds, id, b)'
      PROVE  \A k \in lastBlock..b : ~Is(kinds, id, k)
  <2> SUFFICES ASSUME NEW k \in lastBlock..b, Is(kinds, id, k) PROVE FALSE
    OBVIOUS
  <2>1. k \in lastBlock..end /\ k \in 1..head /\ ~(b < k)
    BY <1>1
  <2>2. Left(k)' <=> b < k
    BY <1>1, <1>2, <1>3, <1>8, <2>1 DEF Seen
  <2>3. events[k] # None
    BY <1>8, <2>1, EventCall DEF Is
  <2> QED
    BY <1>5, <2>1, <2>2, <2>3
<1>9. ASSUME NEW id \in Id PROVE RowOk(id)'
  <2> DEFINE a == lastBlock - 1
  <2>1. \A kinds : Seen(kinds, id, a)
    BY <1>1 DEF Seen
  <2>2. a \in a..End /\ a \in 0..head /\ a + 1 = lastBlock
    BY <1>1
  <2>3. RowOk(id)
    BY DEF Inv
  <2>4. positions[id].exists <=> At(a)[id].exists
    BY <2>1, <2>2, <2>3 DEF RowOk, ExistsOk
  <2>5. ASSUME positions[id].exists
        PROVE  /\ positions[id].owner = At(a)[id].owner
               /\ positions[id].lockupEnd = At(a)[id].lockupEnd
               /\ ~anchorMissing /\ ~anchorAhead =>
                     positions[id].usdc = At(a)[id].share + Price[metaBlock]
    BY <2>1, <2>2, <2>3, <2>4, <2>5 DEF RowOk, OwnerOk, LockupOk, ValueOk
  <2>6. \A b \in a..end : b \in a..head
    BY <1>1
  <2> HIDE DEF a
  <2>7. ASSUME NEW b \in a..end, Seen({"mint", "burn"}, id, b)'
        PROVE  positions[id].exists <=> At(b)[id].exists
    <3>1. \A k \in a + 1 .. b : ~Is({"mint", "burn"}, id, k)
      BY <1>8, <2>2, <2>7 DEF a
    <3> QED
      BY <2>2, <2>4, <2>6, <3>1, Still DEF Inv
  <2>8. ASSUME NEW b \in a..end, positions[id].exists, At(b)[id].exists,
               Seen({"mint", "burn", "transfer"}, id, b)'
        PROVE  positions[id].owner = At(b)[id].owner
    <3>1. \A k \in a + 1 .. b : ~Is({"mint", "burn", "transfer"}, id, k)
      BY <1>8, <2>2, <2>8 DEF a
    <3> QED
      BY <2>2, <2>4, <2>5, <2>6, <2>8, <3>1, Quiet DEF Inv
  <2>9. ASSUME NEW b \in a..end, positions[id].exists, At(b)[id].exists,
               Seen({"restaked", "arb_restaked"}, id, b)'
        PROVE  positions[id].lockupEnd = At(b)[id].lockupEnd
    <3>1. \A k \in a + 1 .. b : ~Is({"restaked", "arb_restaked"}, id, k)
      BY <1>8, <2>2, <2>9 DEF a
    <3> QED
      BY <2>2, <2>4, <2>5, <2>6, <2>9, <3>1, Quiet DEF Inv
  <2>10. ASSUME ~anchorMissing, ~anchorAhead,
                NEW b \in a..end, positions[id].exists, At(b)[id].exists,
                Seen({"arb_restaked"}, id, b)'
         PROVE  positions[id].usdc = At(b)[id].share + Price[metaBlock]
    <3>1. \A k \in a + 1 .. b : ~Is({"arb_restaked"}, id, k)
      BY <1>8, <2>2, <2>10 DEF a
    <3> QED
      BY <2>2, <2>4, <2>5, <2>6, <2>10, <3>1, Quiet DEF Inv
  <2>11. a = lastBlock' - 1 /\ \A b : At(b)' = At(b)
    BY <1>1, <1>3 DEF a
  <2>12. ExistsOk(id)'
    BY <1>1, <1>2, <2>7, <2>11 DEF ExistsOk
  <2>13. OwnerOk(id)'
    BY <1>1, <1>2, <2>8, <2>11 DEF OwnerOk
  <2>14. LockupOk(id)'
    BY <1>1, <1>2, <2>9, <2>11 DEF LockupOk
  <2>15. ValueOk(id)'
    BY <1>1, <1>2, <2>10, <2>11 DEF ValueOk
  <2> QED
    BY <2>12, <2>13, <2>14, <2>15 DEF RowOk
<1> QED
  BY <1>3, <1>6, <1>7, <1>9 DEF Inv

\* Committing a range moves the cursor past its last block once every call of it has returned.
LEMMA CommitRangeKeeps ==
    ASSUME Inv, CommitRange
    PROVE  Inv'
<1>1. /\ calls = {} /\ calls' = {} /\ rangeEnd # 0 /\ rangeEnd' = 0 /\ rangeEnd \in Nat
      /\ End = rangeEnd /\ lastBlock' = rangeEnd + 1
      /\ UNCHANGED <<events, book, positions, factor, metaBlock, lastTime, lastRun,
                     anchorMissing, anchorAhead>>
  BY RangeBounds DEF CommitRange, End, chainVars, historyVars
<1>2. End' = End /\ lastBlock' - 1 = End /\ lastBlock' \in Nat \ {0}
  BY <1>1 DEF End
<1>3. /\ ChainOk' /\ head' = head /\ \A b : At(b)' = At(b)
  BY <1>1, SameChain DEF Inv
<1>4. CallsOk'
  BY <1>1, <1>2, <1>3, RangeBounds DEF CallsOk
<1>5. DbOk'
  BY <1>1 DEF Inv, DbOk
<1>6. ASSUME NEW id \in Id PROVE RowOk(id)'
  <2>1. \A kinds : Seen(kinds, id, End)
    BY <1>1, RangeBounds DEF Seen, Left
  <2>2. End \in lastBlock - 1 .. End
    BY RangeBounds
  <2>3. RowOk(id)
    BY DEF Inv
  <2>4. \A b \in lastBlock' - 1 .. End' : b = End
    <3>1. End \in Nat
      BY RangeBounds
    <3>2. (lastBlock' - 1 .. End') = End..End
      BY <1>2
    <3> QED
      BY <3>1, <3>2
  <2>5. ExistsOk(id)' /\ OwnerOk(id)'
    BY <1>1, <1>3, <2>1, <2>2, <2>3, <2>4 DEF RowOk, ExistsOk, OwnerOk
  <2>6. LockupOk(id)' /\ ValueOk(id)'
    BY <1>1, <1>3, <2>1, <2>2, <2>3, <2>4 DEF RowOk, LockupOk, ValueOk
  <2> QED
    BY <2>5, <2>6 DEF RowOk
<1> QED
  BY <1>3, <1>4, <1>5, <1>6 DEF Inv
-----------------------------------------------------------------------------
(* Bringing the rows up to date.                                           *)

\* A lockup that begins in the range does not end in it.
LEMMA Alone ==
    ASSUME Inv, rangeEnd # 0, NEW id \in Id,
           NEW j \in lastBlock..End, NEW k \in lastBlock..End,
           Is({"restaked", "arb_restaked"}, id, k)
    PROVE  /\ Is({"restaked", "arb_restaked"}, id, j) => j = k
           /\ Is({"mint"}, id, j) => k < j
<1>1. j \in 1..head /\ k \in 1..head /\ k - j <= MaxRange /\ j - k <= MaxRange /\ head \in Nat
  BY RangeBounds
<1>2. CASE j < k
  <2>1. k \in j + 1 .. head
    BY <1>1, <1>2
  <2>2. Is({"burn", "restaked", "arb_restaked"}, id, k)
    BY DEF Is
  <2>3. ~Is({"mint", "restaked", "arb_restaked"}, id, j)
    BY <1>1, <2>1, <2>2, OnceInRange DEF Inv
  <2>4. ~Is({"mint"}, id, j) /\ ~Is({"restaked", "arb_restaked"}, id, j)
    BY <2>3 DEF Is
  <2> QED
    BY <2>4
<1>3. CASE k < j
  <2>1. j \in k + 1 .. head
    BY <1>1, <1>3
  <2>2. Is({"mint", "restaked", "arb_restaked"}, id, k)
    BY DEF Is
  <2>3. ~Is({"burn", "restaked", "arb_restaked"}, id, j)
    BY <1>1, <2>1, <2>2, OnceInRange DEF Inv
  <2>4. ~Is({"restaked", "arb_restaked"}, id, j)
    BY <2>3 DEF Is
  <2> QED
    BY <1>3, <2>4
<1>4. CASE j = k
  <2>1. ~Is({"mint"}, id, j)
    BY <1>4 DEF Is
  <2> QED
    BY <1>4, <2>1
<1> QED
  BY <1>1, <1>2, <1>3, <1>4

\* The anchor of a handler: the row of a position that the contract still has and
\* whose lockup does not end soon is not behind, as an arbitrage up to that block
\* would have needed the lockup to have ended.
LEMMA AnchorNotBehind ==
    ASSUME Inv, rangeEnd # 0, NEW b \in lastBlock..End, NEW a \in Candidates(b),
           NEW k \in lastBlock..End, k <= b, Is({"arb_restaked"}, a, k)
    PROVE  ~Left(k)
<1> SUFFICES ASSUME Left(k) PROVE FALSE
  OBVIOUS
<1>1. /\ a \in Id /\ positions[a].exists /\ b + SafeTime <= positions[a].lockupEnd
      /\ positions[a].lockupEnd \in Nat
  BY TableRows DEF Candidates, Rows
<1>2. /\ lastBlock \in Nat \ {0} /\ End \in Nat /\ head \in Nat
      /\ k \in 1..head /\ k - 1 \in lastBlock - 1 .. End /\ k - 1 \in 0..head
      /\ SafeTime \in Nat \ {0}
  BY RangeBounds, LedgerAssumption
<1>3. Seen({"restaked", "arb_restaked"}, a, k - 1)
  <2>1. Is({"restaked", "arb_restaked"}, a, k)
    BY DEF Is
  <2>2. \A j \in lastBlock..End : Is({"restaked", "arb_restaked"}, a, j) => j = k
    BY <1>1, <2>1, Alone
  <2> QED
    BY <1>2, <2>2 DEF Seen
<1>4. At(k - 1)[a].exists /\ At(k - 1)[a].lockupEnd <= k
  <2>1. Told(a, k)
    BY <1>1, <1>2 DEF Inv, ChainOk
  <2>2. /\ Is({"transfer", "burn", "restaked", "arb_restaked"}, a, k)
        /\ Is({"burn", "restaked", "arb_restaked"}, a, k)
    BY DEF Is
  <2> QED
    BY <2>1, <2>2 DEF Told
<1>5. positions[a].lockupEnd = At(k - 1)[a].lockupEnd
  BY <1>1, <1>2, <1>3, <1>4 DEF Inv, RowOk, LockupOk
<1> QED
  BY <1>1, <1>2, <1>4, <1>5

\* What an anchor grew by is what the pool grew by: from the height of the meta
\* table to the block.
LEMMA AnchorExact ==
    ASSUME Inv, NEW c \in calls, First(c), Return(c),
           NEW a \in Candidates(c.block), ~Ahead(a, c.block), ~anchorMissing, ~anchorAhead
    PROVE  /\ metaBlock \in Block /\ c.block \in Block
           /\ Balance(a, c.block) - positions[a].usdc = Price[c.block] - Price[metaBlock]
<1> DEFINE b == c.block
<1>1. /\ a \in Id /\ positions[a].exists /\ positions[a].usdc \in Int
      /\ metaBlock \in Block /\ book[b][a].exists
  BY TableRows DEF Candidates, Rows
<1>2. /\ lastBlock \in Nat \ {0} /\ End \in Nat /\ head \in Nat /\ End <= head
      /\ b \in 1..End /\ b \in 1..head /\ b \in 0..head /\ b \in Block /\ End \in b..head
      /\ End \in 0..head /\ End \in lastBlock - 1 .. End
      /\ rangeEnd # 0 /\ End = rangeEnd
  BY RangeBounds, CallFacts DEF Block
<1>3. /\ At(b)[a].exists /\ At(b)[a].share \in Int /\ At(b) = book[b]
      /\ Price[b] \in Int /\ Price[metaBlock] \in Int
  BY <1>1, <1>2, ContractRows, LedgerAssumption DEF Inv, At
<1>4. RowOk(a)
  BY <1>1 DEF Inv
<1>5. positions[a].usdc = At(b)[a].share + Price[metaBlock]
  <2>1. CASE c.event.kind # "interval"
    <3>1. b \in lastBlock..End /\ b \in lastBlock - 1 .. End
      BY <1>2, <2>1, CallFacts
    <3>2. ASSUME NEW k \in lastBlock..End, Is({"arb_restaked"}, a, k)
          PROVE  Left(k) <=> b < k
      <4>1. k <= b => ~Left(k)
        BY <1>2, <3>1, <3>2, AnchorNotBehind
      <4>2. ASSUME b < k PROVE Left(k)
        <5>1. k \in b + 1 .. rangeEnd /\ events[k].kind = "arb_restaked" /\ events[k].id = a
          BY <1>2, <3>2, <4>2 DEF Is
        <5> QED
          BY <5>1 DEF Ahead, Left, CallOf
      <4> QED
        BY <1>2, <4>1, <4>2
    <3>3. Seen({"arb_restaked"}, a, b)
      BY <3>2 DEF Seen
    <3> QED
      BY <1>1, <1>3, <1>4, <3>1, <3>3 DEF RowOk, ValueOk
  <2>2. CASE c.event.kind = "interval"
    <3>1. ASSUME NEW k \in 1..head PROVE ~Left(k)
      <4> SUFFICES ASSUME Left(k) PROVE FALSE
        OBVIOUS
      <4>1. CallOf(k) \in calls /\ CallOf(k).event = events[k]
        BY EventCall DEF Left
      <4>2. events[k].kind \in {"mint", "transfer", "burn", "restaked", "arb_restaked"}
        BY LeftFacts, EventCall
      <4>3. Rank(c) = 4 /\ Rank(CallOf(k)) \in 1..3
        BY <2>2, <4>1, <4>2, Ranks
      <4>4. CallOf(k) = c \/ Precedes(c, CallOf(k))
        BY <4>1, FirstHandled
      <4> QED
        BY <4>3, <4>4 DEF Precedes
    <3>2. \A kinds : Seen(kinds, a, End)
      BY <1>2, <3>1, RangeBounds DEF Seen
    <3>3. At(End)[a].exists
      BY <1>1, <1>2, <1>4, <3>2 DEF RowOk, ExistsOk
    <3>4. positions[a].usdc = At(End)[a].share + Price[metaBlock]
      BY <1>1, <1>2, <1>4, <3>2, <3>3 DEF RowOk, ValueOk
    <3>5. \A k \in b + 1 .. End : ~Is({"arb_restaked"}, a, k)
      <4> SUFFICES ASSUME NEW k \in b + 1 .. End, Is({"arb_restaked"}, a, k) PROVE FALSE
        OBVIOUS
      <4>1. k \in 1..head /\ k \in b + 1 .. rangeEnd
        BY <1>2
      <4>2. ~Left(k) /\ events[k].kind = "arb_restaked" /\ events[k].id = a
        BY <3>1, <4>1 DEF Is
      <4> QED
        BY <4>1, <4>2 DEF Ahead, Left, CallOf
    <3>6. At(End)[a].share = At(b)[a].share
      BY <1>1, <1>2, <1>3, <3>3, <3>5, Quiet DEF Inv
    <3> QED
      BY <3>4, <3>6
  <2> QED
    BY <2>1, <2>2
<1> QED
  BY <1>1, <1>2, <1>3, <1>5 DEF Balance

\* So every row is multiplied by what the pool grew by.
LEMMA FactorExact ==
    ASSUME Inv, NEW c \in calls, First(c), Return(c), NEW f \in FactorsAfter(c.block),
           Reset(c.block, f), ~anchorMissing', ~anchorAhead', NEW id \in Id, positions[id].exists
    PROVE  /\ f = Price[c.block] - Price[metaBlock]
           /\ metaBlock \in Block /\ c.block \in Block
           /\ ~anchorMissing /\ ~anchorAhead
<1>1. /\ ~anchorMissing /\ ~anchorAhead
      /\ ~(metaBlock \notin {0, c.block} /\ Rows # {} /\ Anchors(c.block) = {})
      /\ ~(Computes(c.block) /\ \E a \in Anchors(c.block) : Ahead(a, c.block))
  BY DEF Reset
<1>2. /\ id \in Rows /\ metaBlock \in Block /\ metaBlock # 0 /\ c.block \in Block
      /\ Price[c.block] \in Int
  <2>1. id \in Rows /\ metaBlock \in Block /\ metaBlock # 0
    <3>1. metaBlock \in Block
      BY TableRows
    <3>2. metaBlock # 0
      BY <3>1 DEF Block
    <3> QED
      BY <3>1, <3>2 DEF Rows
  <2>2. c.block \in 1..head /\ head \in Nat /\ head <= MaxBlock /\ MaxBlock \in Nat
    BY CallFacts, RangeBounds
  <2>3. c.block \in Block
    BY <2>2 DEF Block
  <2> QED
    BY <2>1, <2>3, LedgerAssumption
<1>3. CASE Computes(c.block)
  <2>1. PICK a \in Anchors(c.block) : f = Balance(a, c.block) - positions[a].usdc
    BY <1>3 DEF FactorsAfter
  <2>2. a \in Candidates(c.block) /\ ~Ahead(a, c.block)
    BY <1>1, <1>3 DEF Anchors
  <2> QED
    BY <1>1, <1>2, <2>1, <2>2, AnchorExact
<1>4. CASE ~Computes(c.block)
  <2>1. metaBlock = c.block
    BY <1>1, <1>2, <1>4 DEF Computes
  <2>2. f = 0
    BY <1>4 DEF FactorsAfter, Inv, DbOk
  <2> QED
    BY <1>1, <1>2, <2>1, <2>2
<1> QED
  BY <1>3, <1>4

\* Every factor a handler may compute is an integer.
LEMMA FactorTyped ==
    ASSUME Inv, NEW c \in calls, NEW f \in FactorsAfter(c.block)
    PROVE  f \in Int
<1>1. c.block \in 1..head /\ c.block \in 0..head /\ c.block \in Block
  <2>1. c.block \in 1..head /\ head \in Nat /\ head <= MaxBlock
    BY CallFacts, RangeBounds
  <2> QED
    BY <2>1, RangeBounds DEF Block
<1>2. ASSUME NEW a \in Anchors(c.block) PROVE Balance(a, c.block) - positions[a].usdc \in Int
  <2>1. a \in Id /\ positions[a].exists /\ book[c.block][a].exists
    BY DEF Anchors, Candidates, Rows
  <2>2. positions[a].usdc \in Int
    BY <2>1, TableRows
  <2>3. book[c.block][a].share \in Int /\ Price[c.block] \in Int
    BY <1>1, <2>1, ContractRows, LedgerAssumption DEF Inv, At
  <2> QED
    BY <2>2, <2>3 DEF Balance
<1> QED
  BY <1>2 DEF FactorsAfter, Inv, DbOk

\* The rows when they have been multiplied.
LEMMA ScaledRows ==
    ASSUME Inv, NEW f \in Int
    PROVE  /\ Scaled(f) \in [Id -> {NoRow} \cup Row]
           /\ \A id \in Id :
                 /\ Scaled(f)[id].exists \in BOOLEAN
                 /\ Scaled(f)[id].exists <=> positions[id].exists
                 /\ positions[id].exists =>
                       /\ Scaled(f)[id] \in Row
                       /\ Scaled(f)[id].owner = positions[id].owner
                       /\ Scaled(f)[id].lockupEnd = positions[id].lockupEnd
                       /\ Scaled(f)[id].usdc = positions[id].usdc + f
                       /\ Scaled(f)[id].restakeCount = positions[id].restakeCount
<1>1. ASSUME NEW id \in Id
      PROVE  /\ Scaled(f)[id] \in {NoRow} \cup Row
             /\ Scaled(f)[id].exists \in BOOLEAN
             /\ Scaled(f)[id].exists <=> positions[id].exists
             /\ positions[id].exists =>
                   /\ Scaled(f)[id] \in Row
                   /\ Scaled(f)[id].owner = positions[id].owner
                   /\ Scaled(f)[id].lockupEnd = positions[id].lockupEnd
                   /\ Scaled(f)[id].usdc = positions[id].usdc + f
                   /\ Scaled(f)[id].restakeCount = positions[id].restakeCount
  <2>1. CASE ~positions[id].exists
    <3>1. Scaled(f)[id] = NoRow
      BY <2>1 DEF Scaled
    <3> QED
      BY <2>1, <3>1, TableRows
  <2>2. CASE positions[id].exists
    <3> DEFINE u == positions[id].usdc + f
    <3>1. positions[id] \in Row /\ u \in Int
      <4>1. positions[id] \in Row /\ positions[id].usdc \in Int
        BY <2>2, TableRows
      <4> QED
        BY <4>1
    <3>2. Scaled(f)[id] = [positions[id] EXCEPT !.usdc = u]
      BY <2>2, <3>1 DEF Scaled, Row
    <3> HIDE DEF u
    <3>3. /\ Scaled(f)[id] \in Row /\ Scaled(f)[id].usdc = u
          /\ Scaled(f)[id].exists = positions[id].exists
          /\ Scaled(f)[id].owner = positions[id].owner
          /\ Scaled(f)[id].lockupEnd = positions[id].lockupEnd
          /\ Scaled(f)[id].restakeCount = positions[id].restakeCount
      BY <3>1, <3>2 DEF Row
    <3> QED
      BY <2>2, <3>3 DEF u
  <2> QED
    BY <2>1, <2>2
<1>2. Scaled(f) \in [Id -> {NoRow} \cup Row]
  <2>1. Scaled(f) = [id \in Id |-> Scaled(f)[id]]
    BY DEF Scaled
  <2> QED
    BY <1>1, <2>1
<1> QED
  BY <1>1, <1>2

\* The bookkeeping columns after reset_balance_factor.
LEMMA ResetDb ==
    ASSUME Inv, NEW c \in calls, NEW f, Reset(c.block, f),
           positions' \in [Id -> {NoRow} \cup Row], lastRun' \in Height
    PROVE  DbOk'
<1>1. c.block \in 1..head /\ head \in Nat /\ head <= MaxBlock /\ MaxBlock \in Nat
  BY CallFacts, RangeBounds
<1>2. c.block \in Height /\ c.block # 0
  BY <1>1 DEF Height
<1>3. factor' = 0 /\ metaBlock' = c.block /\ lastTime' \in {c.block, lastTime}
  BY DEF Reset, FactorAfterReset, TimeAfterReset
<1>4. anchorMissing' \in BOOLEAN /\ anchorAhead' \in BOOLEAN
  BY DEF Reset, Inv, DbOk
<1> QED
  BY <1>2, <1>3, <1>4 DEF Inv, DbOk

\* The call is the event of one of these kinds for this position.
About(c, kinds, id) == c.event.kind # "interval" /\ c.event.kind \in kinds /\ c.event.id = id

\* A column the call is not about is as right as it was.
LEMMA Kept ==
    ASSUME Inv, NEW c \in calls, First(c), Return(c), NEW id \in Id
    PROVE  /\ ~About(c, {"mint", "burn"}, id)
              /\ (positions'[id].exists <=> positions[id].exists) => ExistsOk(id)'
           /\ ~About(c, {"mint", "burn", "transfer"}, id)
              /\ (positions'[id].exists =>
                     positions[id].exists /\ positions'[id].owner = positions[id].owner) =>
                 OwnerOk(id)'
           /\ ~About(c, {"restaked", "arb_restaked"}, id)
              /\ (positions'[id].exists =>
                     positions[id].exists /\ positions'[id].lockupEnd = positions[id].lockupEnd) =>
                 LockupOk(id)'
           /\ ~About(c, {"arb_restaked"}, id)
              /\ UNCHANGED <<metaBlock, anchorMissing, anchorAhead>>
              /\ (positions'[id].exists =>
                     positions[id].exists /\ positions'[id].usdc = positions[id].usdc) =>
                 ValueOk(id)'
<1>1. /\ End' = End /\ UNCHANGED <<events, book, lastBlock, rangeEnd>>
      /\ \A b : At(b)' = At(b)
  BY FirstHandled
<1>2. \A kinds, b : ~About(c, kinds, id) => (Seen(kinds, id, b)' <=> Seen(kinds, id, b))
  BY OtherSeen DEF About
<1>3. RowOk(id)
  BY DEF Inv
<1>4. ASSUME ~About(c, {"mint", "burn"}, id), positions'[id].exists <=> positions[id].exists
      PROVE  ExistsOk(id)'
  BY <1>1, <1>2, <1>3, <1>4 DEF RowOk, ExistsOk
<1>5. ASSUME ~About(c, {"mint", "burn", "transfer"}, id),
             positions'[id].exists =>
                positions[id].exists /\ positions'[id].owner = positions[id].owner
      PROVE  OwnerOk(id)'
  BY <1>1, <1>2, <1>3, <1>5 DEF RowOk, OwnerOk
<1>6. ASSUME ~About(c, {"restaked", "arb_restaked"}, id),
             positions'[id].exists =>
                positions[id].exists /\ positions'[id].lockupEnd = positions[id].lockupEnd
      PROVE  LockupOk(id)'
  BY <1>1, <1>2, <1>3, <1>6 DEF RowOk, LockupOk
<1>7. ASSUME ~About(c, {"arb_restaked"}, id),
             UNCHANGED <<metaBlock, anchorMissing, anchorAhead>>,
             positions'[id].exists =>
                positions[id].exists /\ positions'[id].usdc = positions[id].usdc
      PROVE  ValueOk(id)'
  BY <1>1, <1>2, <1>3, <1>7 DEF RowOk, ValueOk
<1> QED
  BY <1>4, <1>5, <1>6, <1>7

\* A row that has been multiplied is worth what the contract says at the new height.
LEMMA KeptValue ==
    ASSUME Inv, NEW c \in calls, First(c), Return(c), NEW id \in Id,
           NEW f \in FactorsAfter(c.block), Reset(c.block, f),
           ~About(c, {"arb_restaked"}, id),
           positions'[id].exists =>
              positions[id].exists /\ positions'[id].usdc = positions[id].usdc + f
    PROVE  ValueOk(id)'
<1>1. /\ End' = End /\ UNCHANGED <<events, book, lastBlock, rangeEnd>>
      /\ \A b : At(b)' = At(b)
  BY FirstHandled
<1>2. \A b : Seen({"arb_restaked"}, id, b)' <=> Seen({"arb_restaked"}, id, b)
  BY OtherSeen DEF About
<1>3. metaBlock' = c.block /\ f \in Int
  BY FactorTyped DEF Reset
<1> SUFFICES ASSUME ~anchorMissing', ~anchorAhead', NEW b \in lastBlock - 1 .. End,
                    positions'[id].exists, At(b)[id].exists, Seen({"arb_restaked"}, id, b)
             PROVE  positions'[id].usdc = At(b)[id].share + Price[c.block]
  BY <1>1, <1>2, <1>3 DEF ValueOk
<1>4. /\ f = Price[c.block] - Price[metaBlock] /\ metaBlock \in Block /\ c.block \in Block
      /\ ~anchorMissing /\ ~anchorAhead
  BY FactorExact
<1>5. positions[id].usdc = At(b)[id].share + Price[metaBlock]
  BY <1>4 DEF Inv, RowOk, ValueOk
<1>6. At(b)[id].share \in Int /\ Price[metaBlock] \in Int /\ Price[c.block] \in Int
  BY <1>4, RangeBounds, ContractRows, LedgerAssumption DEF Inv
<1> QED
  BY <1>4, <1>5, <1>6
-----------------------------------------------------------------------------
(* The handlers.                                                           *)

\* The events of a stage up to the handled one are handled, the later ones left.
LEMMA OwnersSeen ==
    ASSUME Inv, NEW c \in calls, First(c), Return(c),
           c.event.kind \in {"mint", "transfer", "burn"}, NEW id \in Id,
           NEW kinds \in {{"mint", "burn"}, {"mint", "burn", "transfer"}}
    PROVE  /\ Seen(kinds, id, c.block - 1)
           /\ \A b \in lastBlock - 1 .. End :
                 Seen(kinds, id, b)' /\ Is(kinds, id, c.block) =>
                    c.block <= b /\ \A j \in c.block + 1 .. b : ~Is(kinds, id, j)
<1>1. ASSUME NEW j \in lastBlock..End, Is(kinds, id, j) PROVE Rank(CallOf(j)) = Rank(c)
  <2>1. CallOf(j).event = events[j]
    BY RangeBounds, EventCall
  <2>2. events[j].kind \in {"mint", "transfer", "burn"}
    BY <1>1 DEF Is
  <2> QED
    BY <2>1, <2>2, Ranks
<1>2. "none" \notin kinds /\ c.event.kind # "interval"
  OBVIOUS
<1> QED
  BY <1>1, <1>2, StageSeen

\* Once a restake is handled, what the contract has from its block on is what it
\* had at its block: the position is not restaked again in the range.
LEMMA LocksSeen ==
    ASSUME Inv, NEW c \in calls, First(c), Return(c),
           c.event.kind \in {"restaked", "arb_restaked"},
           NEW b \in lastBlock - 1 .. End
    PROVE  /\ Seen({"restaked", "arb_restaked"}, c.event.id, b)' => c.block <= b
           /\ Seen({"arb_restaked"}, c.event.id, b)' /\ c.event.kind = "arb_restaked" => c.block <= b
           /\ \A j \in lastBlock..End :
                 j # c.block => /\ ~Is({"restaked", "arb_restaked"}, c.event.id, j)
                                /\ ~Is({"arb_restaked"}, c.event.id, j)
<1> DEFINE n == c.block
           t == c.event.id
<1>1. /\ End' = End /\ lastBlock' = lastBlock
      /\ \A kinds, j : Is(kinds, t, j)' = Is(kinds, t, j)
  BY FirstHandled
<1>2. /\ n \in lastBlock..End /\ t \in Id /\ ~Left(n)'
      /\ \A kinds : Is(kinds, t, n) <=> c.event.kind \in kinds
  BY EventHandled
<1>3. /\ Is({"restaked", "arb_restaked"}, t, n)
      /\ c.event.kind = "arb_restaked" => Is({"arb_restaked"}, t, n)
  BY <1>2
<1>4. lastBlock \in Nat /\ End \in Nat /\ rangeEnd # 0
  BY RangeBounds, CallFacts
<1>5. Seen({"restaked", "arb_restaked"}, t, b)' => n <= b
  BY <1>1, <1>2, <1>3, <1>4 DEF Seen
<1>6. Seen({"arb_restaked"}, t, b)' /\ c.event.kind = "arb_restaked" => n <= b
  BY <1>1, <1>2, <1>3, <1>4 DEF Seen
<1>7. ASSUME NEW j \in lastBlock..End, j # n
      PROVE  ~Is({"restaked", "arb_restaked"}, t, j) /\ ~Is({"arb_restaked"}, t, j)
  <2>1. ~Is({"restaked", "arb_restaked"}, t, j)
    BY <1>2, <1>3, <1>4, <1>7, Alone
  <2> QED
    BY <2>1 DEF Is
<1> QED
  BY <1>5, <1>6, <1>7

\* The handler of a mint scales every row, then adds one as the contract shows it at the event's block.
LEMMA MintKeeps ==
    ASSUME Inv, NEW c \in calls, HandleMint(c)
    PROVE  Inv'
<1> DEFINE n == c.block
           t == c.event.id
           row == [exists |-> TRUE, owner |-> c.event.to, usdc |-> Balance(t, n),
                   lockupEnd |-> book[n][t].lockupEnd, restakeCount |-> 0]
<1>1. /\ First(c) /\ c.event.kind = "mint" /\ c.event.kind # "interval" /\ Return(c)
      /\ lastRun' = lastRun
  BY DEF HandleMint, Handles
<1>2. PICK f \in FactorsAfter(n) : Reset(n, f) /\ positions' = [Scaled(f) EXCEPT ![t] = row]
  BY DEF HandleMint
<1>3. /\ n \in lastBlock..End /\ n \in 1..head /\ n - 1 \in lastBlock - 1 .. End
      /\ c.event = events[n] /\ t \in Id
      /\ \A kinds, id : Is(kinds, id, n) <=> "mint" \in kinds /\ t = id
  BY <1>1, EventHandled
<1>4. /\ End' = End /\ UNCHANGED <<events, book, lastBlock, rangeEnd>> /\ ChainOk' /\ CallsOk'
      /\ \A b : At(b)' = At(b) /\ \A kinds, id, j : Is(kinds, id, j)' = Is(kinds, id, j)
  BY <1>1, FirstHandled
<1>5. /\ lastBlock \in Nat \ {0} /\ End \in Nat /\ head \in Nat /\ End <= head /\ rangeEnd # 0
      /\ n \in 0..head /\ head <= MaxBlock
  BY <1>3, RangeBounds, CallFacts
<1>6. /\ At(n)[t].exists /\ At(n)[t].owner = c.event.to /\ At(n) = book[n]
      /\ \A j \in 0 .. n - 1 : ~At(j)[t].exists
  <2>1. Told(t, n)
    BY <1>3 DEF Inv, ChainOk
  <2>2. /\ Is({"mint"}, t, n) /\ Is({"mint", "transfer"}, t, n)
        /\ Is({"mint", "transfer", "restaked", "arb_restaked"}, t, n)
    BY <1>3
  <2>3. At(n) = book[n]
    BY <1>3 DEF At
  <2> QED
    BY <1>3, <2>1, <2>2, <2>3 DEF Told
<1>7. /\ At(n)[t].share \in Int /\ At(n)[t].lockupEnd \in Nat /\ At(n)[t].owner \in Owner
  BY <1>3, <1>5, <1>6, ContractRows DEF Inv
<1>8. n \in Block /\ Price[n] \in Int
  BY <1>3, <1>5, RangeBounds, LedgerAssumption DEF Block
<1>9. /\ row \in Row /\ row.exists /\ row.owner = At(n)[t].owner
      /\ row.lockupEnd = At(n)[t].lockupEnd
      /\ row.usdc = At(n)[t].share + Price[n]
  <2> DEFINE u == Balance(t, n)
             l == book[n][t].lockupEnd
  <2>1. /\ u \in Int /\ u = At(n)[t].share + Price[n]
        /\ l \in Nat /\ l = At(n)[t].lockupEnd
        /\ c.event.to \in Owner
    BY <1>6, <1>7, <1>8 DEF Balance
  <2> HIDE DEF u, l
  <2>2. row = [exists |-> TRUE, owner |-> c.event.to, usdc |-> u, lockupEnd |-> l,
               restakeCount |-> 0]
    BY DEF u, l
  <2> HIDE DEF row
  <2> QED
    BY <1>6, <2>1, <2>2 DEF Row
<1> HIDE DEF row
<1>10. f \in Int /\ metaBlock' = n
  BY <1>2, FactorTyped DEF Reset
<1>11. /\ positions' \in [Id -> {NoRow} \cup Row] /\ positions'[t] = row
       /\ \A id \in Id : id # t => positions'[id] = Scaled(f)[id]
  BY <1>2, <1>3, <1>9, <1>10, ScaledRows
<1>12. DbOk'
  BY <1>1, <1>2, <1>11, ResetDb DEF Inv, DbOk
<1>13. ASSUME NEW id \in Id, id # t PROVE RowOk(id)'
  <2>1. \A kinds : ~About(c, kinds, id)
    BY <1>13 DEF About
  <2>2. /\ positions'[id].exists <=> positions[id].exists
        /\ positions[id].exists =>
              /\ positions'[id].owner = positions[id].owner
              /\ positions'[id].lockupEnd = positions[id].lockupEnd
              /\ positions'[id].usdc = positions[id].usdc + f
    BY <1>10, <1>11, <1>13, ScaledRows
  <2>3. ExistsOk(id)' /\ OwnerOk(id)' /\ LockupOk(id)'
    BY <1>1, <2>1, <2>2, Kept
  <2>4. ValueOk(id)'
    BY <1>1, <1>2, <2>1, <2>2, KeptValue
  <2> QED
    BY <2>3, <2>4 DEF RowOk
<1>14. RowOk(t)'
  <2>1. Is({"mint", "burn"}, t, n) /\ Is({"mint", "burn", "transfer"}, t, n) /\ Is({"mint"}, t, n)
    BY <1>3
  <2>2. \A b \in lastBlock - 1 .. End : n <= b => b \in n..head
    BY <1>3, <1>5
  <2>3. ASSUME NEW b \in lastBlock - 1 .. End, Seen({"mint", "burn"}, t, b)'
        PROVE  At(b)[t].exists
    <3>1. n <= b /\ \A j \in n + 1 .. b : ~Is({"mint", "burn"}, t, j)
      BY <1>1, <1>3, <2>1, <2>3, OwnersSeen
    <3> QED
      BY <1>3, <1>5, <1>6, <2>2, <3>1, Still DEF Inv
  <2>4. ASSUME NEW b \in lastBlock - 1 .. End, Seen({"mint", "burn", "transfer"}, t, b)',
               At(b)[t].exists
        PROVE  At(b)[t].owner = row.owner
    <3>1. n <= b /\ \A j \in n + 1 .. b : ~Is({"mint", "burn", "transfer"}, t, j)
      BY <1>1, <1>3, <2>1, <2>4, OwnersSeen
    <3> QED
      BY <1>3, <1>5, <1>6, <1>9, <2>2, <2>4, <3>1, Quiet DEF Inv
  <2>5. ASSUME NEW b \in lastBlock - 1 .. End, At(b)[t].exists
        PROVE  At(b)[t].lockupEnd = row.lockupEnd /\ At(b)[t].share = At(n)[t].share
    <3>1. n <= b
      <4> SUFFICES ASSUME ~(n <= b) PROVE FALSE
        OBVIOUS
      <4>1. b \in 0 .. n - 1
        BY <1>3, <1>5
      <4> QED
        BY <1>6, <2>5, <4>1
    <3>2. ASSUME NEW j \in n + 1 .. b
          PROVE  ~Is({"restaked", "arb_restaked"}, t, j) /\ ~Is({"arb_restaked"}, t, j)
      <4>1. j \in lastBlock..End /\ ~(j < n)
        BY <1>3, <1>5
      <4>2. ~Is({"restaked", "arb_restaked"}, t, j)
        BY <1>3, <1>5, <2>1, <4>1, Alone
      <4> QED
        BY <4>2 DEF Is
    <3> QED
      BY <1>3, <1>5, <1>6, <1>9, <2>2, <2>5, <3>1, <3>2, Quiet DEF Inv
  <2>6. ExistsOk(t)'
    BY <1>4, <1>9, <1>11, <2>3 DEF ExistsOk
  <2>7. OwnerOk(t)'
    BY <1>4, <1>11, <2>4 DEF OwnerOk
  <2>8. LockupOk(t)' /\ ValueOk(t)'
    BY <1>4, <1>9, <1>10, <1>11, <2>5 DEF LockupOk, ValueOk
  <2> QED
    BY <2>6, <2>7, <2>8 DEF RowOk
<1> QED
  BY <1>4, <1>12, <1>13, <1>14 DEF Inv

\* The handler of a transfer changes the owner of one row.
LEMMA TransferKeeps ==
    ASSUME Inv, NEW c \in calls, HandleTransfer(c)
    PROVE  Inv'
<1> DEFINE n == c.block
           t == c.event.id
           row == [positions[t] EXCEPT !.owner = c.event.to]
<1>1. /\ First(c) /\ c.event.kind = "transfer" /\ c.event.kind # "interval" /\ Return(c)
      /\ positions' = [positions EXCEPT ![t].owner = c.event.to]
      /\ UNCHANGED <<factor, metaBlock, lastTime, lastRun, anchorMissing, anchorAhead>>
  BY DEF HandleTransfer, Handles, historyVars
<1>2. /\ n \in lastBlock..End /\ n \in 1..head /\ n - 1 \in lastBlock - 1 .. End
      /\ c.event = events[n] /\ t \in Id
      /\ \A kinds, id : Is(kinds, id, n) <=> "transfer" \in kinds /\ t = id
  BY <1>1, EventHandled
<1>3. /\ End' = End /\ UNCHANGED <<events, book, lastBlock, rangeEnd>> /\ ChainOk' /\ CallsOk'
      /\ \A b : At(b)' = At(b) /\ \A kinds, id, j : Is(kinds, id, j)' = Is(kinds, id, j)
  BY <1>1, FirstHandled
<1>4. /\ lastBlock \in Nat \ {0} /\ End \in Nat /\ head \in Nat /\ End <= head
      /\ n \in 0..head /\ n - 1 \in 0..head
  BY <1>2, RangeBounds
<1>5. /\ At(n - 1)[t].exists /\ At(n)[t].exists
      /\ At(n)[t].owner = c.event.to /\ c.event.to \in Owner
  <2>1. Told(t, n)
    BY <1>2 DEF Inv, ChainOk
  <2>2. /\ Is({"transfer", "burn", "restaked", "arb_restaked"}, t, n)
        /\ Is({"mint", "transfer", "restaked", "arb_restaked"}, t, n)
        /\ Is({"mint", "transfer"}, t, n)
    BY <1>2
  <2>3. At(n - 1)[t].exists /\ At(n)[t].exists /\ At(n)[t].owner = c.event.to
    BY <1>2, <2>1, <2>2 DEF Told
  <2> QED
    BY <1>2, <1>4, <2>3, ContractRows DEF Inv
<1>6. positions[t].exists
  <2>1. Seen({"mint", "burn"}, t, n - 1)
    BY <1>1, <1>2, OwnersSeen
  <2> QED
    BY <1>2, <1>5, <2>1 DEF Inv, RowOk, ExistsOk
<1>7. /\ row \in Row /\ row.exists = positions[t].exists /\ row.owner = c.event.to
      /\ row.lockupEnd = positions[t].lockupEnd /\ row.usdc = positions[t].usdc
  <2>1. positions[t] \in Row
    BY <1>2, <1>6, TableRows
  <2> QED
    BY <1>5, <2>1 DEF Row
<1>8. positions' = [positions EXCEPT ![t] = row]
  BY <1>1, <1>2 DEF Inv, DbOk
<1> HIDE DEF row
<1>9. /\ positions' \in [Id -> {NoRow} \cup Row] /\ positions'[t] = row
      /\ \A id \in Id : id # t => positions'[id] = positions[id]
  BY <1>2, <1>7, <1>8 DEF Inv, DbOk
<1>10. DbOk'
  <2>1. \A id \in Id : positions'[id].exists <=> positions[id].exists
    BY <1>7, <1>9
  <2> QED
    BY <1>1, <1>9, <2>1 DEF Inv, DbOk
<1>11. ASSUME NEW id \in Id PROVE ExistsOk(id)' /\ LockupOk(id)' /\ ValueOk(id)'
  <2>1. /\ ~About(c, {"mint", "burn"}, id) /\ ~About(c, {"restaked", "arb_restaked"}, id)
        /\ ~About(c, {"arb_restaked"}, id)
    BY <1>1 DEF About
  <2>2. /\ positions'[id].exists <=> positions[id].exists
        /\ positions'[id].lockupEnd = positions[id].lockupEnd
        /\ positions'[id].usdc = positions[id].usdc
    BY <1>7, <1>9
  <2>3. UNCHANGED <<metaBlock, anchorMissing, anchorAhead>>
    BY <1>1
  <2> QED
    BY <1>1, <2>1, <2>2, <2>3, Kept
<1>12. ASSUME NEW id \in Id, id # t PROVE OwnerOk(id)'
  <2>1. ~About(c, {"mint", "burn", "transfer"}, id)
    BY <1>12 DEF About
  <2> QED
    BY <1>1, <1>9, <1>12, <2>1, Kept
<1>13. OwnerOk(t)'
  <2>1. Is({"mint", "burn", "transfer"}, t, n)
    BY <1>2
  <2>2. ASSUME NEW b \in lastBlock - 1 .. End, Seen({"mint", "burn", "transfer"}, t, b)',
               At(b)[t].exists
        PROVE  At(b)[t].owner = row.owner
    <3>1. n <= b /\ \A j \in n + 1 .. b : ~Is({"mint", "burn", "transfer"}, t, j)
      BY <1>1, <1>2, <2>1, <2>2, OwnersSeen
    <3>2. b \in n..head
      BY <1>2, <1>4, <3>1
    <3> QED
      BY <1>2, <1>4, <1>5, <1>7, <2>2, <3>1, <3>2, Quiet DEF Inv
  <2> QED
    BY <1>3, <1>9, <2>2 DEF OwnerOk
<1> QED
  BY <1>3, <1>10, <1>11, <1>12, <1>13 DEF Inv, RowOk

\* The handler of a burn deletes one row.
LEMMA BurnKeeps ==
    ASSUME Inv, NEW c \in calls, HandleBurn(c)
    PROVE  Inv'
<1> DEFINE n == c.block
           t == c.event.id
<1>1. /\ First(c) /\ c.event.kind = "burn" /\ c.event.kind # "interval" /\ Return(c)
      /\ positions' = [positions EXCEPT ![t] = NoRow]
      /\ UNCHANGED <<factor, metaBlock, lastTime, lastRun, anchorMissing, anchorAhead>>
  BY DEF HandleBurn, Handles, historyVars
<1>2. /\ n \in lastBlock..End /\ n \in 1..head
      /\ c.event = events[n] /\ t \in Id
      /\ \A kinds, id : Is(kinds, id, n) <=> "burn" \in kinds /\ t = id
  BY <1>1, EventHandled
<1>3. /\ End' = End /\ UNCHANGED <<events, book, lastBlock, rangeEnd>> /\ ChainOk' /\ CallsOk'
      /\ \A b : At(b)' = At(b) /\ \A kinds, id, j : Is(kinds, id, j)' = Is(kinds, id, j)
  BY <1>1, FirstHandled
<1>4. lastBlock \in Nat \ {0} /\ End \in Nat /\ head \in Nat /\ End <= head /\ n \in 0..head
  BY <1>2, RangeBounds
<1>5. ~At(n)[t].exists
  <2>1. Told(t, n)
    BY <1>2 DEF Inv, ChainOk
  <2> QED
    BY <1>2, <2>1 DEF Told
<1>6. /\ positions' \in [Id -> {NoRow} \cup Row] /\ positions'[t] = NoRow /\ ~NoRow.exists
      /\ \A id \in Id : id # t => positions'[id] = positions[id]
  BY <1>1, <1>2, TableRows DEF Inv, DbOk
<1>7. DbOk'
  <2>1. \A id \in Id : positions'[id].exists => positions[id].exists
    BY <1>6
  <2> QED
    BY <1>1, <1>6, <2>1 DEF Inv, DbOk
<1>8. ASSUME NEW id \in Id, id # t PROVE RowOk(id)'
  <2>1. \A kinds : ~About(c, kinds, id)
    BY <1>8 DEF About
  <2>2. positions'[id] = positions[id] /\ UNCHANGED <<metaBlock, anchorMissing, anchorAhead>>
    BY <1>1, <1>6, <1>8
  <2> QED
    BY <1>1, <2>1, <2>2, Kept DEF RowOk
<1>9. RowOk(t)'
  <2>1. Is({"mint", "burn"}, t, n)
    BY <1>2
  <2>2. ASSUME NEW b \in lastBlock - 1 .. End, Seen({"mint", "burn"}, t, b)'
        PROVE  ~At(b)[t].exists
    <3>1. n <= b /\ \A j \in n + 1 .. b : ~Is({"mint", "burn"}, t, j)
      BY <1>1, <1>2, <2>1, <2>2, OwnersSeen
    <3>2. b \in n..head
      BY <1>2, <1>4, <3>1
    <3> QED
      BY <1>2, <1>4, <1>5, <3>1, <3>2, Still DEF Inv
  <2>3. ExistsOk(t)'
    BY <1>3, <1>6, <2>2 DEF ExistsOk
  <2>4. OwnerOk(t)' /\ LockupOk(t)' /\ ValueOk(t)'
    BY <1>6 DEF OwnerOk, LockupOk, ValueOk
  <2> QED
    BY <2>3, <2>4 DEF RowOk
<1> QED
  BY <1>3, <1>7, <1>8, <1>9 DEF Inv

\* The handler of a restake scales every row, then gives its position's row the new lockup and balance.
LEMMA RestakedKeeps ==
    ASSUME Inv, NEW c \in calls, HandleRestaked(c)
    PROVE  Inv'
<1> DEFINE n == c.block
           t == c.event.id
<1>1. /\ First(c) /\ c.event.kind \in {"restaked", "arb_restaked"}
      /\ c.event.kind # "interval" /\ Return(c) /\ lastRun' = lastRun
  BY DEF HandleRestaked, Handles
<1>2. PICK f \in FactorsAfter(n) : Reset(n, f) /\ positions' = Restaked(Scaled(f), t, n)
  BY DEF HandleRestaked
<1>3. /\ n \in lastBlock..End /\ n \in 1..head /\ n \in lastBlock - 1 .. End
      /\ c.event = events[n] /\ t \in Id
      /\ \A kinds, id : Is(kinds, id, n) <=> c.event.kind \in kinds /\ t = id
  BY <1>1, EventHandled, RangeBounds
<1>4. /\ End' = End /\ UNCHANGED <<events, book, lastBlock, rangeEnd>> /\ ChainOk' /\ CallsOk'
      /\ \A b : At(b)' = At(b) /\ \A kinds, id, j : Is(kinds, id, j)' = Is(kinds, id, j)
  BY <1>1, FirstHandled
<1>5. /\ lastBlock \in Nat \ {0} /\ End \in Nat /\ head \in Nat /\ End <= head /\ rangeEnd # 0
      /\ n \in 0..head /\ head <= MaxBlock
  BY <1>3, RangeBounds, CallFacts
<1>6. At(n)[t].exists /\ At(n) = book[n]
  <2>1. Told(t, n)
    BY <1>3 DEF Inv, ChainOk
  <2>2. Is({"mint", "transfer", "restaked", "arb_restaked"}, t, n)
    BY <1>1, <1>3
  <2> QED
    BY <1>3, <2>1, <2>2 DEF Told, At
<1>7. /\ At(n)[t].share \in Int /\ At(n)[t].lockupEnd \in Nat
  BY <1>3, <1>5, <1>6, ContractRows DEF Inv
<1>8. n \in Block /\ Price[n] \in Int
  BY <1>3, <1>5, RangeBounds, LedgerAssumption DEF Block
<1>9. f \in Int /\ metaBlock' = n
  BY <1>2, FactorTyped DEF Reset
<1>10. /\ positions' \in [Id -> {NoRow} \cup Row]
       /\ positions'[t].exists <=> positions[t].exists
       /\ positions[t].exists =>
             /\ positions'[t].owner = positions[t].owner
             /\ positions'[t].lockupEnd = At(n)[t].lockupEnd
             /\ positions'[t].usdc = At(n)[t].share + Price[n]
       /\ \A id \in Id : id # t => positions'[id] = Scaled(f)[id]
  <2>1. CASE ~positions[t].exists
    <3>1. positions' = Scaled(f)
      BY <1>2, <1>3, <1>9, <2>1, ScaledRows DEF Restaked
    <3> QED
      BY <1>3, <1>9, <2>1, <3>1, ScaledRows
  <2>2. CASE positions[t].exists
    <3> DEFINE u == Balance(t, n)
               l == book[n][t].lockupEnd
               k == Scaled(f)[t].restakeCount + 1
               row == [Scaled(f)[t] EXCEPT !.usdc = u, !.lockupEnd = l, !.restakeCount = k]
    <3>1. Scaled(f) \in [Id -> {NoRow} \cup Row] /\ Scaled(f)[t] \in Row /\ Scaled(f)[t].exists
      BY <1>3, <1>9, <2>2, ScaledRows
    <3>2. /\ u \in Int /\ u = At(n)[t].share + Price[n]
          /\ l \in Nat /\ l = At(n)[t].lockupEnd
      BY <1>6, <1>7, <1>8 DEF Balance
    <3>3. k \in Nat
      BY <3>1 DEF Row
    <3>4. positions' = [Scaled(f) EXCEPT ![t] = row]
      <4> DEFINE rows == Scaled(f)
      <4>1. positions' = [rows EXCEPT ![t].usdc = u, ![t].lockupEnd = l,
                                      ![t].restakeCount = @ + 1]
        BY <1>2, <3>1 DEF Restaked
      <4>2. rows \in [Id -> {NoRow} \cup Row] /\ rows[t] \in Row /\ k = rows[t].restakeCount + 1
        BY <3>1
      <4>3. row = [rows[t] EXCEPT !.usdc = u, !.lockupEnd = l, !.restakeCount = k]
        OBVIOUS
      <4> HIDE DEF rows, u, l, k, row
      <4>4. positions' = [rows EXCEPT ![t] = row]
        BY <1>3, <4>1, <4>2, <4>3 DEF Row
      <4> QED
        BY <4>4 DEF rows
    <3> HIDE DEF u, l, k
    <3>5. /\ row \in Row /\ row.exists = Scaled(f)[t].exists /\ row.owner = Scaled(f)[t].owner
          /\ row.usdc = u /\ row.lockupEnd = l
      BY <3>1, <3>2, <3>3 DEF Row
    <3> HIDE DEF row
    <3>6. /\ positions' \in [Id -> {NoRow} \cup Row] /\ positions'[t] = row
          /\ \A id \in Id : id # t => positions'[id] = Scaled(f)[id]
      BY <1>3, <3>1, <3>4, <3>5
    <3>7. Scaled(f)[t].owner = positions[t].owner
      BY <1>3, <1>9, <2>2, ScaledRows
    <3> QED
      BY <2>2, <3>1, <3>2, <3>5, <3>6, <3>7
  <2> QED
    BY <2>1, <2>2
<1>11. DbOk'
  BY <1>1, <1>2, <1>10, ResetDb DEF Inv, DbOk
<1>12. ASSUME NEW id \in Id, id # t PROVE RowOk(id)'
  <2>1. \A kinds : ~About(c, kinds, id)
    BY <1>12 DEF About
  <2>2. /\ positions'[id].exists <=> positions[id].exists
        /\ positions[id].exists =>
              /\ positions'[id].owner = positions[id].owner
              /\ positions'[id].lockupEnd = positions[id].lockupEnd
              /\ positions'[id].usdc = positions[id].usdc + f
    BY <1>9, <1>10, <1>12, ScaledRows
  <2>3. ExistsOk(id)' /\ OwnerOk(id)' /\ LockupOk(id)'
    BY <1>1, <2>1, <2>2, Kept
  <2>4. ValueOk(id)'
    BY <1>1, <1>2, <2>1, <2>2, KeptValue
  <2> QED
    BY <2>3, <2>4 DEF RowOk
<1>13. ExistsOk(t)' /\ OwnerOk(t)'
  <2>1. ~About(c, {"mint", "burn"}, t) /\ ~About(c, {"mint", "burn", "transfer"}, t)
    BY <1>1 DEF About
  <2> QED
    BY <1>1, <1>3, <1>10, <2>1, Kept
\* From a block of the range to the one of the restake nothing else is restaked.
<1>14. ASSUME NEW b \in lastBlock - 1 .. End, At(b)[t].exists, n <= b
       PROVE  At(b)[t].lockupEnd = At(n)[t].lockupEnd /\ At(b)[t].share = At(n)[t].share
  <2>1. b \in n..head
    BY <1>3, <1>5, <1>14
  <2>2. ASSUME NEW j \in n + 1 .. b
        PROVE  ~Is({"restaked", "arb_restaked"}, t, j) /\ ~Is({"arb_restaked"}, t, j)
    <3>1. j \in lastBlock..End /\ j # n
      BY <1>3, <1>5
    <3> QED
      BY <1>1, <1>3, <3>1, LocksSeen
  <2> QED
    BY <1>3, <1>5, <1>6, <1>14, <2>1, <2>2, Quiet DEF Inv
<1>15. LockupOk(t)'
  <2>1. ASSUME NEW b \in lastBlock - 1 .. End, At(b)[t].exists,
               Seen({"restaked", "arb_restaked"}, t, b)'
        PROVE  At(b)[t].lockupEnd = At(n)[t].lockupEnd
    <3>1. n <= b
      BY <1>1, <2>1, LocksSeen
    <3> QED
      BY <1>14, <2>1, <3>1
  <2> QED
    BY <1>4, <1>10, <2>1 DEF LockupOk
<1>16. ValueOk(t)'
  <2>1. ASSUME NEW b \in lastBlock - 1 .. End, At(b)[t].exists, Seen({"arb_restaked"}, t, b)'
        PROVE  At(b)[t].share = At(n)[t].share
    <3>1. CASE n <= b
      BY <1>14, <2>1, <3>1
    <3>2. CASE ~(n <= b)
      <4>1. c.event.kind # "arb_restaked"
        BY <1>1, <2>1, <3>2, LocksSeen
      <4>2. b \in 0..head /\ n \in b..head
        BY <1>3, <1>5, <3>2
      <4>3. \A j \in b + 1 .. n : ~Is({"arb_restaked"}, t, j)
        <5> SUFFICES ASSUME NEW j \in b + 1 .. n PROVE ~Is({"arb_restaked"}, t, j)
          OBVIOUS
        <5>1. j \in lastBlock..End
          BY <1>3, <1>5, <4>2
        <5>2. CASE j = n
          BY <1>3, <4>1, <5>2
        <5>3. CASE j # n
          BY <1>1, <1>3, <5>1, <5>3, LocksSeen
        <5> QED
          BY <5>2, <5>3
      <4> QED
        BY <1>3, <1>6, <2>1, <4>2, <4>3, Quiet DEF Inv
    <3> QED
      BY <3>1, <3>2
  <2> QED
    BY <1>4, <1>9, <1>10, <2>1 DEF ValueOk
<1> QED
  BY <1>4, <1>11, <1>12, <1>13, <1>15, <1>16 DEF Inv, RowOk

\* The reset of an interval scales every row and notes the block it ran at.
LEMMA IntervalKeeps ==
    ASSUME Inv, NEW c \in calls, IntervalReset(c)
    PROVE  Inv'
<1> DEFINE n == c.block
<1>1. First(c) /\ c.event.kind = "interval" /\ Return(c) /\ lastRun' = n
  BY DEF IntervalReset, Handles
<1>2. PICK f \in FactorsAfter(n) : Reset(n, f) /\ positions' = Scaled(f)
  BY DEF IntervalReset
<1>3. ChainOk' /\ CallsOk'
  BY <1>1, FirstHandled
<1>4. f \in Int /\ n \in Height
  <2>1. n \in 1..head /\ head <= MaxBlock /\ head \in Nat /\ MaxBlock \in Nat
    BY CallFacts, RangeBounds
  <2> QED
    BY <1>2, <2>1, FactorTyped DEF Height
<1>5. DbOk'
  BY <1>1, <1>2, <1>4, ScaledRows, ResetDb
<1>6. ASSUME NEW id \in Id PROVE RowOk(id)'
  <2>1. \A kinds : ~About(c, kinds, id)
    BY <1>1 DEF About
  <2>2. /\ positions'[id].exists <=> positions[id].exists
        /\ positions[id].exists =>
              /\ positions'[id].owner = positions[id].owner
              /\ positions'[id].lockupEnd = positions[id].lockupEnd
              /\ positions'[id].usdc = positions[id].usdc + f
    BY <1>2, <1>4, ScaledRows
  <2>3. ExistsOk(id)' /\ OwnerOk(id)' /\ LockupOk(id)'
    BY <1>1, <2>1, <2>2, Kept
  <2>4. ValueOk(id)'
    BY <1>1, <1>2, <2>1, <2>2, KeptValue
  <2> QED
    BY <2>3, <2>4 DEF RowOk
<1> QED
  BY <1>3, <1>5, <1>6 DEF Inv

-----------------------------------------------------------------------------
(* The theorems.                                                           *)

\* The deployed contract and the empty database satisfy the invariant.
LEMMA InitInv == Init => Inv
<1> SUFFICES ASSUME Init PROVE Inv
  OBVIOUS
<1>1. /\ events = <<>> /\ book = <<>> /\ head = 0 /\ lastBlock = 1 /\ rangeEnd = 0 /\ End = 0
      /\ calls = {} /\ positions = [id \in Id |-> NoRow] /\ NoRow.exists = FALSE
      /\ MaxBlock \in Nat
  BY LedgerAssumption DEF Init, head, End, NoRow
<1>2. ChainOk
  BY <1>1 DEF ChainOk
<1>3. CallsOk
  BY <1>1 DEF CallsOk
<1>4. DbOk
  <2>1. positions \in [Id -> {NoRow} \cup Row]
    BY <1>1
  <2>2. factor = 0 /\ metaBlock \in Height /\ lastTime \in Height /\ lastRun \in Height
    BY <1>1 DEF Init, Height
  <2>3. \A id \in Id : ~positions[id].exists
    BY <1>1
  <2>4. anchorMissing \in BOOLEAN /\ anchorAhead \in BOOLEAN
    BY DEF Init
  <2> QED
    BY <2>1, <2>2, <2>3, <2>4 DEF DbOk
<1>5. ASSUME NEW id \in Id PROVE RowOk(id)
  BY <1>1 DEF RowOk, ExistsOk, OwnerOk, LockupOk, ValueOk, At
<1> QED
  BY <1>2, <1>3, <1>4, <1>5 DEF Inv

\* Every step keeps the invariant.
LEMMA NextInv == Inv /\ [Next]_vars => Inv'
<1> SUFFICES ASSUME Inv, [Next]_vars PROVE Inv'
  OBVIOUS
<1>1. CASE Contract
  BY <1>1, ContractKeeps
<1>2. ASSUME NEW end \in Block, TakeRange(end) PROVE Inv'
  BY <1>2, TakeRangeKeeps
<1>3. ASSUME NEW c \in calls,
             HandleMint(c) \/ HandleTransfer(c) \/ HandleBurn(c) \/ HandleRestaked(c)
                \/ IntervalReset(c)
      PROVE  Inv'
  BY <1>3, MintKeeps, TransferKeeps, BurnKeeps, RestakedKeeps, IntervalKeeps
<1>4. CASE CommitRange
  BY <1>4, CommitRangeKeeps
<1>5. CASE UNCHANGED vars
  <2>1. UNCHANGED <<events, book, positions, factor, metaBlock, lastTime, lastBlock, lastRun,
                    rangeEnd, calls, anchorMissing, anchorAhead>>
    BY <1>5 DEF vars, chainVars, dbVars, rangeVars, historyVars
  <2>2. /\ ChainOk' /\ head' = head /\ \A b : At(b)' = At(b)
        /\ \A kinds, id, b : Is(kinds, id, b)' = Is(kinds, id, b)
    BY <2>1, SameChain DEF Inv
  <2>3. End' = End /\ \A b : CallOf(b)' = CallOf(b) /\ Left(b)' = Left(b)
    BY <2>1 DEF End, CallOf, Left
  <2>4. \A kinds, id, b : Seen(kinds, id, b)' = Seen(kinds, id, b)
    BY <2>1, <2>2, <2>3 DEF Seen
  <2>5. CallsOk'
    BY <2>1, <2>2, <2>3 DEF Inv, CallsOk, IsReset, Precedes, Rank
  <2>6. DbOk'
    BY <2>1 DEF Inv, DbOk
  <2>7. ASSUME NEW id \in Id PROVE RowOk(id)'
    BY <2>1, <2>2, <2>3, <2>4 DEF Inv, RowOk, ExistsOk, OwnerOk, LockupOk, ValueOk
  <2> QED
    BY <2>2, <2>5, <2>6, <2>7 DEF Inv
<1> QED
  BY <1>1, <1>2, <1>3, <1>4, <1>5 DEF Next, Indexer

\* The inductive invariant.
LEMMA AlwaysInv == Spec => []Inv
<1> QED
  BY InitInv, NextInv, PTL DEF Spec

\* A row has every column a reader asks for, with an owner that is an account and
\* not the zero address, and the numbers the indexer keeps are those of blocks.
THEOREM TypesHold == Spec => []TypeOK
<1>1. Inv => TypeOK
  <2> SUFFICES ASSUME Inv PROVE TypeOK
    OBVIOUS
  <2>1. ASSUME NEW id \in Id, positions[id].exists
        PROVE  /\ positions[id].usdc \in Int /\ positions[id].owner \in Owner
               /\ positions[id].lockupEnd \in Nat /\ positions[id].restakeCount \in Nat
    BY <2>1, TableRows
  <2>2. /\ head \in 0..MaxBlock /\ Len(book) = head
        /\ lastBlock \in 1 .. MaxBlock + 1 /\ rangeEnd \in 0..MaxBlock
    BY RangeBounds DEF Inv, ChainOk
  <2>3. factor \in Int
    BY DEF Inv, DbOk
  <2> QED
    BY <2>1, <2>2, <2>3 DEF TypeOK, Inv, DbOk, Height
<1> QED
  BY <1>1, AlwaysInv, PTL

\* The position and the rows between ranges: all events are handled.
LEMMA BetweenRanges ==
    ASSUME Inv, Committed, NEW id \in Id
    PROVE  /\ Indexed = At(End) /\ End \in lastBlock - 1 .. End
           /\ \A kinds : Seen(kinds, id, End)
<1>1. rangeEnd = 0 /\ lastBlock > 1 /\ End = lastBlock - 1 /\ lastBlock \in Nat
  BY RangeBounds DEF Committed, End
<1>2. Indexed = At(End)
  BY <1>1 DEF Indexed, At
<1>3. \A kinds : Seen(kinds, id, End)
  BY <1>1 DEF Seen
<1> QED
  BY <1>1, <1>2, <1>3

\* Whatever the order in which a range's events are handled and wherever the
\* ranges are cut, the committed table holds the contract's positions with their
\* owners and lockups (indexer.py:443-466, 515-523).
THEOREM TableHolds == Spec => []TableMatchesContract
<1>1. Inv => TableMatchesContract
  <2> SUFFICES ASSUME Inv, Committed, NEW id \in Id
               PROVE  /\ positions[id].exists <=> Indexed[id].exists
                      /\ positions[id].exists =>
                            /\ positions[id].owner = Indexed[id].owner
                            /\ positions[id].lockupEnd = Indexed[id].lockupEnd
    BY DEF TableMatchesContract
  <2>1. /\ Indexed = At(End) /\ End \in lastBlock - 1 .. End
        /\ \A kinds : Seen(kinds, id, End)
    BY BetweenRanges
  <2>2. RowOk(id)
    BY DEF Inv
  <2>3. positions[id].exists <=> Indexed[id].exists
    BY <2>1, <2>2 DEF RowOk, ExistsOk
  <2> QED
    BY <2>1, <2>2, <2>3 DEF RowOk, OwnerOk, LockupOk
<1> QED
  BY <1>1, AlwaysInv, PTL

\* For every price, every choice among equal anchors and every cut into ranges:
\* multiplying all rows by the growth of one keeps every row exact at the height
\* of staking_positions_meta, unless an update had no anchor, or one that had
\* been restaked later (indexer.py:106-161, 343-374).
THEOREM ValuesHold == Spec => []ValuesStayExact
<1>1. Inv => ValuesStayExact
  <2> SUFFICES ASSUME Inv, Committed, ~anchorMissing, ~anchorAhead,
                      NEW id \in Id, positions[id].exists
               PROVE  positions[id].usdc = Indexed[id].share + Price[metaBlock]
    BY DEF ValuesStayExact, AtMetaHeight, Rows
  <2>1. /\ Indexed = At(End) /\ End \in lastBlock - 1 .. End
        /\ \A kinds : Seen(kinds, id, End)
    BY BetweenRanges
  <2>2. RowOk(id)
    BY DEF Inv
  <2>3. At(End)[id].exists
    BY <2>1, <2>2 DEF RowOk, ExistsOk
  <2> QED
    BY <2>1, <2>2, <2>3 DEF RowOk, ValueOk
<1> QED
  BY <1>1, AlwaysInv, PTL
=============================================================================
