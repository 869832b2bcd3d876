-------------------------- MODULE Dependents_proof --------------------------
(***************************************************************************)
(* Theorems about Dependents.  First, what imports can do to the table of  *)
(* airdrops, whatever the indexer does meanwhile.  Then, what the indexer  *)
(* does to all tables, however the blocks fall into ranges and however     *)
(* often a range is rolled back and taken again.  Last, that nothing of    *)
(* this shows in the order in which the states of a claim are listed.      *)
(***************************************************************************)
EXTENDS Dependents, FiniteSetTheorems, SequenceTheorems, NatLemmas

\* The variables of the imports have their types.
ImportTypeOK ==
    /\ airdrops \in [Distributor -> Nat]
    /\ running \subseteq Importer
    /\ pending \in [Importer -> SUBSET Distributor]
    /\ overlapped \in BOOLEAN

\* As long as no import began while another was running, at most one is, and it
\* is about to insert only rows that are not there.
ImportInv ==
    ~overlapped =>
        /\ \A i, j \in running : i = j
        /\ \A i \in running : \A d \in pending[i] : airdrops[d] = 0
        /\ \A d \in Distributor : airdrops[d] <= 1

IInv == ImportTypeOK /\ ImportInv

\* Every step but those of imports leaves their variables alone.
LEMMA OnlyImportsImport ==
    ASSUME Next, ~(\E i \in Importer : BeginImport(i) \/ CommitImport(i))
    PROVE  UNCHANGED importVars
<1>1. CASE Contracts
  BY <1>1 DEF Contracts, AddProtocol, StartClaim, ChangeStatus, PayOut, Buy, ClaimFundraise,
              ClaimAirdrop, Emits, Mined
<1>2. CASE Indexer
  BY <1>2 DEF Indexer, TakeRange, CommitRange, Abort, Return, HandleProtocolAdded,
              HandleClaimCreated, HandleClaimStatusChanged, HandleClaimPayout,
              HandlePurchase, HandleClaim, HandleClaimed
<1> QED BY <1>1, <1>2 DEF Next

\* An import that begins keeps the invariant: it looks at what is there.
LEMMA BeginKeeps ==
    ASSUME IInv, NEW i \in Importer, BeginImport(i)
    PROVE  IInv'
<1>1. PICK d \in Distributor : pending' = [pending EXCEPT ![i] = Missing(d)]
  BY DEF BeginImport
<1>2. Missing(d) \subseteq Distributor /\ \A e \in Missing(d) : airdrops[e] = 0
  BY DEF Missing
<1>3. ImportTypeOK'
  BY <1>1, <1>2 DEF BeginImport, IInv, ImportTypeOK
<1>4. ImportInv'
  <2> SUFFICES ASSUME ~overlapped' PROVE ImportInv'
    BY DEF ImportInv
  <2>1. ~overlapped /\ running = {}
    BY DEF BeginImport, IInv, ImportTypeOK
  <2>2. running' = {i} /\ airdrops' = airdrops
    BY <2>1 DEF BeginImport
  <2>3. pending'[i] = Missing(d)
    BY <1>1 DEF IInv, ImportTypeOK
  <2> QED BY <2>1, <2>2, <2>3, <1>2 DEF IInv, ImportInv
<1> QED BY <1>3, <1>4 DEF IInv

\* An import that commits keeps the invariant: nobody inserted a row meanwhile.
LEMMA CommitKeeps ==
    ASSUME IInv, NEW i \in Importer, CommitImport(i)
    PROVE  IInv'
<1>1. airdrops' = [d \in Distributor |->
                      IF d \in pending[i] THEN airdrops[d] + 1 ELSE airdrops[d]]
  BY DEF CommitImport
<1>2. ImportTypeOK'
  BY <1>1 DEF CommitImport, IInv, ImportTypeOK
<1>3. ImportInv'
  <2> SUFFICES ASSUME ~overlapped' PROVE ImportInv'
    BY DEF ImportInv
  <2>1. ~overlapped /\ i \in running
    BY DEF CommitImport
  <2>2. running' = {}
    BY <2>1 DEF CommitImport, IInv, ImportInv
  <2>3. \A d \in Distributor : airdrops'[d] <= 1
    BY <1>1, <2>1 DEF IInv, ImportTypeOK, ImportInv
  <2> QED BY <2>2, <2>3 DEF ImportInv
<1> QED BY <1>2, <1>3 DEF IInv

\* The invariant of the imports holds in every state.
THEOREM ImportInvariance == Spec => []IInv
<1>1. Init => IInv
  <2> SUFFICES ASSUME Init PROVE IInv
    OBVIOUS
  <2>1. airdrops = [d \in Distributor |-> 0] /\ running = {} /\ overlapped = FALSE
        /\ pending = [i \in Importer |-> {}]
    BY DEF Init
  <2>2. ImportTypeOK
    BY <2>1 DEF ImportTypeOK
  <2>3. ImportInv
    BY <2>1 DEF ImportInv
  <2> QED BY <2>2, <2>3 DEF IInv
<1>2. IInv /\ [Next]_vars => IInv'
  <2> SUFFICES ASSUME IInv, [Next]_vars PROVE IInv'
    OBVIOUS
  <2>1. CASE \E i \in Importer : BeginImport(i) \/ CommitImport(i)
    BY <2>1, BeginKeeps, CommitKeeps
  <2>2. CASE UNCHANGED importVars
    BY <2>2 DEF importVars, IInv, ImportTypeOK, ImportInv
  <2>3. UNCHANGED vars => UNCHANGED importVars
    BY DEF vars
  <2> QED BY <2>1, <2>2, <2>3, OnlyImportsImport
<1> QED BY <1>1, <1>2, PTL DEF Spec

\* A row of airdrops is there twice only when two imports ran at once, whatever
\* is imported again and again one after the other (airdrop.py:30-47).
THEOREM DuplicatesNeedOverlap == Spec => []DuplicatesFromOverlapOnly
<1>1. IInv => DuplicatesFromOverlapOnly
  BY DEF IInv, ImportTypeOK, ImportInv, DuplicatesFromOverlapOnly
<1> QED BY <1>1, ImportInvariance, PTL

-----------------------------------------------------------------------------
(* The chain: what must have been emitted before an event.                 *)

EventSet ==
    {ProtocolAdded}
    \cup {ClaimCreated(c) : c \in ClaimId}
    \cup {StatusChanged(c, s) : c \in ClaimId, s \in Status \cup {NonExistent}}
    \cup {ClaimPayout(c) : c \in ClaimId}
    \cup {Purchase(u) : u \in Buyer} \cup {FundraiseClaim(u) : u \in Buyer}
    \cup {AirdropClaim(d) : d \in Distributor}

\* What event i of block b tells of the blocks up to b.
Told(b, i) ==
    \A e \in EventSet : e = events[b][i] =>
        /\ e.class = "ClaimCreated" => Emitted(ProtocolAdded, b)
        /\ e.class \in {"ClaimStatusChanged", "ClaimPayout"} => Emitted(ClaimCreated(e.claim), b)
        /\ e.class = "Claim" => Emitted(Purchase(e.buyer), b)
        /\ e.class = "Purchase" => DOMAIN events[b] = {1}
        /\ e.class = "Claimed" => ~Emitted(e, b - 1)

ChainOk ==
    /\ events \in Seq(Seq(EventSet)) /\ head <= MaxBlock
    /\ \A b \in 1..head : \A i \in DOMAIN events[b] : Told(b, i)

\* The fields of an event.
LEMMA EventFields ==
    ASSUME NEW e \in EventSet
    PROVE  /\ e.class \in {"ProtocolAdded", "ClaimCreated", "ClaimStatusChanged", "ClaimPayout",
                           "Purchase", "Claim", "Claimed"}
           /\ e.class = "ProtocolAdded" <=> e = ProtocolAdded
           /\ e.class = "ClaimCreated" => e.claim \in ClaimId /\ e = ClaimCreated(e.claim)
           /\ e.class = "ClaimStatusChanged" =>
                 e.claim \in ClaimId /\ e.state \in Status \cup {NonExistent}
           /\ e.class = "ClaimPayout" => e.claim \in ClaimId
           /\ e.class = "Purchase" => e.buyer \in Buyer /\ e = Purchase(e.buyer)
           /\ e.class = "Claim" => e.buyer \in Buyer /\ e = FundraiseClaim(e.buyer)
           /\ e.class = "Claimed" => e.distributor \in Distributor /\ e = AirdropClaim(e.distributor)
BY DEF EventSet, ProtocolAdded, ClaimCreated, StatusChanged, ClaimPayout, Purchase,
       FundraiseClaim, AirdropClaim

\* The events are different ones.
LEMMA EventsDiffer ==
    ASSUME NEW x, NEW y
    PROVE  /\ ProtocolAdded.class = "ProtocolAdded" /\ ClaimCreated(x).class = "ClaimCreated"
           /\ ClaimPayout(x).class = "ClaimPayout" /\ StatusChanged(x, y).class = "ClaimStatusChanged"
           /\ Purchase(x).class = "Purchase" /\ FundraiseClaim(x).class = "Claim"
           /\ AirdropClaim(x).class = "Claimed"
           /\ ClaimCreated(x) = ClaimCreated(y) => x = y
           /\ Purchase(x) = Purchase(y) => x = y
           /\ FundraiseClaim(x) = FundraiseClaim(y) => x = y
           /\ AirdropClaim(x) = AirdropClaim(y) => x = y
           /\ StatusChanged(x, y).claim = x /\ ClaimPayout(x).claim = x /\ StatusChanged(x, y).state = y
BY DEF ProtocolAdded, ClaimCreated, StatusChanged, ClaimPayout, Purchase,
       FundraiseClaim, AirdropClaim

\* The blocks.
LEMMA Blocks ==
    ASSUME ChainOk
    PROVE  /\ head \in Nat /\ DOMAIN events = 1..head
           /\ \A b \in 1..head : /\ events[b] \in Seq(EventSet) /\ b \in Block /\ b \in Nat
                                 /\ \A i \in DOMAIN events[b] : events[b][i] \in EventSet
BY DependentsAssumption DEF ChainOk, head, Block

\* What was emitted stays emitted.
LEMMA EmittedUpTo ==
    ASSUME NEW e, NEW a \in Nat, NEW b \in Nat, a <= b, Emitted(e, a)
    PROVE  Emitted(e, b)
BY DEF Emitted

\* What a block has to tell.
Says(es, i) ==
    \A e \in EventSet : e = es[i] =>
        /\ e.class = "ClaimCreated" => Emitted(ProtocolAdded, head)
        /\ e.class \in {"ClaimStatusChanged", "ClaimPayout"} =>
              Emitted(ClaimCreated(e.claim), head) \/ ClaimCreated(e.claim) \in Range(es)
        /\ e.class = "Claim" => Emitted(Purchase(e.buyer), head)
        /\ e.class = "Purchase" => DOMAIN es = {1}
        /\ e.class = "Claimed" => ~Emitted(e, head)

\* A block that tells it leaves the chain as it was, and one block longer.
LEMMA MinedKeeps ==
    ASSUME ChainOk, NEW es \in Seq(EventSet), Mined(es), \A i \in DOMAIN es : Says(es, i)
    PROVE  /\ ChainOk' /\ head' = head + 1 /\ \A b \in 1..head : events'[b] = events[b]
           /\ UNCHANGED <<indexerVars, importVars>>
<1>1. /\ events' = Append(events, es) /\ events \in Seq(Seq(EventSet)) /\ head \in Nat
      /\ head < MaxBlock /\ MaxBlock \in Nat /\ UNCHANGED <<indexerVars, importVars>>
  BY DependentsAssumption DEF Mined, ChainOk, head
<1>2. PICK n \in Nat : n = head + 1
  BY <1>1
<1>3. /\ events' \in Seq(Seq(EventSet)) /\ head' = n /\ events'[n] = es
      /\ \A b \in 1..head : events'[b] = events[b]
  BY <1>1, <1>2 DEF head
<1>4. n = head + 1 /\ head \in Nat /\ head < MaxBlock /\ MaxBlock \in Nat
  BY <1>1, <1>2
<1>5. ASSUME NEW b \in 0..head, NEW e PROVE Emitted(e, b)' <=> Emitted(e, b)
  <2>1. ASSUME NEW i \in 1..b PROVE events'[i] = events[i]
    <3>1. i \in 1..head
      BY <1>4
    <3> QED
      BY <1>3, <3>1
  <2> QED
    BY <2>1 DEF Emitted
<1>6. ASSUME NEW e PROVE Emitted(e, head) => Emitted(e, n)'
  <2>1. ASSUME NEW i \in 1..head PROVE i \in 1..n /\ events'[i] = events[i]
    <3>1. i \in 1..n
      BY <1>4
    <3> QED
      BY <1>3, <3>1
  <2> QED
    BY <2>1 DEF Emitted
<1>7. ASSUME NEW e \in Range(es) PROVE Emitted(e, n)'
  <2>1. n \in 1..n /\ events'[n] = es
    BY <1>3, <1>4
  <2> QED
    BY <2>1 DEF Emitted
<1>8. ASSUME NEW b \in 1..head, NEW i \in DOMAIN events[b] PROVE Told(b, i)'
  <2>1. b \in 0..head /\ b - 1 \in 0..head
    BY <1>4
  <2>2. Told(b, i) /\ events'[b] = events[b]
    BY <1>3 DEF ChainOk
  <2> QED
    BY <1>5, <2>1, <2>2 DEF Told
<1>9. ASSUME NEW i \in DOMAIN es PROVE Told(n, i)'
  <2>1. Says(es, i) /\ events'[n] = es
    BY <1>3
  <2>2. PICK h \in 0..head : h = n - 1 /\ h = head
    BY <1>4
  <2>3. \A e : Emitted(e, h)' <=> Emitted(e, h)
    BY <1>5
  <2>4. \A e : Emitted(e, n - 1)' <=> Emitted(e, head)
    BY <2>2, <2>3
  <2> QED
    BY <1>6, <1>7, <2>1, <2>4 DEF Told, Says
<1>10. ASSUME NEW b \in 1..n, NEW i \in DOMAIN events'[b] PROVE Told(b, i)'
  <2>1. CASE b \in 1..head
    BY <1>3, <1>8, <2>1
  <2>2. CASE b = n
    BY <1>3, <1>9, <2>2
  <2>3. b \in 1..head \/ b = n
    BY <1>4
  <2> QED
    BY <2>1, <2>2, <2>3
<1>11. head' = n /\ head' <= MaxBlock
  BY <1>3, <1>4
<1>12. ChainOk'
  BY <1>3, <1>10, <1>11 DEF ChainOk
<1> QED
  BY <1>1, <1>3, <1>4, <1>12

\* What a state of a claim tells: it was created.
LEMMA StateIsOfClaim ==
    ASSUME ChainOk, NEW c \in ClaimId, State(c) # NonExistent
    PROVE  Emitted(ClaimCreated(c), head)
<1>1. PICK b \in 1..head : \E i \in DOMAIN events[b] : Changes(b, i, c)
  <2> SUFFICES ASSUME {b \in 1..head : \E i \in DOMAIN events[b] : Changes(b, i, c)} = {}
               PROVE  FALSE
    OBVIOUS
  <2> QED
    BY DEF State
<1>2. PICK i \in DOMAIN events[b] : Changes(b, i, c)
  BY <1>1
<1>3. Told(b, i) /\ events[b][i] \in EventSet /\ head \in Nat /\ b \in Nat /\ b <= head
  BY Blocks DEF ChainOk
<1>4. Emitted(ClaimCreated(c), b)
  BY <1>2, <1>3 DEF Told, Changes
<1> QED
  BY <1>3, <1>4, EmittedUpTo

\* Every block of the contracts tells what it has to.
LEMMA ContractsKeep ==
    ASSUME ChainOk, Contracts
    PROVE  /\ ChainOk' /\ head' = head + 1 /\ \A b \in 1..head : events'[b] = events[b]
           /\ UNCHANGED <<indexerVars, importVars>>
<1> DEFINE Fits(es) == es \in Seq(EventSet) /\ Mined(es) /\ \A i \in DOMAIN es : Says(es, i)
<1>1. ASSUME AddProtocol PROVE \E es : Fits(es)
  <2>1. <<ProtocolAdded>> \in Seq(EventSet) /\ Mined(<<ProtocolAdded>>)
    BY <1>1 DEF AddProtocol, Emits, EventSet
  <2>2. ASSUME NEW i \in DOMAIN <<ProtocolAdded>> PROVE Says(<<ProtocolAdded>>, i)
    BY EventsDiffer DEF Says
  <2> QED
    BY <2>1, <2>2
<1>2. ASSUME NEW c \in ClaimId, StartClaim(c) PROVE \E es : Fits(es)
  <2> DEFINE es == <<ClaimCreated(c), StatusChanged(c, SpccPending)>>
  <2>1. ClaimCreated(c) \in EventSet /\ StatusChanged(c, SpccPending) \in EventSet
    BY DEF EventSet, Status
  <2>2. es \in Seq(EventSet) /\ Mined(es) /\ Emitted(ProtocolAdded, head)
    BY <1>2, <2>1 DEF StartClaim
  <2>3. ClaimCreated(c) \in Range(es) /\ DOMAIN es = {1, 2}
    BY DEF Range
  <2>4. ASSUME NEW i \in DOMAIN es PROVE Says(es, i)
    <3>1. es[i] = ClaimCreated(c) \/ es[i] = StatusChanged(c, SpccPending)
      BY <2>3
    <3> HIDE DEF es
    <3> QED
      BY <2>2, <2>3, <3>1, EventsDiffer DEF Says
  <2> QED
    BY <2>2, <2>4
<1>3. ASSUME NEW c \in ClaimId, ChangeStatus(c) PROVE \E es : Fits(es)
  <2>1. PICK states \in {<<SpccApproved>>, <<Cleaned>>, <<UmaPriceProposed, UmaPending>>} :
           Mined([i \in DOMAIN states |-> StatusChanged(c, states[i])])
    BY <1>3 DEF ChangeStatus, Emits
  <2> DEFINE es == [i \in DOMAIN states |-> StatusChanged(c, states[i])]
  <2>2. states \in Seq(Status)
    <3>1. {SpccApproved, Cleaned, UmaPriceProposed, UmaPending} \subseteq Status
      BY DEF Status
    <3>2. ASSUME states = <<SpccApproved>> PROVE states \in Seq(Status)
      BY <3>1, <3>2
    <3>3. ASSUME states = <<Cleaned>> PROVE states \in Seq(Status)
      BY <3>1, <3>3
    <3>4. ASSUME states = <<UmaPriceProposed, UmaPending>> PROVE states \in Seq(Status)
      BY <3>1, <3>4
    <3> QED
      BY <2>1, <3>2, <3>3, <3>4
  <2>3. ASSUME NEW x \in Status PROVE StatusChanged(c, x) \in EventSet
    BY DEF EventSet
  <2>4. es \in Seq(EventSet)
    BY <2>2, <2>3
  <2>5. Emitted(ClaimCreated(c), head)
    BY <1>3, StateIsOfClaim DEF ChangeStatus, SpccPending, NonExistent
  <2>6. ASSUME NEW i \in DOMAIN es PROVE Says(es, i)
    <3>1. es[i] = StatusChanged(c, states[i])
      OBVIOUS
    <3> HIDE DEF es
    <3> QED
      BY <2>5, <3>1, EventsDiffer DEF Says
  <2> QED
    BY <2>1, <2>4, <2>6
<1>4. ASSUME NEW c \in ClaimId, PayOut(c) PROVE \E es : Fits(es)
  <2> DEFINE es == <<StatusChanged(c, NonExistent), ClaimPayout(c)>>
  <2>1. StatusChanged(c, NonExistent) \in EventSet /\ ClaimPayout(c) \in EventSet
    BY DEF EventSet
  <2>2. es \in Seq(EventSet) /\ Mined(es)
    BY <1>4, <2>1 DEF PayOut, Emits
  <2>3. Emitted(ClaimCreated(c), head)
    BY <1>4, StateIsOfClaim DEF PayOut, SpccApproved, NonExistent
  <2>4. ASSUME NEW i \in DOMAIN es PROVE Says(es, i)
    <3>1. es[i] = StatusChanged(c, NonExistent) \/ es[i] = ClaimPayout(c)
      OBVIOUS
    <3> HIDE DEF es
    <3> QED
      BY <2>3, <3>1, EventsDiffer DEF Says
  <2> QED
    BY <2>2, <2>4
<1>5. ASSUME NEW u \in Buyer, Buy(u) PROVE \E es : Fits(es)
  <2>1. <<Purchase(u)>> \in Seq(EventSet) /\ Mined(<<Purchase(u)>>)
    BY <1>5 DEF Buy, Emits, EventSet
  <2>2. ASSUME NEW i \in DOMAIN <<Purchase(u)>> PROVE Says(<<Purchase(u)>>, i)
    BY EventsDiffer DEF Says
  <2> QED
    BY <2>1, <2>2
<1>6. ASSUME NEW u \in Buyer, ClaimFundraise(u) PROVE \E es : Fits(es)
  <2>1. /\ <<FundraiseClaim(u)>> \in Seq(EventSet) /\ Mined(<<FundraiseClaim(u)>>)
        /\ Emitted(Purchase(u), head) /\ FundraiseClaim(u).buyer = u
    BY <1>6 DEF ClaimFundraise, Emits, EventSet, FundraiseClaim
  <2>2. ASSUME NEW i \in DOMAIN <<FundraiseClaim(u)>> PROVE Says(<<FundraiseClaim(u)>>, i)
    BY <2>1, EventsDiffer DEF Says
  <2> QED
    BY <2>1, <2>2
<1>7. ASSUME NEW d \in Distributor, ClaimAirdrop(d) PROVE \E es : Fits(es)
  <2>1. /\ <<AirdropClaim(d)>> \in Seq(EventSet) /\ Mined(<<AirdropClaim(d)>>)
        /\ ~Emitted(AirdropClaim(d), head)
    BY <1>7 DEF ClaimAirdrop, Emits, EventSet
  <2>2. ASSUME NEW i \in DOMAIN <<AirdropClaim(d)>> PROVE Says(<<AirdropClaim(d)>>, i)
    BY <2>1, EventsDiffer DEF Says
  <2> QED
    BY <2>1, <2>2
<1>8. PICK es : Fits(es)
  BY <1>1, <1>2, <1>3, <1>4, <1>5, <1>6, <1>7 DEF Contracts
<1> QED
  BY <1>8, MinedKeeps

-----------------------------------------------------------------------------
(* The calls of a range.                                                   *)

\* The classes in their order.
LEMMA ClassesAre ==
    /\ Cardinality(Distributor) \in Nat
    /\ DOMAIN Classes = 1 .. 6 + Cardinality(Distributor)
    /\ Classes[1] = "Purchase" /\ Classes[2] = "ProtocolAdded" /\ Classes[3] = "ClaimCreated"
    /\ Classes[4] = "ClaimStatusChanged" /\ Classes[5] = "ClaimPayout" /\ Classes[6] = "Claim"
    /\ \A p \in DOMAIN Classes : p >= 7 => Classes[p] = "Claimed"
<1> DEFINE s == <<"Purchase", "ProtocolAdded", "ClaimCreated", "ClaimStatusChanged", "ClaimPayout",
                  "Claim">>
           Names == {"Purchase", "ProtocolAdded", "ClaimCreated", "ClaimStatusChanged",
                     "ClaimPayout", "Claim", "Claimed"}
           n == Cardinality(Distributor)
           t == [i \in 1..n |-> "Claimed"]
<1>1. n \in Nat
  BY DependentsAssumption, FS_CardinalityType
<1>2. /\ s \in Seq(Names) /\ Len(s) = 6 /\ s[1] = "Purchase" /\ s[2] = "ProtocolAdded"
      /\ s[3] = "ClaimCreated" /\ s[4] = "ClaimStatusChanged" /\ s[5] = "ClaimPayout"
      /\ s[6] = "Claim"
  OBVIOUS
<1>3. t \in Seq(Names) /\ Len(t) = n /\ \A i \in 1..n : t[i] = "Claimed"
  BY <1>1
<1>4. Classes = s \o t
  BY DEF Classes
<1> HIDE DEF s, t, n, Names
<1>5. /\ DOMAIN (s \o t) = 1 .. 6 + n
      /\ \A i \in 1 .. 6 + n : (s \o t)[i] = IF i <= 6 THEN s[i] ELSE t[i - 6]
  <2>1. /\ s \o t \in Seq(Names) /\ Len(s \o t) = Len(s) + Len(t)
        /\ \A i \in 1 .. Len(s) + Len(t) : (s \o t)[i] = IF i <= Len(s) THEN s[i] ELSE t[i - Len(s)]
    BY <1>2, <1>3, ConcatProperties
  <2>2. DOMAIN (s \o t) = 1 .. Len(s \o t)
    BY <2>1
  <2> QED
    BY <1>2, <1>3, <2>1, <2>2
<1>6. \A p \in 1 .. 6 + n : p >= 7 => p - 6 \in 1..n /\ ~(p <= 6)
  BY <1>1
<1>7. \A p \in DOMAIN Classes : p >= 7 => Classes[p] = "Claimed"
  BY <1>3, <1>4, <1>5, <1>6
<1>8. \A p \in 1..6 : Classes[p] = s[p]
  BY <1>1, <1>4, <1>5
<1> QED
  BY <1>1, <1>2, <1>4, <1>5, <1>7, <1>8 DEF n

\* The calls of the blocks first..end.
LEMMA RangeCallsAre ==
    ASSUME ChainOk, NEW first, NEW end, NEW c
    PROVE  c \in RangeCalls(first, end) <=>
              /\ c = [pass |-> c.pass, block |-> c.block, index |-> c.index]
              /\ c.pass \in DOMAIN Classes /\ c.block \in first..end
              /\ c.index \in DOMAIN events[c.block] /\ Event(c).class = Classes[c.pass]
<1>1. ASSUME NEW p PROVE c \in CallsOf(p, first, end) <=>
          \E b \in first..end : \E i \in DOMAIN events[b] :
              events[b][i].class = Classes[p] /\ c = [pass |-> p, block |-> b, index |-> i]
  BY DEF CallsOf
<1>2. c \in RangeCalls(first, end) <=> \E p \in DOMAIN Classes : c \in CallsOf(p, first, end)
  BY DEF RangeCalls
<1>3. ASSUME c \in RangeCalls(first, end)
      PROVE  /\ c = [pass |-> c.pass, block |-> c.block, index |-> c.index]
             /\ c.pass \in DOMAIN Classes /\ c.block \in first..end
             /\ c.index \in DOMAIN events[c.block] /\ Event(c).class = Classes[c.pass]
  <2>1. PICK p \in DOMAIN Classes, b \in first..end : \E i \in DOMAIN events[b] :
              events[b][i].class = Classes[p] /\ c = [pass |-> p, block |-> b, index |-> i]
    BY <1>1, <1>2, <1>3
  <2>2. PICK i \in DOMAIN events[b] :
              events[b][i].class = Classes[p] /\ c = [pass |-> p, block |-> b, index |-> i]
    BY <2>1
  <2>3. c.pass = p /\ c.block = b /\ c.index = i
    BY <2>2
  <2> HIDE DEF Classes
  <2> QED
    BY <2>2, <2>3 DEF Event
<1>4. ASSUME c = [pass |-> c.pass, block |-> c.block, index |-> c.index],
             c.pass \in DOMAIN Classes, c.block \in first..end,
             c.index \in DOMAIN events[c.block], Event(c).class = Classes[c.pass]
      PROVE  c \in RangeCalls(first, end)
  <2>1. c \in CallsOf(c.pass, first, end)
    BY <1>1, <1>4 DEF Event
  <2> QED
    BY <1>2, <1>4, <2>1
<1> QED
  BY <1>3, <1>4

\* The calls of blocks below the head, and their events.
LEMMA CallFields ==
    ASSUME ChainOk, NEW first \in Nat \ {0}, NEW end \in Nat, end <= head,
           NEW c \in RangeCalls(first, end)
    PROVE  /\ c.pass \in Nat /\ c.block \in Block /\ c.block \in Nat /\ c.block \in 1..head
           /\ first <= c.block /\ c.block <= end
           /\ c.index \in DOMAIN events[c.block] /\ c.index \in Nat /\ Event(c) \in EventSet
           /\ Event(c) = events[c.block][c.index] /\ Told(c.block, c.index)
           /\ Event(c).class = Classes[c.pass]
           /\ c = [pass |-> c.pass, block |-> c.block, index |-> c.index]
<1>1. /\ c = [pass |-> c.pass, block |-> c.block, index |-> c.index]
      /\ c.pass \in DOMAIN Classes /\ c.block \in first..end
      /\ c.index \in DOMAIN events[c.block] /\ Event(c).class = Classes[c.pass]
  BY RangeCallsAre
<1>2. c.block \in 1..head /\ c.block \in Nat /\ first <= c.block /\ c.block <= end
  BY <1>1, Blocks
<1>3. c.pass \in Nat
  BY <1>1, ClassesAre
<1>4. events[c.block] \in Seq(EventSet) /\ c.block \in Block
  BY <1>2, Blocks
<1>5. Told(c.block, c.index)
  BY <1>1, <1>2 DEF ChainOk
<1>6. c.index \in Nat /\ events[c.block][c.index] \in EventSet
  BY <1>1, <1>4
<1> QED
  BY <1>1, <1>2, <1>3, <1>4, <1>5, <1>6 DEF Event

\* The pass that an event is handled in.
LEMMA PassOf ==
    ASSUME NEW p \in DOMAIN Classes
    PROVE  /\ Classes[p] = "Purchase" <=> p = 1
           /\ Classes[p] = "ProtocolAdded" <=> p = 2
           /\ Classes[p] = "ClaimCreated" <=> p = 3
           /\ Classes[p] = "ClaimStatusChanged" <=> p = 4
           /\ Classes[p] = "ClaimPayout" <=> p = 5
           /\ Classes[p] = "Claim" <=> p = 6
           /\ Classes[p] = "Claimed" <=> p >= 7
<1>1. p = 1 \/ p = 2 \/ p = 3 \/ p = 4 \/ p = 5 \/ p = 6 \/ (p >= 7 /\ Classes[p] = "Claimed")
  BY ClassesAre
<1>2. p \in Nat
  BY ClassesAre
<1> QED
  BY <1>1, <1>2, ClassesAre

\* Every event is handled in some pass.
LEMMA SomePass ==
    ASSUME NEW e \in EventSet
    PROVE  \E p \in DOMAIN Classes : Classes[p] = e.class
<1>1. {1, 2, 3, 4, 5, 6} \subseteq DOMAIN Classes
  BY ClassesAre
<1>2. ASSUME e.class = "Claimed" PROVE 7 \in DOMAIN Classes /\ Classes[7] = "Claimed"
  <2>1. Distributor # {}
    BY <1>2, EventFields
  <2>2. Cardinality(Distributor) # 0
    BY <2>1, DependentsAssumption, FS_EmptySet
  <2>3. 7 \in DOMAIN Classes
    BY <2>2, ClassesAre
  <2> QED
    BY <2>3, ClassesAre
<1>3. e.class \in {"ProtocolAdded", "ClaimCreated", "ClaimStatusChanged", "ClaimPayout",
                   "Purchase", "Claim", "Claimed"}
  BY EventFields
<1> QED
  BY <1>1, <1>2, <1>3, ClassesAre

\* Blocks that stay have the same calls.
LEMMA SameCalls ==
    ASSUME ChainOk, \A b \in 1..head : events'[b] = events[b],
           NEW first \in Nat \ {0}, NEW end \in Nat, end <= head
    PROVE  /\ RangeCalls(first, end)' = RangeCalls(first, end)
           /\ \A c \in RangeCalls(first, end) : Event(c)' = Event(c)
<1>1. \A b \in first..end : events'[b] = events[b]
  <2> SUFFICES ASSUME NEW b \in first..end PROVE b \in 1..head
    OBVIOUS
  <2> QED
    BY Blocks
<1>2. ASSUME NEW p PROVE CallsOf(p, first, end)' = CallsOf(p, first, end)
  <2>1. ASSUME NEW c PROVE c \in CallsOf(p, first, end) <=>
            \E b \in first..end : \E i \in DOMAIN events[b] :
                events[b][i].class = Classes[p] /\ c = [pass |-> p, block |-> b, index |-> i]
    BY DEF CallsOf
  <2>2. ASSUME NEW c PROVE c \in CallsOf(p, first, end)' <=>
            \E b \in first..end : \E i \in DOMAIN events'[b] :
                events'[b][i].class = Classes[p] /\ c = [pass |-> p, block |-> b, index |-> i]
    BY DEF CallsOf
  <2> QED
    BY <1>1, <2>1, <2>2
<1>3. RangeCalls(first, end)' = RangeCalls(first, end)
  BY <1>2 DEF RangeCalls
<1>4. ASSUME NEW c \in RangeCalls(first, end) PROVE Event(c)' = Event(c)
  <2>1. c.block \in 1..head
    BY CallFields
  <2> QED
    BY <2>1 DEF Event
<1> QED
  BY <1>3, <1>4

-----------------------------------------------------------------------------
(* What the tables tell of the events that were handled.                   *)

\* Event e was emitted in block b.
At(e, b) == [event |-> e, block |-> b]

Happened(e, A) == \E b \in Block : At(e, b) \in A

Bought(u, A) == {b \in Block : At(Purchase(u), b) \in A}

\* The tables tell of the occurrences A, and of no others.
Tells(t, A) ==
    /\ t.protocol <=> Happened(ProtocolAdded, A)
    /\ \A k \in ClaimId : k \in t.claims <=> Happened(ClaimCreated(k), A)
    /\ \A u \in Buyer : t.positions[u].amount = Cardinality(Bought(u, A))
    /\ \A u \in Buyer : t.positions[u].claimedAt # 0 <=> Happened(FundraiseClaim(u), A)
    /\ \A d \in Distributor : \A b \in Block : t.claimedAt[d] = b <=> At(AirdropClaim(d), b) \in A

\* One occurrence more.
LEMMA OneMore ==
    ASSUME NEW A, NEW e, NEW b \in Block, NEW B, B = A \cup {At(e, b)}
    PROVE  /\ \A f : Happened(f, B) <=> Happened(f, A) \/ f = e
           /\ \A x : Purchase(x) # e => Bought(x, B) = Bought(x, A)
           /\ \A x : Purchase(x) = e => Bought(x, B) = Bought(x, A) \cup {b}
           /\ \A f : \A c : At(f, c) \in B <=> At(f, c) \in A \/ (f = e /\ c = b)
<1>1. \A f : \A c : At(f, c) = At(e, b) <=> f = e /\ c = b
  BY DEF At
<1>2. \A f : \A c : At(f, c) \in B <=> At(f, c) \in A \/ (f = e /\ c = b)
  BY <1>1
<1>3. ASSUME NEW f PROVE Happened(f, B) <=> Happened(f, A) \/ f = e
  BY <1>2 DEF Happened
<1>4. ASSUME NEW x PROVE Purchase(x) # e => Bought(x, B) = Bought(x, A)
  BY <1>2 DEF Bought
<1>5. ASSUME NEW x PROVE Purchase(x) = e => Bought(x, B) = Bought(x, A) \cup {b}
  BY <1>2 DEF Bought
<1> QED
  BY <1>2, <1>3, <1>4, <1>5

\* Tables u differ from t by what event e of block b says.
Differs(t, u, e, b) ==
    /\ u.protocol <=> t.protocol \/ e = ProtocolAdded
    /\ \A k \in ClaimId : k \in u.claims <=> k \in t.claims \/ e = ClaimCreated(k)
    /\ \A x \in Buyer : /\ e = Purchase(x) => u.positions[x].amount = t.positions[x].amount + 1
                        /\ e # Purchase(x) => u.positions[x].amount = t.positions[x].amount
    /\ \A x \in Buyer : u.positions[x].claimedAt # 0
                           <=> t.positions[x].claimedAt # 0 \/ e = FundraiseClaim(x)
    /\ \A d \in Distributor : \A c \in Block :
           u.claimedAt[d] = c <=> t.claimedAt[d] = c \/ (e = AirdropClaim(d) /\ c = b)

\* They tell of one occurrence more than t.
LEMMA TellsOneMore ==
    ASSUME NEW t, NEW u, NEW A, Tells(t, A), NEW b \in Block, NEW e, Differs(t, u, e, b),
           \A x \in Buyer : e = Purchase(x) => At(e, b) \notin A
    PROVE  Tells(u, A \cup {At(e, b)})
<1> DEFINE B == A \cup {At(e, b)}
<1>1. /\ \A f : Happened(f, B) <=> Happened(f, A) \/ f = e
      /\ \A x : Purchase(x) # e => Bought(x, B) = Bought(x, A)
      /\ \A x : Purchase(x) = e => Bought(x, B) = Bought(x, A) \cup {b}
      /\ \A f : \A c : At(f, c) \in B <=> At(f, c) \in A \/ (f = e /\ c = b)
  BY OneMore
<1> HIDE DEF B
<1>2. u.protocol <=> Happened(ProtocolAdded, B)
  BY <1>1 DEF Tells, Differs
<1>3. \A k \in ClaimId : k \in u.claims <=> Happened(ClaimCreated(k), B)
  BY <1>1 DEF Tells, Differs
<1>4. ASSUME NEW x \in Buyer PROVE u.positions[x].amount = Cardinality(Bought(x, B))
  <2>1. t.positions[x].amount = Cardinality(Bought(x, A))
    BY DEF Tells
  <2>2. ASSUME e = Purchase(x) PROVE Cardinality(Bought(x, B)) = Cardinality(Bought(x, A)) + 1
    <3>1. Bought(x, B) = Bought(x, A) \cup {b}
      BY <1>1, <2>2
    <3>2. b \notin Bought(x, A)
      BY <2>2 DEF Bought
    <3>3. IsFiniteSet(Bought(x, A))
      <4>1. Bought(x, A) \subseteq 1..MaxBlock
        BY DEF Bought, Block
      <4>2. IsFiniteSet(1..MaxBlock)
        BY DependentsAssumption, FS_Interval
      <4> QED
        BY <4>1, <4>2, FS_Subset
    <3> QED
      BY <3>1, <3>2, <3>3, FS_AddElement
  <2>3. ASSUME e = Purchase(x) PROVE u.positions[x].amount = t.positions[x].amount + 1
    BY <2>3 DEF Differs
  <2>4. ASSUME e # Purchase(x)
        PROVE  u.positions[x].amount = t.positions[x].amount /\ Bought(x, B) = Bought(x, A)
    BY <1>1, <2>4 DEF Differs
  <2> QED
    BY <2>1, <2>2, <2>3, <2>4
<1>5. \A x \in Buyer : u.positions[x].claimedAt # 0 <=> Happened(FundraiseClaim(x), B)
  BY <1>1 DEF Tells, Differs
<1>6. \A d \in Distributor : \A c \in Block : u.claimedAt[d] = c <=> At(AirdropClaim(d), c) \in B
  BY <1>1 DEF Tells, Differs
<1>7. Tells(u, B)
  BY <1>2, <1>3, <1>4, <1>5, <1>6 DEF Tells
<1> QED
  BY <1>7 DEF B

\* The class of an event tells which ones it is not.
LEMMA NotThese ==
    ASSUME NEW e
    PROVE  /\ e.class # "ProtocolAdded" => e # ProtocolAdded
           /\ e.class # "ClaimCreated" => \A k : e # ClaimCreated(k)
           /\ e.class # "Purchase" => \A x : e # Purchase(x)
           /\ e.class # "Claim" => \A x : e # FundraiseClaim(x)
           /\ e.class # "Claimed" => \A d : e # AirdropClaim(d)
BY EventsDiffer

\* The protocol.
LEMMA ProtocolTold ==
    ASSUME NEW t \in Tables, NEW A, Tells(t, A), NEW b \in Block, NEW u,
           u = [t EXCEPT !.protocol = TRUE]
    PROVE  u \in Tables /\ Tells(u, A \cup {At(ProtocolAdded, b)})
<1>1. /\ u \in Tables /\ u.protocol = TRUE /\ u.claims = t.claims /\ u.positions = t.positions
      /\ u.claimedAt = t.claimedAt
  BY DEF Tables
<1>2. ProtocolAdded.class = "ProtocolAdded"
  BY EventsDiffer
<1>3. /\ \A x : ProtocolAdded # ClaimCreated(x) /\ ProtocolAdded # Purchase(x)
      /\ \A x : ProtocolAdded # FundraiseClaim(x) /\ ProtocolAdded # AirdropClaim(x)
  BY <1>2, NotThese
<1>4. Differs(t, u, ProtocolAdded, b)
  BY <1>1, <1>3 DEF Differs
<1> QED
  BY <1>1, <1>3, <1>4, TellsOneMore

\* A claim.
LEMMA ClaimTold ==
    ASSUME NEW t \in Tables, NEW A, Tells(t, A), NEW b \in Block, NEW c \in ClaimId, NEW u,
           u = [t EXCEPT !.claims = @ \cup {c}]
    PROVE  u \in Tables /\ Tells(u, A \cup {At(ClaimCreated(c), b)})
<1>1. /\ u \in Tables /\ u.protocol = t.protocol /\ u.claims = t.claims \cup {c}
      /\ u.positions = t.positions /\ u.claimedAt = t.claimedAt
  BY DEF Tables
<1>2. PICK e : e = ClaimCreated(c)
  OBVIOUS
<1>3. e.class = "ClaimCreated" /\ \A k : e = ClaimCreated(k) <=> k = c
  BY <1>2, EventsDiffer
<1>4. /\ e # ProtocolAdded /\ \A x : e # Purchase(x) /\ e # FundraiseClaim(x)
      /\ \A d : e # AirdropClaim(d)
  BY <1>3, NotThese
<1>5. \A k \in ClaimId : k \in u.claims <=> k \in t.claims \/ e = ClaimCreated(k)
  BY <1>1, <1>3
<1>6. Differs(t, u, e, b)
  BY <1>1, <1>4, <1>5 DEF Differs
<1>7. Tells(u, A \cup {At(e, b)})
  BY <1>4, <1>6, TellsOneMore
<1> QED
  BY <1>1, <1>2, <1>7

\* A status, or none: nothing but the statuses tells of it.
LEMMA StatusTold ==
    ASSUME NEW t, NEW A, Tells(t, A), NEW b \in Block, NEW u,
           u.protocol = t.protocol, u.claims = t.claims, u.positions = t.positions,
           u.claimedAt = t.claimedAt,
           NEW e, e.class = "ClaimStatusChanged" \/ e.class = "ClaimPayout"
    PROVE  Tells(u, A \cup {At(e, b)})
<1>1. /\ e # ProtocolAdded /\ \A k : e # ClaimCreated(k)
      /\ \A x : e # Purchase(x) /\ e # FundraiseClaim(x) /\ \A d : e # AirdropClaim(d)
  BY NotThese
<1>2. Differs(t, u, e, b)
  BY <1>1 DEF Differs
<1> QED
  BY <1>1, <1>2, TellsOneMore

\* The other tables stay as they are when a status is stored.
LEMMA StatusStored ==
    ASSUME NEW t \in Tables, NEW rows \in Seq([claim : ClaimId, status : Status, timestamp : Block]),
           NEW u, u = [t EXCEPT !.statuses = rows]
    PROVE  /\ u \in Tables /\ u.protocol = t.protocol /\ u.claims = t.claims
           /\ u.positions = t.positions /\ u.claimedAt = t.claimedAt
BY DEF Tables

\* A purchase that was not handled before.
LEMMA PurchaseTold ==
    ASSUME NEW t \in Tables, NEW A, Tells(t, A), NEW b \in Block, NEW x \in Buyer, NEW u,
           At(Purchase(x), b) \notin A, u = [t EXCEPT !.positions[x].amount = Purchased(@)]
    PROVE  u \in Tables /\ Tells(u, A \cup {At(Purchase(x), b)})
<1> DEFINE p == [t.positions EXCEPT ![x].amount = Purchased(@)]
<1>1. t.positions \in [Buyer -> [amount : Nat, claimedAt : Block \cup {0}]]
  BY DEF Tables
<1>2. /\ p \in [Buyer -> [amount : Nat, claimedAt : Block \cup {0}]]
      /\ p[x].amount = t.positions[x].amount + 1
      /\ \A y \in Buyer : y # x => p[y].amount = t.positions[y].amount
      /\ \A y \in Buyer : p[y].claimedAt = t.positions[y].claimedAt
  BY <1>1 DEF Purchased
<1>3. u = [t EXCEPT !.positions = p]
  OBVIOUS
<1> HIDE DEF p
<1>4. /\ u \in Tables /\ u.protocol = t.protocol /\ u.claims = t.claims
      /\ u.positions = p /\ u.claimedAt = t.claimedAt
  BY <1>2, <1>3 DEF Tables
<1>5. PICK e : e = Purchase(x)
  OBVIOUS
<1>6. e.class = "Purchase" /\ \A y : e = Purchase(y) <=> y = x
  BY <1>5, EventsDiffer
<1>7. /\ e # ProtocolAdded /\ \A k : e # ClaimCreated(k) /\ e # FundraiseClaim(k)
      /\ \A d : e # AirdropClaim(d)
  BY <1>6, NotThese
<1>8. \A y \in Buyer : (e = Purchase(y) => u.positions[y].amount = t.positions[y].amount + 1)
                       /\ (e # Purchase(y) => u.positions[y].amount = t.positions[y].amount)
  BY <1>2, <1>4, <1>6
<1>9. Differs(t, u, e, b)
  BY <1>2, <1>4, <1>7, <1>8 DEF Differs
<1> QED
  BY <1>4, <1>5, <1>9, TellsOneMore

\* A claim of what was bought.
LEMMA FundraiseTold ==
    ASSUME NEW t \in Tables, NEW A, Tells(t, A), NEW b \in Block, NEW x \in Buyer, NEW u,
           u = [t EXCEPT !.positions[x].claimedAt = b]
    PROVE  u \in Tables /\ Tells(u, A \cup {At(FundraiseClaim(x), b)})
<1> DEFINE p == [t.positions EXCEPT ![x].claimedAt = b]
<1>1. t.positions \in [Buyer -> [amount : Nat, claimedAt : Block \cup {0}]]
  BY DEF Tables
<1>2. b # 0
  BY DependentsAssumption DEF Block
<1>3. /\ p \in [Buyer -> [amount : Nat, claimedAt : Block \cup {0}]]
      /\ p[x].claimedAt # 0
      /\ \A y \in Buyer : y # x => p[y].claimedAt = t.positions[y].claimedAt
      /\ \A y \in Buyer : p[y].amount = t.positions[y].amount
  BY <1>1, <1>2
<1>4. u = [t EXCEPT !.positions = p]
  OBVIOUS
<1> HIDE DEF p
<1>5. /\ u \in Tables /\ u.protocol = t.protocol /\ u.claims = t.claims
      /\ u.positions = p /\ u.claimedAt = t.claimedAt
  BY <1>3, <1>4 DEF Tables
<1>6. PICK e : e = FundraiseClaim(x)
  OBVIOUS
<1>7. e.class = "Claim" /\ \A y : e = FundraiseClaim(y) <=> y = x
  BY <1>6, EventsDiffer
<1>8. /\ e # ProtocolAdded /\ \A k : e # ClaimCreated(k) /\ e # Purchase(k)
      /\ \A d : e # AirdropClaim(d)
  BY <1>7, NotThese
<1>9. \A y \in Buyer : u.positions[y].claimedAt # 0
                          <=> t.positions[y].claimedAt # 0 \/ e = FundraiseClaim(y)
  BY <1>3, <1>5, <1>7
<1>10. \A y \in Buyer : u.positions[y].amount = t.positions[y].amount
  BY <1>3, <1>5
<1>11. Differs(t, u, e, b)
  BY <1>5, <1>8, <1>9, <1>10 DEF Differs
<1>12. Tells(u, A \cup {At(e, b)})
  BY <1>8, <1>11, TellsOneMore
<1> QED
  BY <1>5, <1>6, <1>12

\* A claim of an airdrop, whose occurrences are all in block b.
LEMMA AirdropTold ==
    ASSUME NEW t \in Tables, NEW A, Tells(t, A), NEW b \in Block, NEW d \in Distributor, NEW u,
           \A c \in Block : At(AirdropClaim(d), c) \in A => c = b,
           u = [t EXCEPT !.claimedAt = [t.claimedAt EXCEPT ![d] = b]]
    PROVE  u \in Tables /\ Tells(u, A \cup {At(AirdropClaim(d), b)})
<1> DEFINE q == [t.claimedAt EXCEPT ![d] = b]
<1>1. /\ q \in [Distributor -> Block \cup {0}] /\ q[d] = b
      /\ \A f \in Distributor : f # d => q[f] = t.claimedAt[f]
  BY DEF Tables
<1>2. u = [t EXCEPT !.claimedAt = q]
  OBVIOUS
<1> HIDE DEF q
<1>3. /\ u \in Tables /\ u.protocol = t.protocol /\ u.claims = t.claims
      /\ u.positions = t.positions /\ u.claimedAt = q
  BY <1>1, <1>2 DEF Tables
<1>4. PICK e : e = AirdropClaim(d)
  OBVIOUS
<1>5. e.class = "Claimed" /\ \A f : e = AirdropClaim(f) <=> f = d
  BY <1>4, EventsDiffer
<1>6. e # ProtocolAdded /\ \A k : e # ClaimCreated(k) /\ e # Purchase(k) /\ e # FundraiseClaim(k)
  BY <1>5, NotThese
<1>7. ASSUME NEW f \in Distributor, NEW c \in Block
      PROVE  u.claimedAt[f] = c <=> t.claimedAt[f] = c \/ (e = AirdropClaim(f) /\ c = b)
  <2>1. CASE f = d
    <3>1. u.claimedAt[f] = b /\ e = AirdropClaim(f)
      BY <1>1, <1>3, <1>4, <2>1
    <3>2. t.claimedAt[d] = c => c = b
      BY DEF Tells
    <3> QED
      BY <2>1, <3>1, <3>2
  <2>2. CASE f # d
    BY <1>1, <1>3, <1>5, <2>2
  <2> QED
    BY <2>1, <2>2
<1>8. \A f \in Distributor : \A c \in Block :
          u.claimedAt[f] = c <=> t.claimedAt[f] = c \/ (e = AirdropClaim(f) /\ c = b)
  BY <1>7
<1>9. Differs(t, u, e, b)
  BY <1>3, <1>6, <1>8 DEF Differs
<1>10. Tells(u, A \cup {At(e, b)})
  BY <1>6, <1>9, TellsOneMore
<1> QED
  BY <1>3, <1>4, <1>10

-----------------------------------------------------------------------------
(* The invariant of the indexer.                                           *)

\* The last block that the open transaction reaches.
End == IF rangeEnd = 0 THEN lastBlock - 1 ELSE rangeEnd

\* What the handler calls are about.
Occurrences(handled) == {At(Event(c), c.block) : c \in handled}

\* What the committed tables tell of, and what the open transaction does.
Stored == Occurrences(RangeCalls(1, lastBlock - 1))
Applied == Occurrences(RangeCalls(1, End) \ calls)

CallsOk ==
    /\ rangeEnd \in Nat /\ lastBlock \in Nat \ {0} /\ lastBlock <= End + 1 /\ End <= head
    /\ rangeEnd = 0 => calls = {} /\ tx = db
    /\ calls \subseteq RangeCalls(lastBlock, End)

TablesOk == db \in Tables /\ tx \in Tables /\ Tells(db, Stored) /\ Tells(tx, Applied)

IndexerInv == ChainOk /\ CallsOk /\ TablesOk

\* The numbers.
LEMMA Numbers ==
    ASSUME ChainOk, CallsOk
    PROVE  /\ rangeEnd \in Nat /\ lastBlock \in Nat \ {0} /\ lastBlock - 1 \in Nat /\ End \in Nat
           /\ lastBlock - 1 <= End /\ End <= head /\ head \in Nat /\ lastBlock - 1 <= head
           /\ MaxBlock \in Nat /\ head <= MaxBlock
BY Blocks, DependentsAssumption DEF CallsOk, End, ChainOk

\* A range is a part of what is up to its end.
LEMMA Parts ==
    ASSUME ChainOk, NEW f \in Nat \ {0}, NEW z \in Nat, z <= head, f <= z + 1
    PROVE  RangeCalls(1, z) \ RangeCalls(f, z) = RangeCalls(1, f - 1)
           /\ RangeCalls(f, z) \subseteq RangeCalls(1, z)
<1>1. \A n : n \in 1..z <=> n \in f..z \/ n \in 1 .. f - 1
  OBVIOUS
<1>2. \A n : ~(n \in f..z /\ n \in 1 .. f - 1)
  OBVIOUS
<1>3. ASSUME NEW c PROVE /\ c \in RangeCalls(1, z) <=> c \in RangeCalls(f, z) \/ c \in RangeCalls(1, f - 1)
                         /\ ~(c \in RangeCalls(f, z) /\ c \in RangeCalls(1, f - 1))
  BY <1>1, <1>2, RangeCallsAre
<1> QED
  BY <1>3

\* Blocks that stay hold the same.
LEMMA SameOccurrences ==
    ASSUME ChainOk, \A b \in 1..head : events'[b] = events[b],
           NEW m \in Nat, m <= head, NEW S
    PROVE  /\ Occurrences(RangeCalls(1, m))' = Occurrences(RangeCalls(1, m))
           /\ Occurrences(RangeCalls(1, m) \ S)' = Occurrences(RangeCalls(1, m) \ S)
<1>1. /\ RangeCalls(1, m)' = RangeCalls(1, m)
      /\ \A c \in RangeCalls(1, m) : Event(c)' = Event(c)
  BY SameCalls
<1> QED
  BY <1>1 DEF Occurrences

\* When the chain keeps its blocks, it is enough to look at the new range.
LEMMA TablesKept ==
    ASSUME ChainOk, \A b \in 1..head : events'[b] = events[b],
           NEW m \in Nat, m <= head, m = lastBlock' - 1, NEW z \in Nat, z <= head, z = End',
           db' \in Tables, tx' \in Tables, NEW S, S = calls',
           Tells(db', Occurrences(RangeCalls(1, m))),
           Tells(tx', Occurrences(RangeCalls(1, z) \ S))
    PROVE  TablesOk'
<1>1. Stored' = Occurrences(RangeCalls(1, m))
  BY SameOccurrences DEF Stored
<1>2. Applied' = Occurrences(RangeCalls(1, z) \ S)
  BY SameOccurrences DEF Applied
<1> QED
  BY <1>1, <1>2 DEF TablesOk, Tells

\* So it is for the calls that are left.
LEMMA CallsKept ==
    ASSUME ChainOk, \A b \in 1..head : events'[b] = events[b], head' \in Nat, head <= head',
           NEW f \in Nat \ {0}, f = lastBlock', NEW z \in Nat, z <= head, z = End', f <= z + 1,
           rangeEnd' \in Nat, NEW S, S = calls', S \subseteq RangeCalls(f, z),
           rangeEnd' = 0 => S = {} /\ tx' = db'
    PROVE  CallsOk'
<1>1. RangeCalls(lastBlock, End)' = RangeCalls(f, z)
  BY SameCalls
<1>2. lastBlock' \in Nat \ {0} /\ lastBlock' <= End' + 1
  OBVIOUS
<1>3. End' <= head'
  BY Blocks
<1> QED
  BY <1>1, <1>2, <1>3 DEF CallsOk

\* A chain that does not change stays as it is.
LEMMA ChainSame ==
    ASSUME ChainOk, UNCHANGED events
    PROVE  /\ ChainOk' /\ head' = head /\ head' \in Nat /\ head <= head'
           /\ \A b \in 1..head : events'[b] = events[b]
<1>1. head' = head /\ head \in Nat
  BY Blocks DEF head
<1>2. ASSUME NEW e, NEW n PROVE Emitted(e, n)' <=> Emitted(e, n)
  BY DEF Emitted
<1>3. ASSUME NEW b \in 1..head, NEW i \in DOMAIN events[b] PROVE Told(b, i)'
  <2>1. Told(b, i)
    BY DEF ChainOk
  <2> QED
    BY <1>2, <2>1 DEF Told
<1>4. ChainOk'
  BY <1>1, <1>3 DEF ChainOk
<1> QED
  BY <1>1, <1>4

\* Steps of others keep the invariant: the contracts only add blocks, imports do
\* not come near.
LEMMA OthersKeep ==
    ASSUME IndexerInv, ChainOk', \A b \in 1..head : events'[b] = events[b],
           head' \in Nat, head <= head', UNCHANGED indexerVars
    PROVE  IndexerInv'
<1>1. ChainOk /\ CallsOk /\ TablesOk
  BY DEF IndexerInv
<1>2. PICK m \in Nat, z \in Nat : m = lastBlock - 1 /\ z = End
  BY <1>1, Numbers
<1>3. PICK f \in Nat \ {0} : f = lastBlock
  BY <1>1, Numbers
<1>4. PICK S : S = calls
  OBVIOUS
<1>5. /\ m = lastBlock' - 1 /\ z = End' /\ m <= head /\ z <= head /\ f = lastBlock' /\ S = calls'
      /\ db' = db /\ tx' = tx /\ rangeEnd' = rangeEnd /\ f <= z + 1
  <2>1. UNCHANGED <<db, tx, rangeEnd, lastBlock, calls>>
    BY DEF indexerVars
  <2>2. End' = End
    BY <2>1 DEF End
  <2>3. f <= z + 1 /\ m <= head /\ z <= head
    BY <1>1, <1>2, <1>3, Numbers
  <2> QED
    BY <1>2, <1>3, <1>4, <2>1, <2>2, <2>3
<1>6. Stored = Occurrences(RangeCalls(1, m)) /\ Applied = Occurrences(RangeCalls(1, z) \ S)
  BY <1>2, <1>4 DEF Stored, Applied
<1>7. TablesOk'
  BY <1>1, <1>5, <1>6, TablesKept DEF TablesOk
<1>8. /\ S \subseteq RangeCalls(f, z) /\ rangeEnd' \in Nat
      /\ rangeEnd' = 0 => S = {} /\ tx' = db'
  BY <1>1, <1>2, <1>3, <1>5, <1>4 DEF CallsOk
<1>9. CallsOk'
  BY <1>1, <1>5, <1>8, CallsKept
<1> QED
  BY <1>7, <1>9 DEF IndexerInv

\* A range that is taken starts where the committed tables end.
LEMMA TakeKeeps ==
    ASSUME IndexerInv, NEW end \in Block, TakeRange(end)
    PROVE  IndexerInv'
<1>1. ChainOk /\ CallsOk /\ TablesOk
  BY DEF IndexerInv
<1>2. PICK m \in Nat : m = lastBlock - 1
  BY <1>1, Numbers
<1>3. PICK f \in Nat \ {0} : f = lastBlock
  BY <1>1, Numbers
<1>4. PICK S : S = RangeCalls(f, end)
  OBVIOUS
<1>5. /\ rangeEnd = 0 /\ f <= end /\ end <= head /\ rangeEnd' = end /\ calls' = S
      /\ UNCHANGED <<events, db, tx, lastBlock>>
  BY <1>3, <1>4 DEF TakeRange
<1>6. end \in Nat /\ end # 0 /\ m <= head /\ m = f - 1 /\ f <= end + 1 /\ f = lastBlock'
      /\ m = lastBlock' - 1
  BY <1>1, <1>2, <1>3, <1>5, Numbers DEF Block
<1>7. end = End'
  BY <1>5, <1>6 DEF End
<1>8. ChainOk' /\ head' \in Nat /\ head <= head' /\ \A b \in 1..head : events'[b] = events[b]
  BY <1>1, <1>5, ChainSame
<1>9. RangeCalls(1, end) \ S = RangeCalls(1, m)
  BY <1>1, <1>4, <1>5, <1>6, Parts
<1>10. db' \in Tables /\ tx' \in Tables /\ Tells(db', Occurrences(RangeCalls(1, m)))
  BY <1>1, <1>2, <1>5 DEF TablesOk, Stored
<1>11. tx' = db'
  BY <1>1, <1>5 DEF CallsOk
<1>12. Tells(tx', Occurrences(RangeCalls(1, end) \ S))
  BY <1>9, <1>10, <1>11
<1>13. TablesOk'
  BY <1>1, <1>5, <1>6, <1>7, <1>8, <1>10, <1>12, TablesKept
<1>14. rangeEnd' \in Nat /\ rangeEnd' # 0 /\ S \subseteq RangeCalls(f, end)
  BY <1>4, <1>5, <1>6
<1>15. CallsOk'
  BY <1>1, <1>5, <1>6, <1>7, <1>8, <1>14, CallsKept
<1> QED
  BY <1>8, <1>13, <1>15 DEF IndexerInv

\* A range is committed when all of its calls were made.
LEMMA CommitRangeKeeps ==
    ASSUME IndexerInv, CommitRange
    PROVE  IndexerInv'
<1>1. ChainOk /\ CallsOk /\ TablesOk
  BY DEF IndexerInv
<1>2. /\ rangeEnd # 0 /\ calls = {} /\ db' = tx /\ lastBlock' = rangeEnd + 1 /\ rangeEnd' = 0
      /\ UNCHANGED <<events, tx, calls>>
  BY DEF CommitRange
<1>3. PICK z \in Nat : z = rangeEnd
  BY <1>1, Numbers
<1>4. PICK f \in Nat \ {0} : f = z + 1
  BY <1>3
<1>5. /\ z = End /\ z = End' /\ z <= head /\ z = lastBlock' - 1 /\ f = lastBlock' /\ f <= z + 1
      /\ rangeEnd' \in Nat
  BY <1>1, <1>2, <1>3, <1>4, Numbers DEF End
<1>6. ChainOk' /\ head' \in Nat /\ head <= head' /\ \A b \in 1..head : events'[b] = events[b]
  BY <1>1, <1>2, ChainSame
<1>7. Tells(tx, Occurrences(RangeCalls(1, z) \ {}))
  BY <1>1, <1>2, <1>5 DEF TablesOk, Applied
<1>8. RangeCalls(1, z) \ {} = RangeCalls(1, z)
  OBVIOUS
<1>9. /\ db' \in Tables /\ tx' \in Tables /\ Tells(db', Occurrences(RangeCalls(1, z)))
      /\ Tells(tx', Occurrences(RangeCalls(1, z) \ {})) /\ tx' = db'
  BY <1>1, <1>2, <1>7, <1>8 DEF TablesOk
<1>10. PICK S : S = {} /\ S = calls'
  BY <1>2
<1>11. TablesOk'
  BY <1>1, <1>5, <1>6, <1>9, <1>10, TablesKept
<1>12. CallsOk'
  BY <1>1, <1>5, <1>6, <1>9, <1>10, CallsKept
<1> QED
  BY <1>6, <1>11, <1>12 DEF IndexerInv

\* A range that is rolled back leaves what was committed.
LEMMA AbortKeeps ==
    ASSUME IndexerInv, NEW call \in calls, Abort(call)
    PROVE  IndexerInv'
<1>1. ChainOk /\ CallsOk /\ TablesOk
  BY DEF IndexerInv
<1>2. tx' = db /\ rangeEnd' = 0 /\ calls' = {} /\ UNCHANGED <<events, db, lastBlock>>
  BY DEF Abort
<1>3. PICK m \in Nat : m = lastBlock - 1
  BY <1>1, Numbers
<1>4. PICK f \in Nat \ {0} : f = lastBlock
  BY <1>1, Numbers
<1>5. /\ m = lastBlock' - 1 /\ m = End' /\ m <= head /\ f = lastBlock' /\ f <= m + 1
      /\ rangeEnd' \in Nat
  BY <1>1, <1>2, <1>3, <1>4, Numbers DEF End
<1>6. ChainOk' /\ head' \in Nat /\ head <= head' /\ \A b \in 1..head : events'[b] = events[b]
  BY <1>1, <1>2, ChainSame
<1>7. Tells(db, Occurrences(RangeCalls(1, m)))
  BY <1>1, <1>3 DEF TablesOk, Stored
<1>8. RangeCalls(1, m) \ {} = RangeCalls(1, m)
  OBVIOUS
<1>9. /\ db' \in Tables /\ tx' \in Tables /\ Tells(db', Occurrences(RangeCalls(1, m)))
      /\ Tells(tx', Occurrences(RangeCalls(1, m) \ {})) /\ tx' = db'
  BY <1>1, <1>2, <1>7, <1>8 DEF TablesOk
<1>10. PICK S : S = {} /\ S = calls'
  BY <1>2
<1>11. TablesOk'
  BY <1>1, <1>5, <1>6, <1>9, <1>10, TablesKept
<1>12. CallsOk'
  BY <1>1, <1>5, <1>6, <1>9, <1>10, CallsKept
<1> QED
  BY <1>6, <1>11, <1>12 DEF IndexerInv

\* A handler that returns has to add its occurrence to what the tables tell.
LEMMA ReturnKeeps ==
    ASSUME IndexerInv, NEW call \in calls, Return(call), NEW t \in Tables, tx' = t,
           Tells(t, Applied \cup {At(Event(call), call.block)})
    PROVE  IndexerInv'
<1>1. ChainOk /\ CallsOk /\ TablesOk
  BY DEF IndexerInv
<1>2. calls' = calls \ {call} /\ UNCHANGED <<events, db, lastBlock, rangeEnd>>
  BY DEF Return
<1>3. PICK m \in Nat, z \in Nat : m = lastBlock - 1 /\ z = End
  BY <1>1, Numbers
<1>4. PICK f \in Nat \ {0} : f = lastBlock
  BY <1>1, Numbers
<1>5. PICK S : S = calls \ {call}
  OBVIOUS
<1>6. /\ m = lastBlock' - 1 /\ z = End' /\ m <= head /\ z <= head /\ f = lastBlock' /\ f <= z + 1
      /\ S = calls' /\ rangeEnd' = rangeEnd /\ rangeEnd' \in Nat /\ rangeEnd # 0
  <2>1. rangeEnd # 0 /\ f <= z + 1
    BY <1>1, <1>3, <1>4 DEF CallsOk
  <2> QED
    BY <1>1, <1>2, <1>3, <1>4, <1>5, <2>1, Numbers DEF End
<1>7. ChainOk' /\ head' \in Nat /\ head <= head' /\ \A b \in 1..head : events'[b] = events[b]
  BY <1>1, <1>2, ChainSame
<1>8. S \subseteq RangeCalls(f, z) /\ call \in RangeCalls(f, z) /\ call \in RangeCalls(1, z)
  BY <1>1, <1>3, <1>4, <1>6, <1>5, Parts DEF CallsOk
<1>9. RangeCalls(1, z) \ S = (RangeCalls(1, z) \ calls) \cup {call}
  BY <1>5, <1>8
<1>10. Occurrences(RangeCalls(1, z) \ S) = Applied \cup {At(Event(call), call.block)}
  BY <1>3, <1>9 DEF Applied, Occurrences
<1>11. /\ db' \in Tables /\ tx' \in Tables /\ Tells(db', Occurrences(RangeCalls(1, m)))
       /\ Tells(tx', Occurrences(RangeCalls(1, z) \ S))
  BY <1>1, <1>2, <1>3, <1>10 DEF TablesOk, Stored
<1>12. TablesOk'
  BY <1>1, <1>6, <1>7, <1>11, TablesKept
<1>13. CallsOk'
  BY <1>1, <1>6, <1>7, <1>8, CallsKept
<1> QED
  BY <1>7, <1>12, <1>13 DEF IndexerInv

-----------------------------------------------------------------------------
(* The handlers.                                                           *)

\* The call that is made next.
LEMMA CallAt ==
    ASSUME ChainOk, CallsOk, NEW call \in calls
    PROVE  /\ call \in RangeCalls(1, End) /\ call.pass \in DOMAIN Classes /\ call.pass \in Nat
           /\ call.block \in Block /\ call.block \in Nat /\ call.block \in 1..head
           /\ call.block <= End /\ call.index \in DOMAIN events[call.block]
           /\ Event(call) = events[call.block][call.index] /\ Event(call) \in EventSet
           /\ Told(call.block, call.index) /\ Event(call).class = Classes[call.pass]
           /\ call = [pass |-> call.pass, block |-> call.block, index |-> call.index]
<1>1. /\ lastBlock \in Nat \ {0} /\ End \in Nat /\ End <= head /\ lastBlock <= End + 1
      /\ call \in RangeCalls(lastBlock, End)
  BY Numbers DEF CallsOk
<1>2. call \in RangeCalls(1, End)
  BY <1>1, Parts
<1>3. call.pass \in DOMAIN Classes
  BY <1>2, RangeCallsAre
<1> QED
  BY <1>1, <1>2, <1>3, CallFields

\* What was emitted up to its block and belongs to an earlier pass was handled.
LEMMA EarlierHandled ==
    ASSUME ChainOk, CallsOk, NEW call \in calls, \A c \in calls \ {call} : Precedes(call, c),
           NEW e \in EventSet, NEW p \in DOMAIN Classes, Classes[p] = e.class, p < call.pass,
           Emitted(e, call.block)
    PROVE  Happened(e, Applied)
<1>1. /\ call.block \in Nat /\ call.block \in 1..head /\ call.block <= End /\ call.pass \in Nat
      /\ End \in Nat /\ End <= head /\ head \in Nat
  BY CallAt, Numbers
<1>2. PICK b \in 1..call.block : e \in Range(events[b])
  BY DEF Emitted
<1>3. b \in 1..head /\ b \in 1..End
  BY <1>1
<1>4. PICK i \in DOMAIN events[b] : events[b][i] = e
  BY <1>2 DEF Range
<1>5. PICK c : c = [pass |-> p, block |-> b, index |-> i]
  OBVIOUS
<1>6. c.pass = p /\ c.block = b /\ c.index = i
  BY <1>5
<1>7. Event(c) = e
  BY <1>4, <1>6 DEF Event
<1>8. c \in RangeCalls(1, End)
  BY <1>3, <1>4, <1>5, <1>6, <1>7, RangeCallsAre
<1>9. p \in Nat
  BY ClassesAre
<1>10. c \notin calls
  <2>1. c # call
    BY <1>1, <1>6, <1>9
  <2>2. ~Precedes(call, c)
    BY <1>1, <1>6, <1>9 DEF Precedes
  <2> QED
    BY <2>1, <2>2
<1>11. At(e, b) \in Applied
  BY <1>6, <1>7, <1>8, <1>10 DEF Applied, Occurrences
<1> QED
  BY <1>3, <1>11, Blocks DEF Happened

\* What was handled was emitted.
LEMMA HandledIs ==
    ASSUME ChainOk, CallsOk, NEW e, NEW b, At(e, b) \in Applied
    PROVE  \E c \in RangeCalls(1, End) \ calls : Event(c) = e /\ c.block = b
<1>1. PICK c \in RangeCalls(1, End) \ calls : At(e, b) = At(Event(c), c.block)
  BY DEF Applied, Occurrences
<1> QED
  BY <1>1 DEF At

\* The protocol of a claim, the claim of a status and of a payout, and the
\* purchase of a fundraise claim are in the tables.
LEMMA RowsAreThere ==
    ASSUME IndexerInv, NEW call \in calls, \A c \in calls \ {call} : Precedes(call, c)
    PROVE  /\ Event(call).class = "ClaimCreated" => tx.protocol
           /\ Event(call).class \in {"ClaimStatusChanged", "ClaimPayout"} =>
                 Event(call).claim \in tx.claims
           /\ Event(call).class = "Claim" => tx.positions[Event(call).buyer].amount > 0
<1>1. ChainOk /\ CallsOk /\ TablesOk
  BY DEF IndexerInv
<1>2. PICK e : e = Event(call)
  OBVIOUS
<1>3. /\ e = events[call.block][call.index] /\ e \in EventSet /\ Told(call.block, call.index)
      /\ call.pass \in DOMAIN Classes /\ Classes[call.pass] = e.class
  BY <1>1, <1>2, CallAt
<1>4. /\ e.class = "ClaimCreated" => Emitted(ProtocolAdded, call.block)
      /\ e.class \in {"ClaimStatusChanged", "ClaimPayout"} =>
            Emitted(ClaimCreated(e.claim), call.block)
      /\ e.class = "Claim" => Emitted(Purchase(e.buyer), call.block)
  BY <1>3 DEF Told
<1>5. Tells(tx, Applied) /\ tx \in Tables
  BY <1>1 DEF TablesOk
<1>6. 1 \in DOMAIN Classes /\ 2 \in DOMAIN Classes /\ 3 \in DOMAIN Classes
  BY ClassesAre
<1>7. ASSUME e.class = "ClaimCreated" PROVE tx.protocol
  <2>1. ProtocolAdded \in EventSet /\ ProtocolAdded.class = "ProtocolAdded"
    BY EventsDiffer DEF EventSet
  <2>2. 2 < call.pass /\ Classes[2] = "ProtocolAdded"
    BY <1>3, <1>7, PassOf, ClassesAre
  <2>3. Happened(ProtocolAdded, Applied)
    BY <1>1, <1>4, <1>6, <1>7, <2>1, <2>2, EarlierHandled
  <2> QED
    BY <1>5, <2>3 DEF Tells
<1>8. ASSUME e.class \in {"ClaimStatusChanged", "ClaimPayout"} PROVE e.claim \in tx.claims
  <2>1. e.claim \in ClaimId
    BY <1>3, <1>8, EventFields
  <2>2. ClaimCreated(e.claim) \in EventSet /\ ClaimCreated(e.claim).class = "ClaimCreated"
    BY <2>1, EventsDiffer DEF EventSet
  <2>3. 3 < call.pass /\ Classes[3] = "ClaimCreated"
    BY <1>3, <1>8, PassOf, ClassesAre
  <2>4. Happened(ClaimCreated(e.claim), Applied)
    BY <1>1, <1>4, <1>6, <1>8, <2>2, <2>3, EarlierHandled
  <2> QED
    BY <1>5, <2>1, <2>4 DEF Tells
<1>9. ASSUME e.class = "Claim" PROVE tx.positions[e.buyer].amount > 0
  <2>1. e.buyer \in Buyer
    BY <1>3, <1>9, EventFields
  <2>2. Purchase(e.buyer) \in EventSet /\ Purchase(e.buyer).class = "Purchase"
    BY <2>1, EventsDiffer DEF EventSet
  <2>3. 1 < call.pass /\ Classes[1] = "Purchase"
    BY <1>3, <1>9, PassOf, ClassesAre
  <2>4. Happened(Purchase(e.buyer), Applied)
    BY <1>1, <1>4, <1>6, <1>9, <2>2, <2>3, EarlierHandled
  <2>5. Bought(e.buyer, Applied) # {}
    BY <2>4 DEF Happened, Bought
  <2>6. IsFiniteSet(Bought(e.buyer, Applied))
    <3>1. Bought(e.buyer, Applied) \subseteq 1..MaxBlock
      BY DEF Bought, Block
    <3>2. IsFiniteSet(1..MaxBlock)
      BY DependentsAssumption, FS_Interval
    <3> QED
      BY <3>1, <3>2, FS_Subset
  <2>7. Cardinality(Bought(e.buyer, Applied)) \in Nat /\ Cardinality(Bought(e.buyer, Applied)) # 0
    BY <2>5, <2>6, FS_CardinalityType, FS_EmptySet
  <2>8. tx.positions[e.buyer].amount = Cardinality(Bought(e.buyer, Applied))
    BY <1>5, <2>1 DEF Tells
  <2> QED
    BY <2>7, <2>8
<1> QED
  BY <1>2, <1>7, <1>8, <1>9

\* Every handler keeps the invariant.
LEMMA HandlersKeep ==
    ASSUME IndexerInv, NEW call \in calls,
           \/ HandleProtocolAdded(call) \/ HandleClaimCreated(call)
           \/ HandleClaimStatusChanged(call) \/ HandleClaimPayout(call)
           \/ HandlePurchase(call) \/ HandleClaim(call) \/ HandleClaimed(call)
    PROVE  IndexerInv'
<1>1. ChainOk /\ CallsOk /\ TablesOk
  BY DEF IndexerInv
<1>2. Return(call) /\ \A c \in calls \ {call} : Precedes(call, c)
  BY DEF HandleProtocolAdded, HandleClaimCreated, HandleClaimStatusChanged, HandleClaimPayout,
         HandlePurchase, HandleClaim, HandleClaimed, Handles
<1>3. PICK e, b, A : e = Event(call) /\ b = call.block /\ A = Applied
  OBVIOUS
<1>4. /\ e = events[b][call.index] /\ e \in EventSet /\ Told(b, call.index) /\ b \in Block
      /\ b \in Nat /\ b \in 1..head /\ call.index \in DOMAIN events[b]
      /\ call.pass \in DOMAIN Classes /\ Classes[call.pass] = e.class
  BY <1>1, <1>3, CallAt
<1>5. PICK t : t = tx
  OBVIOUS
<1>6. Tells(t, A) /\ t \in Tables
  BY <1>1, <1>3, <1>5 DEF TablesOk
<1>7. SUFFICES \E u \in Tables : tx' = u /\ Tells(u, A \cup {At(e, b)})
  BY <1>2, <1>3, ReturnKeeps
<1>8. CASE HandleProtocolAdded(call)
  <2>1. e = ProtocolAdded /\ tx' = [t EXCEPT !.protocol = TRUE]
    BY <1>3, <1>4, <1>5, <1>8, EventFields DEF HandleProtocolAdded, Handles
  <2> QED
    BY <1>4, <1>6, <2>1, ProtocolTold
<1>9. CASE HandleClaimCreated(call)
  <2>1. e.class = "ClaimCreated"
    BY <1>3, <1>9 DEF HandleClaimCreated, Handles
  <2>2. e.claim \in ClaimId /\ e = ClaimCreated(e.claim)
    BY <1>4, <2>1, EventFields
  <2>3. t.protocol
    BY <1>2, <1>3, <1>5, <2>1, RowsAreThere
  <2>4. tx' = [t EXCEPT !.claims = @ \cup {e.claim}]
    BY <1>3, <1>5, <1>9, <2>3 DEF HandleClaimCreated
  <2> QED
    BY <1>4, <1>6, <2>2, <2>4, ClaimTold
<1>10. CASE HandleClaimStatusChanged(call)
  <2>1. e.class = "ClaimStatusChanged"
    BY <1>3, <1>10 DEF HandleClaimStatusChanged, Handles
  <2>2. e.claim \in ClaimId /\ e.state \in Status \cup {NonExistent}
    BY <1>4, <2>1, EventFields
  <2>3. t.statuses \in Seq([claim : ClaimId, status : Status, timestamp : Block])
    BY <1>6 DEF Tables
  <2>4. CASE UNCHANGED tx
    <3>1. Tells(t, A \cup {At(e, b)})
      BY <1>4, <1>6, <2>1, StatusTold
    <3> QED
      BY <1>5, <1>6, <2>4, <3>1
  <2>5. CASE e.state # NonExistent /\ tx' = [tx EXCEPT !.statuses = Inserted(call, Event(call).state)]
    <3>1. PICK rows : rows = Append(t.statuses, [claim |-> e.claim, status |-> e.state, timestamp |-> b])
      OBVIOUS
    <3>2. rows \in Seq([claim : ClaimId, status : Status, timestamp : Block])
      BY <1>4, <2>2, <2>3, <2>5, <3>1
    <3>3. tx' = [t EXCEPT !.statuses = rows]
      BY <1>3, <1>5, <2>5, <3>1 DEF Inserted
    <3>4. PICK u : u = tx'
      OBVIOUS
    <3>5. /\ u \in Tables /\ u.protocol = t.protocol /\ u.claims = t.claims
          /\ u.positions = t.positions /\ u.claimedAt = t.claimedAt
      BY <1>6, <3>2, <3>3, <3>4, StatusStored
    <3>6. Tells(u, A \cup {At(e, b)})
      BY <1>4, <1>6, <2>1, <3>5, StatusTold
    <3> QED
      BY <3>4, <3>5, <3>6
  <2> QED
    BY <1>3, <1>10, <2>4, <2>5 DEF HandleClaimStatusChanged
<1>11. CASE HandleClaimPayout(call)
  <2>1. e.class = "ClaimPayout"
    BY <1>3, <1>11 DEF HandleClaimPayout, Handles
  <2>2. e.claim \in ClaimId /\ PaidOut \in Status
    BY <1>4, <2>1, EventFields DEF Status
  <2>3. t.statuses \in Seq([claim : ClaimId, status : Status, timestamp : Block])
    BY <1>6 DEF Tables
  <2>4. PICK rows : rows = Append(t.statuses, [claim |-> e.claim, status |-> PaidOut, timestamp |-> b])
    OBVIOUS
  <2>5. rows \in Seq([claim : ClaimId, status : Status, timestamp : Block])
    BY <1>4, <2>2, <2>3, <2>4
  <2>6. tx' = [t EXCEPT !.statuses = rows]
    BY <1>3, <1>5, <1>11, <2>4 DEF HandleClaimPayout, Inserted
  <2>7. PICK u : u = tx'
    OBVIOUS
  <2>8. /\ u \in Tables /\ u.protocol = t.protocol /\ u.claims = t.claims
        /\ u.positions = t.positions /\ u.claimedAt = t.claimedAt
    BY <1>6, <2>5, <2>6, <2>7, StatusStored
  <2>9. Tells(u, A \cup {At(e, b)})
    BY <1>4, <1>6, <2>1, <2>8, StatusTold
  <2> QED
    BY <2>7, <2>8, <2>9
<1>12. CASE HandlePurchase(call)
  <2>1. e.class = "Purchase"
    BY <1>3, <1>12 DEF HandlePurchase, Handles
  <2>2. e.buyer \in Buyer /\ e = Purchase(e.buyer)
    BY <1>4, <2>1, EventFields
  <2>3. At(e, b) \notin A
    <3> SUFFICES ASSUME At(e, b) \in A PROVE FALSE
      OBVIOUS
    <3>1. PICK c \in RangeCalls(1, End) \ calls : Event(c) = e /\ c.block = b
      BY <1>1, <1>3, HandledIs
    <3>2. /\ c.pass \in DOMAIN Classes /\ Classes[c.pass] = "Purchase"
          /\ c = [pass |-> c.pass, block |-> c.block, index |-> c.index]
          /\ c.index \in DOMAIN events[b]
      BY <1>1, <2>1, <3>1, RangeCallsAre
    <3>3. call = [pass |-> call.pass, block |-> call.block, index |-> call.index]
      BY <1>1, CallAt
    <3>4. DOMAIN events[b] = {1}
      BY <1>4, <2>1 DEF Told
    <3>5. c.pass = 1 /\ call.pass = 1
      BY <1>4, <2>1, <3>2, PassOf
    <3>6. c.index = call.index
      BY <1>4, <3>2, <3>4
    <3>7. c = call
      BY <1>3, <3>1, <3>2, <3>3, <3>5, <3>6
    <3> QED
      BY <3>1, <3>7
  <2>4. tx' = [t EXCEPT !.positions[e.buyer].amount = Purchased(@)]
    BY <1>3, <1>5, <1>12 DEF HandlePurchase
  <2> QED
    BY <1>4, <1>6, <2>2, <2>3, <2>4, PurchaseTold
<1>13. CASE HandleClaim(call)
  <2>1. e.class = "Claim"
    BY <1>3, <1>13 DEF HandleClaim, Handles
  <2>2. e.buyer \in Buyer /\ e = FundraiseClaim(e.buyer)
    BY <1>4, <2>1, EventFields
  <2>3. tx' = [t EXCEPT !.positions[e.buyer].claimedAt = b]
    BY <1>3, <1>5, <1>13 DEF HandleClaim
  <2> QED
    BY <1>4, <1>6, <2>2, <2>3, FundraiseTold
<1>14. CASE HandleClaimed(call)
  <2>1. e.class = "Claimed"
    BY <1>3, <1>14 DEF HandleClaimed, Handles
  <2>2. e.distributor \in Distributor /\ e = AirdropClaim(e.distributor)
    BY <1>4, <2>1, EventFields
  <2>3. ASSUME NEW x \in Block, At(e, x) \in A PROVE x = b
    <3>1. PICK c \in RangeCalls(1, End) \ calls : Event(c) = e /\ c.block = x
      BY <1>1, <1>3, <2>3, HandledIs
    <3>2. /\ x \in 1..head /\ x \in Nat /\ c.index \in DOMAIN events[x]
          /\ e = events[x][c.index] /\ Told(x, c.index)
      BY <1>1, <3>1, Numbers, CallFields
    <3>3. ~Emitted(e, b - 1) /\ ~Emitted(e, x - 1)
      BY <1>4, <2>1, <3>2 DEF Told
    <3>4. e \in Range(events[b]) /\ e \in Range(events[x])
      BY <1>4, <3>2 DEF Range
    <3>5. ~(x \in 1 .. b - 1) /\ ~(b \in 1 .. x - 1)
      BY <3>3, <3>4 DEF Emitted
    <3>6. head \in Nat
      BY <1>1, Blocks
    <3> QED
      BY <1>4, <3>2, <3>5, <3>6
  <2>4. tx' = [t EXCEPT !.claimedAt = [t.claimedAt EXCEPT ![e.distributor] = b]]
    BY <1>3, <1>5, <1>14 DEF HandleClaimed, Marked
  <2> QED
    BY <1>4, <1>6, <2>2, <2>3, <2>4, AirdropTold
<1> QED
  BY <1>8, <1>9, <1>10, <1>11, <1>12, <1>13, <1>14

\* At first it holds.
LEMMA InitHolds ==
    ASSUME Init
    PROVE  IndexerInv
<1>1. /\ events = <<>> /\ db = NoTables /\ tx = NoTables /\ lastBlock = 1 /\ rangeEnd = 0
      /\ calls = {}
  BY DEF Init
<1>2. head = 0 /\ End = 0
  BY <1>1 DEF head, End
<1>3. ChainOk
  BY <1>1, <1>2, DependentsAssumption DEF ChainOk
<1>4. CallsOk
  BY <1>1, <1>2 DEF CallsOk
<1>5. RangeCalls(1, 0) = {}
  <2> SUFFICES ASSUME NEW c \in RangeCalls(1, 0) PROVE FALSE
    OBVIOUS
  <2>1. c.block \in 1..0
    BY <1>3, RangeCallsAre
  <2> QED
    BY <2>1
<1>6. Occurrences({}) = {}
  BY DEF Occurrences
<1>7. Stored = {} /\ Applied = {}
  <2>1. lastBlock - 1 = 0 /\ RangeCalls(1, 0) \ calls = {}
    BY <1>1, <1>5
  <2> QED
    BY <1>2, <1>5, <1>6, <2>1 DEF Stored, Applied
<1>8. NoTables \in Tables
  <2>1. <<>> \in Seq([claim : ClaimId, status : Status, timestamp : Block])
    OBVIOUS
  <2> QED
    BY <2>1 DEF NoTables, Tables
<1>9. Tells(NoTables, {})
  <2>1. /\ \A e : ~Happened(e, {}) /\ \A u : Bought(u, {}) = {}
        /\ Cardinality({}) = 0 /\ \A b \in Block : b # 0
    BY FS_EmptySet, DependentsAssumption DEF Happened, Bought, Block
  <2> QED
    BY <2>1 DEF Tells, NoTables
<1>10. TablesOk
  BY <1>1, <1>7, <1>8, <1>9 DEF TablesOk
<1> QED
  BY <1>3, <1>4, <1>10 DEF IndexerInv

\* Every step keeps it.
LEMMA StepKeeps ==
    ASSUME IndexerInv, [Next]_vars
    PROVE  IndexerInv'
<1>1. ChainOk /\ head \in Nat
  BY Blocks DEF IndexerInv
<1>2. CASE Contracts
  <2>1. /\ ChainOk' /\ head' = head + 1 /\ \A b \in 1..head : events'[b] = events[b]
        /\ UNCHANGED indexerVars
    BY <1>1, <1>2, ContractsKeep
  <2>2. head' \in Nat /\ head <= head'
    BY <1>1, <2>1
  <2> QED
    BY <2>1, <2>2, OthersKeep
<1>3. CASE UNCHANGED <<events, indexerVars>>
  <2>1. /\ ChainOk' /\ head' \in Nat /\ head <= head'
        /\ \A b \in 1..head : events'[b] = events[b]
    BY <1>1, <1>3, ChainSame
  <2> QED
    BY <1>3, <2>1, OthersKeep
<1>4. CASE Indexer
  BY <1>4, TakeKeeps, CommitRangeKeeps, AbortKeeps, HandlersKeep DEF Indexer
<1>5. (\E i \in Importer : BeginImport(i) \/ CommitImport(i)) => UNCHANGED <<events, indexerVars>>
  BY DEF BeginImport, CommitImport
<1>6. UNCHANGED vars => UNCHANGED <<events, indexerVars>>
  BY DEF vars
<1> QED
  BY <1>2, <1>3, <1>4, <1>5, <1>6 DEF Next

\* The invariant of the indexer holds in every state.
THEOREM IndexerInvariance == Spec => []IndexerInv
<1>1. Init => IndexerInv
  BY InitHolds
<1>2. IndexerInv /\ [Next]_vars => IndexerInv'
  BY StepKeeps
<1> QED
  BY <1>1, <1>2, PTL DEF Spec

-----------------------------------------------------------------------------
(* How often a row can be there.                                           *)

\* The imports that are about to insert the row of d.
About(d) == {i \in Importer : d \in pending[i]}

\* An import inserts a row once at most: it begins when the row is missing.
BoundInv ==
    /\ ImportTypeOK
    /\ \A i \in Importer \ running : pending[i] = {}
    /\ \A d \in Distributor : airdrops[d] + Cardinality(About(d)) <= Cardinality(Importer)

\* The imports about a row can be counted.
LEMMA AboutCounts ==
    ASSUME NEW S, S \subseteq Importer
    PROVE  /\ IsFiniteSet(S) /\ Cardinality(S) \in Nat /\ Cardinality(Importer) \in Nat
           /\ Cardinality(S) <= Cardinality(Importer)
BY DependentsAssumption, FS_Subset, FS_CardinalityType

\* An import that begins keeps the bound.
LEMMA BeginBounds ==
    ASSUME BoundInv, NEW i \in Importer, BeginImport(i)
    PROVE  BoundInv'
<1>1. PICK d \in Distributor : pending' = [pending EXCEPT ![i] = Missing(d)]
  BY DEF BeginImport
<1>2. Missing(d) \subseteq Distributor /\ \A e \in Missing(d) : airdrops[e] = 0
  BY DEF Missing
<1>3. ImportTypeOK'
  BY <1>1, <1>2 DEF BeginImport, BoundInv, ImportTypeOK
<1>4. /\ airdrops' = airdrops /\ running' = running \cup {i} /\ pending[i] = {}
      /\ pending'[i] = Missing(d) /\ \A j \in Importer \ {i} : pending'[j] = pending[j]
  BY <1>1 DEF BeginImport, BoundInv, ImportTypeOK
<1>5. \A j \in Importer \ running' : pending'[j] = {}
  BY <1>4 DEF BoundInv
<1>6. ASSUME NEW e \in Distributor
      PROVE  airdrops'[e] + Cardinality(About(e)') <= Cardinality(Importer)
  <2>1. CASE e \in Missing(d)
    <3>1. airdrops'[e] = 0
      BY <1>2, <1>4, <2>1
    <3>2. About(e)' \subseteq Importer
      BY DEF About
    <3> QED
      BY <3>1, <3>2, AboutCounts
  <2>2. CASE e \notin Missing(d)
    <3>1. About(e)' = About(e)
      BY <1>4, <2>2 DEF About
    <3> QED
      BY <1>4, <3>1 DEF BoundInv
  <2> QED
    BY <2>1, <2>2
<1> QED
  BY <1>3, <1>5, <1>6 DEF BoundInv

\* An import that commits moves its rows from those it is about to insert.
LEMMA CommitBounds ==
    ASSUME BoundInv, NEW i \in Importer, CommitImport(i)
    PROVE  BoundInv'
<1>1. /\ airdrops' = [d \in Distributor |->
                         IF d \in pending[i] THEN airdrops[d] + 1 ELSE airdrops[d]]
      /\ running' = running \ {i} /\ pending' = [pending EXCEPT ![i] = {}]
  BY DEF CommitImport
<1>2. ImportTypeOK'
  BY <1>1 DEF CommitImport, BoundInv, ImportTypeOK
<1>3. pending'[i] = {} /\ \A j \in Importer \ {i} : pending'[j] = pending[j]
  BY <1>1 DEF BoundInv, ImportTypeOK
<1>4. \A j \in Importer \ running' : pending'[j] = {}
  BY <1>1, <1>3 DEF BoundInv
<1>5. ASSUME NEW e \in Distributor
      PROVE  airdrops'[e] + Cardinality(About(e)') <= Cardinality(Importer)
  <2>1. /\ About(e)' = About(e) \ {i} /\ About(e) \subseteq Importer /\ airdrops[e] \in Nat
        /\ airdrops[e] + Cardinality(About(e)) <= Cardinality(Importer)
    BY <1>3 DEF About, BoundInv, ImportTypeOK
  <2>2. /\ IsFiniteSet(About(e)) /\ Cardinality(About(e)) \in Nat /\ Cardinality(Importer) \in Nat
    BY <2>1, AboutCounts
  <2>3. CASE e \in pending[i]
    <3>1. i \in About(e) /\ airdrops'[e] = airdrops[e] + 1
      BY <1>1, <2>3 DEF About
    <3>2. Cardinality(About(e) \ {i}) = Cardinality(About(e)) - 1
      BY <2>2, <3>1, FS_RemoveElement
    <3> QED
      BY <2>1, <2>2, <3>1, <3>2
  <2>4. CASE e \notin pending[i]
    <3>1. About(e) \ {i} = About(e) /\ airdrops'[e] = airdrops[e]
      BY <1>1, <2>4 DEF About
    <3> QED
      BY <2>1, <3>1
  <2> QED
    BY <2>3, <2>4
<1> QED
  BY <1>2, <1>4, <1>5 DEF BoundInv

\* The bound holds in every state.
THEOREM BoundInvariance == Spec => []BoundInv
<1>1. Init => BoundInv
  <2> SUFFICES ASSUME Init PROVE BoundInv
    OBVIOUS
  <2>1. airdrops = [d \in Distributor |-> 0] /\ running = {} /\ overlapped = FALSE
        /\ pending = [i \in Importer |-> {}]
    BY DEF Init
  <2>2. ImportTypeOK
    BY <2>1 DEF ImportTypeOK
  <2>3. \A d \in Distributor : About(d) \subseteq Importer /\ airdrops[d] = 0
    BY <2>1 DEF About
  <2>4. \A d \in Distributor : airdrops[d] + Cardinality(About(d)) <= Cardinality(Importer)
    BY <2>3, AboutCounts
  <2> QED
    BY <2>1, <2>2, <2>4 DEF BoundInv
<1>2. BoundInv /\ [Next]_vars => BoundInv'
  <2> SUFFICES ASSUME BoundInv, [Next]_vars PROVE BoundInv'
    OBVIOUS
  <2>1. CASE \E i \in Importer : BeginImport(i) \/ CommitImport(i)
    BY <2>1, BeginBounds, CommitBounds
  <2>2. CASE UNCHANGED importVars
    BY <2>2 DEF importVars, BoundInv, ImportTypeOK, About
  <2>3. UNCHANGED vars => UNCHANGED importVars
    BY DEF vars
  <2> QED
    BY <2>1, <2>2, <2>3, OnlyImportsImport
<1> QED
  BY <1>1, <1>2, PTL DEF Spec

-----------------------------------------------------------------------------
(* What follows.                                                           *)

\* What a claim's ancillary data is changes only when it starts.
LEMMA Unparsables == Spec => [](unparsable \subseteq ClaimId)
<1>1. Init => unparsable \subseteq ClaimId
  BY DEF Init
<1>2. unparsable \subseteq ClaimId /\ [Next]_vars => (unparsable \subseteq ClaimId)'
  <2> SUFFICES ASSUME unparsable \subseteq ClaimId, [Next]_vars
               PROVE  unparsable' \subseteq ClaimId
    OBVIOUS
  <2>1. CASE Contracts
    BY <2>1 DEF Contracts, AddProtocol, StartClaim, ChangeStatus, PayOut, Buy, ClaimFundraise,
                ClaimAirdrop, Emits
  <2>2. CASE Indexer
    BY <2>2 DEF Indexer, TakeRange, CommitRange, HandleProtocolAdded, HandleClaimCreated,
                HandleClaimStatusChanged, HandleClaimPayout, HandlePurchase, HandleClaim,
                HandleClaimed, Abort, Return
  <2>3. CASE \E i \in Importer : BeginImport(i) \/ CommitImport(i)
    BY <2>3 DEF BeginImport, CommitImport
  <2>4. CASE UNCHANGED vars
    BY <2>4 DEF vars
  <2> QED
    BY <2>1, <2>2, <2>3, <2>4 DEF Next
<1> QED
  BY <1>1, <1>2, PTL DEF Spec

\* The tables hold what their columns can, and each row of an airdrop is there
\* at most once for each import that may run (models/claim_status.py,
\* airdrop.py:30-47).
THEOREM TypeCorrect == Spec => []TypeOK
<1>1. IndexerInv /\ BoundInv /\ (unparsable \subseteq ClaimId) => TypeOK
  <2> SUFFICES ASSUME IndexerInv, BoundInv, unparsable \subseteq ClaimId PROVE TypeOK
    OBVIOUS
  <2>1. ChainOk /\ CallsOk /\ TablesOk
    BY DEF IndexerInv
  <2>2. /\ head \in 0..MaxBlock /\ lastBlock \in 1 .. MaxBlock + 1
    BY <2>1, Numbers
  <2>3. rangeEnd \in 0..MaxBlock
    BY <2>1, Numbers DEF End
  <2>4. \A d \in Distributor : airdrops[d] \in 0..Cardinality(Importer)
    <3> SUFFICES ASSUME NEW d \in Distributor PROVE airdrops[d] \in 0..Cardinality(Importer)
      OBVIOUS
    <3>1. airdrops[d] \in Nat /\ airdrops[d] + Cardinality(About(d)) <= Cardinality(Importer)
      BY DEF BoundInv, ImportTypeOK
    <3>2. Cardinality(About(d)) \in Nat /\ Cardinality(Importer) \in Nat
      BY AboutCounts DEF About
    <3> QED
      BY <3>1, <3>2
  <2>5. airdrops \in [Distributor -> 0..Cardinality(Importer)]
    BY <2>4 DEF BoundInv, ImportTypeOK
  <2> QED
    BY <2>1, <2>2, <2>3, <2>5 DEF TypeOK, TablesOk, BoundInv, ImportTypeOK
<1> QED
  BY <1>1, IndexerInvariance, BoundInvariance, Unparsables, PTL

\* Whatever the range, and however the chain put its events into blocks, no
\* handler but that of airdrops ever lacks the row it needs (indexer.py:54-86,
\* 538-603).
THEOREM OthersNeverWait == Spec => []OnlyImportsAreMissing
<1>1. IndexerInv => OnlyImportsAreMissing
  <2> SUFFICES ASSUME IndexerInv, NEW call \in calls, LacksRow(call), Event(call).class # "Claimed"
               PROVE  FALSE
    BY DEF OnlyImportsAreMissing
  <2>1. \A c \in calls \ {call} : Precedes(call, c)
    BY DEF LacksRow, Handles
  <2>2. ChainOk /\ CallsOk /\ TablesOk
    BY DEF IndexerInv
  <2>3. Event(call) \in EventSet
    BY <2>2, CallAt
  <2>4. CASE Event(call).class = "Claim"
    <3>1. Event(call).buyer \in Buyer /\ tx \in Tables
      BY <2>2, <2>3, <2>4, EventFields DEF TablesOk
    <3>2. tx.positions[Event(call).buyer].amount = 0
      BY <2>4 DEF LacksRow, Handles
    <3> QED
      BY <2>1, <2>4, <3>2, RowsAreThere
  <2>5. CASE Event(call).class # "Claim"
    <3>1. /\ Event(call).class \in {"ClaimStatusChanged", "ClaimPayout"}
          /\ Event(call).claim \notin tx.claims
      BY <2>5 DEF LacksRow, Handles
    <3> QED
      BY <2>1, <3>1, RowsAreThere
  <2> QED
    BY <2>4, <2>5
<1> QED
  BY <1>1, IndexerInvariance, PTL

\* The committed tables tell of what was emitted up to their block.
LEMMA StoredAre ==
    ASSUME ChainOk, CallsOk, NEW e \in EventSet, NEW b
    PROVE  At(e, b) \in Stored <=> b \in 1 .. lastBlock - 1 /\ e \in Range(events[b])
<1>1. lastBlock - 1 \in Nat /\ lastBlock - 1 <= head
  BY Numbers
<1>2. ASSUME At(e, b) \in Stored PROVE b \in 1 .. lastBlock - 1 /\ e \in Range(events[b])
  <2>1. PICK c \in RangeCalls(1, lastBlock - 1) : At(e, b) = At(Event(c), c.block)
    BY <1>2 DEF Stored, Occurrences
  <2>2. e = Event(c) /\ b = c.block
    BY <2>1 DEF At
  <2>3. c.block \in 1 .. lastBlock - 1 /\ c.index \in DOMAIN events[c.block]
    BY RangeCallsAre
  <2> QED
    BY <2>2, <2>3 DEF Event, Range
<1>3. ASSUME b \in 1 .. lastBlock - 1, e \in Range(events[b]) PROVE At(e, b) \in Stored
  <2>1. PICK i \in DOMAIN events[b] : events[b][i] = e
    BY <1>3 DEF Range
  <2>2. PICK p \in DOMAIN Classes : Classes[p] = e.class
    BY SomePass
  <2>3. PICK c : c = [pass |-> p, block |-> b, index |-> i]
    OBVIOUS
  <2>4. c.pass = p /\ c.block = b /\ c.index = i
    BY <2>3
  <2>5. Event(c) = e
    BY <2>1, <2>4 DEF Event
  <2>6. c \in RangeCalls(1, lastBlock - 1)
    BY <1>3, <2>1, <2>2, <2>3, <2>4, <2>5, RangeCallsAre
  <2> QED
    BY <2>4, <2>5, <2>6 DEF Stored, Occurrences
<1> QED
  BY <1>2, <1>3

\* So what happened is what was emitted.
LEMMA HappenedIs ==
    ASSUME ChainOk, CallsOk, NEW e \in EventSet
    PROVE  Happened(e, Stored) <=> Emitted(e, Indexed)
<1>1. \A b \in 1 .. lastBlock - 1 : b \in Block
  <2> SUFFICES ASSUME NEW b \in 1 .. lastBlock - 1 PROVE b \in Block
    OBVIOUS
  <2> QED
    BY Numbers DEF Block
<1>2. \A b : At(e, b) \in Stored <=> b \in 1 .. lastBlock - 1 /\ e \in Range(events[b])
  BY StoredAre
<1> QED
  BY <1>1, <1>2 DEF Happened, Emitted, Indexed

\* A buyer's row is the sum of the purchases that were indexed, in ranges that
\* are rolled back and taken again as well (indexer.py:468-483,
\* fundraise_position.py:35-42).
THEOREM PositionsAreSums == Spec => []FundraiseMatches
<1>1. IndexerInv => FundraiseMatches
  <2> SUFFICES ASSUME IndexerInv, NEW u \in Buyer
               PROVE  /\ db.positions[u].amount =
                            Cardinality({i \in 1..Indexed : Purchase(u) \in Range(events[i])})
                      /\ db.positions[u].claimedAt # 0 <=> Emitted(FundraiseClaim(u), Indexed)
    BY DEF FundraiseMatches
  <2>1. ChainOk /\ CallsOk /\ Tells(db, Stored)
    BY DEF IndexerInv, TablesOk
  <2>2. Purchase(u) \in EventSet /\ FundraiseClaim(u) \in EventSet
    BY DEF EventSet
  <2>3. \A b : At(Purchase(u), b) \in Stored
                  <=> b \in 1 .. lastBlock - 1 /\ Purchase(u) \in Range(events[b])
    BY <2>1, <2>2, StoredAre
  <2>4. \A b \in 1 .. lastBlock - 1 : b \in Block
    <3> SUFFICES ASSUME NEW b \in 1 .. lastBlock - 1 PROVE b \in Block
      OBVIOUS
    <3> QED
      BY <2>1, Numbers DEF Block
  <2>5. Bought(u, Stored) = {i \in 1..Indexed : Purchase(u) \in Range(events[i])}
    BY <2>3, <2>4 DEF Bought, Indexed
  <2>6. Happened(FundraiseClaim(u), Stored) <=> Emitted(FundraiseClaim(u), Indexed)
    BY <2>1, <2>2, HappenedIs
  <2> QED
    BY <2>1, <2>5, <2>6 DEF Tells
<1> QED
  BY <1>1, IndexerInvariance, PTL

\* An airdrop is marked as claimed when, and at the block, its own distributor
\* said so, although the class of each distributor brings the claims of all and
\* a row may be imported long after its claim (airdrop.py:49-60).
THEOREM AirdropsAreMarked == Spec => []AirdropsMatch
<1>1. IndexerInv => AirdropsMatch
  <2> SUFFICES ASSUME IndexerInv, NEW d \in Distributor, NEW b \in 0..MaxBlock
               PROVE  db.claimedAt[d] = b <=>
                          IF b = 0 THEN ~Emitted(AirdropClaim(d), Indexed)
                          ELSE b <= Indexed /\ AirdropClaim(d) \in Range(events[b])
    BY DEF AirdropsMatch
  <2>1. ChainOk /\ CallsOk /\ db \in Tables /\ Tells(db, Stored)
    BY DEF IndexerInv, TablesOk
  <2>2. AirdropClaim(d) \in EventSet
    BY DEF EventSet
  <2>3. lastBlock - 1 \in Nat /\ MaxBlock \in Nat /\ b \in Nat
    BY <2>1, Numbers
  <2>4. CASE b # 0
    <3>1. b \in Block /\ (b \in 1 .. lastBlock - 1 <=> b <= Indexed)
      BY <2>3, <2>4 DEF Block, Indexed
    <3>2. At(AirdropClaim(d), b) \in Stored
             <=> b \in 1 .. lastBlock - 1 /\ AirdropClaim(d) \in Range(events[b])
      BY <2>1, <2>2, StoredAre
    <3> QED
      BY <2>1, <2>4, <3>1, <3>2 DEF Tells
  <2>5. CASE b = 0
    <3>1. db.claimedAt[d] \in Block \cup {0} /\ 0 \notin Block
      BY <2>1 DEF Tables, Block
    <3>2. db.claimedAt[d] # 0 <=> \E c \in Block : db.claimedAt[d] = c
      BY <3>1
    <3>3. db.claimedAt[d] # 0 <=> Happened(AirdropClaim(d), Stored)
      BY <2>1, <3>2 DEF Tells, Happened
    <3>4. Happened(AirdropClaim(d), Stored) <=> Emitted(AirdropClaim(d), Indexed)
      BY <2>1, <2>2, HappenedIs
    <3> QED
      BY <2>5, <3>3, <3>4
  <2> QED
    BY <2>4, <2>5
<1> QED
  BY <1>1, IndexerInvariance, PTL

-----------------------------------------------------------------------------
(* The statuses of claims: each row is that of one call, and rows of one   *)
(* time are in the order in which their events were emitted.               *)

\* A claim is created together with its first state, and paid out together with
\* no other state.
BlockOk(es) ==
    /\ \A i \in DOMAIN es : es[i].class = "ClaimCreated" =>
           \E j \in DOMAIN es : Shows(es[j], es[i].claim)
    /\ \A i, j \in DOMAIN es : es[i].class = "ClaimPayout" /\ es[j].class = "ClaimStatusChanged" =>
           ~Shows(es[j], es[j].claim)

BlocksOk == \A b \in 1..head : BlockOk(events[b])

RowOf(c) == [claim |-> Event(c).claim, status |-> Shown(Event(c)), timestamp |-> c.block]

\* The rows are those of the calls, src[i] is the one that stored row i.
RowsBy(rows, handled, src) ==
    /\ \A i \in DOMAIN rows : rows[i] = RowOf(src[i]) /\ Shows(Event(src[i]), rows[i].claim)
    /\ \A c \in handled : Shows(Event(c), Event(c).claim) => \E i \in DOMAIN rows : src[i] = c
    /\ \A i, j \in DOMAIN rows :
           i < j /\ rows[i].claim = rows[j].claim /\ rows[i].timestamp = rows[j].timestamp =>
               src[i].index < src[j].index

RowsFrom(rows, handled) == \E src \in [DOMAIN rows -> handled] : RowsBy(rows, handled, src)

\* What was handled in the range comes before what is left.
FirstHandled == \A c \in RangeCalls(lastBlock, End) \ calls : \A d \in calls : Precedes(c, d)

StatusInv ==
    /\ BlocksOk /\ FirstHandled
    /\ RowsFrom(db.statuses, RangeCalls(1, lastBlock - 1))
    /\ RowsFrom(tx.statuses, RangeCalls(1, End) \ calls)

\* Events of other classes show no state.
LEMMA ShowsNothing ==
    ASSUME NEW e, e.class \notin {"ClaimStatusChanged", "ClaimPayout"}
    PROVE  \A c : ~Shows(e, c)
BY DEF Shows

\* Every block of the contracts is of this kind.
LEMMA ContractBlocks ==
    ASSUME ChainOk, BlocksOk, Contracts
    PROVE  BlocksOk'
<1> DEFINE Fits(es) == Mined(es) /\ BlockOk(es)
<1>1. ASSUME NEW e, e.class \notin {"ClaimCreated", "ClaimPayout"} PROVE BlockOk(<<e>>)
  <2>1. DOMAIN <<e>> = {1} /\ <<e>>[1] = e
    OBVIOUS
  <2> QED
    BY <1>1, <2>1 DEF BlockOk
<1>2. ASSUME AddProtocol PROVE \E es : Fits(es)
  BY <1>1, <1>2, EventsDiffer DEF AddProtocol, Emits
<1>3. ASSUME NEW c \in ClaimId, StartClaim(c) PROVE \E es : Fits(es)
  <2> DEFINE es == <<ClaimCreated(c), StatusChanged(c, SpccPending)>>
  <2>1. DOMAIN es = {1, 2} /\ es[1] = ClaimCreated(c) /\ es[2] = StatusChanged(c, SpccPending)
    OBVIOUS
  <2>2. /\ es[1].class = "ClaimCreated" /\ es[2].class = "ClaimStatusChanged"
        /\ es[1].claim = c /\ es[2].claim = c /\ es[2].state = SpccPending
    BY <2>1 DEF ClaimCreated, StatusChanged
  <2>3. Mined(es)
    BY <1>3 DEF StartClaim
  <2> HIDE DEF es
  <2>4. Shows(es[2], es[1].claim)
    BY <2>2 DEF Shows, SpccPending, NonExistent
  <2>5. BlockOk(es)
    BY <2>1, <2>2, <2>4 DEF BlockOk
  <2> QED
    BY <2>3, <2>5
<1>4. ASSUME NEW c \in ClaimId, ChangeStatus(c) PROVE \E es : Fits(es)
  <2>1. PICK states \in {<<SpccApproved>>, <<Cleaned>>, <<UmaPriceProposed, UmaPending>>} :
           Mined([i \in DOMAIN states |-> StatusChanged(c, states[i])])
    BY <1>4 DEF ChangeStatus, Emits
  <2> DEFINE es == [i \in DOMAIN states |-> StatusChanged(c, states[i])]
  <2>2. \A i \in DOMAIN es : es[i].class = "ClaimStatusChanged"
    BY DEF StatusChanged
  <2>3. Mined(es)
    BY <2>1
  <2> HIDE DEF es
  <2>4. BlockOk(es)
    BY <2>2 DEF BlockOk
  <2> QED
    BY <2>3, <2>4
<1>5. ASSUME NEW c \in ClaimId, PayOut(c) PROVE \E es : Fits(es)
  <2> DEFINE es == <<StatusChanged(c, NonExistent), ClaimPayout(c)>>
  <2>1. DOMAIN es = {1, 2} /\ es[1] = StatusChanged(c, NonExistent) /\ es[2] = ClaimPayout(c)
    OBVIOUS
  <2>2. /\ es[1].class = "ClaimStatusChanged" /\ es[2].class = "ClaimPayout"
        /\ es[1].state = NonExistent
    BY <2>1 DEF ClaimPayout, StatusChanged
  <2>3. Mined(es)
    BY <1>5 DEF PayOut, Emits
  <2> HIDE DEF es
  <2>4. ~Shows(es[1], es[1].claim)
    BY <2>2 DEF Shows
  <2>5. BlockOk(es)
    BY <2>1, <2>2, <2>4 DEF BlockOk
  <2> QED
    BY <2>3, <2>5
<1>6. ASSUME NEW u \in Buyer, Buy(u) \/ ClaimFundraise(u) PROVE \E es : Fits(es)
  <2>1. Purchase(u).class = "Purchase" /\ FundraiseClaim(u).class = "Claim"
    BY EventsDiffer
  <2> QED
    BY <1>1, <1>6, <2>1 DEF Buy, ClaimFundraise, Emits
<1>7. ASSUME NEW d \in Distributor, ClaimAirdrop(d) PROVE \E es : Fits(es)
  <2>1. AirdropClaim(d).class = "Claimed"
    BY EventsDiffer
  <2> QED
    BY <1>1, <1>7, <2>1 DEF ClaimAirdrop, Emits
<1>8. PICK es : Mined(es) /\ BlockOk(es)
  BY <1>2, <1>3, <1>4, <1>5, <1>6, <1>7 DEF Contracts
<1>9. /\ events' = Append(events, es) /\ events \in Seq(Seq(EventSet)) /\ head \in Nat
  BY <1>8, Blocks DEF Mined, ChainOk
<1>10. PICK n \in Nat : n = head
  BY <1>9
<1>11. /\ head' = n + 1 /\ events'[n + 1] = es /\ \A b \in 1..n : events'[b] = events[b]
  BY <1>9, <1>10 DEF head
<1>12. ASSUME NEW b \in 1 .. n + 1 PROVE BlockOk(events'[b])
  <2>1. CASE b = n + 1
    BY <1>8, <1>11, <2>1
  <2>2. CASE b \in 1..n
    BY <1>10, <1>11, <2>2 DEF BlocksOk
  <2> QED
    BY <2>1, <2>2
<1> QED
  BY <1>11, <1>12 DEF BlocksOk

\* A handler that stores a row for the last event of its time.
LEMMA NewRow ==
    ASSUME NEW R, NEW rows \in Seq(R), NEW H, RowsFrom(rows, H), NEW call, RowOf(call) \in R,
           Shows(Event(call), Event(call).claim),
           \A c \in H : Shows(Event(c), Event(call).claim) /\ c.block = call.block =>
                            c.index < call.index
    PROVE  RowsFrom(Append(rows, RowOf(call)), H \cup {call})
<1> DEFINE n == Len(rows)
           more == Append(rows, RowOf(call))
<1>1. n \in Nat /\ DOMAIN rows = 1..n
  OBVIOUS
<1>2. /\ DOMAIN more = 1 .. n + 1 /\ more[n + 1] = RowOf(call)
      /\ \A i \in 1..n : more[i] = rows[i]
  OBVIOUS
<1>3. PICK src \in [1..n -> H] :
        /\ \A i \in 1..n : rows[i] = RowOf(src[i]) /\ Shows(Event(src[i]), rows[i].claim)
        /\ \A c \in H : Shows(Event(c), Event(c).claim) => \E i \in 1..n : src[i] = c
        /\ \A i, j \in 1..n :
               i < j /\ rows[i].claim = rows[j].claim /\ rows[i].timestamp = rows[j].timestamp =>
                   src[i].index < src[j].index
  BY <1>1 DEF RowsFrom, RowsBy
<1> DEFINE to == [i \in 1 .. n + 1 |-> IF i = n + 1 THEN call ELSE src[i]]
<1> HIDE DEF n, more
<1>4. \A i \in 1 .. n + 1 : i = n + 1 \/ (i \in 1..n /\ i # n + 1)
  BY <1>1
<1>5. /\ to \in [1 .. n + 1 -> H \cup {call}] /\ to[n + 1] = call
      /\ \A i \in 1..n : to[i] = src[i] /\ i \in 1 .. n + 1
  BY <1>1, <1>4
<1> HIDE DEF to
<1>6. RowOf(call).claim = Event(call).claim /\ RowOf(call).timestamp = call.block
  BY DEF RowOf
<1>7. \A i \in 1 .. n + 1 : more[i] = RowOf(to[i]) /\ Shows(Event(to[i]), more[i].claim)
  BY <1>2, <1>3, <1>4, <1>5, <1>6
<1>8. ASSUME NEW c \in H \cup {call}, Shows(Event(c), Event(c).claim)
      PROVE  \E i \in 1 .. n + 1 : to[i] = c
  <2>1. CASE c = call
    <3>1. n + 1 \in 1 .. n + 1
      BY <1>1
    <3> QED
      BY <1>5, <2>1, <3>1
  <2>2. CASE c \in H
    <3>1. PICK i \in 1..n : src[i] = c
      BY <1>3, <1>8, <2>2
    <3> QED
      BY <1>5, <3>1
  <2> QED
    BY <2>1, <2>2
<1>9. ASSUME NEW i \in 1 .. n + 1, NEW j \in 1 .. n + 1, i < j,
             more[i].claim = more[j].claim, more[i].timestamp = more[j].timestamp
      PROVE  to[i].index < to[j].index
  <2>1. i \in 1..n /\ more[i] = rows[i] /\ to[i] = src[i] /\ src[i] \in H
    BY <1>1, <1>2, <1>4, <1>5, <1>9
  <2>2. CASE j = n + 1
    <3>1. to[j] = call /\ more[j] = RowOf(call)
      BY <1>2, <1>5, <2>2
    <3>2. rows[i].claim = Event(call).claim /\ rows[i].timestamp = call.block
      BY <1>6, <1>9, <2>1, <3>1
    <3>3. Shows(Event(src[i]), Event(call).claim)
      BY <1>3, <2>1, <3>2
    <3>4. src[i].block = call.block
      <4>1. rows[i] = RowOf(src[i])
        BY <1>3, <2>1
      <4> QED
        BY <3>2, <4>1 DEF RowOf
    <3> QED
      BY <2>1, <3>1, <3>3, <3>4
  <2>3. CASE j \in 1..n
    <3>1. more[j] = rows[j] /\ to[j] = src[j]
      BY <1>2, <1>5, <2>3
    <3> QED
      BY <1>3, <1>9, <2>1, <2>3, <3>1
  <2> QED
    BY <1>4, <2>2, <2>3
<1>10. RowsBy(more, H \cup {call}, to)
  BY <1>2, <1>7, <1>8, <1>9 DEF RowsBy
<1>11. to \in [DOMAIN more -> H \cup {call}]
  BY <1>2, <1>5
<1> QED
  BY <1>10, <1>11 DEF RowsFrom, more

\* A handler that stores no row, of an event that shows no state.
LEMMA NoNewRow ==
    ASSUME NEW rows, NEW H, RowsFrom(rows, H), NEW call, \A c : ~Shows(Event(call), c)
    PROVE  RowsFrom(rows, H \cup {call})
<1>1. PICK src \in [DOMAIN rows -> H] : RowsBy(rows, H, src)
  BY DEF RowsFrom
<1>2. src \in [DOMAIN rows -> H \cup {call}]
  OBVIOUS
<1>3. RowsBy(rows, H \cup {call}, src)
  BY <1>1 DEF RowsBy
<1> QED
  BY <1>2, <1>3 DEF RowsFrom

-----------------------------------------------------------------------------
(* The invariant of the statuses.                                          *)

\* Blocks that stay have the same rows.
LEMMA SameRows ==
    ASSUME ChainOk, \A b \in 1..head : events'[b] = events[b], NEW m \in Nat, m <= head,
           NEW H, H \subseteq RangeCalls(1, m), NEW rows, RowsFrom(rows, H)
    PROVE  RowsFrom(rows, H)'
<1>1. \A c \in H : Event(c)' = Event(c)
  BY SameCalls
<1>2. \A c \in H : RowOf(c)' = RowOf(c)
  BY <1>1 DEF RowOf
<1>3. PICK src \in [DOMAIN rows -> H] : RowsBy(rows, H, src)
  BY DEF RowsFrom
<1>4. \A i \in DOMAIN rows : src[i] \in H
  BY <1>3
<1>5. RowsBy(rows, H, src)'
  BY <1>1, <1>2, <1>3, <1>4 DEF RowsBy
<1> QED
  BY <1>3, <1>5 DEF RowsFrom

\* When the chain keeps its blocks, it is enough to look at the new range.
LEMMA StatusesKept ==
    ASSUME ChainOk, \A b \in 1..head : events'[b] = events[b], BlocksOk',
           NEW m \in Nat, m <= head, m = lastBlock' - 1, NEW z \in Nat, z <= head, z = End',
           NEW f \in Nat \ {0}, f = lastBlock', NEW S, S = calls',
           NEW rows, rows = db'.statuses, NEW more, more = tx'.statuses,
           \A c \in RangeCalls(f, z) \ S : \A d \in S : Precedes(c, d),
           RowsFrom(rows, RangeCalls(1, m)), RowsFrom(more, RangeCalls(1, z) \ S)
    PROVE  StatusInv'
<1>1. /\ RangeCalls(f, z)' = RangeCalls(f, z) /\ RangeCalls(1, z)' = RangeCalls(1, z)
      /\ RangeCalls(1, m)' = RangeCalls(1, m)
  BY SameCalls
<1>2. PICK H, K : H = RangeCalls(1, m) /\ K = RangeCalls(1, z) \ S
  OBVIOUS
<1>3. H \subseteq RangeCalls(1, m) /\ K \subseteq RangeCalls(1, z)
  BY <1>2
<1>4. RowsFrom(rows, H)' /\ RowsFrom(more, K)'
  BY <1>2, <1>3, SameRows
<1>5. /\ RangeCalls(1, lastBlock - 1)' = H /\ (RangeCalls(1, End) \ calls)' = K
      /\ RangeCalls(lastBlock, End)' = RangeCalls(f, z)
  BY <1>1, <1>2
<1>6. RowsFrom(db.statuses, RangeCalls(1, lastBlock - 1))'
  BY <1>4, <1>5 DEF RowsFrom, RowsBy
<1>7. RowsFrom(tx.statuses, RangeCalls(1, End) \ calls)'
  BY <1>4, <1>5 DEF RowsFrom, RowsBy
<1>8. FirstHandled'
  BY <1>5 DEF FirstHandled, Precedes
<1> QED
  BY <1>6, <1>7, <1>8 DEF StatusInv

\* Blocks that do not change stay of their kind.
LEMMA SameBlocks ==
    ASSUME ChainOk, BlocksOk, UNCHANGED events
    PROVE  BlocksOk'
<1>1. head' = head
  BY ChainSame
<1> QED
  BY <1>1 DEF BlocksOk, BlockOk, Shows

\* Steps of others keep the invariant.
LEMMA OthersKeepStatuses ==
    ASSUME IndexerInv, StatusInv, BlocksOk', \A b \in 1..head : events'[b] = events[b],
           UNCHANGED indexerVars
    PROVE  StatusInv'
<1>1. ChainOk /\ CallsOk /\ FirstHandled
  BY DEF IndexerInv, StatusInv
<1>2. PICK m \in Nat, z \in Nat : m = lastBlock - 1 /\ z = End
  BY <1>1, Numbers
<1>3. PICK f \in Nat \ {0} : f = lastBlock
  BY <1>1, Numbers
<1>4. PICK S, rows, more : S = calls /\ rows = db.statuses /\ more = tx.statuses
  OBVIOUS
<1>5. /\ m = lastBlock' - 1 /\ z = End' /\ m <= head /\ z <= head /\ f = lastBlock' /\ S = calls'
      /\ rows = db'.statuses /\ more = tx'.statuses
  <2>1. UNCHANGED <<db, tx, rangeEnd, lastBlock, calls>>
    BY DEF indexerVars
  <2>2. End' = End
    BY <2>1 DEF End
  <2>3. m <= head /\ z <= head
    BY <1>1, <1>2, Numbers
  <2> QED
    BY <1>2, <1>3, <1>4, <2>1, <2>2, <2>3
<1>6. /\ RowsFrom(rows, RangeCalls(1, m)) /\ RowsFrom(more, RangeCalls(1, z) \ S)
  BY <1>2, <1>4 DEF StatusInv
<1>7. \A c \in RangeCalls(f, z) \ S : \A d \in S : Precedes(c, d)
  BY <1>1, <1>2, <1>3, <1>4 DEF FirstHandled
<1> QED
  BY <1>1, <1>5, <1>6, <1>7, StatusesKept

\* A range that is taken has nothing handled yet.
LEMMA TakeKeepsStatuses ==
    ASSUME IndexerInv, StatusInv, NEW end \in Block, TakeRange(end)
    PROVE  StatusInv'
<1>1. ChainOk /\ CallsOk /\ BlocksOk
  BY DEF IndexerInv, StatusInv
<1>2. PICK m \in Nat : m = lastBlock - 1
  BY <1>1, Numbers
<1>3. PICK f \in Nat \ {0} : f = lastBlock
  BY <1>1, Numbers
<1>4. PICK S, rows : S = RangeCalls(f, end) /\ rows = db.statuses
  OBVIOUS
<1>5. /\ rangeEnd = 0 /\ f <= end /\ end <= head /\ rangeEnd' = end /\ calls' = S
      /\ UNCHANGED <<events, db, tx, lastBlock>>
  BY <1>3, <1>4 DEF TakeRange
<1>6. end \in Nat /\ end # 0 /\ m <= head /\ m = f - 1 /\ f <= end + 1 /\ f = lastBlock'
      /\ m = lastBlock' - 1
  BY <1>1, <1>2, <1>3, <1>5, Numbers DEF Block
<1>7. end = End'
  BY <1>5, <1>6 DEF End
<1>8. BlocksOk' /\ \A b \in 1..head : events'[b] = events[b]
  BY <1>1, <1>5, SameBlocks, ChainSame
<1>9. RangeCalls(1, end) \ S = RangeCalls(1, m)
  BY <1>1, <1>4, <1>5, <1>6, Parts
<1>10. rows = db'.statuses /\ rows = tx'.statuses
  BY <1>1, <1>4, <1>5 DEF CallsOk
<1>11. RowsFrom(rows, RangeCalls(1, m))
  BY <1>2, <1>4 DEF StatusInv
<1>12. RowsFrom(rows, RangeCalls(1, end) \ S)
  BY <1>9, <1>11
<1>13. \A c \in RangeCalls(f, end) \ S : \A d \in S : Precedes(c, d)
  BY <1>4
<1> QED
  BY <1>1, <1>5, <1>6, <1>7, <1>8, <1>10, <1>11, <1>12, <1>13, StatusesKept

\* A range is committed when all of its calls were made.
LEMMA CommitKeepsStatuses ==
    ASSUME IndexerInv, StatusInv, CommitRange
    PROVE  StatusInv'
<1>1. ChainOk /\ CallsOk /\ BlocksOk
  BY DEF IndexerInv, StatusInv
<1>2. /\ rangeEnd # 0 /\ calls = {} /\ db' = tx /\ lastBlock' = rangeEnd + 1 /\ rangeEnd' = 0
      /\ UNCHANGED <<events, tx, calls>>
  BY DEF CommitRange
<1>3. PICK z \in Nat : z = rangeEnd
  BY <1>1, Numbers
<1>4. PICK f \in Nat \ {0} : f = z + 1
  BY <1>3
<1>5. z = End /\ z = End' /\ z <= head /\ z = lastBlock' - 1 /\ f = lastBlock'
  BY <1>1, <1>2, <1>3, <1>4, Numbers DEF End
<1>6. BlocksOk' /\ \A b \in 1..head : events'[b] = events[b]
  BY <1>1, <1>2, SameBlocks, ChainSame
<1>7. PICK S, rows : S = {} /\ rows = tx.statuses
  OBVIOUS
<1>8. S = calls' /\ rows = db'.statuses /\ rows = tx'.statuses
  BY <1>2, <1>7
<1>9. RowsFrom(rows, RangeCalls(1, z) \ S)
  BY <1>2, <1>5, <1>7 DEF StatusInv
<1>10. RangeCalls(1, z) \ S = RangeCalls(1, z)
  BY <1>7
<1>11. RowsFrom(rows, RangeCalls(1, z))
  BY <1>9, <1>10
<1>12. \A c \in RangeCalls(f, z) \ S : \A d \in S : Precedes(c, d)
  BY <1>7
<1> QED
  BY <1>1, <1>5, <1>6, <1>8, <1>9, <1>11, <1>12, StatusesKept

\* A range that is rolled back leaves the rows of what was committed.
LEMMA AbortKeepsStatuses ==
    ASSUME IndexerInv, StatusInv, NEW call \in calls, Abort(call)
    PROVE  StatusInv'
<1>1. ChainOk /\ CallsOk /\ BlocksOk
  BY DEF IndexerInv, StatusInv
<1>2. tx' = db /\ rangeEnd' = 0 /\ calls' = {} /\ UNCHANGED <<events, db, lastBlock>>
  BY DEF Abort
<1>3. PICK m \in Nat : m = lastBlock - 1
  BY <1>1, Numbers
<1>4. PICK f \in Nat \ {0} : f = lastBlock
  BY <1>1, Numbers
<1>5. m = lastBlock' - 1 /\ m = End' /\ m <= head /\ f = lastBlock'
  BY <1>1, <1>2, <1>3, <1>4, Numbers DEF End
<1>6. BlocksOk' /\ \A b \in 1..head : events'[b] = events[b]
  BY <1>1, <1>2, SameBlocks, ChainSame
<1>7. PICK S, rows : S = {} /\ rows = db.statuses
  OBVIOUS
<1>8. S = calls' /\ rows = db'.statuses /\ rows = tx'.statuses
  BY <1>2, <1>7
<1>9. RowsFrom(rows, RangeCalls(1, m))
  BY <1>3, <1>7 DEF StatusInv
<1>10. RangeCalls(1, m) \ S = RangeCalls(1, m)
  BY <1>7
<1>11. RowsFrom(rows, RangeCalls(1, m) \ S)
  BY <1>9, <1>10
<1>12. \A c \in RangeCalls(f, m) \ S : \A d \in S : Precedes(c, d)
  <2>1. ASSUME NEW c \in RangeCalls(f, m) PROVE FALSE
    <3>1. c.block \in f..m
      BY <1>1, <2>1, RangeCallsAre
    <3> QED
      BY <1>3, <1>4, <3>1
  <2> QED
    BY <2>1
<1> QED
  BY <1>1, <1>5, <1>6, <1>8, <1>9, <1>11, <1>12, StatusesKept

\* A handler that returns has to add its row to what was stored.
LEMMA ReturnKeepsStatuses ==
    ASSUME IndexerInv, StatusInv, NEW call \in calls, \A c \in calls \ {call} : Precedes(call, c),
           Return(call), NEW more, more = tx'.statuses,
           RowsFrom(more, (RangeCalls(1, End) \ calls) \cup {call})
    PROVE  StatusInv'
<1>1. ChainOk /\ CallsOk /\ BlocksOk /\ FirstHandled
  BY DEF IndexerInv, StatusInv
<1>2. calls' = calls \ {call} /\ UNCHANGED <<events, db, lastBlock, rangeEnd>>
  BY DEF Return
<1>3. PICK m \in Nat, z \in Nat : m = lastBlock - 1 /\ z = End
  BY <1>1, Numbers
<1>4. PICK f \in Nat \ {0} : f = lastBlock
  BY <1>1, Numbers
<1>5. PICK S, rows : S = calls \ {call} /\ rows = db.statuses
  OBVIOUS
<1>6. /\ m = lastBlock' - 1 /\ z = End' /\ m <= head /\ z <= head /\ f = lastBlock'
      /\ S = calls' /\ rows = db'.statuses
  BY <1>1, <1>2, <1>3, <1>4, <1>5, Numbers DEF End
<1>7. BlocksOk' /\ \A b \in 1..head : events'[b] = events[b]
  BY <1>1, <1>2, SameBlocks, ChainSame
<1>8. call \in RangeCalls(1, z)
  BY <1>1, <1>3, CallAt
<1>9. RangeCalls(1, z) \ S = (RangeCalls(1, z) \ calls) \cup {call}
  BY <1>5, <1>8
<1>10. RowsFrom(more, RangeCalls(1, z) \ S)
  BY <1>3, <1>9
<1>11. RowsFrom(rows, RangeCalls(1, m))
  BY <1>3, <1>5 DEF StatusInv
<1>12. \A c \in RangeCalls(f, z) \ S : \A d \in S : Precedes(c, d)
  <2> SUFFICES ASSUME NEW c \in RangeCalls(f, z) \ S, NEW d \in S PROVE Precedes(c, d)
    OBVIOUS
  <2>1. d \in calls /\ d \in calls \ {call} /\ (c = call \/ c \in RangeCalls(f, z) \ calls)
    BY <1>5
  <2> QED
    BY <1>1, <1>3, <1>4, <2>1 DEF FirstHandled
<1> QED
  BY <1>1, <1>6, <1>7, <1>10, <1>11, <1>12, StatusesKept

\* What was stored for an event of the same time and claim comes before it.
LEMMA LastOfItsTime ==
    ASSUME IndexerInv, StatusInv, NEW call \in calls, Shows(Event(call), Event(call).claim),
           NEW c \in RangeCalls(1, End) \ calls, Shows(Event(c), Event(call).claim),
           c.block = call.block
    PROVE  c.index < call.index
<1>1. ChainOk /\ CallsOk /\ BlocksOk /\ FirstHandled
  BY DEF IndexerInv, StatusInv
<1>2. lastBlock \in Nat \ {0} /\ End \in Nat /\ End <= head
  BY <1>1, Numbers
<1>3. call \in RangeCalls(lastBlock, End)
  BY <1>1 DEF CallsOk
<1>4. /\ call.pass \in DOMAIN Classes /\ Classes[call.pass] = Event(call).class
      /\ call.block \in lastBlock .. End /\ call.index \in DOMAIN events[call.block]
  BY <1>1, <1>3, RangeCallsAre
<1>5. /\ c.pass \in DOMAIN Classes /\ Classes[c.pass] = Event(c).class
      /\ c.index \in DOMAIN events[c.block]
      /\ c = [pass |-> c.pass, block |-> c.block, index |-> c.index]
  BY <1>1, RangeCallsAre
<1>6. c \in RangeCalls(lastBlock, End) \ calls
  BY <1>1, <1>4, <1>5, RangeCallsAre
<1>7. Precedes(c, call)
  BY <1>1, <1>6 DEF FirstHandled
<1>8. /\ Event(call).class \in {"ClaimStatusChanged", "ClaimPayout"}
      /\ Event(c).class \in {"ClaimStatusChanged", "ClaimPayout"} /\ Event(c).claim = Event(call).claim
  BY DEF Shows
<1>9. /\ Event(call).class = "ClaimStatusChanged" <=> call.pass = 4
      /\ Event(call).class = "ClaimPayout" <=> call.pass = 5
      /\ Event(c).class = "ClaimStatusChanged" <=> c.pass = 4
      /\ Event(c).class = "ClaimPayout" <=> c.pass = 5
  BY <1>4, <1>5, PassOf
<1>10. call.block \in 1..head /\ call.block \in Nat
  BY <1>1, CallAt
<1>11. c.pass = call.pass
  <2> SUFFICES ASSUME c.pass # call.pass PROVE FALSE
    OBVIOUS
  <2>1. c.pass = 4 /\ call.pass = 5
    BY <1>7, <1>8, <1>9 DEF Precedes
  <2>2. BlockOk(events[call.block])
    BY <1>1, <1>10 DEF BlocksOk
  <2>3. ~Shows(Event(c), Event(c).claim)
    BY <1>4, <1>5, <1>9, <2>1, <2>2 DEF BlockOk, Event
  <2> QED
    BY <1>8, <2>3
<1>12. c.pass \in Nat
  BY <1>5, ClassesAre
<1> QED
  BY <1>7, <1>10, <1>11, <1>12 DEF Precedes

\* Every handler stores the row of its event, if it has one.
LEMMA HandlersKeepStatuses ==
    ASSUME IndexerInv, StatusInv, NEW call \in calls,
           \/ HandleProtocolAdded(call) \/ HandleClaimCreated(call)
           \/ HandleClaimStatusChanged(call) \/ HandleClaimPayout(call)
           \/ HandlePurchase(call) \/ HandleClaim(call) \/ HandleClaimed(call)
    PROVE  StatusInv'
<1>1. ChainOk /\ CallsOk /\ TablesOk
  BY DEF IndexerInv
<1>2. Return(call) /\ \A c \in calls \ {call} : Precedes(call, c)
  BY DEF HandleProtocolAdded, HandleClaimCreated, HandleClaimStatusChanged, HandleClaimPayout,
         HandlePurchase, HandleClaim, HandleClaimed, Handles
<1>3. PICK t, H : t = tx /\ H = RangeCalls(1, End) \ calls
  OBVIOUS
<1>4. RowsFrom(t.statuses, H) /\ t \in Tables
  BY <1>1, <1>3 DEF StatusInv, TablesOk
<1>5. t.statuses \in Seq([claim : ClaimId, status : Status, timestamp : Block])
  BY <1>4 DEF Tables
<1>6. SUFFICES \E more : more = tx'.statuses /\ RowsFrom(more, H \cup {call})
  BY <1>2, <1>3, ReturnKeepsStatuses
<1>7. PICK rows : rows = t.statuses
  OBVIOUS
<1>8. Event(call) \in EventSet /\ call.block \in Block
  BY <1>1, CallAt
<1>9. ASSUME Shows(Event(call), Event(call).claim), tx'.statuses = Append(rows, RowOf(call)),
             RowOf(call) \in [claim : ClaimId, status : Status, timestamp : Block]
      PROVE  RowsFrom(tx'.statuses, H \cup {call})
  <2>1. \A c \in H : Shows(Event(c), Event(call).claim) /\ c.block = call.block =>
                         c.index < call.index
    BY <1>3, <1>9, LastOfItsTime
  <2>2. RowsFrom(Append(rows, RowOf(call)), H \cup {call})
    BY <1>4, <1>5, <1>7, <1>9, <2>1, NewRow
  <2> QED
    BY <1>9, <2>2
<1>10. ASSUME \A c : ~Shows(Event(call), c), tx'.statuses = rows
       PROVE  RowsFrom(tx'.statuses, H \cup {call})
  BY <1>4, <1>7, <1>10, NoNewRow
<1>11. CASE HandleClaimStatusChanged(call)
  <2>1. Event(call).class = "ClaimStatusChanged"
    BY <1>11 DEF HandleClaimStatusChanged, Handles
  <2>2. Event(call).claim \in ClaimId /\ Event(call).state \in Status \cup {NonExistent}
    BY <1>8, <2>1, EventFields
  <2>3. CASE Event(call).state = NonExistent
    <3>1. \A c : ~Shows(Event(call), c)
      BY <2>1, <2>3 DEF Shows
    <3>2. tx'.statuses = rows
      BY <1>3, <1>7, <1>11, <2>3 DEF HandleClaimStatusChanged
    <3> QED
      BY <1>10, <3>1, <3>2
  <2>4. CASE Event(call).state # NonExistent
    <3>1. Shows(Event(call), Event(call).claim)
      BY <2>1, <2>4 DEF Shows
    <3>2. RowOf(call) = [claim |-> Event(call).claim, status |-> Event(call).state,
                         timestamp |-> call.block]
      BY <2>1 DEF RowOf, Shown
    <3>3. tx' = [t EXCEPT !.statuses = Inserted(call, Event(call).state)]
      BY <1>3, <1>11, <2>4 DEF HandleClaimStatusChanged
    <3>4. tx'.statuses = Append(rows, RowOf(call))
      BY <1>3, <1>4, <1>7, <3>2, <3>3 DEF Inserted, Tables
    <3>5. RowOf(call) \in [claim : ClaimId, status : Status, timestamp : Block]
      BY <1>8, <2>2, <2>4, <3>2
    <3> QED
      BY <1>9, <3>1, <3>4, <3>5
  <2> QED
    BY <2>3, <2>4
<1>12. CASE HandleClaimPayout(call)
  <2>1. Event(call).class = "ClaimPayout"
    BY <1>12 DEF HandleClaimPayout, Handles
  <2>2. Event(call).claim \in ClaimId /\ PaidOut \in Status
    BY <1>8, <2>1, EventFields DEF Status
  <2>3. Shows(Event(call), Event(call).claim)
    BY <2>1 DEF Shows
  <2>4. RowOf(call) = [claim |-> Event(call).claim, status |-> PaidOut, timestamp |-> call.block]
    BY <2>1 DEF RowOf, Shown
  <2>5. tx' = [t EXCEPT !.statuses = Inserted(call, PaidOut)]
    BY <1>3, <1>12 DEF HandleClaimPayout
  <2>6. tx'.statuses = Append(rows, RowOf(call))
    BY <1>3, <1>4, <1>7, <2>4, <2>5 DEF Inserted, Tables
  <2>7. RowOf(call) \in [claim : ClaimId, status : Status, timestamp : Block]
    BY <1>8, <2>2, <2>4
  <2> QED
    BY <1>9, <2>3, <2>6, <2>7
<1>13. CASE \/ HandleProtocolAdded(call) \/ HandleClaimCreated(call) \/ HandlePurchase(call)
            \/ HandleClaim(call) \/ HandleClaimed(call)
  <2>1. Event(call).class \notin {"ClaimStatusChanged", "ClaimPayout"}
    BY <1>13 DEF HandleProtocolAdded, HandleClaimCreated, HandlePurchase, HandleClaim,
                 HandleClaimed, Handles
  <2>2. \A c : ~Shows(Event(call), c)
    BY <2>1, ShowsNothing
  <2>3. tx'.statuses = rows
    BY <1>3, <1>4, <1>7, <1>13 DEF HandleProtocolAdded, HandleClaimCreated, HandlePurchase,
                                   HandleClaim, HandleClaimed, Tables
  <2> QED
    BY <1>10, <2>2, <2>3
<1> QED
  BY <1>11, <1>12, <1>13

\* Together with the invariant of the indexer it holds in every state.
THEOREM StatusInvariance == Spec => [](IndexerInv /\ StatusInv)
<1>1. Init => IndexerInv /\ StatusInv
  <2> SUFFICES ASSUME Init PROVE IndexerInv /\ StatusInv
    OBVIOUS
  <2>1. IndexerInv
    BY InitHolds
  <2>2. /\ events = <<>> /\ db = NoTables /\ tx = NoTables /\ lastBlock = 1 /\ rangeEnd = 0
        /\ calls = {}
    BY DEF Init
  <2>3. head = 0 /\ End = 0 /\ lastBlock - 1 = 0
    BY <2>2 DEF head, End
  <2>4. BlocksOk
    BY <2>3 DEF BlocksOk
  <2>5. FirstHandled
    BY <2>2 DEF FirstHandled
  <2>6. RangeCalls(1, 0) = {}
    <3> SUFFICES ASSUME NEW c \in RangeCalls(1, 0) PROVE FALSE
      OBVIOUS
    <3>1. c.block \in 1..0
      BY <2>1, RangeCallsAre DEF IndexerInv
    <3> QED
      BY <3>1
  <2>7. RowsFrom(<<>>, {})
    <3>1. DOMAIN <<>> = {}
      OBVIOUS
    <3>2. PICK src : src = [i \in {} |-> 0]
      OBVIOUS
    <3>3. src \in [{} -> {}]
      BY <3>2
    <3>4. RowsBy(<<>>, {}, src)
      BY <3>1 DEF RowsBy
    <3> QED
      BY <3>1, <3>3, <3>4 DEF RowsFrom
  <2>8. db.statuses = <<>> /\ tx.statuses = <<>>
    BY <2>2 DEF NoTables
  <2>9. RangeCalls(1, 0) \ calls = {}
    BY <2>6
  <2> QED
    BY <2>1, <2>3, <2>4, <2>5, <2>6, <2>7, <2>8, <2>9 DEF StatusInv
<1>2. IndexerInv /\ StatusInv /\ [Next]_vars => IndexerInv' /\ StatusInv'
  <2> SUFFICES ASSUME IndexerInv, StatusInv, [Next]_vars PROVE IndexerInv' /\ StatusInv'
    OBVIOUS
  <2>1. IndexerInv'
    BY StepKeeps
  <2>2. ChainOk /\ BlocksOk
    BY DEF IndexerInv, StatusInv
  <2>3. CASE Contracts
    <3>1. (\A b \in 1..head : events'[b] = events[b]) /\ UNCHANGED indexerVars
      BY <2>2, <2>3, ContractsKeep
    <3>2. BlocksOk'
      BY <2>2, <2>3, ContractBlocks
    <3> QED
      BY <2>1, <3>1, <3>2, OthersKeepStatuses
  <2>4. CASE UNCHANGED <<events, indexerVars>>
    <3>1. BlocksOk' /\ \A b \in 1..head : events'[b] = events[b]
      BY <2>2, <2>4, SameBlocks, ChainSame
    <3> QED
      BY <2>1, <2>4, <3>1, OthersKeepStatuses
  <2>5. CASE Indexer
    BY <2>1, <2>5, TakeKeepsStatuses, CommitKeepsStatuses, AbortKeepsStatuses,
       HandlersKeepStatuses DEF Indexer
  <2>6. (\E i \in Importer : BeginImport(i) \/ CommitImport(i)) => UNCHANGED <<events, indexerVars>>
    BY DEF BeginImport, CommitImport
  <2>7. UNCHANGED vars => UNCHANGED <<events, indexerVars>>
    BY DEF vars
  <2> QED
    BY <2>3, <2>4, <2>5, <2>6, <2>7 DEF Next
<1> QED
  BY <1>1, <1>2, PTL DEF Spec

-----------------------------------------------------------------------------
(* What the view shows of the statuses.                                    *)

\* The rows of a claim, and the order of the view.
Ids(rows, c) == {i \in DOMAIN rows : rows[i].claim = c}

NewestFirst(rows) == {p \in Nat \X Nat : Before(rows, p[1], p[2])}

\* The places in the chain where a claim gets a state, and their order.
AllPlaces(b) == UNION {{<<k, i>> : i \in DOMAIN events[k]} : k \in 1..b}

Places(c, b) == {p \in AllPlaces(b) : Shows(events[p[1]][p[2]], c)}

OldestFirst ==
    {r \in (Nat \X Nat) \X (Nat \X Nat) :
        r[1][1] < r[2][1] \/ (r[1][1] = r[2][1] /\ r[1][2] < r[2][2])}

\* s is the list that the view shows.
ListedBy(t, c, s) ==
    LET S == Ids(t.statuses, c)
        n == Cardinality(S)
    IN  /\ IsFiniteSet(S) /\ n \in Nat /\ Lists(s, n, S, NewestFirst(t.statuses))
        /\ Listed(t, c) = [i \in 1..n |-> t.statuses[s[i]].status]

\* A table of statuses is listed in the order of the view.
LEMMA ListedAs ==
    ASSUME NEW t, NEW rows, rows = t.statuses,
           rows \in Seq([claim : ClaimId, status : Status, timestamp : Block]), NEW c
    PROVE  \E s : ListedBy(t, c, s)
<1> DEFINE S == Ids(rows, c)
           R == NewestFirst(rows)
           n == Cardinality(S)
           InTime(s) == \A i, j \in DOMAIN s : i < j => Before(rows, s[i], s[j])
<1>1. /\ Len(rows) \in Nat /\ DOMAIN rows = 1..Len(rows)
      /\ \A i \in DOMAIN rows : i \in Nat /\ rows[i].timestamp \in Nat
  <2> DEFINE Row == [claim : ClaimId, status : Status, timestamp : Block]
  <2>1. \A x \in Row : x.timestamp \in Nat
    BY DependentsAssumption DEF Block
  <2> HIDE DEF Row
  <2>2. rows \in Seq(Row)
    BY DEF Row
  <2> QED
    BY <2>1, <2>2
<1>2. IsFiniteSet(S) /\ n \in Nat
  <2>1. IsFiniteSet(1..Len(rows)) /\ S \subseteq 1..Len(rows)
    BY <1>1, FS_Interval DEF Ids
  <2> QED
    BY <2>1, FS_Subset, FS_CardinalityType
<1>3. \A i \in S : i \in Nat /\ rows[i].timestamp \in Nat
  BY <1>1 DEF Ids
<1>4. \A i, j \in S : <<i, j>> \in R <=> Before(rows, i, j)
  BY <1>3 DEF NewestFirst
<1>5. StrictOrder(S, R)
  <2> HIDE DEF S, R
  <2>1. \A x \in S : ~Before(rows, x, x)
    BY <1>3 DEF Before
  <2>2. \A x, y \in S : x = y \/ Before(rows, x, y) \/ Before(rows, y, x)
    BY <1>3 DEF Before
  <2>3. \A x, y, z \in S : Before(rows, x, y) /\ Before(rows, y, z) => Before(rows, x, z)
    BY <1>3 DEF Before
  <2> QED
    BY <1>4, <2>1, <2>2, <2>3 DEF StrictOrder
<1>6. Listed(t, c) = LET order == CHOOSE s \in SetToSeqs(S) : InTime(s)
                     IN  [i \in DOMAIN order |-> rows[order[i]].status]
  BY DEF Listed, InOrder, Ids
<1> HIDE DEF n
<1>7. /\ \E s \in Listings(S) : \A i, j \in 1..n : i < j => <<s[i], s[j]>> \in R
      /\ \A s \in Listings(S) :
            (\A i, j \in 1..n : i < j => <<s[i], s[j]>> \in R) => Lists(s, n, S, R)
  BY <1>2, <1>5, SortedListing DEF n
<1>8. SetToSeqs(S) = Listings(S)
  BY DEF SetToSeqs, Listings
<1> HIDE DEF S, R
<1>9. ASSUME NEW s \in Listings(S)
      PROVE  /\ DOMAIN s = 1..n
             /\ InTime(s) <=> \A i, j \in 1..n : i < j => <<s[i], s[j]>> \in R
  <2>1. s \in [1..n -> S]
    BY DEF Listings, n
  <2> QED
    BY <1>4, <2>1
<1> DEFINE order == CHOOSE s \in SetToSeqs(S) : InTime(s)
<1>10. order \in Listings(S) /\ InTime(order)
  <2>1. \E s \in SetToSeqs(S) : InTime(s)
    BY <1>7, <1>8, <1>9
  <2> HIDE DEF InTime
  <2> QED
    BY <1>8, <2>1
<1>11. Listed(t, c) = [i \in DOMAIN order |-> rows[order[i]].status]
  BY <1>6
<1> HIDE DEF order
<1>12. Lists(order, n, S, R) /\ DOMAIN order = 1..n
  BY <1>7, <1>9, <1>10
<1>13. Listed(t, c) = [i \in 1..n |-> rows[order[i]].status]
  BY <1>11, <1>12
<1> QED
  BY <1>2, <1>12, <1>13 DEF ListedBy, S, R, n

\* s is the list of the places where c got its states.
StoredAt(c, b, s) ==
    LET S == Places(c, b)
        n == Cardinality(S)
    IN  /\ n \in Nat /\ StrictOrder(S, OldestFirst) /\ Lists(s, n, S, OldestFirst)
        /\ StoredStates(c, b) = [i \in 1..n |-> Shown(events[s[i][1]][s[i][2]])]

\* The states of the chain are listed in the order of their places.
LEMMA StoredAs ==
    ASSUME ChainOk, NEW c, NEW b \in Nat, b <= head, IsFiniteSet(Places(c, b))
    PROVE  \E s : StoredAt(c, b, s)
<1> DEFINE S == Places(c, b)
           n == Cardinality(S)
           Earliest(p, q) == p[1] < q[1] \/ (p[1] = q[1] /\ p[2] < q[2])
           InTime(s) == \A i, j \in DOMAIN s : i < j => Earliest(s[i], s[j])
<1>1. n \in Nat
  BY FS_CardinalityType
<1>2. S \subseteq Nat \X Nat
  <2> SUFFICES ASSUME NEW k \in 1..b, NEW i \in DOMAIN events[k] PROVE <<k, i>> \in Nat \X Nat
    BY DEF Places, AllPlaces
  <2>1. k \in 1..head /\ k \in Nat
    BY Blocks
  <2>2. events[k] \in Seq(EventSet)
    BY <2>1, Blocks
  <2> QED
    BY <2>1, <2>2
<1>3. \A p, q \in Nat \X Nat : <<p, q>> \in OldestFirst <=> Earliest(p, q)
  BY DEF OldestFirst
<1>4. StrictOrder(S, OldestFirst)
  <2>1. \A x \in Nat \X Nat : ~Earliest(x, x)
    OBVIOUS
  <2>2. \A x, y \in Nat \X Nat : x = y \/ Earliest(x, y) \/ Earliest(y, x)
    OBVIOUS
  <2>3. \A x, y, z \in Nat \X Nat : Earliest(x, y) /\ Earliest(y, z) => Earliest(x, z)
    OBVIOUS
  <2> HIDE DEF Earliest
  <2>4. StrictOrder(Nat \X Nat, OldestFirst)
    BY <1>3, <2>1, <2>2, <2>3 DEF StrictOrder
  <2> QED
    BY <1>2, <2>4, OrderOfPart
<1>5. StoredStates(c, b) = LET order == CHOOSE s \in SetToSeqs(S) : InTime(s)
                           IN  [i \in DOMAIN order |-> Shown(events[order[i][1]][order[i][2]])]
  BY DEF StoredStates, InOrder, Places, AllPlaces
<1> HIDE DEF n, Earliest
<1>6. /\ \E s \in Listings(S) : \A i, j \in 1..n : i < j => <<s[i], s[j]>> \in OldestFirst
      /\ \A s \in Listings(S) : (\A i, j \in 1..n : i < j => <<s[i], s[j]>> \in OldestFirst)
                                    => Lists(s, n, S, OldestFirst)
  BY <1>1, <1>4, SortedListing DEF n
<1>7. SetToSeqs(S) = Listings(S)
  BY DEF SetToSeqs, Listings
<1> HIDE DEF S
<1>8. ASSUME NEW s \in Listings(S)
      PROVE  /\ DOMAIN s = 1..n
             /\ InTime(s) <=> \A i, j \in 1..n : i < j => <<s[i], s[j]>> \in OldestFirst
  <2>1. s \in [1..n -> S]
    BY DEF Listings, n
  <2>2. \A i \in 1..n : s[i] \in Nat \X Nat
    BY <1>2, <2>1
  <2> QED
    BY <1>3, <2>1, <2>2
<1> DEFINE order == CHOOSE s \in SetToSeqs(S) : InTime(s)
<1>9. order \in Listings(S) /\ InTime(order)
  <2>1. \E s \in SetToSeqs(S) : InTime(s)
    BY <1>6, <1>7, <1>8
  <2> HIDE DEF InTime
  <2> QED
    BY <1>7, <2>1
<1>10. StoredStates(c, b) = [i \in DOMAIN order |-> Shown(events[order[i][1]][order[i][2]])]
  BY <1>5
<1> HIDE DEF order
<1>11. Lists(order, n, S, OldestFirst) /\ DOMAIN order = 1..n
  BY <1>6, <1>8, <1>9
<1>12. StoredStates(c, b) = [i \in 1..n |-> Shown(events[order[i][1]][order[i][2]])]
  BY <1>10, <1>11
<1> QED
  BY <1>1, <1>4, <1>11, <1>12 DEF StoredAt, S, n

\* The rows of the first m blocks, by the calls that stored them.
StoredBy(rows, m, src) ==
    /\ m \in Nat /\ m <= head /\ DOMAIN rows \subseteq Nat
    /\ src \in [DOMAIN rows -> RangeCalls(1, m)] /\ RowsBy(rows, RangeCalls(1, m), src)

\* The claims that have a row for what was emitted at index i of block b.
ClaimsAt(rows, src, b, i) ==
    {rows[k].claim : k \in {x \in DOMAIN rows : src[x].block = b /\ src[x].index = i}}

\* An event that shows a state has a row, and the row is of its claim.
LEMMA ShownIsStored ==
    ASSUME ChainOk, NEW m, NEW rows, NEW src, StoredBy(rows, m, src),
           NEW c, NEW b \in 1..m, NEW i \in DOMAIN events[b], Shows(events[b][i], c)
    PROVE  c \in ClaimsAt(rows, src, b, i)
<1>1. events[b][i] \in EventSet
  BY Blocks DEF StoredBy
<1>2. PICK p \in DOMAIN Classes : Classes[p] = events[b][i].class
  BY <1>1, SomePass
<1>3. PICK d : d = [pass |-> p, block |-> b, index |-> i]
  OBVIOUS
<1>4. d.pass = p /\ d.block = b /\ d.index = i
  BY <1>3
<1>5. Event(d) = events[b][i]
  BY <1>4 DEF Event
<1>6. d \in RangeCalls(1, m)
  BY <1>2, <1>3, <1>4, <1>5, RangeCallsAre
<1>7. Event(d).claim = c /\ Shows(Event(d), Event(d).claim)
  BY <1>5 DEF Shows
<1>8. PICK k \in DOMAIN rows : src[k] = d
  BY <1>6, <1>7 DEF StoredBy, RowsBy
<1>9. rows[k].claim = c
  BY <1>7, <1>8 DEF StoredBy, RowsBy, RowOf
<1> QED
  BY <1>4, <1>8, <1>9 DEF ClaimsAt

\* h takes each row to the place of its event.
Placed(rows, c, m, h) ==
    /\ h \in Bijection(Ids(rows, c), Places(c, m))
    /\ \A i, j \in Ids(rows, c) : <<i, j>> \in NewestFirst(rows) => <<h[j], h[i]>> \in OldestFirst
    /\ \A i \in Ids(rows, c) : rows[i].status = Shown(events[h[i][1]][h[i][2]])

\* Rows and places are one to one, rows in the order of the view are places in
\* the opposite order.
LEMMA RowsArePlaces ==
    ASSUME ChainOk, NEW m, NEW rows, NEW src, StoredBy(rows, m, src), NEW c
    PROVE  Placed(rows, c, m, [i \in Ids(rows, c) |-> <<src[i].block, src[i].index>>])
<1> DEFINE S == Ids(rows, c)
           T == Places(c, m)
           h == [i \in S |-> <<src[i].block, src[i].index>>]
<1>1. ASSUME NEW i \in S
      PROVE  /\ i \in DOMAIN rows /\ i \in Nat /\ rows[i].claim = c
             /\ src[i].block \in 1..m /\ src[i].block \in Nat /\ src[i].index \in Nat
             /\ src[i].index \in DOMAIN events[src[i].block]
             /\ rows[i].timestamp = src[i].block
             /\ rows[i].status = Shown(events[src[i].block][src[i].index])
             /\ Shows(events[src[i].block][src[i].index], c)
  <2>1. i \in DOMAIN rows /\ i \in Nat /\ rows[i].claim = c
    BY DEF Ids, StoredBy
  <2>2. PICK d \in RangeCalls(1, m) : d = src[i]
    BY <2>1 DEF StoredBy
  <2>3. /\ d.block \in 1..m /\ d.block \in Nat /\ d.index \in Nat /\ d.index \in DOMAIN events[d.block]
        /\ Event(d) = events[d.block][d.index]
    BY CallFields DEF StoredBy
  <2>4. rows[i] = RowOf(d) /\ Shows(Event(d), c)
    BY <2>1, <2>2 DEF StoredBy, RowsBy
  <2>5. rows[i].timestamp = d.block /\ rows[i].status = Shown(Event(d))
    BY <2>4 DEF RowOf
  <2> QED
    BY <2>1, <2>2, <2>3, <2>4, <2>5
<1>2. \A i \in S : h[i] = <<src[i].block, src[i].index>>
  OBVIOUS
<1> HIDE DEF h
<1>3. ASSUME NEW i \in S PROVE h[i] \in T
  <2>1. PICK k, j : k = src[i].block /\ j = src[i].index
    OBVIOUS
  <2>2. h[i] = <<k, j>> /\ k \in 1..m /\ j \in DOMAIN events[k] /\ Shows(events[k][j], c)
    BY <1>1, <1>2, <2>1
  <2>3. <<k, j>> \in AllPlaces(m)
    BY <2>2 DEF AllPlaces
  <2> QED
    BY <2>2, <2>3 DEF Places
<1>4. ASSUME NEW i \in S, NEW j \in S, i < j PROVE h[i] # h[j]
  <2> SUFFICES ASSUME h[i] = h[j] PROVE FALSE
    OBVIOUS
  <2>1. src[i].block = src[j].block /\ src[i].index = src[j].index
    BY <1>2
  <2>2. rows[i].claim = rows[j].claim /\ rows[i].timestamp = rows[j].timestamp
    BY <1>1, <2>1
  <2>3. src[i].index < src[j].index
    BY <1>1, <1>4, <2>2 DEF StoredBy, RowsBy
  <2> QED
    BY <1>1, <2>1, <2>3
<1>5. \A i, j \in S : h[i] = h[j] => i = j
  <2> SUFFICES ASSUME NEW i \in S, NEW j \in S, i # j PROVE h[i] # h[j]
    OBVIOUS
  <2>1. i < j \/ j < i
    BY <1>1
  <2> QED
    BY <1>4, <2>1
<1>6. ASSUME NEW p \in T PROVE \E i \in S : h[i] = p
  <2>1. p \in AllPlaces(m) /\ Shows(events[p[1]][p[2]], c)
    BY DEF Places
  <2>2. PICK k \in 1..m : \E j \in DOMAIN events[k] : p = <<k, j>>
    BY <2>1 DEF AllPlaces
  <2>3. PICK j \in DOMAIN events[k] : p = <<k, j>>
    BY <2>2
  <2>4. Shows(events[k][j], c)
    BY <2>1, <2>3
  <2>5. PICK i \in DOMAIN rows : rows[i].claim = c /\ src[i].block = k /\ src[i].index = j
    <3>1. c \in ClaimsAt(rows, src, k, j)
      BY <2>4, ShownIsStored
    <3> QED
      BY <3>1 DEF ClaimsAt
  <2>6. i \in S
    BY <2>5 DEF Ids
  <2> QED
    BY <1>2, <2>3, <2>5, <2>6
<1>7. h \in Bijection(S, T)
  <2>1. h \in [S -> T] /\ DOMAIN h = S
    BY <1>3 DEF h
  <2> HIDE DEF S, T
  <2>2. h \in Injection(S, T)
    BY <1>5, <2>1 DEF Injection, IsInjective
  <2>3. h \in Surjection(S, T)
    BY <1>6, <2>1 DEF Surjection
  <2> QED
    BY <2>2, <2>3 DEF Bijection
<1>8. ASSUME NEW i \in S, NEW j \in S, <<i, j>> \in NewestFirst(rows)
      PROVE  <<h[j], h[i]>> \in OldestFirst
  <2>1. Before(rows, i, j)
    BY <1>8 DEF NewestFirst
  <2>2. CASE src[i].block > src[j].block
    BY <1>1, <1>2, <2>2 DEF OldestFirst
  <2>3. CASE src[i].block = src[j].block /\ i > j
    <3>1. src[j].index < src[i].index
      <4>1. j < i /\ rows[j].claim = rows[i].claim /\ rows[j].timestamp = rows[i].timestamp
        BY <1>1, <2>3
      <4> QED
        BY <1>1, <4>1 DEF StoredBy, RowsBy
    <3> QED
      BY <1>1, <1>2, <2>3, <3>1 DEF OldestFirst
  <2> QED
    BY <1>1, <2>1, <2>2, <2>3 DEF Before
<1>9. \A i \in S : rows[i].status = Shown(events[h[i][1]][h[i][2]])
  BY <1>1, <1>2
<1> QED
  BY <1>7, <1>8, <1>9 DEF Placed, h

\* The statuses that the view lists are the states of the chain, newest first.
LEMMA ListedIsChain ==
    ASSUME IndexerInv, StatusInv, NEW c
    PROVE  Listed(db, c) = Reverse(StoredStates(c, Indexed))
<1>1. ChainOk /\ CallsOk /\ TablesOk
  BY DEF IndexerInv
<1>2. PICK m \in Nat : m = Indexed /\ m <= head
  BY <1>1, Numbers DEF Indexed
<1>3. PICK rows, t : rows = db.statuses /\ t = db
  OBVIOUS
<1>4. rows \in Seq([claim : ClaimId, status : Status, timestamp : Block]) /\ rows = t.statuses
  BY <1>1, <1>3 DEF TablesOk, Tables
<1>5. DOMAIN rows \subseteq Nat
  BY <1>4
<1>6. PICK src \in [DOMAIN rows -> RangeCalls(1, m)] : RowsBy(rows, RangeCalls(1, m), src)
  BY <1>2, <1>3 DEF StatusInv, RowsFrom, Indexed
<1>7. StoredBy(rows, m, src)
  BY <1>2, <1>5, <1>6 DEF StoredBy
<1>8. PICK h : Placed(rows, c, m, h)
  BY <1>1, <1>7, RowsArePlaces
<1>9. PICK S, T, R : S = Ids(rows, c) /\ T = Places(c, m) /\ R = NewestFirst(rows)
  OBVIOUS
<1>10. PICK n : n = Cardinality(S)
  OBVIOUS
<1>11. PICK s : ListedBy(t, c, s)
  BY <1>4, ListedAs
<1>12. /\ IsFiniteSet(S) /\ n \in Nat /\ Lists(s, n, S, R)
       /\ Listed(t, c) = [i \in 1..n |-> rows[s[i]].status]
  BY <1>4, <1>9, <1>10, <1>11 DEF ListedBy
<1>13. /\ h \in Bijection(S, T) /\ \A i, j \in S : <<i, j>> \in R => <<h[j], h[i]>> \in OldestFirst
       /\ \A i \in S : rows[i].status = Shown(events[h[i][1]][h[i][2]])
  BY <1>8, <1>9 DEF Placed
<1>14. IsFiniteSet(T) /\ Cardinality(T) = n
  BY <1>10, <1>12, <1>13, FS_Bijection DEF ExistsBijection
<1>15. PICK u : StoredAt(c, m, u)
  BY <1>1, <1>2, <1>9, <1>14, StoredAs
<1>16. /\ StrictOrder(T, OldestFirst) /\ Lists(u, n, T, OldestFirst)
       /\ StoredStates(c, m) = [i \in 1..n |-> Shown(events[u[i][1]][u[i][2]])]
  BY <1>9, <1>14, <1>15 DEF StoredAt
<1>17. \A i \in 1..n : u[n - i + 1] = h[s[i]]
  <2>1. Opposite(S, R, T, OldestFirst, h)
    BY <1>13, <1>16 DEF Opposite, Bijection, Surjection, Injection
  <2> QED
    BY <1>12, <1>16, <2>1, OppositeLists
<1>18. PICK states : states = StoredStates(c, m)
  OBVIOUS
<1>19. Len(states) = n
  BY <1>12, <1>16, <1>18
<1>20. Reverse(states) = [i \in 1..n |-> states[(n - i) + 1]]
  BY <1>19 DEF Reverse
<1>21. ASSUME NEW i \in 1..n PROVE states[(n - i) + 1] = rows[s[i]].status
  <2>1. (n - i) + 1 \in 1..n
    BY <1>12
  <2>2. u[(n - i) + 1] = h[s[i]]
    BY <1>17
  <2>3. s[i] \in S
    BY <1>12 DEF Lists
  <2>4. states[(n - i) + 1] = Shown(events[u[(n - i) + 1][1]][u[(n - i) + 1][2]])
    BY <1>16, <1>18, <2>1
  <2> QED
    BY <1>13, <2>2, <2>3, <2>4
<1> QED
  BY <1>2, <1>3, <1>12, <1>18, <1>20, <1>21

\* The claims that have a row are those that were created.
LEMMA ClaimsWithRows ==
    ASSUME IndexerInv, StatusInv
    PROVE  {db.statuses[i].claim : i \in DOMAIN db.statuses} = Created(Indexed)
<1>1. ChainOk /\ CallsOk /\ TablesOk /\ BlocksOk
  BY DEF IndexerInv, StatusInv
<1>2. PICK m \in Nat : m = Indexed /\ m <= head
  BY <1>1, Numbers DEF Indexed
<1>3. PICK rows : rows = db.statuses
  OBVIOUS
<1>4. rows \in Seq([claim : ClaimId, status : Status, timestamp : Block])
  BY <1>1, <1>3 DEF TablesOk, Tables
<1>5. PICK src \in [DOMAIN rows -> RangeCalls(1, m)] : RowsBy(rows, RangeCalls(1, m), src)
  BY <1>2, <1>3 DEF StatusInv, RowsFrom, Indexed
<1>6. ASSUME NEW i \in DOMAIN rows PROVE rows[i].claim \in Created(m)
  <2>1. PICK d \in RangeCalls(1, m) : d = src[i]
    OBVIOUS
  <2>2. /\ d.block \in Nat /\ d.block <= m /\ Told(d.block, d.index) /\ Event(d) \in EventSet
        /\ Event(d) = events[d.block][d.index]
    BY <1>1, <1>2, CallFields
  <2>3. Shows(Event(d), rows[i].claim)
    BY <1>5, <2>1 DEF RowsBy
  <2>4. Event(d).class \in {"ClaimStatusChanged", "ClaimPayout"} /\ Event(d).claim = rows[i].claim
    BY <2>3 DEF Shows
  <2>5. rows[i].claim \in ClaimId
    BY <2>2, <2>4, EventFields
  <2>6. Emitted(ClaimCreated(rows[i].claim), d.block)
    BY <2>2, <2>4 DEF Told
  <2>7. Emitted(ClaimCreated(rows[i].claim), m)
    BY <2>2, <2>6, EmittedUpTo
  <2> QED
    BY <2>5, <2>7 DEF Created
<1>7. ASSUME NEW c \in Created(m) PROVE \E i \in DOMAIN rows : rows[i].claim = c
  <2>1. PICK b \in 1..m : ClaimCreated(c) \in Range(events[b])
    BY DEF Created, Emitted
  <2>2. PICK i \in DOMAIN events[b] : events[b][i] = ClaimCreated(c)
    BY <2>1 DEF Range
  <2>3. events[b][i].class = "ClaimCreated" /\ events[b][i].claim = c
    BY <2>2 DEF ClaimCreated
  <2>4. b \in 1..head
    BY <1>1, <1>2, Blocks
  <2>5. PICK j \in DOMAIN events[b] : Shows(events[b][j], c)
    BY <1>1, <2>3, <2>4 DEF BlocksOk, BlockOk
  <2>6. StoredBy(rows, m, src)
    BY <1>2, <1>4, <1>5 DEF StoredBy
  <2>7. b \in 1..m /\ c \in ClaimsAt(rows, src, b, j)
    BY <1>1, <2>5, <2>6, ShownIsStored
  <2> QED
    BY <2>7 DEF ClaimsAt
<1> QED
  BY <1>2, <1>3, <1>6, <1>7

\* At any commit the newest claim is that of the contract, and each claim is listed
\* with its states in the order in which they were emitted, newest first: neither
\* the order of the passes nor ranges that are taken again can be seen
\* (indexer.py:538-590, claim.py:55-64, claim_status.py:59-67).
THEOREM StatesAreTold == Spec => []ViewTellsTheStates
<1>1. IndexerInv /\ StatusInv => ViewTellsTheStates
  <2> SUFFICES ASSUME IndexerInv, StatusInv PROVE ViewTellsTheStates
    OBVIOUS
  <2>1. PICK C : C = Created(Indexed)
    OBVIOUS
  <2>2. ActiveClaim(db) = IF C = {} THEN 0 ELSE Max(C)
    BY <2>1, ClaimsWithRows DEF ActiveClaim
  <2>3. /\ MaxClaims \in Nat /\ C \subseteq 1..MaxClaims
    BY <2>1, DependentsAssumption DEF Created, ClaimId
  <2>4. ActiveClaim(db) = Max(C \cup {0})
    <3>1. CASE C = {}
      <4>1. C \cup {0} = {0}
        BY <3>1
      <4>2. Max({0}) = 0
        BY DEF Max
      <4> QED
        BY <2>2, <3>1, <4>1, <4>2
    <3>2. CASE C # {}
      <4>1. PICK y \in C : \A x \in C : y >= x
        <5> DEFINE D == {MaxClaims - x : x \in C}
        <5>1. D \in SUBSET Nat /\ D # {}
          BY <2>3, <3>2
        <5>2. PICK d \in D : \A e \in D : d <= e
          <6> HIDE DEF D
          <6> QED
            BY <5>1, LeastNat
        <5>3. PICK y \in C : d = MaxClaims - y
          OBVIOUS
        <5>4. ASSUME NEW x \in C PROVE y >= x
          <6>1. MaxClaims - y <= MaxClaims - x
            BY <5>2, <5>3
          <6>2. x \in Nat /\ y \in Nat
            BY <2>3
          <6> QED
            BY <2>3, <6>1, <6>2
        <5> QED
          BY <5>4
      <4>2. \A x \in C : x \in Nat /\ x > 0
        BY <2>3
      <4>3. ASSUME NEW A, y \in A, \A x \in A : x \in Nat /\ y >= x PROVE Max(A) = y
        <5>1. \E z \in A : \A x \in A : z >= x
          BY <4>3
        <5>2. Max(A) \in A /\ \A x \in A : Max(A) >= x
          BY <5>1 DEF Max
        <5> QED
          BY <4>3, <5>2
      <4>4. Max(C) = y
        BY <4>1, <4>2, <4>3
      <4>5. \A x \in C \cup {0} : x \in Nat /\ y >= x
        BY <4>1, <4>2
      <4>6. Max(C \cup {0}) = y
        BY <4>1, <4>3, <4>5
      <4> QED
        BY <2>2, <3>2, <4>4, <4>6
    <3> QED
      BY <3>1, <3>2
  <2> QED
    BY <2>1, <2>4, ListedIsChain DEF ViewTellsTheStates
<1> QED
  BY <1>1, StatusInvariance, PTL
=============================================================================
