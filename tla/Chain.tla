------------------------------- MODULE Chain -------------------------------
(***************************************************************************)
(* The Ethereum chain as the indexer meets it through WEB3_WSS: a height   *)
(* (eth.blockNumber) and, at each height, the block that is canonical now. *)
(* The chain is not part of the repository; it is modelled from the calls  *)
(* of indexer.py and from its comment on reorganisations (lines 618-639).  *)
(***************************************************************************)
EXTENDS Integers

CONSTANTS
    MaxHead,        \* bound: the chain stops growing at this height
    ReorgDepth,     \* how many of the newest blocks one reorg replaces at most
    MaxForks        \* bound: how often one height is replaced

ASSUME ChainAssumption ==
    MaxHead \in Nat \ {0} /\ ReorgDepth \in Nat /\ MaxForks \in Nat

Block == 1..MaxHead

VARIABLES
    head,           \* eth.blockNumber
    canon           \* canon[b]: which of the blocks seen at height b is canonical

chainVars == <<head, canon>>

ChainTypeOK ==
    /\ head \in Block
    /\ canon \in [Block -> Nat]

ChainInit ==
    /\ head \in Block
    /\ canon = [b \in Block |-> 0]

\* A block is mined on top of the canonical chain.
Mine ==
    /\ head < MaxHead
    /\ head' = head + 1
    /\ UNCHANGED canon

\* The newest d blocks are replaced by those of another branch, which is as
\* long or one block longer.
Reorg ==
    \E d \in 1..ReorgDepth :
        LET replaced == {b \in Block : head - d < b /\ b <= head} IN
        /\ d <= head
        /\ \A b \in replaced : canon[b] < MaxForks
        /\ head' \in {head, head + 1} \cap Block
        /\ canon' = [b \in Block |-> IF b \in replaced THEN canon[b] + 1 ELSE canon[b]]

ChainNext == Mine \/ Reorg
=============================================================================
