----------------------------- MODULE HeaderTree ----------------------------
(***************************************************************************)
(* The block headers the node may be offered, as constants: a tree under   *)
(* the parent hash, rooted in the genesis block.                           *)
(***************************************************************************)
EXTENDS Integers, Sequences

CONSTANTS
    Blocks,     \* hashes of the blocks
    NoHash,     \* the zero hash: parent of the genesis block
    Genesis,    \* ConsensusParams' genesis block
    Parent,     \* Parent[b] = previous_header_hash of b
    Height,     \* Height[b] = distance of b from the genesis block
    Ancestors,  \* Ancestors[b] = the blocks from b down to the genesis block
    MaxHeight   \* bound on heights: the size of the number -> hash column

Strict(b) == Ancestors[b] \ {b}

ASSUME TreeAssumption ==
    /\ NoHash \notin Blocks
    /\ Genesis \in Blocks
    /\ Parent \in [Blocks -> Blocks \cup {NoHash}]
    /\ \A b \in Blocks : Parent[b] = NoHash <=> b = Genesis

ASSUME HeightAssumption ==
    /\ MaxHeight \in Nat
    /\ Height \in [Blocks -> 0..MaxHeight]
    /\ Height[Genesis] = 0
    /\ \A b \in Blocks \ {Genesis} : Height[b] = Height[Parent[b]] + 1

ASSUME AncestorsAssumption ==
    /\ Ancestors \in [Blocks -> SUBSET Blocks]
    /\ Ancestors[Genesis] = {Genesis}
    /\ \A b \in Blocks \ {Genesis} : Ancestors[b] = Ancestors[Parent[b]] \cup {b}
    /\ \A b \in Blocks : Genesis \in Ancestors[b]
    /\ \A b \in Blocks : \A c \in Strict(b) :
           Height[c] < Height[b] /\ Ancestors[c] \subseteq Ancestors[b]

ASSUME LevelAssumption ==
    \A b \in Blocks : \A n \in 0..Height[b] : \E c \in Ancestors[b] : Height[c] = n
=============================================================================
