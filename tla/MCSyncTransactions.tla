------------------------- MODULE MCSyncTransactions -------------------------
(***************************************************************************)
(* Transactions and blocks for SyncTransactions:                           *)
(*                                                                         *)
(*     g - a1 - a2         1 has two outputs; 2 and 3 spend the first,     *)
(*      \                   4 the second and that of 2                     *)
(*       b1 - b2 - b3                                                      *)
(***************************************************************************)
EXTENDS SyncTransactions

CONSTANTS g, a1, a2, b1, b2, b3, Absent

MCBlocks == {g, a1, a2, b1, b2, b3} \ Absent
MCParent ==
    [n \in MCBlocks |-> CASE n = g -> NoHash [] n \in {a1, b1} -> g [] n = a2 -> a1
                          [] n = b2 -> b1 [] n = b3 -> b2]
MCAncestors[n \in MCBlocks] == IF n = g THEN {g} ELSE {n} \cup MCAncestors[MCParent[n]]
MCHeight[n \in MCBlocks] == IF n = g THEN 0 ELSE MCHeight[MCParent[n]] + 1

\* 10 is the coinbase of the genesis block, 11 to 15 those of the others.
MCTx == 1..4 \cup 10..15
MCCoinbase ==
    [n \in MCBlocks |-> CASE n = g -> 10 [] n = a1 -> 11 [] n = a2 -> 12
                          [] n = b1 -> 13 [] n = b2 -> 14 [] n = b3 -> 15]
Mined(Contents(_)) == [n \in MCBlocks |-> <<MCCoinbase[n]>> \o Contents(n)]

\* The branches disagree on who spends the first output of 1.
MCBlockTxs ==
    Mined(LAMBDA n : CASE n = a1 -> <<1, 2>> [] n = b1 -> <<1>> [] n = b2 -> <<3>> [] OTHER -> <<>>)

\* Nothing of the first branch is in the second.
MCBlockTxsLost == Mined(LAMBDA n : CASE n = a1 -> <<1>> [] n = a2 -> <<2, 4>> [] OTHER -> <<>>)

MCInputs ==
    [t \in MCTx |-> CASE t = 1 -> << <<10, 1>> >> [] t \in {2, 3} -> << <<1, 1>> >>
                      [] t = 4 -> << <<1, 2>>, <<2, 1>> >>
                      [] OTHER -> << <<Null, 1>> >>]
MCOutputValues ==
    [t \in MCTx |-> CASE t = 1 -> <<4, 4>> [] t = 2 -> <<3>> [] t = 3 -> <<2>>
                      [] t = 4 -> <<5>> [] OTHER -> <<10>>]
MCTxSize == [t \in MCTx |-> t]
MCSigops == [t \in MCTx |-> 1]
MCIsFinal == [t \in MCTx |-> t # 2]
MCOrders == {<<1, 2, 3, 4, 10, 11, 12, 13, 14, 15>>, <<15, 14, 13, 12, 11, 10, 4, 3, 2, 1>>}
=============================================================================
