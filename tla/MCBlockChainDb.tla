--------------------------- MODULE MCBlockChainDb ---------------------------
(***************************************************************************)
(* Block trees for BlockChainDb:                                           *)
(*                                                                         *)
(*      g0 - a1 - b2 - c3 - x4 - y5      (the digit is the height)         *)
(*            \                                                            *)
(*             d2 - e3 - f4                                                *)
(*                                                                         *)
(* Either branch may be the first to reach height 2, 3 or 4, the other one *)
(* then takes over, and x4 or y5 brings the first one back, unless the     *)
(* walk from it is longer than MaxForkRoute.  b2 and d2 spend the same     *)
(* output of a1's coinbase (t1, t3); t2 spends t1 in the same block; c3    *)
(* and e3 may contain the same transaction t6.                             *)
(***************************************************************************)
EXTENDS BlockChainDb

CONSTANTS g0, a1, b2, c3, x4, y5, d2, e3, f4, Sharing, Absent

\* Absent says which blocks at the two tips do not exist.
MCBlocks == {g0, a1, b2, c3, x4, y5, d2, e3, f4} \ Absent

MCParent ==
    [n \in MCBlocks |-> CASE n = g0 -> NoHash [] n = a1 -> g0 [] n = b2 -> a1 [] n = c3 -> b2
                          [] n = x4 -> c3 [] n = y5 -> x4 [] n = d2 -> a1 [] n = e3 -> d2
                          [] n = f4 -> e3]

MCAncestors[n \in MCBlocks] == IF n = g0 THEN {g0} ELSE {n} \cup MCAncestors[MCParent[n]]

MCHeight[n \in MCBlocks] == IF n = g0 THEN 0 ELSE MCHeight[MCParent[n]] + 1

Coinbases == {"cg", "ca", "cb", "cc", "cx", "cy", "cd", "ce", "cf"}

MCTx == Coinbases \cup {"t1", "t2", "t3", "t4", "t5", "t6"}

\* Sharing says whether c3 and e3 contain the same transaction.
MCBlockTxs ==
    [n \in MCBlocks |-> CASE n = g0 -> <<"cg">>
                          [] n = a1 -> <<"ca">>
                          [] n = b2 -> <<"cb", "t1", "t2">>
                          [] n = c3 -> <<"cc", "t4", "t6">>
                          [] n = x4 -> <<"cx">>
                          [] n = y5 -> <<"cy">>
                          [] n = d2 -> <<"cd", "t3">>
                          [] n = e3 -> IF Sharing THEN <<"ce", "t6">> ELSE <<"ce", "t5">>
                          [] n = f4 -> <<"cf">>]

Out(t, i) == [hash |-> t, index |-> i]

MCPrevouts ==
    [t \in MCTx |-> CASE t = "t1" -> {Out("ca", 0)}
                      [] t = "t2" -> {Out("t1", 0)}
                      [] t = "t3" -> {Out("ca", 0)}
                      [] t = "t4" -> {Out("t1", 1), Out("cb", 0)}
                      [] t = "t5" -> {Out("t3", 0)}
                      [] t = "t6" -> {Out("ca", 1)}
                      [] OTHER -> {}]
=============================================================================
