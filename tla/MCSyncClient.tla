---------------------------- MODULE MCSyncClient ---------------------------
(***************************************************************************)
(* Block trees for SyncClient:                                             *)
(*                                                                         *)
(*      g0 - a1 - b2 - c3                                                  *)
(*            \                                                            *)
(*             d2                                                          *)
(***************************************************************************)
EXTENDS SyncClient, TLC

CONSTANTS g0, a1, b2, c3, d2, Absent

MCBlocks == {g0, a1, b2, c3, d2} \ Absent

MCParent ==
    [n \in MCBlocks |-> CASE n = g0 -> NoHash [] n = a1 -> g0 [] n = b2 -> a1
                          [] n = c3 -> b2 [] n = d2 -> a1]

MCAncestors[n \in MCBlocks] == IF n = g0 THEN {g0} ELSE {n} \cup MCAncestors[MCParent[n]]

MCHeight[n \in MCBlocks] == IF n = g0 THEN 0 ELSE MCHeight[MCParent[n]] + 1

\* Headers messages: the two branches from where a peer may start them, and one
\* whose headers are not linked.
MCHeaderLists ==
    {list \in {<<a1>>, <<a1, b2>>, <<a1, b2, c3>>, <<b2, c3>>, <<a1, d2>>, <<d2>>, <<d2, c3>>} :
        Elements(list) \subseteq MCBlocks}

PeerSymmetry == Permutations(Peers)
=============================================================================
