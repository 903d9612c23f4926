----------------------------- MODULE MCServing -----------------------------
(***************************************************************************)
(* Blocks, transactions and scripts for Serving:                           *)
(*                                                                         *)
(*     1 - 2 - 3        3 has the transactions 11, 12 and 13               *)
(*      \               the others are empty                               *)
(*       4 - 5 - 6                                                         *)
(*                                                                         *)
(* Transaction 14 spends the first output of 12; 15 pays to item 51 and    *)
(* little fee.                                                             *)
(***************************************************************************)
EXTENDS Serving

MCPeers == {1, 2}
MCParent == <<NoHash, 1, 2, 1, 4, 5>>
MCBlockTxs == [b \in 1 .. 6 |-> IF b = 3 THEN <<11, 12, 13>> ELSE <<20 + b>>]

Pays(hash, item) == [hash |-> hash, outs |-> <<[data |-> {item}, pay |-> TRUE]>>,
                     ins |-> <<[prev |-> OutPointItem(20, 0), data |-> {}]>>, size |-> 2]
MCTx == [t \in 11 .. 26 |->
            CASE t = 12 -> Pays(12, 50)
              [] t = 14 -> [Pays(14, 59) EXCEPT !.ins = <<[prev |-> OutPointItem(12, 0), data |-> {53}]>>]
              [] t = 15 -> Pays(15, 51)
              [] OTHER -> Pays(t, 58)]
MCFeeRate == [t \in 11 .. 26 |-> IF t = 15 THEN 1 ELSE 5]

\* A filter as BIP37 has it: bit h % 8 of byte h \div 8 for every hash h.
FilterOf(items, len, funcs, tweak) ==
    [b \in 1 .. len |-> {bit \in 0 .. 7 : \E item \in items, n \in 0 .. funcs - 1 :
                            Murmur3(item, MurmurSeed(n, tweak)) % (8 * len) = 8 * (b - 1) + bit}]

Plain(type) == [type |-> type]
GetData(items) == [type |-> "getdata", items |-> items]
Item(kind, hash) == [kind |-> kind, hash |-> hash]
GetHeaders(locator, stop) == [type |-> "getheaders", locator |-> locator, stop |-> stop]
GetBlocks(locator, stop) == [type |-> "getblocks", locator |-> locator, stop |-> stop]
BlockMessage(hash) == [type |-> "block", hash |-> hash]
TxMessage(hash) == [type |-> "tx", hash |-> hash]
GetBlockTxn(hash, indexes) == [type |-> "getblocktxn", hash |-> hash, indexes |-> indexes]
FilterLoad(items, len, funcs) ==
    [type |-> "filterload", items |-> items, filter |-> FilterOf(items, len, funcs, 3), funcs |-> funcs, tweak |-> 3]
FilterAdd(item, len) == [type |-> "filteradd", item |-> item, len |-> len]
FeeFilter(rate) == [type |-> "feefilter", rate |-> rate]
SendCompact(first, second) == [type |-> "sendcmpct", first |-> first, second |-> second]
Counted(type, count) == [type |-> type, count |-> count]

Base == [scripts |-> <<<<>>, <<>>>>, best |-> 2, stored |-> {1, 2, 4}, pool |-> {14}, bad |-> {},
         late |-> {}, light |-> {}, leaves |-> {}, switches |-> 0, stops |-> FALSE]

\* Requests with responses in order, while a block of the peer is verified
\* and the chain may be reorganized.
OrderWorlds ==
    {[Base EXCEPT !.scripts = <<<<BlockMessage(5), BlockMessage(6), GetHeaders(<<99, 4>>, NoHash), Plain("ping"), Plain("getaddr")>>,
                                <<GetHeaders(<<1>>, NoHash), GetBlocks(<<1>>, 5)>>>>,
                  !.bad = bad] : bad \in {{}, {6}}}

\* Items of one request interleaved with those of another peer.
DataWorlds ==
    {[Base EXCEPT !.scripts = <<<<GetData(<<Item("Block", 2), Item("Tx", 15), Item("WitnessTx", 14), Item("Error", 99)>>),
                                  Plain("mempool")>>,
                                <<GetData(<<Item("WitnessBlock", 9), Item("Tx", 14)>>),
                                  GetData(<<Item("CompactBlock", 4), Item("FilteredBlock", 1)>>)>>>>,
                  !.leaves = leaves, !.stops = stops]
        : leaves \in {{}, {1}}, stops \in BOOLEAN}

\* New blocks are announced, in all the ways, and compact ones are asked for.
BlockWorlds ==
    {[Base EXCEPT !.scripts = <<<<how, TxMessage(13), GetBlockTxn(3, indexes)>>,
                                <<BlockMessage(3), GetData(<<Item("CompactBlock", 3)>>)>>>>,
                  !.late = {1}]
        : how \in {SendCompact(TRUE, 1), Plain("sendheaders"), SendCompact(TRUE, 2)},
          indexes \in {<<2, 0>>, <<0, 0>>, <<3>>}}

\* Filters are loaded and added to while transactions are relayed.
BloomWorlds ==
    {[Base EXCEPT !.scripts = <<<<FilterLoad({50, 13}, 2, funcs), FilterAdd(51, 1), last>>,
                                <<BlockMessage(3), TxMessage(15), TxMessage(12)>>>>,
                  !.light = {}, !.pool = {}]
        : funcs \in {1, 2},
          last \in {GetData(<<Item("FilteredBlock", 3)>>), Plain("filterclear"), FeeFilter(1), FeeFilter(2)}}

\* Messages that end the connection, and a light client that joins late.
RefusalWorlds ==
    {[Base EXCEPT !.scripts = <<<<GetHeaders(<<2>>, NoHash), refused, Plain("ping")>>,
                                <<TxMessage(15)>>>>, !.late = {2}, !.light = {2}, !.switches = 1]
        : refused \in {Plain("merkleblock"), Counted("inv", 9), Counted("headers", 1), GetHeaders(<<9>>, 8),
                       GetBlocks(<<9>>, 8), FilterLoad({50}, 4, 1), FilterAdd(51, 9), GetData(<<>>),
                       GetData([i \in 1 .. 5 |-> Item("Block", 1)])}}

MCWorlds == OrderWorlds \cup DataWorlds \cup BlockWorlds \cup BloomWorlds \cup RefusalWorlds
=============================================================================
