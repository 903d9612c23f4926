----------------------------- MODULE MCKvStack -----------------------------
(***************************************************************************)
(* A small instance of the key-value layers: one block header and one      *)
(* transaction stored under the same hash, a second header to make the     *)
(* cache evict, and the two keys of the best block.                        *)
(***************************************************************************)
EXTENDS KvStack

Key(kind, id) == [kind |-> kind, id |-> id]

MCBestNumber == Key("Meta", "number")
MCBestHash == Key("Meta", "hash")
Header1 == Key("BlockHeader", "h1")
Header2 == Key("BlockHeader", "h2")
Tx1 == Key("Transaction", "h1")

MCKeys == {MCBestNumber, MCBestHash, Header1, Header2, Tx1}

\* Other threads look for what every layer may hold.
MCReadKeys == {Header1, Tx1}

Set(k, v) == [key |-> k, state |-> v]

\* A block is inserted, another one becomes the best block, and the best
\* block is taken back while the header of the first is inserted anew.
MCTransactions ==
    {<<Set(Header1, "v"), Set(Tx1, "w")>>,
     <<Set(Header2, "v"), Set(MCBestNumber, "v"), Set(MCBestHash, "v")>>,
     <<Set(MCBestNumber, Delete), Set(MCBestHash, Delete), Set(Tx1, Delete),
       Set(Header1, Delete), Set(Header1, "w")>>}
=============================================================================
