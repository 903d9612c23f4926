---------------------------- MODULE RelayFilter ----------------------------
(* What is relayed over one connection: the known hashes, the fee rate and    *)
(* the bloom filter of a peer (sync/src/utils: known_hash_filter.rs,          *)
(* fee_rate_filter.rs, bloom_filter.rs, connection_filter.rs), and the        *)
(* compact and merkle blocks built for it.                                    *)
(*                                                                            *)
(* Hashes, outpoints and the data pushed by scripts are numbered items.  A    *)
(* transaction is [hash, outs, ins, size]: outs[i] is [data, pay], the items  *)
(* its script pushes and whether the script is pay-to-pubkey or multisig;     *)
(* ins[i] is [prev, data], the outpoint spent and the items pushed.           *)
EXTENDS Merkle, FiniteSets

CONSTANTS MaxKnownHashes,        \* MAX_KNOWN_HASHES_LEN
          MaxPrefilledSize       \* MAX_COMPACT_BLOCK_PREFILLED_SIZE

OutPointItem(hash, index) == 100 + 10 * hash + index

-----------------------------------------------------------------------------
(* The known hashes, oldest first; a hash keeps the type it came with. *)

KnowsHash(known, hash) == \E i \in DOMAIN known : known[i].hash = hash

InsertKnown(known, hash, type) ==
    LET all == Append(known, [hash |-> hash, type |-> type])
    IN  IF KnowsHash(known, hash) THEN known
        ELSE IF Len(all) > MaxKnownHashes THEN Tail(all) ELSE all

ContainsKnown(known, hash, type) ==
    \E i \in DOMAIN known : known[i] = [hash |-> hash, type |-> type]

FilterKnownBlock(known, hash) ==
    ~ContainsKnown(known, hash, "Block") /\ ~ContainsKnown(known, hash, "CompactBlock")

FilterKnownTransaction(known, hash) == ~ContainsKnown(known, hash, "Transaction")

FilterFeeRate(rate, txRate) == txRate >= rate

-----------------------------------------------------------------------------
(* The bloom filter.  A byte is the set of its bits, 0 the lowest.  The bit   *)
(* vector numbers the bits of a byte from the highest, which FilterIndex      *)
(* undoes.  murmur3 is any function of the item and the seed.                 *)

Murmur3(item, seed) == item * 7 + seed * 11 + ((item * seed) % 5)
MurmurSeed(n, tweak) == (n * 13 + tweak) % 64       \* overflowing u32 arithmetic

BitVecFromBytes(bytes) ==
    {i \in 0 .. 8 * Len(bytes) - 1 : 7 - (i % 8) \in bytes[i \div 8 + 1]}

NoBloom == [set |-> FALSE, bits |-> {}, len |-> 0, funcs |-> 0, tweak |-> 0, flags |-> "None"]

\* Mutant: the bits of a byte are taken in the order of the bit vector.
FilterIndexForward(bloom, item, n) ==
    Murmur3(item, MurmurSeed(n, bloom.tweak)) % bloom.len

FilterIndex(bloom, item, n) ==
    LET murmur == Murmur3(item, MurmurSeed(n, bloom.tweak)) % bloom.len
    IN  8 * (murmur \div 8) + (7 - (murmur % 8))

BloomContains(bloom, item) ==
    \A n \in 0 .. bloom.funcs - 1 : FilterIndex(bloom, item, n) \in bloom.bits

BloomInsert(bloom, item) ==
    [bloom EXCEPT !.bits = @ \cup {FilterIndex(bloom, item, n) : n \in 0 .. bloom.funcs - 1}]

(* set_bloom_filter replaces the bits and their parameters; the flags of the  *)
(* message are not stored.                                                    *)
SetBloom(bloom, message) ==
    [bloom EXCEPT !.set = TRUE, !.bits = BitVecFromBytes(message.filter),
                  !.len = 8 * Len(message.filter), !.funcs = message.funcs,
                  !.tweak = message.tweak]

UpdateBloom(bloom, item) == IF bloom.set THEN BloomInsert(bloom, item) ELSE bloom
RemoveBloom(bloom) == [bloom EXCEPT !.set = FALSE, !.bits = {}, !.len = 0, !.funcs = 0, !.tweak = 0]

ContainsAny(bloom, items) == \E item \in items : BloomContains(bloom, item)

(* filter_transaction: whether the transaction matches, and the filter with   *)
(* the outpoints of the outputs that matched, if its flags ask for them.      *)
BloomMatch(bloom, tx) ==
    LET update(i) == bloom.flags = "All" \/ (bloom.flags = "PubKeyOnly" /\ tx.outs[i].pay)
        MatchOutput(before, i) ==
            IF ~ContainsAny(before.bloom, tx.outs[i].data) THEN before
            ELSE [hit |-> TRUE,
                  bloom |-> IF update(i) THEN BloomInsert(before.bloom, OutPointItem(tx.hash, i - 1))
                            ELSE before.bloom]
        step[i \in 0 .. Len(tx.outs)] ==
            IF i = 0 THEN [bloom |-> bloom, hit |-> FALSE] ELSE MatchOutput(step[i - 1], i)
        others == {tx.hash} \cup UNION {{tx.ins[i].prev} \cup tx.ins[i].data : i \in DOMAIN tx.ins}
        MatchOthers(last) == [last EXCEPT !.hit = @ \/ ContainsAny(last.bloom, others)]
    IN  IF bloom.set THEN MatchOthers(step[Len(tx.outs)]) ELSE [bloom |-> bloom, hit |-> TRUE]

-----------------------------------------------------------------------------
(* ConnectionFilter. *)

EmptyFilter == [known |-> <<>>, feeRate |-> 0, bloom |-> NoBloom]

HashKnownAs(filter, hash, type) == [filter EXCEPT !.known = InsertKnown(@, hash, type)]

FilterBlock(filter, hash) == FilterKnownBlock(filter.known, hash)

(* The bloom filter is asked, and updated, only about a transaction the other *)
(* two let through.                                                           *)
FilterTransaction(filter, tx, txRate) ==
    LET Result(match) == [filter |-> [filter EXCEPT !.bloom = match.bloom], hit |-> match.hit]
    IN  IF ~FilterKnownTransaction(filter.known, tx.hash) \/ ~FilterFeeRate(filter.feeRate, txRate)
        THEN [filter |-> filter, hit |-> FALSE]
        ELSE Result(BloomMatch(filter.bloom, tx))

(* build_compact_block: the transactions the peer knows are put in whole      *)
(* while they fit, the others are named by a short id.                        *)
BuildCompactBlock(filter, block) ==
    LET wanted == {i \in DOMAIN block.txs :
                      ContainsKnown(filter.known, block.txs[i].hash, "Transaction")}
        Add(before, i, tx) ==
            IF i \in wanted /\ before.size + tx.size < MaxPrefilledSize
            THEN [before EXCEPT !.size = @ + tx.size,
                                !.prefilled = Append(@, [index |-> i - 1, tx |-> tx.hash])]
            ELSE [before EXCEPT !.shortIds = Append(@, tx.hash)]
        fill[i \in 0 .. Len(block.txs)] ==
            IF i = 0 THEN [size |-> 0, prefilled |-> <<>>, shortIds |-> <<>>]
            ELSE Add(fill[i - 1], i, block.txs[i])
        Message(filled) == [prefilled |-> filled.prefilled, shortIds |-> filled.shortIds]
    IN  Message(fill[Len(block.txs)])

(* BitVec::to_bytes packs the flags from the highest bit of each byte on, and *)
(* every byte is then turned round.                                           *)
ToBytes(flags) ==
    [b \in 1 .. (Len(flags) + 7) \div 8 |->
        {bit \in 0 .. 7 : 8 * (b - 1) + (7 - bit) + 1 <= Len(flags)
                          /\ flags[8 * (b - 1) + (7 - bit) + 1]}]

\* Mutant: the bytes are sent as they are.
ReverseBitsNot(bytes) == bytes

ReverseBits(bytes) == [b \in DOMAIN bytes |-> {7 - bit : bit \in bytes[b]}]

(* build_merkle_block, when a filter is set: the partial tree of the matches  *)
(* and the matching transactions, and the filter after the matching.          *)
BuildMerkleBlock(filter, block) ==
    LET Add(match, hits, i) ==
            [bloom |-> match.bloom, hits |-> hits \cup (IF match.hit THEN {i - 1} ELSE {})]
        MatchNext(before, i) == Add(BloomMatch(before.bloom, block.txs[i]), before.hits, i)
        step[i \in 0 .. Len(block.txs)] ==
            IF i = 0 THEN [bloom |-> filter.bloom, hits |-> {}] ELSE MatchNext(step[i - 1], i)
        leaves == [i \in DOMAIN block.txs |-> Leaf(block.txs[i].hash)]
        Message(last, tree) ==
            [filter |-> [filter EXCEPT !.bloom = last.bloom],
             total |-> Len(block.txs), hashes |-> tree.hashes,
             flags |-> ReverseBits(ToBytes(tree.flags)),
             matching |-> SelectSeq([i \in DOMAIN block.txs |-> i - 1], LAMBDA i : i \in last.hits)]
        Built(last) == Message(last, BuildTree(leaves, last.hits))
    IN  Built(step[Len(block.txs)])
=============================================================================
