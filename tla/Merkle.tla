------------------------------- MODULE Merkle -------------------------------
(* Merkle trees.  Hashes are symbolic: a leaf is <<id>>, a node the pair of   *)
(* its children, so that two are equal only if they were made alike.          *)
EXTENDS Integers, Sequences, TLC

Leaf(id) == <<id>>
NodeHash(left, right) == <<left, right>>     \* merkle_node_hash
MinOf(a, b) == IF a < b THEN a ELSE b

(* merkle_root: rows of pairs, the last of an odd row paired with itself.     *)
(* level[k] is the row of hashes after k rounds.                              *)
MerkleRoot(hashes) ==
    LET Pair(row, i) == NodeHash(row[2 * i - 1], row[MinOf(2 * i, Len(row))])
        level[k \in 0 .. Len(hashes)] ==
            IF k = 0 THEN hashes
            ELSE IF Len(level[k - 1]) <= 1 THEN level[k - 1]
            ELSE [i \in 1 .. (Len(level[k - 1]) + 1) \div 2 |-> Pair(level[k - 1], i)]
    IN  level[Len(hashes)][1]

-----------------------------------------------------------------------------
(* The partial tree of a merkleblock message (partial_merkle_tree.rs): `txs`  *)
(* are the transactions of a block and `matches` the positions, from 0, of    *)
(* those the peer asked for.                                                  *)

LevelWidth(count, height) == (count + 2 ^ height - 1) \div 2 ^ height

TreeHeight(count) ==
    CHOOSE h \in 0 .. count : LevelWidth(count, h) <= 1
                              /\ \A k \in 0 .. h - 1 : LevelWidth(count, k) > 1

HasRight(count, height, pos) == 2 * pos + 1 < LevelWidth(count, height - 1)

(* The nodes of the tree, level by level, and the hash of each. *)
BranchHash(txs, height, pos) ==
    LET f[h \in 0 .. height, p \in 0 .. Len(txs) - 1] ==
            IF h = 0 THEN txs[p + 1]
            ELSE NodeHash(f[h - 1, 2 * p],
                          IF HasRight(Len(txs), h, p) THEN f[h - 1, 2 * p + 1] ELSE f[h - 1, 2 * p])
    IN  f[height, pos]

\* Mutant: the first transaction under a node is not looked at.
FlaggedShort(count, matches, height, pos) ==
    \E i \in matches : pos * 2 ^ height < i /\ i < MinOf(count, (pos + 1) * 2 ^ height)

Flagged(count, matches, height, pos) ==
    \E i \in matches : pos * 2 ^ height <= i /\ i < MinOf(count, (pos + 1) * 2 ^ height)

(* build_branch: a flag for the node, then its hash if nothing below it is    *)
(* asked for or it is a leaf, or else its children.                           *)
BuildTree(txs, matches) ==
    LET count == Len(txs)
        build[h \in 0 .. TreeHeight(count), p \in 0 .. count - 1] ==
            LET flag == Flagged(count, matches, h, p)
                left == build[h - 1, 2 * p]
                right == IF HasRight(count, h, p) THEN build[h - 1, 2 * p + 1]
                         ELSE [flags |-> <<>>, hashes |-> <<>>]
            IN  IF h = 0 \/ ~flag
                THEN [flags |-> <<flag>>, hashes |-> <<BranchHash(txs, h, p)>>]
                ELSE [flags |-> <<flag>> \o left.flags \o right.flags,
                      hashes |-> left.hashes \o right.hashes]
    IN  [count |-> count] @@ build[TreeHeight(count), 0]

(* parse_branch, the reader's side: from flag m and hash k on, the node's     *)
(* hash, the matched positions below it and what was used.                    *)
ParseTree(tree) ==
    LET flags == tree.flags
        hashes == tree.hashes
        Bad == [ok |-> FALSE, hash |-> <<>>, found |-> {}, m |-> 0, k |-> 0]
        parse[h \in 0 .. TreeHeight(tree.count), p \in 0 .. tree.count - 1,
              m \in 0 .. Len(flags), k \in 0 .. Len(hashes)] ==
            LET flag == flags[m + 1]
                left == parse[h - 1, 2 * p, m + 1, k]
                right == parse[h - 1, 2 * p + 1, left.m, left.k]
            IN  IF m >= Len(flags) THEN Bad
                ELSE IF h = 0 \/ ~flag
                THEN [ok |-> TRUE, hash |-> hashes[k + 1], m |-> m + 1, k |-> k + 1,
                      found |-> IF h = 0 /\ flag THEN {p} ELSE {}]
                ELSE IF ~left.ok THEN Bad
                ELSE IF ~HasRight(tree.count, h, p)
                THEN [left EXCEPT !.hash = NodeHash(@, @)]
                ELSE IF ~right.ok \/ left.hash = right.hash THEN Bad
                ELSE [right EXCEPT !.hash = NodeHash(left.hash, @), !.found = @ \cup left.found]
        root == parse[TreeHeight(tree.count), 0, 0, 0]
    IN  IF \/ tree.count = 0 \/ Len(hashes) > tree.count \/ Len(flags) < Len(hashes)
           \/ ~root.ok \/ root.m # Len(flags) \/ root.k # Len(hashes)
        THEN Bad ELSE root
=============================================================================
