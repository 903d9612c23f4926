--------------------------- MODULE BlockAssembler ---------------------------
(***************************************************************************)
(* BlockAssembler of the miner crate: the transactions of a new block are  *)
(* taken from the memory pool in the order of their score for as long as   *)
(* the size and the signature operations of the block allow.               *)
(***************************************************************************)
EXTENDS MemoryPool

CONSTANTS
    Sigops,          \* [Tx -> Nat], the signature operations of a transaction
    HeaderSize,      \* the bytes reserved for the header and the number of transactions
    MaxBlockSize, SizeBuffer,
    MaxBlockSigops, SigopsBuffer,
    FinishLimit,     \* the transactions looked at once the block is nearly full
    BlockReward,
    CanonicalOrder   \* TransactionOrdering::Canonical

Policy(current, max, buffer) == [current |-> current, max |-> max, buffer |-> buffer, counter |-> 0]

\* SizePolicy::decide: whether a transaction of this size fits, whether it is
\* the last to look at, and the policy that has counted it.
Decide(policy, size) ==
    [fits |-> policy.current + size <= policy.max,
     finish |-> policy.counter + 1 >= FinishLimit,
     policy |-> IF policy.current + policy.buffer > policy.max
                THEN [policy EXCEPT !.counter = @ + 1] ELSE policy]

\* NextStep::and: both policies must agree to append, one is enough to finish.
Both(step, other) == [fits |-> step.fits /\ other.fits, finish |-> step.finish \/ other.finish]

Apply(policy, size) == [policy EXCEPT !.current = @ + size]

NewBlock == [size |-> Policy(HeaderSize, MaxBlockSize, SizeBuffer),
             sigops |-> Policy(0, MaxBlockSigops, SigopsBuffer),
             ignored |-> {}, finished |-> FALSE, txs |-> <<>>]

\* FittingTransactionsIterator: one transaction of the pool is looked at.  Its size is
\* also what the policy for signature operations is charged.  A transaction
\* that does not fit is remembered as ignored only when it is the last.
Consider(final, blk, t) ==
    LET size == Decide(blk.size, TxSize[t])
        sigops == Decide(blk.sigops, Sigops[t])
        step == Both(size, sigops)
        seen == [blk EXCEPT !.size = size.policy, !.sigops = sigops.policy]
        skipped == t \notin final \/ Parents(t) \cap blk.ignored # {}
    IN  IF blk.finished THEN blk
        ELSE IF skipped THEN seen
        ELSE IF step.fits
        THEN [seen EXCEPT !.size = Apply(@, TxSize[t]), !.sigops = Apply(@, TxSize[t]),
                          !.txs = Append(@, t), !.finished = step.finish]
        ELSE [seen EXCEPT !.ignored = IF step.finish THEN @ \cup {t} ELSE @, !.finished = step.finish]

\* create_new_block over a pool; `final` holds the transactions that are final in
\* a block of the next height and of the current time.
CreateNewBlock(p, final) ==
    LET taken == FoldLeft(LAMBDA blk, t : Consider(final, blk, t), NewBlock,
                          Iterate(p, "ByTransactionScore", Cardinality(InPool(p)))).txs
    IN  [txs |-> IF CanonicalOrder THEN SetToSortSeq(ToSet(taken), <) ELSE taken,
         coinbase |-> BlockReward + FoldLeft(LAMBDA sum, t : sum + p.byHash[t].fee, 0, taken)]
=============================================================================
