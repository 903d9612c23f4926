--------------------------- MODULE MCChainQueries ---------------------------
(***************************************************************************)
(* ChainQueries over the block trees of MCBlockChainDb.                    *)
(***************************************************************************)
EXTENDS MCBlockChainDb, ChainQueries

\* c3 leaves the best chain and returns; e3 may contain t6, too.
MCQueryBlocks == {c3}

MCQueryTxs == {"t6"}
=============================================================================
