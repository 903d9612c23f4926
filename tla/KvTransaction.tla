--------------------------- MODULE KvTransaction ---------------------------
(***************************************************************************)
(* Keys, values and transactions of the key-value layers (db/src/kv).      *)
(*                                                                         *)
(* A key is a kind and the serialization of its identifier, a value is its *)
(* serialization.  A transaction is a sequence of operations, each setting *)
(* the state of one key.                                                   *)
(***************************************************************************)
EXTENDS Integers, Sequences, FiniteSets

CONSTANTS
    Keys,           \* records [kind, id] of the keys in play
    Values,         \* serialized values
    Transactions,   \* the transactions the block chain database may write
    Delete,         \* KeyState::Delete
    Unknown,        \* KeyState::Unknown
    NoValue         \* Option::None

\* The constructors of Key, KeyValue and Value.
Kinds == {"Meta", "BlockHash", "BlockHeader", "BlockTransactions",
          "Transaction", "TransactionMeta", "BlockNumber", "Configuration"}

\* KeyState<V>: what one layer knows of a key.
KeyState == Values \cup {Delete, Unknown}

\* Operation: Insert(KeyValue) or Delete(Key); Unknown stands for the
\* operation into_operation does not make.
Operation == [key : Keys, state : KeyState]

ASSUME KeysAssumption ==
    /\ IsFiniteSet(Keys)
    /\ \A k \in Keys : k.kind \in Kinds /\ k = [kind |-> k.kind, id |-> k.id]
    /\ Delete \notin Values /\ Unknown \notin Values /\ NoValue \notin Values
    /\ Delete # Unknown
    /\ Transactions \subseteq Seq(Operation)
    /\ \A t \in Transactions : \A i \in DOMAIN t : t[i].state # Unknown

\* KeyState::into_option.
IntoOption(state) == IF state \in {Delete, Unknown} THEN NoValue ELSE state

\* The i-th operation is the last one on a key.
IsLast(tx, i, k) ==
    tx[i].key = k /\ \A j \in DOMAIN tx : tx[j].key = k => j <= i

\* The state a transaction gives to each key, that of the last operation on
\* it.
Effect(tx) ==
    [k \in Keys |->
        IF \E i \in DOMAIN tx : IsLast(tx, i, k)
        THEN tx[CHOOSE i \in DOMAIN tx : IsLast(tx, i, k)].state
        ELSE Unknown]

\* A layer laid over another one.
Over(top, bottom) ==
    [k \in Keys |-> IF top[k] = Unknown THEN bottom[k] ELSE top[k]]

\* A layer that knows nothing.
Nothing == [k \in Keys |-> Unknown]

\* The options a map of states stands for.
Options(states) == [k \in Keys |-> IntoOption(states[k])]
=============================================================================
