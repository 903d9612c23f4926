------------------------------ MODULE KvStore ------------------------------
(***************************************************************************)
(* What the key-value layers promise to the block chain database: a map    *)
(* that changes by whole transactions, a durable map that is always an     *)
(* earlier state of it, and a private branch that replaces it at once or   *)
(* not at all.                                                             *)
(***************************************************************************)
EXTENDS KvTransaction

VARIABLES
    committed,   \* what a reader of the database sees
    durable,     \* what a restarted process finds
    branch       \* what a reader of the fork sees, NoBranch without a fork

vars == <<committed, durable, branch>>

NoBranch == <<>>

Apply(tx, map) ==
    [k \in Keys |->
        IF Effect(tx)[k] = Unknown THEN map[k] ELSE IntoOption(Effect(tx)[k])]

Init ==
    /\ committed = [k \in Keys |-> NoValue]
    /\ durable = committed
    /\ branch = NoBranch

Commit(tx) ==
    /\ branch = NoBranch
    /\ committed' = Apply(tx, committed)
    /\ UNCHANGED <<durable, branch>>

Persist ==
    /\ durable' = committed
    /\ UNCHANGED <<committed, branch>>

Branch ==
    /\ branch = NoBranch
    /\ branch' = committed
    /\ UNCHANGED <<committed, durable>>

BranchCommit(tx) ==
    /\ branch # NoBranch
    /\ branch' = Apply(tx, branch)
    /\ UNCHANGED <<committed, durable>>

Abandon ==
    /\ branch' = NoBranch
    /\ UNCHANGED <<committed, durable>>

Switch ==
    /\ branch # NoBranch
    /\ committed' = branch
    /\ branch' = NoBranch
    /\ UNCHANGED durable

Crash ==
    /\ committed' = durable
    /\ branch' = NoBranch
    /\ UNCHANGED durable

Next ==
    \/ \E tx \in Transactions : Commit(tx) \/ BranchCommit(tx)
    \/ Persist \/ Branch \/ Abandon \/ Switch \/ Crash

Spec == Init /\ [][Next]_vars
=============================================================================
