----------------------------- MODULE PeersTasks ----------------------------
(***************************************************************************)
(* PeersTasks: which peers take part in synchronization and what each has  *)
(* been asked for.  The operations are operators on a record; an operator  *)
(* that the client calls in a loop takes the whole set of the loop.        *)
(*                                                                         *)
(* Times are left out: the management worker finds any of the pending      *)
(* requests late.  Response speeds are left out too.                       *)
(***************************************************************************)
EXTENDS HeaderTree

CONSTANTS
    Peers,
    MaxPeerFailures,    \* MAX_PEER_FAILURES
    MaxBlocksFailures,  \* MAX_BLOCKS_FAILURES
    GiveUp              \* whether the latter is ever reached; if not, nothing is counted

ASSUME PeersAssumption == {MaxPeerFailures, MaxBlocksFailures} \subseteq Nat /\ GiveUp \in BOOLEAN

\* Blocks requested per peer, or assigned to be requested.  A peer is a key of
\* blocks_requests while its set is not empty: requests are never empty, and
\* the entry is removed with its last block.
BlocksByPeer == [Peers -> SUBSET Blocks]

PeersTasks ==
    [all : SUBSET Peers, unuseful : SUBSET Peers, trusted : SUBSET Peers,
     idleHeaders : SUBSET Peers, idleBlocks : SUBSET Peers,
     headersRequests : SUBSET Peers, blocksRequests : BlocksByPeer,
     peerFailures : [Peers -> 0..MaxPeerFailures + 1], blockFailures : [Blocks -> 0..MaxBlocksFailures]]

NoTasks ==
    [all |-> {}, unuseful |-> {}, trusted |-> {}, idleHeaders |-> {}, idleBlocks |-> {},
     headersRequests |-> {}, blocksRequests |-> [p \in Peers |-> {}],
     peerFailures |-> [p \in Peers |-> 0], blockFailures |-> [b \in Blocks |-> 0]]

Asked(t) == {p \in Peers : t.blocksRequests[p] # {}}

UsefulPeers(t) == t.all \ t.unuseful

UsefulPeer(t, p) ==
    IF p \notin t.all \/ p \in t.unuseful
    THEN [t EXCEPT !.all = @ \cup {p}, !.unuseful = @ \ {p},
                   !.trusted = @ \ {p}, !.peerFailures[p] = 0,
                   !.idleHeaders = @ \cup {p}, !.idleBlocks = @ \cup {p}]
    ELSE t

UnusefulPeers(t, ps) ==
    [t EXCEPT !.all = @ \cup ps, !.unuseful = @ \cup ps,
              !.idleHeaders = @ \ ps, !.idleBlocks = @ \ ps]

DisconnectPeer(t, p) ==
    [t EXCEPT !.all = @ \ {p}, !.unuseful = @ \ {p},
              !.trusted = @ \ {p}, !.peerFailures[p] = 0,
              !.idleHeaders = @ \ {p}, !.idleBlocks = @ \ {p},
              !.headersRequests = @ \ {p}, !.blocksRequests[p] = {}]

OnBlockReceived(t, p, b) ==
    LET left == t.blocksRequests[p] \ {b}
        received == [t EXCEPT !.blockFailures[b] = 0]
        answered == [received EXCEPT !.blocksRequests[p] = left, !.trusted = @ \cup {p},
                                     !.peerFailures[p] = IF @ > 0 THEN @ - 1 ELSE 0]
    IN  IF b \notin t.blocksRequests[p] THEN received
        ELSE IF left # {} THEN answered
        ELSE [answered EXCEPT !.idleBlocks = @ \cup {p},
                              !.idleHeaders = @ \cup ({p} \ t.headersRequests)]

OnHeadersReceived(t, p) ==
    [t EXCEPT !.headersRequests = @ \ {p},
              !.idleHeaders = IF p \in Asked(t) THEN @ ELSE @ \cup {p}]

OnBlocksRequested(t, request) ==
    LET ps == {p \in Peers : request[p] # {}}
        known == UnusefulPeers(t, ps \ t.all)
    IN  [known EXCEPT !.unuseful = @ \ ps, !.idleBlocks = @ \ ps,
                      !.blocksRequests = [p \in Peers |-> @[p] \cup request[p]]]

OnHeadersRequested(t, ps) ==
    LET known == UnusefulPeers(t, ps \ t.all)
    IN  [known EXCEPT !.idleHeaders = @ \ ps, !.headersRequests = @ \cup ps]

\* A block that n peers have failed to send counts n failures; every failure
\* beyond the maximum makes the block a failed one and starts the count anew.
FailuresAfter(t, b, n) == IF GiveUp THEN (t.blockFailures[b] + n) % (MaxBlocksFailures + 1) ELSE 0
FailedAfter(t, b, n) == IF GiveUp THEN (t.blockFailures[b] + n) \div (MaxBlocksFailures + 1) ELSE 0

OnPeerHeadersFailure(t, ps) ==
    [t EXCEPT !.headersRequests = @ \ ps, !.idleHeaders = @ \cup ps]

\* The peers that a penalty finds too bad to keep: a peer that has never sent a
\* block it was asked for, and a trusted one after too many failures.
Excluded(t, ps) == {p \in ps \cap t.all : p \in t.trusted => t.peerFailures[p] >= MaxPeerFailures}

\* Failures are counted up to one more than the maximum.
Penalize(t, ps) ==
    LET Count(p) == IF p \notin t.trusted THEN MaxPeerFailures
                    ELSE IF t.peerFailures[p] <= MaxPeerFailures THEN t.peerFailures[p] + 1
                    ELSE t.peerFailures[p]
    IN  [t EXCEPT !.peerFailures = [p \in Peers |-> IF p \in ps \cap t.all THEN Count(p) ELSE @[p]]]

ResetTasks(t) ==
    [t EXCEPT !.unuseful = t.all, !.idleHeaders = {}, !.idleBlocks = {},
              !.headersRequests = {}, !.blocksRequests = [p \in Peers |-> {}]]

ResetBlocksTasks(t, ps) ==
    [t EXCEPT !.idleBlocks = @ \cup ps,
              !.blocksRequests = [p \in Peers |-> IF p \in ps THEN {} ELSE @[p]]]
=============================================================================
