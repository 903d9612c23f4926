----------------------------- MODULE Responses -----------------------------
(* The order of the responses to one peer: p2p/src/util/synchronizer.rs,      *)
(* util/response_queue.rs and net/peer_context.rs.                            *)
(*                                                                            *)
(* A request that wants a response takes the next id; the responses leave in  *)
(* the order of the ids, and one that is ready early waits in the queue.  The *)
(* context of a peer is a record: the synchronizer (declared, next, from, to) *)
(* and the queue (unfinished, finished, ignored).  `ok` turns FALSE if an     *)
(* assertion of the code fails.                                               *)
EXTENDS Integers, Sequences, TLC

CONSTANT IdWidth                 \* the ids are u32: they wrap at 2 ^ IdWidth

ASSUME IdWidthAssumption == IdWidth \in Nat \ {0}

Ids == 0 .. 2 ^ IdWidth - 1
NextId(id) == (id + 1) % 2 ^ IdWidth

(* ThresholdSynchronizer::new(declared, threshold); a connection starts with  *)
(* ThresholdSynchronizer::new(0, 0), since SYNCHRONOUS_RESPONSES is set.      *)
NewSynchronizer(declared, threshold) ==
    [declared |-> declared, next |-> declared,
     from |-> (declared - threshold) % 2 ^ IdWidth, to |-> declared]

WithinThreshold(sync, id) ==
    IF sync.from <= sync.to THEN sync.from <= id /\ id < sync.to
                            ELSE sync.from <= id \/ id < sync.to

NewContext == NewSynchronizer(0, 0) @@
              [unfinished |-> <<>>, finished |-> <<>>, ignored |-> {}, ok |-> TRUE]

(* declare_response: the context after it; the id is the old `declared`. *)
DeclareResponse(ctx) == [ctx EXCEPT !.declared = NextId(@)]

IsPermitted(ctx, id) == id = ctx.next \/ WithinThreshold(ctx, id)

(* permission_for_response, when it is granted: the id is used up. *)
PermissionForResponse(ctx, id) == [ctx EXCEPT !.next = IF id = @ THEN NextId(@) ELSE @]

-----------------------------------------------------------------------------
(* ResponseQueue: maps from ids to the messages that wait. *)

Without(map, id) == [k \in DOMAIN map \ {id} |-> map[k]]
Waiting(map, id) == IF id \in DOMAIN map THEN map[id] ELSE <<>>

PushUnfinished(ctx, id, message) ==
    [ctx EXCEPT !.unfinished = (id :> Append(Waiting(@, id), message)) @@ @]

PushFinished(ctx, id, message) ==
    [ctx EXCEPT !.unfinished = Without(@, id),
                !.finished = (id :> Append(Waiting(ctx.unfinished, id), message)) @@ @,
                !.ok = @ /\ id \notin DOMAIN ctx.finished]

PushIgnored(ctx, id) == [ctx EXCEPT !.ignored = @ \cup {id}, !.ok = @ /\ id \notin ctx.ignored]

-----------------------------------------------------------------------------
(* PeerContext.  The result is the context and the messages handed to the     *)
(* pool to be written, in this order.                                         *)

(* send_awaiting: the responses after `id` that are ready.  An unfinished one *)
(* is sent as far as it goes and ends the loop; the others are used up.       *)
SendAwaiting(ctx, out, id) ==
    LET Step(s) ==
            LET n == NextId(s.id)
                c == s.ctx
                asked == [c EXCEPT !.ok = @ /\ IsPermitted(c, n)]
            IN  IF n \in DOMAIN c.unfinished
                THEN [id |-> n, more |-> FALSE, out |-> s.out \o c.unfinished[n],
                      ctx |-> [asked EXCEPT !.unfinished = Without(@, n)]]
                ELSE IF n \in DOMAIN c.finished
                THEN [id |-> n, more |-> TRUE, out |-> s.out \o c.finished[n],
                      ctx |-> PermissionForResponse([asked EXCEPT !.finished = Without(@, n)], n)]
                ELSE IF n \in c.ignored
                THEN [id |-> n, more |-> TRUE, out |-> s.out,
                      ctx |-> PermissionForResponse([asked EXCEPT !.ignored = @ \ {n}], n)]
                ELSE [s EXCEPT !.more = FALSE]
        loop[k \in 0 .. 2 ^ IdWidth] ==
            IF k = 0 THEN [id |-> id, more |-> TRUE, out |-> out, ctx |-> ctx]
            ELSE IF loop[k - 1].more THEN Step(loop[k - 1]) ELSE loop[k - 1]
        last == loop[2 ^ IdWidth]
    IN  [ctx |-> last.ctx, out |-> last.out]

IgnoreResponse(ctx, id) ==
    IF IsPermitted(ctx, id) THEN SendAwaiting(PermissionForResponse(ctx, id), <<>>, id)
    ELSE [ctx |-> PushIgnored(ctx, id), out |-> <<>>]

SendResponse(ctx, message, id, isFinal) ==
    IF isFinal
    THEN IF IsPermitted(ctx, id)
         THEN SendAwaiting(PermissionForResponse(ctx, id), <<message>>, id)
         ELSE [ctx |-> PushFinished(ctx, id, message), out |-> <<>>]
    ELSE IF IsPermitted(ctx, id) THEN [ctx |-> ctx, out |-> <<message>>]
    ELSE [ctx |-> PushUnfinished(ctx, id, message), out |-> <<>>]

SendResponseInline(ctx, message) == SendResponse(DeclareResponse(ctx), message, ctx.declared, TRUE)

-----------------------------------------------------------------------------

\* The responses permitted out of order are the `threshold` last ones before
\* the switch to the synchronous policy and no others, wherever the ids wrap.
ThresholdIsWindow ==
    \A declared, threshold, id \in Ids :
       WithinThreshold(NewSynchronizer(declared, threshold), id)
          <=> ((declared - id) % 2 ^ IdWidth) \in 1 .. threshold

(* Three requests from id `first` on: the parts sent ahead, then the ends in  *)
(* the order of `order`.  A response is whole, in two parts, or given up.     *)
AfterAll(first, order, modes) ==
    LET Id(k) == (first + k - 1) % 2 ^ IdWidth
        Then(s, r) == [ctx |-> r.ctx, out |-> s.out \o r.out]
        begun == [ctx |-> NewSynchronizer(first, 0) @@
                          [unfinished |-> <<>>, finished |-> <<>>, ignored |-> {}, ok |-> TRUE], out |-> <<>>]
        parts[i \in 0 .. 3] ==
            IF i = 0 THEN begun
            ELSE IF modes[i] # "parts" THEN parts[i - 1]
            ELSE Then(parts[i - 1], SendResponse(parts[i - 1].ctx, <<i, 1>>, Id(i), FALSE))
        ends[i \in 0 .. 3] ==
            IF i = 0 THEN parts[3]
            ELSE LET k == order[i]
                     s == ends[i - 1]
                 IN  Then(s, IF modes[k] = "ignored" THEN IgnoreResponse(s.ctx, Id(k))
                             ELSE SendResponse(s.ctx, <<k, 2>>, Id(k), TRUE))
    IN  ends[3]

\* Whatever the order in which three responses are finished, part by part or
\* given up, they are written in the order of their ids, also across the wrap
\* of the ids, nothing is left in the queue and no assertion fails.
ResponsesSorted ==
    \A first \in Ids, order \in Permutations(1 .. 3), modes \in [1 .. 3 -> {"whole", "parts", "ignored"}] :
       LET last == AfterAll(first, order, modes)
           Written(k) == CASE modes[k] = "whole" -> <<<<k, 2>>>>
                           [] modes[k] = "parts" -> <<<<k, 1>>, <<k, 2>>>>
                           [] OTHER -> <<>>
       IN  /\ last.out = Written(1) \o Written(2) \o Written(3)
           /\ last.ctx.ok /\ last.ctx.next = (first + 3) % 2 ^ IdWidth
           /\ DOMAIN last.ctx.unfinished \cup DOMAIN last.ctx.finished \cup last.ctx.ignored = {}
=============================================================================
