---------------------------- MODULE FollowUpQueue ----------------------------
(***************************************************************************)
(* The durable queue of generated follow-up items, follow_up_queue.rs: a   *)
(* reducer over the records of one authenticated journal.  A queue is the  *)
(* snapshot its journal replays to.  Every operator of the middle section  *)
(* is one journal event: the set of snapshots the reducer accepts for it,  *)
(* empty when the append is refused.  One record binds the item's phase,   *)
(* its lease (FollowUpLease) and its graph branch (LicensedGraph).         *)
(*                                                                         *)
(* The identityless events of queues written before graphs existed, the    *)
(* release before dispatch and the opening of a second occurrence, which   *)
(* the cascade never appends to a licensed queue, are left out.            *)
(***************************************************************************)
EXTENDS FollowUpLease, LicensedGraph, Sequences

CONSTANTS
    ItemOrder,                        \* the items of the batch, in key order
    MAX_AUTHENTICATED_QUEUE_RECORDS   \* the journal refuses to grow past it

Items == {ItemOrder[n] : n \in 1..Len(ItemOrder)}

\* create_or_open: an empty journal gets its creation record.
Created == [records   |-> 1,
            staged    |-> {},
            committed |-> FALSE,
            graph     |-> None,
            phase     |-> [i \in Items |-> None],
            lease     |-> [i \in Items |-> initial]]

\* append_event: nothing is appended at the record bound or to a refused event.
append_event(q, nexts) ==
    IF q.records >= MAX_AUTHENTICATED_QUEUE_RECORDS THEN {}
    ELSE {[n EXCEPT !.records = q.records + 1] : n \in nexts}

------------------------------------------------------------------------------
(* What the snapshot says of one item *)

bound_graph_task_visit(q, i) == q.graph.visits[i]

bound_branch_attempt_in_progress(q, i) == q.graph.branches[i].running

\* item_is_pending: enqueued, its task is on the frontier and has yet to be attempted.
item_is_pending(q, i) ==
    /\ q.phase[i] = "Enqueued"
    /\ q.graph # None /\ q.graph.terminated = None
    /\ i \in ActiveNodes(q.graph)
    /\ LET b == q.graph.branches[i] IN
       ~b.running /\ (b.retry \/ b.last.visit < q.graph.visits[i])

\* The summary of a queue with nothing left to do.
Complete(q) == q.committed /\ \A i \in Items : q.phase[i] = "AcknowledgedTerminal"

------------------------------------------------------------------------------
(* The journal events *)

EnqueueStaged(q, i) ==
    append_event(q, Accept(~q.committed /\ i \notin q.staged,
                           [q EXCEPT !.staged = @ \cup {i}]))

\* The commit names the complete batch; only then do items exist.
Enqueued(q) ==
    append_event(q, Accept(~q.committed /\ q.staged = Items,
                           [q EXCEPT !.committed = TRUE, !.staged = {},
                                     !.phase = [i \in Items |-> "Enqueued"]]))

\* validate_clean_graph_migration and validate_graph_bindings.
GraphDefinedAndBound(q, definition) ==
    append_event(q, Accept(/\ q.graph = None /\ q.committed
                           /\ \A i \in Items : q.phase[i] = "Enqueued"
                           /\ Of(definition, "Task") = Items
                           /\ validate_definition(definition),
                           [q EXCEPT !.graph = initialize_state(definition)]))

\* Control transitions only: attempts start and end with the lease records below.
GraphTransition(q, ev) ==
    append_event(q, {[q EXCEPT !.graph = g] :
        g \in IF ev.type \in {"AttemptStarted", "AttemptCompleted"} THEN {}
              ELSE apply_graph_event(q.graph, ev)})

\* Mutant of LeaseClaimed: the graph attempt is not part of the record.
LeaseClaimed_NoAttempt(q, i, proof, at, expires) ==
    append_event(q, {[q EXCEPT !.lease[i] = l, !.phase[i] = "Claimed"] :
        l \in IF q.phase[i] # "Enqueued" THEN {}
              ELSE apply_claim(q.lease[i], ClaimedEvent(proof, at, expires))})

\* The claim starts the branch's next attempt in the same record.
LeaseClaimed(q, i, proof, at, expires) ==
    LET cursor == next_attempt_cursor(q.graph.branches[i].last) IN
    append_event(q, {[q EXCEPT !.lease[i] = x[1], !.graph = x[2], !.phase[i] = "Claimed"] :
        x \in IF q.phase[i] # "Enqueued" THEN {}
              ELSE apply_claim(q.lease[i], ClaimedEvent(proof, at, expires))
                   \X apply_graph_event(q.graph, AttemptStarted(i, cursor.visit, cursor.attempt))})

LeaseHeartbeat(q, i, at, expires) ==
    append_event(q, {[q EXCEPT !.lease[i] = l] :
        l \in IF <<q.phase[i], q.lease[i].phase>> \notin
                     {<<"Claimed", "Active">>, <<"DispatchStarted", "EffectFenced">>} THEN {}
              ELSE apply_heartbeat(q.lease[i], HeartbeatEvent(q.lease[i].proof, at, expires))})

LeaseReclaimed(q, i, proof, at, expires) ==
    LET l == q.lease[i] IN
    append_event(q, {[q EXCEPT !.lease[i] = m] :
        m \in IF q.phase[i] # "Claimed" THEN {}
              ELSE apply_reclaim(l, ReclaimedEvent(l.proof, l.expires, at, proof, expires))})

\* The dispatch marker and the effect fence are one record.
LeaseEffectStarted(q, i, at) ==
    append_event(q, {[q EXCEPT !.lease[i] = l, !.phase[i] = "DispatchStarted"] :
        l \in IF q.phase[i] # "Claimed" \/ ~bound_branch_attempt_in_progress(q, i) THEN {}
              ELSE apply_effect_start(q.lease[i],
                                      BoundEvent("EffectStarted", q.lease[i].proof, at))})

LeaseHeldAmbiguous(q, i) ==
    append_event(q, Accept(/\ q.phase[i] = "DispatchStarted"
                           /\ q.lease[i].phase = "EffectFenced"
                           /\ bound_branch_attempt_in_progress(q, i),
                           [q EXCEPT !.phase[i] = "HeldAmbiguous"]))

\* Acknowledges the lease and completes the attempt; never schedules a retry.
LeaseTerminalAcknowledged(q, i, at, outcome) ==
    LET cursor == next_attempt_cursor(q.graph.branches[i].last) IN
    append_event(q, {[q EXCEPT !.lease[i] = x[1], !.graph = x[2],
                               !.phase[i] = "AcknowledgedTerminal"] :
        x \in IF q.phase[i] \notin {"DispatchStarted", "HeldAmbiguous"}
                 \/ outcome = "RetryableFailure" THEN {}
              ELSE apply_acknowledgement(q.lease[i],
                                         BoundEvent("Acknowledged", q.lease[i].proof, at))
                   \X apply_graph_event(q.graph,
                          AttemptCompleted(i, cursor.visit, cursor.attempt, outcome))})

\* A refused preparation leaves a record and changes nothing else.
PreparationWhileEnqueued(q, i) == append_event(q, Accept(item_is_pending(q, i), q))

PreparationWhileClaimed(q, i) ==
    append_event(q, Accept(/\ q.phase[i] = "Claimed"
                           /\ q.lease[i].phase = "Active"
                           /\ bound_branch_attempt_in_progress(q, i), q))
==============================================================================
