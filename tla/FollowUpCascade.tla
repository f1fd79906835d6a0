--------------------------- MODULE FollowUpCascade ---------------------------
(***************************************************************************)
(* run_generated_follow_up_cascade, supervise/follow_up_cascade.rs, with   *)
(* its lease driver (follow_up_lease.rs) and leased execution.  One        *)
(* invocation at a time drives the durable queue: the queue's journal lock *)
(* is held from create_or_open to the end.  It may crash before any record *)
(* or launch, and a later invocation of the same run starts from what the  *)
(* journal replays to.  The subordinate runs are external: this module     *)
(* knows of them what supervisor_status and their final reports say.       *)
(*                                                                         *)
(* Observations of the wall clock are one unit apart; the clock may jump   *)
(* forward by a lease's life and, as a fault, back.                        *)
(***************************************************************************)
EXTENDS FollowUpQueue

CONSTANTS
    Worker,          \* the logical worker, derived from the authenticated outer run
    Ttl,             \* stale_after_seconds
    Back,            \* how far a clock fault steps back
    MaxTime,         \* bound: the clock does not jump past it
    MaxHeartbeats,   \* bound: heartbeats of one launched run
    MaxFaults,       \* bound: faults of one behaviour
    Faults           \* which faults happen

\* Items are known by task nodes, which are none of the other nodes of a licensed graph.
ASSUME CascadeAssumption ==
    /\ ItemOrder \in Seq(Items)
    /\ Items \cap {"fork", "join", "success", "partial", "failure"} = {}
    /\ None \notin Outcomes \cup FanInResults \cup
                   {"Enqueued", "Claimed", "DispatchStarted", "HeldAmbiguous", "AcknowledgedTerminal"}
    /\ Ttl \in Nat \ {0} /\ Back \in Nat /\ MaxTime \in Nat
    /\ MaxHeartbeats \in Nat /\ MaxFaults \in Nat
    /\ Faults \subseteq {"Crash", "Clock", "Refuse", "Unreadable", "Foreign", "Resume"}

------------------------------------------------------------------------------
(* The states of the queue *)

\* The definition every batch is bound to, and the states its events lead to.
Licensed == derive_licensed_follow_up_graph(Items)

Attempt == [visit : Nat, attempt : Nat, outcome : Outcomes \cup {None}]
Branch == [last : Attempt, running : BOOLEAN, retry : BOOLEAN]

GraphState ==
    [def : {Licensed}, events : Nat,
     visits : [Nodes(Licensed) -> Nat], routed : [Nodes(Licensed) -> Nat],
     crossed : [Licensed.edges -> Nat],
     branches : [Items -> Branch],
     joins : [Of(Licensed, "Join") -> FanInResults \cup {None}],
     loops : [{} -> {}],
     terminated : Nodes(Licensed) \cup {None}]

\* The leases of the one worker; a lease that was reclaimed keeps the lineage.
Grants == [worker : {Worker}, id : Items \X Nat, generation : Nat]
Proofs == Grants \cup {NoProof}
Reclaims == [predecessor : Proofs, expired : Nat, at : Nat, successor : Proofs] \cup {NoReclaim}

LeaseState ==
    [phase : {"Available", "Active", "EffectFenced", "Acknowledged"}, proof : Proofs,
     generation : Nat, at : Nat, expires : Nat, last_reclaim : Reclaims]

ItemPhases ==
    {None, "Enqueued", "Claimed", "DispatchStarted", "HeldAmbiguous", "AcknowledgedTerminal"}

QueueState ==
    [records : Nat, staged : SUBSET Items, committed : BOOLEAN, graph : GraphState \cup {None},
     phase : [Items -> ItemPhases], lease : [Items -> LeaseState]]

\* A journal that does not exist yet is not a queue, and one without a graph has no graph's state.
ASSUME AbsentStates == None \notin QueueState /\ None \notin GraphState

------------------------------------------------------------------------------
VARIABLES
    q,        \* the durable queue, None before its journal exists
    run,      \* the subordinate run of each item
    now,      \* the wall clock
    p,        \* the invocation
    faults    \* faults so far

vars == <<q, run, now, p, faults>>

\* A final report: succeeded and publishable, succeeded only, or failed.
Reports == {"Success", "Unpublishable", "Failure"}

NoRun == [status |-> "absent", report |-> None, planned |-> TRUE, launched |-> FALSE]

\* pc names the next step and then the step after advancing the graph; todo are the
\* items the loop at pc has left; owned the items whose proof the lease driver holds.
Idle == [pc |-> "idle", then |-> None, todo |-> {}, item |-> None, owned |-> {},
         obs |-> 0, success |-> TRUE, ok |-> TRUE, beats |-> 0, outcome |-> None]

Init ==
    /\ q = None
    /\ run = [i \in Items |-> NoRun]
    /\ now = 1
    /\ p = Idle
    /\ faults = 0

First(S) == LET n == CHOOSE n \in 1..Len(ItemOrder) :
                         /\ ItemOrder[n] \in S
                         /\ \A m \in 1..(n - 1) : ItemOrder[m] \notin S
            IN  ItemOrder[n]

Fault(kind) == kind \in Faults /\ faults < MaxFaults /\ faults' = faults + 1

\* The invocation returns an error; what is in the journal stays.
Returned(outcome) == [Idle EXCEPT !.outcome = outcome]

\* append_event and `?`: a refused event ends the invocation.
Journal(events, next) ==
    IF events = {} THEN q' = q /\ p' = Returned("Error")
    ELSE q' \in events /\ p' = next

\* Advance the graph, then go on.
Advance(r, then) == [r EXCEPT !.pc = "advance", !.then = then]

Finish(r) == Advance([r EXCEPT !.success = FALSE], "report")

------------------------------------------------------------------------------
(* Enqueueing and the graph *)

\* ensure_generated_follow_up_cascade_needs_resume refuses a complete queue.
Invoke ==
    /\ p.pc = "idle"
    /\ q # None => ~Complete(q)
    /\ q' = IF q = None THEN Created ELSE q
    /\ p' = [Idle EXCEPT !.pc = "enqueue"]
    /\ UNCHANGED <<run, now, faults>>

\* enqueue_all_before_dispatch stages what is missing in key order, then commits.
Enqueue ==
    /\ p.pc = "enqueue"
    /\ IF q.committed THEN q' = q /\ p' = [p EXCEPT !.pc = "graph"]
       ELSE IF q.staged # Items THEN Journal(EnqueueStaged(q, First(Items \ q.staged)), p)
       ELSE Journal(Enqueued(q), [p EXCEPT !.pc = "graph"])
    /\ UNCHANGED <<run, now, faults>>

\* ensure_licensed_follow_up_graph; the definition of an existing graph is verified.
DefineGraph ==
    /\ p.pc = "graph"
    /\ LET definition == derive_licensed_follow_up_graph(Items) IN
       IF q.graph # None
       THEN q' = q /\ p' = IF q.graph.def = definition THEN Advance(p, "claims")
                           ELSE Returned("Error")
       ELSE Journal(GraphDefinedAndBound(q, definition), Advance(p, "claims"))
    /\ UNCHANGED <<run, now, faults>>

\* advance_licensed_follow_up_graph, one control record at a time.
AdvanceGraph ==
    /\ p.pc = "advance"
    /\ LET events == NextControlEvents(q.graph) IN
       IF events = {} THEN q' = q /\ p' = [p EXCEPT !.pc = p.then]
       ELSE \E ev \in events : Journal(GraphTransition(q, ev), p)
    /\ UNCHANGED <<run, now, faults>>

------------------------------------------------------------------------------
(* The lease driver *)

\* require_strict_observation_advance.
StrictlyAfter(l, at) == at > l.at

\* The lease the driver writes for the next generation of an item.
SuccessorProof(i) ==
    LET generation == q.lease[i].generation + 1 IN
    LeaseProof(Worker, <<i, generation>>, generation)

\* prepare_existing_claims: one observation for all the claims of earlier invocations.
ObserveClaims ==
    /\ p.pc = "claims"
    /\ LET claimed == {i \in Items : q.phase[i] = "Claimed"} IN
       /\ p' = [p EXCEPT !.pc = "prepare", !.todo = claimed, !.obs = now + 1]
       /\ now' = IF claimed = {} THEN now ELSE now + 1
    /\ UNCHANGED <<q, run, faults>>

\* A live claim is taken up again, an expired one is reclaimed.
PrepareClaim ==
    /\ p.pc = "prepare"
    /\ IF p.todo = {} THEN q' = q /\ p' = Advance([p EXCEPT !.todo = Items], "reconcile")
       ELSE LET i    == First(p.todo)
                l    == q.lease[i]
                mine == [p EXCEPT !.todo = @ \ {i}, !.owned = @ \cup {i}]
            IN  IF ~StrictlyAfter(l, p.obs) THEN q' = q /\ p' = Returned("Error")
                ELSE IF p.obs < l.expires
                     THEN q' = q /\ p' = IF l.proof.worker = Worker THEN mine
                                         ELSE [p EXCEPT !.todo = @ \ {i}]
                     ELSE Journal(LeaseReclaimed(q, i, SuccessorProof(i), p.obs, p.obs + Ttl), mine)
    /\ UNCHANGED <<run, now, faults>>

------------------------------------------------------------------------------
(* Reconciliation with the subordinate runs *)

\* branch_outcome_from_authenticated_report: success is accepted and publishable.
branch_outcome(report) == IF report = "Success" THEN "Success" ELSE "Failure"

\* report.success, which is what the cascade's own success counts.
report_success(report) == report # "Failure"

\* Mutant of subordinate_reconciliation: an interrupted run counts as active.
subordinate_reconciliation_StillActive(r) ==
    CASE r.status = "finalized" -> {[is |-> "Finalized", run |-> r]}
      [] OTHER -> {[is |-> "Active", run |-> r]}

\* subordinate_reconciliation: what a readable status says of a run, and the run
\* after it; resuming a resumable run may produce its final report.
subordinate_reconciliation(r) ==
    CASE r.status = "finalized" -> {[is |-> "Finalized", run |-> r]}
      [] r.status = "active"    -> {[is |-> "Active", run |-> r]}
      [] r.status = "resumable" ->
            {[is |-> "Ambiguous", run |-> r]} \cup
            {[is |-> "Finalized", run |-> [r EXCEPT !.status = "finalized", !.report = o]] :
                o \in Reports}
      [] r.status \in {"absent", "interrupted"} -> {[is |-> "Ambiguous", run |-> r]}

\* A status that cannot be read decides nothing: RetryableStatusRead.
Status(i, s) ==
    \/ s \in subordinate_reconciliation(run[i]) /\ faults' = faults
    \/ s = [is |-> "Retryable", run |-> run[i]] /\ Fault("Unreadable")

Statuses(i) == subordinate_reconciliation(run[i]) \cup {[is |-> "Retryable", run |-> run[i]]}

\* Mutant of observe_and_acknowledge: the persisted plan is not compared.
observe_and_acknowledge_AnyPlan(i, r, matched, mismatched) ==
    LET known == IF report_success(r.report) THEN matched
                 ELSE [matched EXCEPT !.success = FALSE]
    IN  /\ now' = now + 1
        /\ Journal(LeaseTerminalAcknowledged(q, i, now + 1, branch_outcome(r.report)), known)

\* observe_and_acknowledge: a run of another plan is held, never acknowledged.
observe_and_acknowledge(i, r, matched, mismatched) ==
    LET known == IF report_success(r.report) THEN matched
                 ELSE [matched EXCEPT !.success = FALSE]
    IN  IF r.planned
        THEN /\ now' = now + 1
             /\ Journal(LeaseTerminalAcknowledged(q, i, now + 1, branch_outcome(r.report)), known)
        ELSE /\ now' = now
             /\ IF q.phase[i] = "DispatchStarted" THEN Journal(LeaseHeldAmbiguous(q, i), mismatched)
                ELSE q' = q /\ p' = mismatched

\* reconcile_started_items, one item.
ReconcileItem ==
    /\ p.pc = "reconcile" /\ p.todo # {}
    /\ LET i    == First(p.todo)
           rest == [p EXCEPT !.todo = @ \ {i}]
           open == [rest EXCEPT !.success = FALSE]
       IN  IF q.phase[i] \in {"Enqueued", "Claimed"}
           THEN p' = rest /\ UNCHANGED <<q, run, now, faults>>
           ELSE \E s \in Statuses(i) :
                   /\ Status(i, s)
                   /\ run' = [run EXCEPT ![i] = s.run]
                   /\ IF q.phase[i] = "AcknowledgedTerminal"
                      THEN /\ p' = IF /\ s.is = "Finalized" /\ s.run.planned
                                      /\ report_success(s.run.report)
                                   THEN rest ELSE open
                           /\ UNCHANGED <<q, now>>
                      ELSE IF s.is = "Finalized"
                      THEN observe_and_acknowledge(i, s.run,
                                                   Advance(rest, "reconcile"), open)
                      ELSE IF s.is = "Ambiguous" /\ q.phase[i] = "DispatchStarted"
                      THEN Journal(LeaseHeldAmbiguous(q, i), open) /\ now' = now
                      ELSE p' = open /\ UNCHANGED <<q, now>>

ReconcileDone ==
    /\ p.pc = "reconcile" /\ p.todo = {}
    /\ p' = Advance(p, "admit")
    /\ UNCHANGED <<q, run, now, faults>>

------------------------------------------------------------------------------
(* Dispatch *)

\* owns_claim: the proof the driver holds is the one in the active lease.
owns_claim(i) == i \in p.owned /\ q.phase[i] = "Claimed" /\ q.lease[i].phase = "Active"

\* Mutant of follow_up_dispatch_unresolved: a held item does not block its siblings.
follow_up_dispatch_unresolved_HeldIsOver ==
    \E i \in Items : \/ q.phase[i] = "DispatchStarted"
                     \/ q.phase[i] = "Claimed" /\ ~owns_claim(i)

follow_up_dispatch_unresolved ==
    \E i \in Items : \/ q.phase[i] \in {"DispatchStarted", "HeldAmbiguous"}
                     \/ q.phase[i] = "Claimed" /\ ~owns_claim(i)

graph_dispatch_pending_items == {i \in Items : item_is_pending(q, i) \/ owns_claim(i)}

Admit ==
    /\ p.pc = "admit"
    /\ p' = IF follow_up_dispatch_unresolved THEN Finish(p)
            ELSE [p EXCEPT !.pc = "select", !.todo = graph_dispatch_pending_items]
    /\ UNCHANGED <<q, run, now, faults>>

Select ==
    /\ p.pc = "select"
    /\ p' = IF p.todo = {} THEN Advance(p, "report")
            ELSE [p EXCEPT !.pc = "ready", !.item = First(p.todo),
                           !.todo = @ \ {First(p.todo)}]
    /\ UNCHANGED <<q, run, now, faults>>

\* claim_prepared on a claimed item: the held lease must still be live.
StillLive(i, at) == owns_claim(i) /\ StrictlyAfter(q.lease[i], at) /\ at < q.lease[i].expires

\* record_graph_preparation_diagnostics: the refusal is journaled on the item as it is.
Refuse(i, next) ==
    IF q.phase[i] = "Enqueued"
    THEN Journal(PreparationWhileEnqueued(q, i), next) /\ now' = now
    ELSE /\ now' = now + 1
         /\ IF StillLive(i, now + 1) THEN Journal(PreparationWhileClaimed(q, i), next)
            ELSE q' = q /\ p' = Returned("Error")

\* The preparation finds the item ready, or it is refused, cancelled or in error.
PreparationReady ==
    /\ p.pc = "ready"
    /\ p' = [p EXCEPT !.pc = "claim"]
    /\ UNCHANGED <<q, run, now, faults>>

PreparationRefused ==
    /\ p.pc = "ready"
    /\ Fault("Refuse")
    /\ \E next \in {Finish(p), Returned("Error")} :
          Refuse(p.item, next)
    /\ UNCHANGED run

\* claim_prepared.
ClaimPrepared ==
    /\ p.pc = "claim"
    /\ now' = now + 1
    /\ LET i    == p.item
           mine == [p EXCEPT !.pc = "recheck", !.owned = @ \cup {i}]
       IN  IF q.phase[i] = "Enqueued"
           THEN Journal(LeaseClaimed(q, i, SuccessorProof(i), now + 1, now + 1 + Ttl), mine)
           ELSE q' = q /\ p' = IF StillLive(i, now + 1) THEN mine ELSE Returned("Error")
    /\ UNCHANGED <<run, faults>>

\* The checks between the claim and the marker: a refusal keeps the item claimed.
RecheckRefused ==
    /\ p.pc = "recheck"
    /\ Fault("Refuse")
    /\ Refuse(p.item, Finish(p))
    /\ UNCHANGED run

\* Mutant of MarkEffectStarted: the run is launched before the marker is journaled.
MarkEffectStarted_AfterLaunch ==
    /\ p.pc = "recheck"
    /\ p' = [p EXCEPT !.pc = "launch"]
    /\ UNCHANGED <<q, run, now, faults>>

\* mark_effect_started waits a moment for an observation later than the last.
MarkEffectStarted ==
    /\ p.pc = "recheck"
    /\ \E at \in {now + 1, q.lease[p.item].at + 1} :
          /\ at > now
          /\ now' = at
          /\ Journal(LeaseEffectStarted(q, p.item, at), [p EXCEPT !.pc = "heartbeat"])
    /\ UNCHANGED <<run, faults>>

\* with_heartbeat: without the initial heartbeat nothing is launched.
InitialHeartbeat ==
    /\ p.pc = "heartbeat"
    /\ now' = now + 1
    /\ LET events == LeaseHeartbeat(q, p.item, now + 1, now + 1 + Ttl) IN
       IF events = {} THEN q' = q /\ p' = [p EXCEPT !.pc = "settle", !.ok = FALSE]
       ELSE q' \in events /\ p' = [p EXCEPT !.pc = "launch", !.ok = TRUE, !.beats = 0]
    /\ UNCHANGED <<run, faults>>

\* The subordinate starts, unless a run of its identity exists.
Launch ==
    /\ p.pc = "launch"
    /\ IF run[p.item].status = "absent"
       THEN /\ run' = [run EXCEPT ![p.item].status = "active", ![p.item].launched = TRUE]
            /\ p' = [p EXCEPT !.pc = "running"]
       ELSE run' = run /\ p' = [p EXCEPT !.pc = "settle", !.ok = FALSE]
    /\ UNCHANGED <<q, now, faults>>

\* The heartbeat thread; a refused heartbeat cancels the run and stops the thread.
Heartbeat ==
    /\ p.pc = "running" /\ p.ok /\ p.beats < MaxHeartbeats
    /\ now' = now + 1
    /\ LET events == LeaseHeartbeat(q, p.item, now + 1, now + 1 + Ttl) IN
       IF events = {} THEN q' = q /\ p' = [p EXCEPT !.ok = FALSE]
       ELSE q' \in events /\ p' = [p EXCEPT !.beats = @ + 1]
    /\ UNCHANGED <<run, faults>>

\* The run returns its final report, or an error that leaves no report.
RunReturns ==
    /\ p.pc = "running"
    /\ \/ \E o \in Reports :
             /\ run' = [run EXCEPT ![p.item].status = "finalized", ![p.item].report = o]
             /\ p' = [p EXCEPT !.pc = "settle"]
       \/ \E s \in {"interrupted", "resumable"} :
             /\ run' = [run EXCEPT ![p.item].status = s]
             /\ p' = [p EXCEPT !.pc = "settle", !.ok = FALSE]
    /\ UNCHANGED <<q, now, faults>>

\* After an acknowledgement the loop goes on only while everything succeeded.
NextSibling(r) == Advance(r, IF r.success THEN "select" ELSE "report")

\* Ok(report): observe and acknowledge it.  Err: ask for the run's status first.
Settle ==
    /\ p.pc = "settle"
    /\ LET i       == p.item
           Matched(report) ==
               NextSibling([p EXCEPT !.success = @ /\ report_success(report)])
       IN  IF p.ok
           THEN /\ observe_and_acknowledge(i, run[i],
                                           Matched(run[i].report), Finish(p))
                /\ UNCHANGED <<run, faults>>
           ELSE \E s \in Statuses(i) :
                   /\ Status(i, s)
                   /\ run' = [run EXCEPT ![i] = s.run]
                   /\ IF s.is = "Finalized"
                      THEN observe_and_acknowledge(i, s.run,
                                                   Matched(s.run.report), Finish(p))
                      ELSE /\ now' = now
                           /\ IF s.is = "Ambiguous" THEN Journal(LeaseHeldAmbiguous(q, i), Finish(p))
                              ELSE q' = q /\ p' = Finish(p)

\* All acknowledged, and the graph terminated in success.
CascadeSucceeded ==
    /\ p.success
    /\ Complete(q)
    /\ q.graph.terminated # None
    /\ q.graph.def.kind[q.graph.terminated].outcome = "Success"

\* The outcome; a primary worktree that changed fails it.
Report ==
    /\ p.pc = "report"
    /\ \/ /\ p' = Returned(IF CascadeSucceeded THEN "Success" ELSE "Failure")
          /\ UNCHANGED faults
       \/ p' = Returned("Failure") /\ Fault("Refuse")
    /\ UNCHANGED <<q, run, now>>

------------------------------------------------------------------------------
(* The environment *)

\* The process dies; a run it was executing stops without a report.
Crash ==
    /\ p.pc # "idle"
    /\ Fault("Crash")
    /\ p' = Returned("Error")
    /\ \E s \in {"interrupted", "resumable"} :
          run' = IF p.pc # "running" THEN run ELSE [run EXCEPT ![p.item].status = s]
    /\ UNCHANGED <<q, now>>

\* A long pause: the host sleeps, or nobody invokes the run again for a while.
Elapse ==
    /\ now + Ttl <= MaxTime
    /\ now' = now + Ttl
    /\ UNCHANGED <<q, run, p, faults>>

\* The wall clock is set back.
StepBack ==
    /\ Fault("Clock")
    /\ now' = IF now > Back THEN now - Back ELSE 0
    /\ UNCHANGED <<q, run, p>>

\* An operator resumes an interrupted run.
ResumeRun ==
    /\ Fault("Resume")
    /\ \E i \in Items : /\ run[i].status \in {"interrupted", "resumable"}
                        /\ run' = [run EXCEPT ![i].status = "active"]
    /\ UNCHANGED <<q, now, p>>

\* A run resumed elsewhere ends.
ResumedRunEnds ==
    /\ \E i \in Items :
          /\ run[i].status = "active"
          /\ ~(p.pc = "running" /\ p.item = i)
          /\ \/ run' = [run EXCEPT ![i].status = "interrupted"]
             \/ \E o \in Reports : run' = [run EXCEPT ![i].status = "finalized", ![i].report = o]
    /\ UNCHANGED <<q, now, p, faults>>

\* Somebody runs another plan under the identity of an item's run.
ForeignRun ==
    /\ Fault("Foreign")
    /\ \E i \in Items, o \in Reports :
          /\ run[i].status = "absent"
          /\ run' = [run EXCEPT ![i] = [NoRun EXCEPT !.status = "finalized", !.report = o,
                                                     !.planned = FALSE]]
    /\ UNCHANGED <<q, now, p>>

Steps ==
    \/ Invoke \/ Enqueue \/ DefineGraph \/ AdvanceGraph
    \/ ObserveClaims \/ PrepareClaim \/ ReconcileItem \/ ReconcileDone
    \/ Admit \/ Select \/ PreparationReady \/ PreparationRefused \/ ClaimPrepared
    \/ RecheckRefused \/ MarkEffectStarted \/ InitialHeartbeat \/ Launch
    \/ Heartbeat \/ RunReturns \/ Settle \/ Report

Next ==
    \/ Steps \/ Crash \/ Elapse \/ StepBack \/ ResumeRun \/ ResumedRunEnds \/ ForeignRun

Spec == Init /\ [][Next]_vars

\* The operator invokes the run again until it is complete, an invocation makes
\* progress while it lives, and runs end.
FairSpec == Spec /\ WF_vars(Steps) /\ WF_vars(ResumedRunEnds)
------------------------------------------------------------------------------
(* Properties *)

\* The phase of an item, its lease and its branch of the graph tell one story in
\* every journal prefix, whatever crashed between two records: leased_execution.rs
\* and the composite records of follow_up_queue.rs.
StoryAgrees ==
    q # None /\ q.graph # None =>
        \A i \in Items :
            LET b == q.graph.branches[i]
            IN  CASE q.phase[i] = "Enqueued" ->
                        q.lease[i].phase = "Available" /\ ~b.running /\ b.last = NoAttempt
                  [] q.phase[i] = "Claimed" -> q.lease[i].phase = "Active" /\ b.running
                  [] q.phase[i] \in {"DispatchStarted", "HeldAmbiguous"} ->
                        q.lease[i].phase = "EffectFenced" /\ b.running
                  [] q.phase[i] = "AcknowledgedTerminal" ->
                        q.lease[i].phase = "Acknowledged" /\ is_terminal_for_visit(b, 1)

\* "Never overtake an unresolved earlier effect": at most one item is started and
\* unresolved, over all invocations, crashes and operators.
NoOvertaking ==
    q # None =>
        Cardinality({i \in Items : q.phase[i] \in {"Claimed", "DispatchStarted", "HeldAmbiguous"}}) <= 1

\* A subordinate exists only behind a durable marker and a fenced lease, so no later
\* invocation can claim or launch its item again.
LaunchIsFenced ==
    \A i \in Items :
        run[i].launched =>
            /\ q.phase[i] \in {"DispatchStarted", "HeldAmbiguous", "AcknowledgedTerminal"}
            /\ q.lease[i].phase \in {"EffectFenced", "Acknowledged"}

\* observe_and_acknowledge: only a finalized run of the queued plan is acknowledged,
\* and the graph keeps the verdict of its report.
AcknowledgedIsAuthentic ==
    q # None =>
        \A i \in Items :
            q.phase[i] = "AcknowledgedTerminal" =>
                /\ run[i].status = "finalized" /\ run[i].planned
                /\ q.graph.branches[i].last.outcome =
                        IF run[i].report = "Success" THEN "Success" ELSE "Failure"

\* A cascade reported as a success had every run succeed and be publishable.
SuccessIsEarned ==
    p.outcome = "Success" =>
        \A i \in Items : run[i].status = "finalized" /\ run[i].planned /\ run[i].report = "Success"

\* observe_and_acknowledge and the cascade's outcome: no item is acknowledged and no batch
\* reported as a success but on the strength of the finalized runs of the queued plans.
VerdictIsEarned == AcknowledgedIsAuthentic /\ SuccessIsEarned

\* Repeated invocations resolve every item, or stop at one that is held and needs an
\* authenticated report from elsewhere; nothing else blocks the batch for ever.
Resolved ==
    <>(q # None /\ (Complete(q) \/ \E i \in Items : q.phase[i] = "HeldAmbiguous"))
==============================================================================
