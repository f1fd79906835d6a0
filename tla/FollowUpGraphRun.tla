-------------------------- MODULE FollowUpGraphRun ---------------------------
(***************************************************************************)
(* A journal of graph events: whatever a caller presents is appended when  *)
(* the reducer of FollowUpGraph accepts it.  Callers may name any branch,  *)
(* visit, attempt, outcome, decision and set of edges of the definition.   *)
(***************************************************************************)
EXTENDS LicensedGraph

CONSTANTS
    Batches,      \* sets of items lowered by derive_licensed_follow_up_graph
    Definitions,  \* definitions from elsewhere that can come to an end
    Stranding     \* definitions that validate() admits although they can get stuck

AllDefinitions ==
    Definitions \cup Stranding \cup {derive_licensed_follow_up_graph(B) : B \in Batches}

\* validate() admits every definition, and the task of an item is no other node of its batch.
ASSUME GraphAssumption ==
    /\ \A d \in AllDefinitions : validate_definition(d)
    /\ \A B \in Batches : B # {} /\ B \cap {"fork", "join", "success", "partial", "failure"} = {}
    /\ None \notin Outcomes \cup FanInResults

VARIABLE g        \* the replayed DurableGraphRuntimeState

\* The Defined event.
GraphInit == \E d \in AllDefinitions : g = initialize_state(d)

Branches == DOMAIN g.branches
Cursors(b) == [visit : 1..(g.visits[b] + 1), attempt : 1..(g.def.kind[b].max + 1)]

\* Every event a caller could present next, by kind.
StartEvents == {AttemptStarted(x[1], x[2].visit, x[2].attempt) :
                   x \in UNION {{b} \X Cursors(b) : b \in Branches}}
CompletionEvents == {AttemptCompleted(x[1], x[2].visit, x[2].attempt, x[3]) :
                        x \in UNION {{b} \X Cursors(b) \X Outcomes : b \in Branches}}
RetryEvents == {RetryScheduled(x[1], x[2].visit, x[2].attempt) :
                   x \in UNION {{b} \X Cursors(b) : b \in Branches}}
JoinEvents == {JoinResolved(n, r) : n \in DOMAIN g.joins, r \in FanInResults}
LoopEvents == {LoopCompleted(x[1], x[2], x[3]) :
                  x \in UNION {{l} \X (1..(g.def.kind[l].max + 1)) \X {"Continue", "Exit"} :
                                  l \in DOMAIN g.loops}}
RouteEvents == UNION {{EdgesSelected(n, v, E) : v \in 1..(g.visits[n] + 1),
                                                E \in SUBSET Outgoing(g.def, n)} :
                         n \in Nodes(g.def)}
EndEvents == {Terminated(n, o) : n \in Nodes(g.def), o \in {"Success", "Failure"}}

\* apply_graph_transition: one more record, if the reducer accepts it.
StartAttempt      == \E ev \in StartEvents : g' \in apply_graph_event(g, ev)
CompleteAttempt   == \E ev \in CompletionEvents : g' \in apply_graph_event(g, ev)
ScheduleRetry     == \E ev \in RetryEvents : g' \in apply_graph_event(g, ev)
ResolveJoin       == \E ev \in JoinEvents : g' \in apply_graph_event(g, ev)
CompleteIteration == \E ev \in LoopEvents : g' \in apply_graph_event(g, ev)
SelectEdges       == \E ev \in RouteEvents : g' \in apply_graph_event(g, ev)
TerminateGraph    == \E ev \in EndEvents : g' \in apply_graph_event(g, ev)

GraphNext ==
    \/ StartAttempt \/ CompleteAttempt \/ ScheduleRetry \/ ResolveJoin
    \/ CompleteIteration \/ SelectEdges \/ TerminateGraph

GraphSpec == GraphInit /\ [][GraphNext]_g

\* The driver appends the control events it derives and reports of finished
\* attempts, as long as any of them is accepted.
FairGraphSpec == GraphSpec /\ WF_g(GraphNext)

------------------------------------------------------------------------------
(* Properties *)

\* validate_worst_case_event_bound: the bound a definition is admitted with covers
\* every history the reducer accepts, retries and loop iterations included.
WithinWorstCase == g.events <= worst_case_events(g.def)

\* A selected edge leads to a node whose last visit was not routed yet: an iteration of a
\* loop overtakes a branch that the previous one forked.
Overruns(ev) ==
    ev.type = "EdgesSelected" /\ \E e \in ev.edges : g.routed[e.to] < g.visits[e.to]

\* The reducer's own validation of the candidate state refuses nothing that the
\* event's handler let through, but for an overrun: no other legal event can get lost
\* on a state check.
ValidationRefusesOverruns ==
    \A ev \in StartEvents \cup CompletionEvents \cup RetryEvents \cup JoinEvents
              \cup LoopEvents \cup RouteEvents \cup EndEvents :
        \A h \in Candidates(g, ev) : validate_state(h) \/ Overruns(ev)

\* A terminated graph is quiet: nothing runs, nothing waits for a retry and every
\* node that was reached was routed to the end.
TerminationIsQuiet ==
    g.terminated # None =>
        /\ \A b \in Branches : ~g.branches[b].running /\ ~g.branches[b].retry
        /\ \A b \in Branches : g.visits[b] > 0 => is_terminal_for_visit(g.branches[b], g.visits[b])
        /\ \A j \in DOMAIN g.joins : Reached(g, j) => g.joins[j] # None

\* follow_up_graph.rs: the graph of a licensed batch ends in success exactly when
\* every item of the batch succeeded.
LicensedOutcomeAgrees ==
    /\ g.terminated # None
    /\ \E B \in Batches : g.def = derive_licensed_follow_up_graph(B)
    => (g.def.kind[g.terminated].outcome = "Success"
            <=> \A b \in Branches : g.branches[b].last.outcome = "Success")

\* derive_next_licensed_graph_control_event: every control event the driver derives
\* for a licensed graph is one the reducer accepts, so the driver never stops on an error.
DriverNeverRefused ==
    (\E B \in Batches : g.def = derive_licensed_follow_up_graph(B)) =>
        \A ev \in NextControlEvents(g) : apply_graph_event(g, ev) # {}

\* No event is lost after its sender acted on it: neither to the second check nor to a
\* driver that derives what the reducer does not take.
ReducerTakesItsOwn == ValidationRefusesOverruns /\ DriverNeverRefused

\* apply_graph_event: no legal history outgrows the admitted bound or is refused midway but
\* for an overrun, and a licensed batch that was admitted can be carried to its end.
AdmittedGraphsFit == WithinWorstCase /\ ReducerTakesItsOwn

\* terminate_graph: a graph ends quietly, and a licensed one with the batch's outcome.
EndsTruthfully == TerminationIsQuiet /\ LicensedOutcomeAgrees

\* start_branch_attempt, complete_loop_iteration: every licensed graph, and a loop over
\* retried tasks, terminates once its attempts are run and reported.
EventuallyTerminated == g.def \notin Stranding => <>(g.terminated # None)
==============================================================================
