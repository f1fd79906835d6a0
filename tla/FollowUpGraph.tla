---------------------------- MODULE FollowUpGraph ----------------------------
(***************************************************************************)
(* The execution graph of a follow-up queue, follow_up_queue/graph.rs: a   *)
(* definition with its validation, and the reducer apply_graph_event.  The *)
(* reducer returns the set of states an event leads to: one state, or none *)
(* when the event is refused.                                              *)
(*                                                                         *)
(* A definition is a record                                                *)
(*   entry  the entry node                                                 *)
(*   kind   what each node is: Task(max), Fork, Choice, Join(branches),    *)
(*          Loop(max) or Terminate(outcome)                                *)
(*   edges  records [from, to, kind, loop, cond]; cond is [on, node, is]   *)
(* A branch is named by its task node.  The derived parts of the runtime   *)
(* state are definitions here: the active frontier (visits not yet routed) *)
(* and the arrivals of a join (its traversed edges).  Of the attempts of a *)
(* branch only the last one is kept; the cursor of an attempt in progress  *)
(* or of a scheduled retry is always the one next_attempt_cursor gives, so *)
(* a flag stands for it.                                                   *)
(***************************************************************************)
EXTENDS Naturals, FiniteSets, FiniteSetsExt

CONSTANTS
    None,                \* no loop, no join result, no termination
    MAX_GRAPH_NODES, MAX_BRANCH_ATTEMPTS, MAX_LOOP_ITERATIONS, MAX_NODE_VISITS, MAX_GRAPH_EVENTS

------------------------------------------------------------------------------
(* Definitions *)

Task(max)          == [type |-> "Task", max |-> max]
Fork               == [type |-> "Fork"]
Choice             == [type |-> "Choice"]
Join(branches)     == [type |-> "Join", branches |-> branches]
Loop(max)          == [type |-> "Loop", max |-> max]
Terminate(outcome) == [type |-> "Terminate", outcome |-> outcome]

Always             == [on |-> "Always", node |-> None, is |-> None]
OutcomeIs(n, o)    == [on |-> "Outcome", node |-> n, is |-> o]
JoinIs(n, r)       == [on |-> "Join", node |-> n, is |-> r]
LoopIs(n, c)       == [on |-> "Loop", node |-> n, is |-> c]

Edge(from, to, kind, loop, cond) ==
    [from |-> from, to |-> to, kind |-> kind, loop |-> loop, cond |-> cond]

FanInResults == {"AllSuccess", "PartialSuccess", "Failure"}
Outcomes     == {"Success", "RetryableFailure", "Failure"}

Nodes(d)       == DOMAIN d.kind
Of(d, type)    == {n \in Nodes(d) : d.kind[n].type = type}
Outgoing(d, n) == {e \in d.edges : e.from = n}
Incoming(d, n) == {e \in d.edges : e.to = n}

\* The body of a loop: the ends of its loop-scoped edges, without the loop itself.
BodyMembers(d, loop) ==
    UNION {{e.from, e.to} : e \in {x \in d.edges : x.loop = loop}} \ {loop}
InLoopBody(d, n) == \E loop \in Of(d, "Loop") : n \in BodyMembers(d, loop)

\* The nodes reached from start along the given edges.
ReachedFrom(d, start, edges) ==
    CHOOSE S \in SUBSET Nodes(d) :
        /\ start \in S
        /\ \A e \in edges : e.from \in S => e.to \in S
        /\ \A T \in SUBSET S :
               start \in T /\ (\A e \in edges : e.from \in T => e.to \in T) => T = S

validate_task_edges(d, n) ==
    \/ \E e \in Outgoing(d, n) : Outgoing(d, n) = {e} /\ e.cond = Always
    \/ /\ Cardinality(Outgoing(d, n)) = 2
       /\ {e.cond : e \in Outgoing(d, n)} = {OutcomeIs(n, "Success"), OutcomeIs(n, "Failure")}

validate_choice_edges(d, n) ==
    \E b \in Of(d, "Task") :
        /\ Cardinality(Outgoing(d, n)) = 2
        /\ {e.cond : e \in Outgoing(d, n)} = {OutcomeIs(b, "Success"), OutcomeIs(b, "Failure")}

\* What each kind of node requires of its edges.
validate_node_edges(d, n) ==
    LET out == Outgoing(d, n) IN
    CASE d.kind[n].type = "Terminate" -> out = {}
      [] d.kind[n].type = "Fork" ->
            /\ Cardinality(out) >= 2
            /\ \A e \in out : e.cond = Always
            /\ Cardinality({e.to : e \in out}) = Cardinality(out)
      [] d.kind[n].type = "Choice" -> validate_choice_edges(d, n)
      [] d.kind[n].type = "Task" -> validate_task_edges(d, n)
      [] d.kind[n].type = "Join" ->
            /\ Cardinality(out) = 3
            /\ {e.cond : e \in out} = {JoinIs(n, r) : r \in FanInResults}
            /\ \A e \in Incoming(d, n) : e.kind = "JoinArrival"
            /\ {e.from : e \in Incoming(d, n)} = d.kind[n].branches
            /\ Cardinality(Incoming(d, n)) = Cardinality(d.kind[n].branches)
      [] d.kind[n].type = "Loop" ->
            \E body, exit \in out :
                /\ out = {body, exit}
                /\ body.cond = LoopIs(n, "Continue") /\ body.kind = "LoopBody" /\ body.loop = n
                /\ exit.cond = LoopIs(n, "Exit") /\ exit.kind = "Forward"

validate_edge(d, e) ==
    /\ e.from # e.to
    /\ e.from \in Nodes(d) /\ e.to \in Nodes(d)
    /\ e.cond.on = "Outcome" => e.cond.node \in Of(d, "Task")
    /\ e.cond.on = "Join" => e.cond.node = e.from /\ e.from \in Of(d, "Join")
    /\ e.cond.on = "Loop" => e.cond.node = e.from /\ e.from \in Of(d, "Loop")
    /\ e.kind = "JoinArrival" =>
           /\ e.from \in Of(d, "Task")
           /\ e.to \in Of(d, "Join") /\ e.from \in d.kind[e.to].branches
           /\ e.cond = Always
    /\ e.kind = "LoopBody" => e.loop \in Of(d, "Loop") /\ e.to # e.loop
    /\ e.kind = "LoopBack" => e.loop \in Of(d, "Loop") /\ e.to = e.loop /\ e.cond = Always
    /\ e.kind \in {"Forward", "JoinArrival"} =>
           e.loop = None /\ ~InLoopBody(d, e.from) /\ ~InLoopBody(d, e.to)

\* Every subset of nodes has one without a successor in it.
validate_acyclic_without_loop_backs(d) ==
    \A S \in SUBSET Nodes(d) \ {{}} :
        \E n \in S : \A e \in Outgoing(d, n) : e.kind # "LoopBack" => e.to \notin S

validate_reachability(d) == ReachedFrom(d, d.entry, d.edges) = Nodes(d)

validate_loop_scopes(d) ==
    \A loop \in Of(d, "Loop") :
        LET body == {e \in d.edges : e.kind = "LoopBody" /\ e.loop = loop}
            reached == ReachedFrom(d, loop, body)
        IN  /\ BodyMembers(d, loop) \subseteq reached
            /\ Cardinality({e \in d.edges : /\ e.kind = "LoopBack" /\ e.loop = loop
                                            /\ e.from \in reached}) = 1
            /\ \A other \in Of(d, "Loop") \ {loop} :
                   BodyMembers(d, loop) \cap BodyMembers(d, other) = {}
            /\ ~InLoopBody(d, loop)

\* Mutant of worst_case_events: the retry marker between two attempts is forgotten.
worst_case_events_TwoPerAttempt(d) ==
    LET Visits(n) == IF InLoopBody(d, n)
                     THEN d.kind[CHOOSE l \in Of(d, "Loop") : n \in BodyMembers(d, l)].max
                     ELSE 1
        Events(n) == CASE d.kind[n].type = "Task" -> Visits(n) * 2 * d.kind[n].max
                       [] d.kind[n].type = "Loop" -> 2 * d.kind[n].max
                       [] d.kind[n].type = "Join" -> 2
                       [] OTHER -> Visits(n)
    IN  1 + MapThenSumSet(Events, Nodes(d))

\* The longest history a definition can produce, one event for its definition.
worst_case_events(d) ==
    LET Visits(n) == IF InLoopBody(d, n)
                     THEN d.kind[CHOOSE l \in Of(d, "Loop") : n \in BodyMembers(d, l)].max
                     ELSE 1
        Events(n) == CASE d.kind[n].type = "Task" -> Visits(n) * 3 * d.kind[n].max
                       [] d.kind[n].type = "Loop" -> 2 * d.kind[n].max
                       [] d.kind[n].type = "Join" -> 2
                       [] OTHER -> Visits(n)
    IN  1 + MapThenSumSet(Events, Nodes(d))

\* DurableGraphDefinition::validate.
validate_definition(d) ==
    /\ Cardinality(Nodes(d)) <= MAX_GRAPH_NODES
    /\ d.entry \in Nodes(d)
    /\ \A n \in Of(d, "Task") : d.kind[n].max \in 1..MAX_BRANCH_ATTEMPTS
    /\ \A n \in Of(d, "Loop") : d.kind[n].max \in 1..MAX_LOOP_ITERATIONS
    /\ \A n \in Of(d, "Join") : /\ Cardinality(d.kind[n].branches) >= 2
                                /\ d.kind[n].branches \subseteq Of(d, "Task")
                                /\ ~InLoopBody(d, n)
    /\ Of(d, "Terminate") # {}
    /\ \A e \in d.edges : validate_edge(d, e)
    /\ \A n \in Nodes(d) : validate_node_edges(d, n)
    /\ \A n \in Nodes(d) :
           Cardinality(Incoming(d, n)) > 1 => d.kind[n].type \in {"Join", "Loop"}
    /\ validate_acyclic_without_loop_backs(d)
    /\ validate_reachability(d)
    /\ validate_loop_scopes(d)
    /\ worst_case_events(d) <= MAX_GRAPH_EVENTS

------------------------------------------------------------------------------
(* Runtime state *)

NoAttempt == [visit |-> 0, attempt |-> 0, outcome |-> None]

initialize_state(d) ==
    [def    |-> d,
     events |-> 1,
     visits |-> [n \in Nodes(d) |-> IF n = d.entry THEN 1 ELSE 0],
     routed |-> [n \in Nodes(d) |-> 0],
     crossed |-> [e \in d.edges |-> 0],
     branches |-> [n \in Of(d, "Task") |->
                      [last |-> NoAttempt, running |-> FALSE, retry |-> FALSE]],
     joins  |-> [n \in Of(d, "Join") |-> None],
     loops  |-> [n \in Of(d, "Loop") |-> [done |-> 0, decision |-> None, routed |-> TRUE]],
     terminated |-> None]

Reached(g, n) == g.visits[n] > 0

\* The frontier: nodes with a visit that was not routed yet.
ActiveNodes(g) == {n \in Nodes(g.def) : g.visits[n] > g.routed[n]}

\* The one visit and attempt that may come next.
next_attempt_cursor(last) ==
    IF last = NoAttempt THEN [visit |-> 1, attempt |-> 1]
    ELSE IF last.outcome = "RetryableFailure"
         THEN [visit |-> last.visit, attempt |-> last.attempt + 1]
         ELSE [visit |-> last.visit + 1, attempt |-> 1]

is_terminal_for_visit(b, visit) ==
    /\ ~b.running /\ ~b.retry
    /\ b.last.visit = visit
    /\ b.last.outcome \in {"Success", "Failure"}

route_class_for_visit(b, visit) ==
    IF ~b.running /\ ~b.retry /\ b.last # NoAttempt /\ b.last.visit = visit
    THEN b.last.outcome ELSE None

join_arrivals_complete(g, j) ==
    \A e \in Incoming(g.def, j) : g.crossed[e] = 1

\* None while a branch is retryable, in progress or not yet routed.
derive_fan_in_result(g, j) ==
    LET required  == g.def.kind[j].branches
        succeeded == {b \in required : g.branches[b].last.outcome = "Success"}
    IN  IF \E b \in required : \/ ~is_terminal_for_visit(g.branches[b], g.visits[b])
                               \/ g.routed[b] # g.visits[b]
        THEN None
        ELSE IF succeeded = required THEN "AllSuccess"
        ELSE IF succeeded = {} THEN "Failure" ELSE "PartialSuccess"

condition_matches(g, c) ==
    CASE c.on = "Always"  -> TRUE
      [] c.on = "Outcome" -> route_class_for_visit(g.branches[c.node], g.visits[c.node]) = c.is
      [] c.on = "Join"    -> g.joins[c.node] = c.is
      [] c.on = "Loop"    -> ~g.loops[c.node].routed /\ g.loops[c.node].decision = c.is

compute_eligible_edges(g, n) == {e \in Outgoing(g.def, n) : condition_matches(g, e.cond)}

\* DurableGraphRuntimeState::validate, run on every candidate state.
validate_state(g) ==
    /\ g.events \in 1..MAX_GRAPH_EVENTS
    /\ \A n \in Nodes(g.def) : g.visits[n] <= MAX_NODE_VISITS /\ g.routed[n] <= g.visits[n]
    /\ \A e \in g.def.edges :
           g.crossed[e] <= (IF e.loop = None THEN 1 ELSE g.def.kind[e.loop].max)
    /\ \A n \in DOMAIN g.branches :
           LET b == g.branches[n] IN
           /\ b.last.attempt <= g.def.kind[n].max
           /\ ~(b.last.outcome = "RetryableFailure" /\ b.last.attempt = g.def.kind[n].max)
           /\ b.retry => b.last.outcome = "RetryableFailure" /\ ~b.running
           /\ g.visits[n] - b.last.visit \in {0, 1}
           /\ g.routed[n] <= b.last.visit
           /\ g.visits[n] <= g.routed[n] + 1
           /\ b.running \/ b.retry =>
                  next_attempt_cursor(b.last).visit = g.visits[n] /\ g.routed[n] < g.visits[n]
    /\ \A j \in DOMAIN g.joins :
           g.joins[j] # None => /\ join_arrivals_complete(g, j)
                                /\ derive_fan_in_result(g, j) = g.joins[j]
    /\ \A l \in DOMAIN g.loops :
           /\ g.loops[l].done <= g.def.kind[l].max
           /\ g.loops[l].decision = "Continue" => g.loops[l].done < g.def.kind[l].max
    /\ g.terminated # None => /\ g.visits[g.terminated] = g.routed[g.terminated]
                              /\ ActiveNodes(g) = {}

------------------------------------------------------------------------------
(* The reducer: one operator per event, with the guard and the effect of the *)
(* handler; the candidate states it lets through are validated by apply.     *)

Accepted(guard, next) == IF guard THEN {next} ELSE {}

\* The visit a task event names is the node's active one.
ActiveTaskVisit(g, n, visit) == g.visits[n] = visit /\ g.routed[n] + 1 = visit

\* Mutant of start_branch_attempt: the last permitted attempt is refused.
start_branch_attempt_OffByOne(g, ev) ==
    LET b == g.branches[ev.branch] IN
    Accepted(/\ [visit |-> ev.visit, attempt |-> ev.attempt] = next_attempt_cursor(b.last)
             /\ ev.attempt < g.def.kind[ev.branch].max
             /\ ~b.running
             /\ b.retry = (ev.attempt > 1)
             /\ ActiveTaskVisit(g, ev.branch, ev.visit),
             [g EXCEPT !.branches[ev.branch].running = TRUE,
                       !.branches[ev.branch].retry = FALSE])

start_branch_attempt(g, ev) ==
    LET b == g.branches[ev.branch] IN
    Accepted(/\ [visit |-> ev.visit, attempt |-> ev.attempt] = next_attempt_cursor(b.last)
             /\ ev.attempt \in 1..g.def.kind[ev.branch].max
             /\ ~b.running
             /\ b.retry = (ev.attempt > 1)
             /\ ActiveTaskVisit(g, ev.branch, ev.visit),
             [g EXCEPT !.branches[ev.branch].running = TRUE,
                       !.branches[ev.branch].retry = FALSE])

complete_branch_attempt(g, ev) ==
    LET b == g.branches[ev.branch] IN
    Accepted(/\ b.running
             /\ [visit |-> ev.visit, attempt |-> ev.attempt] = next_attempt_cursor(b.last)
             /\ ev.outcome = "RetryableFailure" => ev.attempt < g.def.kind[ev.branch].max,
             [g EXCEPT !.branches[ev.branch].running = FALSE,
                       !.branches[ev.branch].last =
                            [visit |-> ev.visit, attempt |-> ev.attempt,
                             outcome |-> ev.outcome]])

schedule_branch_retry(g, ev) ==
    LET b == g.branches[ev.branch] IN
    Accepted(/\ ~b.running /\ ~b.retry
             /\ [visit |-> ev.visit, attempt |-> ev.attempt] = next_attempt_cursor(b.last)
             /\ ev.attempt <= g.def.kind[ev.branch].max
             /\ b.last.outcome = "RetryableFailure"
             /\ ActiveTaskVisit(g, ev.branch, ev.visit),
             [g EXCEPT !.branches[ev.branch].retry = TRUE])

resolve_join(g, ev) ==
    Accepted(/\ g.joins[ev.node] = None
             /\ Reached(g, ev.node)
             /\ join_arrivals_complete(g, ev.node)
             /\ derive_fan_in_result(g, ev.node) # None
             /\ ev.result = derive_fan_in_result(g, ev.node),
             [g EXCEPT !.joins[ev.node] = ev.result])

complete_loop_iteration(g, ev) ==
    LET l == g.loops[ev.node] IN
    Accepted(/\ Reached(g, ev.node)
             /\ l.routed
             /\ ev.iteration = l.done + 1
             /\ ev.iteration <= g.def.kind[ev.node].max
             /\ ev.decision = "Continue" => ev.iteration < g.def.kind[ev.node].max
             /\ g.visits[ev.node] = ev.iteration,
             [g EXCEPT !.loops[ev.node] =
                  [done |-> ev.iteration, decision |-> ev.decision, routed |-> FALSE]])

\* The visit's own work is over: the outcome, the join result or the decision is there.
ensure_source_visit_complete(g, n, visit) ==
    CASE g.def.kind[n].type = "Task"      -> is_terminal_for_visit(g.branches[n], visit)
      [] g.def.kind[n].type = "Join"      -> visit = 1 /\ g.joins[n] # None
      [] g.def.kind[n].type = "Loop"      -> g.loops[n].done = visit /\ ~g.loops[n].routed
      [] g.def.kind[n].type = "Terminate" -> FALSE
      [] OTHER                            -> TRUE

\* An edge is taken once, or once per completed iteration of its loop.
EdgeFree(g, e) ==
    g.crossed[e] < (IF e.loop = None THEN 1 ELSE g.loops[e.loop].done)

\* reach_destination: a forward edge never reaches a node again, joins excepted.
MayReach(g, e) ==
    \/ g.def.kind[e.to].type = "Join"
    \/ e.kind \in {"LoopBody", "LoopBack"}
    \/ g.visits[e.to] = 0
VisitsAfter(g, chosen) ==
    [n \in Nodes(g.def) |->
        IF \E e \in chosen : e.to = n
        THEN IF g.def.kind[n].type = "Join" THEN 1 ELSE g.visits[n] + 1
        ELSE g.visits[n]]

select_edges(g, ev) ==
    LET n == ev.node IN
    Accepted(/\ ev.visit = g.routed[n] + 1 /\ ev.visit <= g.visits[n]
             /\ ensure_source_visit_complete(g, n, ev.visit)
             /\ ev.edges # {}
             /\ ev.edges = compute_eligible_edges(g, n)
             /\ \A e \in ev.edges : EdgeFree(g, e) /\ MayReach(g, e),
             [g EXCEPT !.visits = VisitsAfter(g, ev.edges),
                       !.crossed = [e \in DOMAIN g.crossed |->
                                       IF e \in ev.edges THEN g.crossed[e] + 1 ELSE g.crossed[e]],
                       !.routed[n] = ev.visit,
                       !.loops = [l \in DOMAIN g.loops |->
                                     IF l = n THEN [g.loops[l] EXCEPT !.routed = TRUE]
                                     ELSE g.loops[l]]])

terminate_graph(g, ev) ==
    Accepted(/\ Reached(g, ev.node)
             /\ g.def.kind[ev.node].type = "Terminate"
             /\ g.def.kind[ev.node].outcome = ev.outcome
             /\ ActiveNodes(g) = {ev.node},
             [g EXCEPT !.terminated = ev.node,
                       !.routed[ev.node] = g.visits[ev.node]])

apply_initialized_event(g, ev) ==
    CASE ev.type = "AttemptStarted"   -> start_branch_attempt(g, ev)
      [] ev.type = "AttemptCompleted" -> complete_branch_attempt(g, ev)
      [] ev.type = "RetryScheduled"   -> schedule_branch_retry(g, ev)
      [] ev.type = "JoinResolved"     -> resolve_join(g, ev)
      [] ev.type = "LoopCompleted"    -> complete_loop_iteration(g, ev)
      [] ev.type = "EdgesSelected"    -> select_edges(g, ev)
      [] ev.type = "Terminated"       -> terminate_graph(g, ev)

\* The states the handler lets through, before their validation.
Candidates(g, ev) ==
    IF g.terminated # None \/ g.events >= MAX_GRAPH_EVENTS THEN {}
    ELSE {[h EXCEPT !.events = g.events + 1] : h \in apply_initialized_event(g, ev)}

apply_graph_event(g, ev) == {h \in Candidates(g, ev) : validate_state(h)}

\* The events, as the queue builds them.
AttemptStarted(b, visit, attempt) ==
    [type |-> "AttemptStarted", branch |-> b, visit |-> visit, attempt |-> attempt]
AttemptCompleted(b, visit, attempt, outcome) ==
    [type |-> "AttemptCompleted", branch |-> b, visit |-> visit, attempt |-> attempt,
     outcome |-> outcome]
RetryScheduled(b, visit, attempt) ==
    [type |-> "RetryScheduled", branch |-> b, visit |-> visit, attempt |-> attempt]
JoinResolved(n, result) == [type |-> "JoinResolved", node |-> n, result |-> result]
LoopCompleted(n, iteration, decision) ==
    [type |-> "LoopCompleted", node |-> n, iteration |-> iteration, decision |-> decision]
EdgesSelected(n, visit, edges) ==
    [type |-> "EdgesSelected", node |-> n, visit |-> visit, edges |-> edges]
Terminated(n, outcome) == [type |-> "Terminated", node |-> n, outcome |-> outcome]
==============================================================================
