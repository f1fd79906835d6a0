---------------------------- MODULE LicensedGraph ----------------------------
(***************************************************************************)
(* How supervise/follow_up_graph.rs lowers a committed batch of follow-up  *)
(* items into a graph and drives it: one task per item, attempted once;    *)
(* one item routes to a success or a failure termination, several fork and *)
(* join.  The task node of an item stands for the item.                    *)
(***************************************************************************)
EXTENDS FollowUpGraph

LICENSED_FOLLOW_UP_TASK_MAX_ATTEMPTS == 1

derive_single_item_graph(item) ==
    [entry |-> item,
     kind  |-> [n \in {item, "success", "failure"} |->
                   CASE n = item      -> Task(LICENSED_FOLLOW_UP_TASK_MAX_ATTEMPTS)
                     [] n = "success" -> Terminate("Success")
                     [] n = "failure" -> Terminate("Failure")],
     edges |-> {Edge(item, "success", "Forward", None, OutcomeIs(item, "Success")),
                Edge(item, "failure", "Forward", None, OutcomeIs(item, "Failure"))}]

\* Mutant of derive_multi_item_fan_in_graph: a partial success ends as a success.
derive_multi_item_fan_in_graph_PartialIsSuccess(items) ==
    [entry |-> "fork",
     kind  |-> [n \in items \cup {"fork", "join", "success", "partial", "failure"} |->
                   CASE n \in items   -> Task(LICENSED_FOLLOW_UP_TASK_MAX_ATTEMPTS)
                     [] n = "fork"    -> Fork
                     [] n = "join"    -> Join(items)
                     [] n \in {"success", "partial"} -> Terminate("Success")
                     [] n = "failure" -> Terminate("Failure")],
     edges |-> {Edge("fork", i, "Forward", None, Always) : i \in items}
               \cup {Edge(i, "join", "JoinArrival", None, Always) : i \in items}
               \cup {Edge("join", "success", "Forward", None, JoinIs("join", "AllSuccess")),
                     Edge("join", "partial", "Forward", None, JoinIs("join", "PartialSuccess")),
                     Edge("join", "failure", "Forward", None, JoinIs("join", "Failure"))}]

derive_multi_item_fan_in_graph(items) ==
    [entry |-> "fork",
     kind  |-> [n \in items \cup {"fork", "join", "success", "partial", "failure"} |->
                   CASE n \in items   -> Task(LICENSED_FOLLOW_UP_TASK_MAX_ATTEMPTS)
                     [] n = "fork"    -> Fork
                     [] n = "join"    -> Join(items)
                     [] n = "success" -> Terminate("Success")
                     [] n \in {"partial", "failure"} -> Terminate("Failure")],
     edges |-> {Edge("fork", i, "Forward", None, Always) : i \in items}
               \cup {Edge(i, "join", "JoinArrival", None, Always) : i \in items}
               \cup {Edge("join", "success", "Forward", None, JoinIs("join", "AllSuccess")),
                     Edge("join", "partial", "Forward", None, JoinIs("join", "PartialSuccess")),
                     Edge("join", "failure", "Forward", None, JoinIs("join", "Failure"))}]

derive_licensed_follow_up_graph(items) ==
    IF \E i \in items : items = {i}
    THEN derive_single_item_graph(CHOOSE i \in items : TRUE)
    ELSE derive_multi_item_fan_in_graph(items)

licensed_task_ready_to_route(g, n) ==
    LET b == g.branches[n] IN
    ~b.running /\ ~b.retry /\ b.last # NoAttempt /\ b.last.visit = g.visits[n]

\* A node whose own work is over and whose route can be selected.
ReadyToRoute(g, n) ==
    \/ g.def.kind[n].type \in {"Fork", "Choice"}
    \/ g.def.kind[n].type = "Join" /\ g.joins[n] # None
    \/ g.def.kind[n].type = "Task" /\ licensed_task_ready_to_route(g, n)

\* derive_next_licensed_graph_control_event: termination, then a ready join, then a
\* route.  Among several ready nodes the code takes the first in order; here any.
NextControlEvents(g) ==
    LET active  == ActiveNodes(g)
        ending  == {n \in active : active = {n} /\ g.def.kind[n].type = "Terminate"}
        joining == {n \in active : /\ g.def.kind[n].type = "Join" /\ g.joins[n] = None
                                   /\ join_arrivals_complete(g, n)}
    IN  IF g.terminated # None THEN {}
        ELSE IF ending # {} THEN {Terminated(n, g.def.kind[n].outcome) : n \in ending}
        ELSE IF joining # {} THEN {JoinResolved(n, derive_fan_in_result(g, n)) : n \in joining}
        ELSE {EdgesSelected(n, g.visits[n], compute_eligible_edges(g, n)) :
                 n \in {m \in active : ReadyToRoute(g, m)}}
==============================================================================
