----------------------- MODULE FollowUpCascadeProofs ------------------------
(***************************************************************************)
(* The safety of run_generated_follow_up_cascade for every batch, every    *)
(* bound and every set of faults.                                          *)
(*                                                                         *)
(* CascadeInv has two sides.  Before the journal exists nothing was        *)
(* launched (Fresh).  From then on (Standing) the queue is staging its     *)
(* batch, waits for its graph or is bound to it; the runs agree with it    *)
(* (Fences, Authentic), and the place of the invocation says what it has   *)
(* made sure of (Placed).  Bound carries the argument: the state of the    *)
(* graph is one the reducer leaves behind (GraphOK), every item's phase,   *)
(* lease and branch tell one story (Story), and whatever stands before an  *)
(* item that was ever claimed is acknowledged (InOrder).                   *)
(*                                                                         *)
(* The lemmas go from the bottom up: the order of the items, the licensed  *)
(* graph, the events of the graph and of the lease, the journal's records, *)
(* the invocation, and one lemma for each action.                          *)
(***************************************************************************)
EXTENDS FollowUpCascade, FiniteSetTheorems, WellFoundedInduction, TLAPS

-----------------------------------------------------------------------------
(* The graph of a batch.                                                    *)

\* The parts of validate_state that the cascade relies on.
Validated(g) ==
  /\ \A i \in Items : g.routed[i] <= g.branches[i].last.visit
  /\ \A j \in Of(Licensed, "Join") : g.joins[j] # None => derive_fan_in_result(g, j) = g.joins[j]
  /\ g.terminated # None => ActiveNodes(g) = {}

\* Every task was reached, or the fork has yet to be routed.
AllReached(g) == \A i \in Items : g.visits[i] > 0
ForkWaits(g) ==
  /\ "fork" \in Nodes(Licensed) /\ Licensed.kind["fork"].type = "Fork"
  /\ g.visits["fork"] > g.routed["fork"]
  /\ g.terminated = None

AllSucceeded(g) == \A i \in Items : g.branches[i].last.outcome = "Success"

GraphOK(g) ==
  /\ g \in GraphState
  /\ Validated(g)
  /\ AllReached(g) \/ ForkWaits(g)
  /\ g.visits["success"] > 0 => AllSucceeded(g)
  /\ g.terminated # None => g.visits[g.terminated] > 0 /\ Licensed.kind[g.terminated].type = "Terminate"

-----------------------------------------------------------------------------
(* The queue.                                                               *)

Waiting(b) == ~b.running /\ ~b.retry /\ b.last = NoAttempt
Attempting(b) == b.running /\ ~b.retry /\ b.last = NoAttempt

\* What the phase of an item, the phase of its lease and its branch say together.
Tells(phase, lease, b) ==
  \/ phase = "Enqueued" /\ lease = "Available" /\ Waiting(b)
  \/ phase = "Claimed" /\ lease = "Active" /\ Attempting(b)
  \/ phase \in {"DispatchStarted", "HeldAmbiguous"} /\ lease = "EffectFenced" /\ Attempting(b)
  \/ phase = "AcknowledgedTerminal" /\ lease = "Acknowledged" /\ is_terminal_for_visit(b, 1)

Story(c, i) == Tells(c.phase[i], c.lease[i].phase, c.graph.branches[i])

\* i stands before the first occurrence of j.
Before(i, j) ==
  \E n \in 1..Len(ItemOrder) : ItemOrder[n] = i /\ \A m \in 1..n : ItemOrder[m] # j

Resolves(c, i) == c.phase[i] = "AcknowledgedTerminal"

\* Whatever stands before an item that was ever claimed is acknowledged.
InOrder(c) ==
  \A i, j \in Items : Before(i, j) /\ c.phase[j] # "Enqueued" => Resolves(c, i)

Staging(c) ==
  /\ c \in QueueState /\ ~c.committed /\ c.graph = None
  /\ c.lease = [i \in Items |-> initial]
  /\ \A i \in Items : c.phase[i] = None

Unbound(c) ==
  /\ c \in QueueState /\ c.committed /\ c.graph = None
  /\ c.lease = [i \in Items |-> initial]
  /\ \A i \in Items : c.phase[i] = "Enqueued"

Bound(c) ==
  /\ c \in QueueState /\ c.committed
  /\ GraphOK(c.graph)
  /\ \A i \in Items : Story(c, i)
  /\ InOrder(c)

-----------------------------------------------------------------------------
(* The invocation and the runs.                                             *)

Thens == {"claims", "reconcile", "admit", "select", "report"}
Effecting == {"heartbeat", "launch", "running", "settle"}
Dispatching == {"ready", "claim", "recheck"} \cup Effecting
Pcs == {"idle", "enqueue", "graph", "advance", "prepare"} \cup Thens \cup Dispatching

Invocation ==
  [pc : Pcs, then : Thens \cup {None}, todo : SUBSET Items, item : Items \cup {None},
   owned : SUBSET Items, obs : Nat, success : BOOLEAN, ok : BOOLEAN, beats : Nat,
   outcome : {None, "Error", "Failure", "Success"}]

Run == [status : {"absent", "active", "interrupted", "resumable", "finalized"},
        report : Reports \cup {None}, planned : BOOLEAN, launched : BOOLEAN]

Types == run \in [Items -> Run] /\ now \in Nat /\ p \in Invocation

Fenced == {"DispatchStarted", "HeldAmbiguous", "AcknowledgedTerminal"}

Fences(c, r) == \A i \in Items : r[i].launched => c.phase[i] \in Fenced

\* The verdict in the graph is the one of the finalized run of the queued plan.
Authentic(c, r) ==
  \A i \in Items : c.phase[i] = "AcknowledgedTerminal" =>
    /\ r[i].status = "finalized" /\ r[i].planned
    /\ c.graph.branches[i].last.outcome = branch_outcome(r[i].report)

\* What the place of the invocation says of the queue and the runs.
Placed(c, r, v) ==
  /\ v.pc = "graph" => c.committed
  /\ v.pc \notin {"idle", "enqueue", "graph"} => Bound(c)
  /\ v.pc \notin {"idle", "enqueue", "graph", "advance"} => AllReached(c.graph)
  /\ v.pc = "advance" => v.then \in Thens
  /\ "select" \in {v.pc} \cup (IF v.pc = "advance" THEN {v.then} ELSE {}) =>
       \A i \in Items \ v.todo : Resolves(c, i)
  /\ v.pc \in Dispatching =>
       /\ v.item \in Items
       /\ \A i \in Items \ (v.todo \cup {v.item}) : Resolves(c, i)
       /\ \A i \in Items : Before(i, v.item) => Resolves(c, i)
  /\ v.pc \in Effecting => c.phase[v.item] = "DispatchStarted"
  /\ v.pc = "settle" /\ v.ok => r[v.item].status = "finalized"
  /\ v.pc # "idle" => v.outcome # "Success"

Fresh == q = None /\ p.pc = "idle" /\ \A i \in Items : ~run[i].launched

Standing ==
  /\ Staging(q) \/ Unbound(q) \/ Bound(q)
  /\ Fences(q, run)
  /\ Authentic(q, run)
  /\ Placed(q, run, p)

CascadeInv == Types /\ SuccessIsEarned /\ (Fresh \/ Standing)

-----------------------------------------------------------------------------
(* The order of the items.                                                  *)

\* A set of positive numbers has a least one.
LEMMA LeastIndex ==
  ASSUME NEW S \in SUBSET Nat, S # {}
  PROVE  \E x \in S : \A y \in S : x <= y
<1>1. PICK x \in S : \A y \in S : ~(<<y, x>> \in OpToRel(<, Nat))
  BY NatLessThanWellFounded, WFMin
<1>2. ASSUME NEW y \in S PROVE x <= y
  <2>1. <<y, x>> \in Nat \X Nat /\ <<y, x>>[1] = y /\ <<y, x>>[2] = x
    OBVIOUS
  <2>2. ~(y < x)
    BY <1>1, <2>1 DEF OpToRel
  <2> QED
    BY <2>1, <2>2
<1> QED
  BY <1>2

\* First takes a member of the set, and none of those before it is in the set.
LEMMA FirstIsFirst ==
  ASSUME NEW S \in SUBSET Items, S # {}
  PROVE  First(S) \in S /\ \A i \in Items : Before(i, First(S)) => i \notin S
<1> DEFINE N == {n \in 1..Len(ItemOrder) : ItemOrder[n] \in S}
           P(n) == ItemOrder[n] \in S /\ \A m \in 1..(n - 1) : ItemOrder[m] \notin S
<1>0. Len(ItemOrder) \in Nat
  BY CascadeAssumption
<1>1. N \in SUBSET Nat /\ N # {}
  BY <1>0 DEF Items
<1>2. PICK n \in N : \A m \in N : n <= m
  BY <1>1, LeastIndex
<1>3. n \in 1..Len(ItemOrder) /\ P(n)
  BY <1>0, <1>2
<1> DEFINE k == CHOOSE m \in 1..Len(ItemOrder) : P(m)
<1>4. k \in 1..Len(ItemOrder) /\ P(k)
  BY <1>3
<1>5. First(S) = ItemOrder[k]
  BY DEF First
<1> HIDE DEF k
<1>6. ASSUME NEW i \in Items, Before(i, First(S)), i \in S PROVE FALSE
  <2>1. PICK m \in 1..Len(ItemOrder) : ItemOrder[m] = i /\ \A l \in 1..m : ItemOrder[l] # ItemOrder[k]
    BY <1>5, <1>6 DEF Before
  <2>2. m \in 1..(k - 1)
    BY <1>0, <1>4, <2>1
  <2> QED
    BY <1>4, <1>6, <2>1, <2>2
<1> QED
  BY <1>4, <1>5, <1>6

\* Of two items one stands before the other.
LEMMA BeforeTotal ==
  ASSUME NEW i \in Items, NEW j \in Items, i # j
  PROVE  Before(i, j) \/ Before(j, i)
<1>0. Len(ItemOrder) \in Nat
  BY CascadeAssumption
<1> DEFINE N == {n \in 1..Len(ItemOrder) : ItemOrder[n] \in {i, j}}
<1>1. N \in SUBSET Nat /\ N # {}
  BY <1>0 DEF Items
<1>2. PICK n \in N : \A m \in N : n <= m
  BY <1>1, LeastIndex
<1>3. n \in 1..Len(ItemOrder) /\ n \in Nat
  BY <1>0, <1>2
<1>4. \A m \in 1..n : m # n => ItemOrder[m] \notin {i, j}
  BY <1>0, <1>2, <1>3
<1> QED
  BY <1>2, <1>3, <1>4 DEF Before

\* No item stands before itself.
LEMMA BeforeIrreflexive ==
  ASSUME NEW i \in Items
  PROVE  ~Before(i, i)
BY CascadeAssumption DEF Before

-----------------------------------------------------------------------------
(* The licensed graph.                                                      *)

\* What the graph of a batch looks like.
LEMMA LicensedFacts ==
  /\ Of(Licensed, "Task") = Items /\ Items \subseteq Nodes(Licensed)
  /\ Of(Licensed, "Loop") = {}
  /\ "success" \in Nodes(Licensed)
  /\ Licensed.entry \in Nodes(Licensed) /\ Licensed.entry # "success"
  /\ \A n \in Nodes(Licensed) :
       /\ Licensed.kind[n].type = "Join" => Licensed.kind[n].branches = Items
       /\ Licensed.kind[n].type = "Terminate" /\ Licensed.kind[n].outcome = "Success" => n = "success"
  /\ \/ Items = {Licensed.entry} /\ "fork" \notin Nodes(Licensed)
     \/ /\ Licensed.entry = "fork" /\ Licensed.kind["fork"].type = "Fork"
        /\ \A i \in Items : \E e \in Outgoing(Licensed, "fork") : e.to = i /\ e.cond = Always
  /\ \A e \in Licensed.edges : e.to = "success" =>
       \/ e.cond = JoinIs("join", "AllSuccess") /\ "join" \in Of(Licensed, "Join")
       \/ \E i \in Items : Items = {i} /\ e.cond = OutcomeIs(i, "Success")
<1>0. Items \cap {"fork", "join", "success", "partial", "failure"} = {}
  BY CascadeAssumption
<1>1. CASE \E i \in Items : Items = {i}
  <2>1. PICK i \in Items : Items = {i}
    BY <1>1
  <2>2. Licensed = derive_single_item_graph(i)
    <3>1. i = CHOOSE x \in Items : TRUE
      BY <2>1
    <3> QED
      BY <2>1, <3>1 DEF Licensed, derive_licensed_follow_up_graph
  <2>3. /\ Nodes(Licensed) = {i, "success", "failure"}
        /\ Licensed.entry = i
        /\ Licensed.kind[i] = Task(1)
        /\ Licensed.kind["success"] = Terminate("Success")
        /\ Licensed.kind["failure"] = Terminate("Failure")
    BY <1>0, <2>1, <2>2 DEF Nodes, derive_single_item_graph, LICENSED_FOLLOW_UP_TASK_MAX_ATTEMPTS
  <2>4. Licensed.edges = {Edge(i, "success", "Forward", None, OutcomeIs(i, "Success")),
                          Edge(i, "failure", "Forward", None, OutcomeIs(i, "Failure"))}
    BY <2>2 DEF derive_single_item_graph
  <2>5. \A e \in Licensed.edges : e.to = "success" => e.cond = OutcomeIs(i, "Success")
    BY <2>4 DEF Edge
  <2>6. i \notin {"fork", "join", "success", "partial", "failure"}
    BY <1>0
  <2>7. Items = {Licensed.entry} /\ "fork" \notin Nodes(Licensed) /\ Licensed.entry # "success"
    BY <2>1, <2>3, <2>6
  <2>8. Of(Licensed, "Task") = Items /\ Of(Licensed, "Loop") = {}
    BY <2>1, <2>3, <2>6 DEF Of, Task, Terminate
  <2>9. \A n \in Nodes(Licensed) :
          /\ Licensed.kind[n].type = "Join" => Licensed.kind[n].branches = Items
          /\ Licensed.kind[n].type = "Terminate" /\ Licensed.kind[n].outcome = "Success" => n = "success"
    BY <2>3, <2>6 DEF Task, Terminate
  <2> QED
    BY <2>1, <2>3, <2>5, <2>7, <2>8, <2>9
<1>2. CASE ~\E i \in Items : Items = {i}
  <2>1. Licensed = derive_multi_item_fan_in_graph(Items)
    BY <1>2 DEF Licensed, derive_licensed_follow_up_graph
  <2>2. /\ Nodes(Licensed) = Items \cup {"fork", "join", "success", "partial", "failure"}
        /\ Licensed.entry = "fork"
        /\ \A i \in Items : Licensed.kind[i] = Task(1)
        /\ Licensed.kind["fork"] = Fork
        /\ Licensed.kind["join"] = Join(Items)
        /\ Licensed.kind["success"] = Terminate("Success")
        /\ Licensed.kind["partial"] = Terminate("Failure")
        /\ Licensed.kind["failure"] = Terminate("Failure")
    BY <1>0, <2>1 DEF Nodes, derive_multi_item_fan_in_graph, LICENSED_FOLLOW_UP_TASK_MAX_ATTEMPTS
  <2>3. Licensed.edges =
            {Edge("fork", i, "Forward", None, Always) : i \in Items}
               \cup {Edge(i, "join", "JoinArrival", None, Always) : i \in Items}
               \cup {Edge("join", "success", "Forward", None, JoinIs("join", "AllSuccess")),
                     Edge("join", "partial", "Forward", None, JoinIs("join", "PartialSuccess")),
                     Edge("join", "failure", "Forward", None, JoinIs("join", "Failure"))}
    BY <2>1 DEF derive_multi_item_fan_in_graph
  <2>4. \A e \in Licensed.edges : e.to = "success" => e.cond = JoinIs("join", "AllSuccess")
    BY <1>0, <2>3 DEF Edge
  <2>5. ASSUME NEW i \in Items
        PROVE  \E e \in Outgoing(Licensed, "fork") : e.to = i /\ e.cond = Always
    <3>1. Edge("fork", i, "Forward", None, Always) \in Licensed.edges
      BY <2>3
    <3> QED
      BY <3>1 DEF Edge, Outgoing
  <2>6. "join" \in Of(Licensed, "Join") /\ Of(Licensed, "Task") = Items /\ Of(Licensed, "Loop") = {}
    BY <1>0, <2>2 DEF Of, Task, Fork, Join, Terminate
  <2>7. \A n \in Nodes(Licensed) :
          /\ Licensed.kind[n].type = "Join" => Licensed.kind[n].branches = Items
          /\ Licensed.kind[n].type = "Terminate" /\ Licensed.kind[n].outcome = "Success" => n = "success"
    BY <1>0, <2>2 DEF Task, Fork, Join, Terminate
  <2> QED
    BY <1>0, <2>2, <2>4, <2>5, <2>6, <2>7 DEF Fork
<1> QED
  BY <1>1, <1>2

-----------------------------------------------------------------------------
(* The graph's events.                                                      *)

\* None is none of the strings that stand for outcomes and phases.
LEMMA NoneIsNoString ==
  /\ None \notin Outcomes /\ None \notin FanInResults
  /\ None \notin {"Enqueued", "Claimed", "DispatchStarted", "HeldAmbiguous", "AcknowledgedTerminal"}
  /\ None # "Success" /\ None # "Failure"
BY CascadeAssumption DEF Outcomes, FanInResults

\* A record of the right fields is a state of the graph.
LEMMA GraphRecord ==
  ASSUME NEW g, g.def = Licensed, g.events \in Nat,
         g.visits \in [Nodes(Licensed) -> Nat], g.routed \in [Nodes(Licensed) -> Nat],
         g.crossed \in [Licensed.edges -> Nat], g.branches \in [Items -> Branch],
         g.joins \in [Of(Licensed, "Join") -> FanInResults \cup {None}],
         g.loops \in [{} -> {}], g.terminated \in Nodes(Licensed) \cup {None},
         g = [def |-> g.def, events |-> g.events, visits |-> g.visits, routed |-> g.routed,
              crossed |-> g.crossed, branches |-> g.branches, joins |-> g.joins,
              loops |-> g.loops, terminated |-> g.terminated]
  PROVE  g \in GraphState
BY DEF GraphState

\* A batch starts with every branch unattempted.
LEMMA GraphStarts ==
  LET g == initialize_state(Licensed) IN
  GraphOK(g) /\ \A i \in Items : Waiting(g.branches[i])
<1> DEFINE g == initialize_state(Licensed)
           b == [last |-> NoAttempt, running |-> FALSE, retry |-> FALSE]
<1>1. /\ g.def = Licensed /\ g.events = 1 /\ g.terminated = None
      /\ g.visits = [n \in Nodes(Licensed) |-> IF n = Licensed.entry THEN 1 ELSE 0]
      /\ g.routed = [n \in Nodes(Licensed) |-> 0]
      /\ g.crossed = [e \in Licensed.edges |-> 0]
      /\ g.branches = [i \in Items |-> b]
      /\ g.joins = [n \in Of(Licensed, "Join") |-> None]
      /\ g.loops = [n \in Of(Licensed, "Loop") |-> [done |-> 0, decision |-> None, routed |-> TRUE]]
  BY LicensedFacts DEF initialize_state
<1>2. g.loops \in [{} -> {}]
  BY <1>1, LicensedFacts
<1>3. b \in Branch /\ Waiting(b)
  BY DEF Branch, Attempt, NoAttempt, Waiting
<1>4. g = [def |-> g.def, events |-> g.events, visits |-> g.visits, routed |-> g.routed,
           crossed |-> g.crossed, branches |-> g.branches, joins |-> g.joins,
           loops |-> g.loops, terminated |-> g.terminated]
  BY DEF initialize_state
<1> HIDE DEF g, b
<1>5. g.visits \in [Nodes(Licensed) -> Nat] /\ g.routed \in [Nodes(Licensed) -> Nat]
  BY <1>1
<1>6. g.crossed \in [Licensed.edges -> Nat] /\ g.branches \in [Items -> Branch]
  BY <1>1, <1>3
<1>7. g.joins \in [Of(Licensed, "Join") -> FanInResults \cup {None}]
  BY <1>1
<1>8. g \in GraphState
  <2>1. g.def = Licensed /\ g.events \in Nat /\ g.terminated \in Nodes(Licensed) \cup {None}
    BY <1>1
  <2> QED
    BY <1>2, <1>4, <1>5, <1>6, <1>7, <2>1, GraphRecord
<1>9. Validated(g)
  BY <1>1, <1>3, LicensedFacts DEF Validated, Waiting, NoAttempt
<1>10. AllReached(g) \/ ForkWaits(g)
  BY <1>1, LicensedFacts DEF AllReached, ForkWaits
<1>11. g.visits["success"] = 0
  BY <1>1, LicensedFacts
<1>12. \A i \in Items : Waiting(g.branches[i])
  BY <1>1, <1>3
<1> QED
  BY <1>1, <1>8, <1>9, <1>10, <1>11, <1>12 DEF GraphOK, g

\* An accepted event is counted, its state is valid and the graph was not over.
LEMMA AppliedEvent ==
  ASSUME NEW g, NEW ev, NEW h \in apply_graph_event(g, ev)
  PROVE  /\ g.terminated = None
         /\ validate_state(h)
         /\ \E m \in apply_initialized_event(g, ev) : h = [m EXCEPT !.events = g.events + 1]
BY DEF apply_graph_event, Candidates

\* What the validation of a state gives.
LEMMA ValidStates ==
  ASSUME NEW g \in GraphState, validate_state(g)
  PROVE  Validated(g)
<1>1. DOMAIN g.branches = Items /\ DOMAIN g.joins = Of(Licensed, "Join")
  BY DEF GraphState
<1> QED
  BY <1>1 DEF validate_state, Validated

\* Counting an event.
LEMMA EventCounted ==
  ASSUME NEW m \in GraphState, NEW e \in Nat, NEW h, h = [m EXCEPT !.events = e + 1]
  PROVE  /\ h \in GraphState
         /\ h.visits = m.visits /\ h.routed = m.routed /\ h.branches = m.branches
         /\ h.joins = m.joins /\ h.terminated = m.terminated
<1>1. e + 1 \in Nat
  OBVIOUS
<1> QED
  BY <1>1 DEF GraphState

\* Changing the branches.
LEMMA Rebranched ==
  ASSUME NEW g \in GraphState, NEW B \in [Items -> Branch], NEW m, m = [g EXCEPT !.branches = B]
  PROVE  /\ m \in GraphState
         /\ m.visits = g.visits /\ m.routed = g.routed /\ m.branches = B
         /\ m.joins = g.joins /\ m.terminated = g.terminated
BY DEF GraphState

\* A branch that starts to run.
LEMMA BranchRuns ==
  ASSUME NEW f \in [Items -> Branch], NEW i \in Items, Waiting(f[i]),
         NEW h, h = [f EXCEPT ![i].running = TRUE, ![i].retry = FALSE]
  PROVE  h \in [Items -> Branch] /\ (\A j \in Items \ {i} : h[j] = f[j]) /\ Attempting(h[i])
<1>1. f[i] \in Branch
  OBVIOUS
<1> DEFINE c == [[f[i] EXCEPT !.running = TRUE] EXCEPT !.retry = FALSE]
<1>2. h = [f EXCEPT ![i] = c]
  OBVIOUS
<1>3. c.last = f[i].last /\ c.running /\ ~c.retry /\ c \in Branch
  BY <1>1 DEF Branch
<1> HIDE DEF c
<1> QED
  BY <1>2, <1>3 DEF Waiting, Attempting

EndedWith(b, outcome) ==
  ~b.running /\ ~b.retry /\ b.last = [visit |-> 1, attempt |-> 1, outcome |-> outcome]

\* A branch whose attempt ends.
LEMMA BranchEnds ==
  ASSUME NEW f \in [Items -> Branch], NEW i \in Items, Attempting(f[i]),
         NEW outcome \in Outcomes, NEW h,
         h = [f EXCEPT ![i].running = FALSE,
                       ![i].last = [visit |-> 1, attempt |-> 1, outcome |-> outcome]]
  PROVE  h \in [Items -> Branch] /\ (\A j \in Items \ {i} : h[j] = f[j]) /\ EndedWith(h[i], outcome)
<1> DEFINE y == [visit |-> 1, attempt |-> 1, outcome |-> outcome]
           c == [[f[i] EXCEPT !.running = FALSE] EXCEPT !.last = y]
<1>1. f[i] \in Branch /\ y \in Attempt
  BY DEF Attempt
<1>2. h = [f EXCEPT ![i] = c]
  OBVIOUS
<1> HIDE DEF y
<1>3. c.last = y /\ ~c.running /\ (~f[i].retry => ~c.retry) /\ c \in Branch
  BY <1>1 DEF Branch
<1> HIDE DEF c
<1>4. h[i] = c /\ h \in [Items -> Branch] /\ \A j \in Items \ {i} : h[j] = f[j]
  BY <1>2, <1>3
<1> QED
  BY <1>3, <1>4 DEF Attempting, EndedWith, y

\* An attempt starts: the branch runs and nothing else changes.
LEMMA AttemptStarts ==
  ASSUME NEW g, GraphOK(g), NEW i \in Items, Waiting(g.branches[i]),
         NEW visit, NEW attempt,
         NEW h \in apply_graph_event(g, AttemptStarted(i, visit, attempt))
  PROVE  /\ GraphOK(h) /\ h.visits = g.visits
         /\ (\A j \in Items \ {i} : h.branches[j] = g.branches[j]) /\ Attempting(h.branches[i])
<1> DEFINE ev == AttemptStarted(i, visit, attempt)
           B == [g.branches EXCEPT ![i].running = TRUE, ![i].retry = FALSE]
<1>0. g \in GraphState /\ g.branches \in [Items -> Branch] /\ g.events \in Nat
  BY DEF GraphOK, GraphState
<1>1. g.terminated = None /\ validate_state(h)
  BY AppliedEvent
<1>2. PICK m \in apply_initialized_event(g, ev) : h = [m EXCEPT !.events = g.events + 1]
  BY AppliedEvent
<1>3. apply_initialized_event(g, ev) = start_branch_attempt(g, ev) /\ ev.branch = i
  BY DEF apply_initialized_event, AttemptStarted
<1> HIDE DEF ev
<1>4. m = [g EXCEPT !.branches[i].running = TRUE, !.branches[i].retry = FALSE]
  BY <1>2, <1>3 DEF start_branch_attempt, Accepted
<1>5. m = [g EXCEPT !.branches = B]
  BY <1>0, <1>4
<1>6. /\ B \in [Items -> Branch] /\ (\A j \in Items \ {i} : B[j] = g.branches[j]) /\ Attempting(B[i])
  BY <1>0, BranchRuns
<1> HIDE DEF B
<1>7. /\ m \in GraphState
      /\ m.visits = g.visits /\ m.routed = g.routed /\ m.branches = B
      /\ m.joins = g.joins /\ m.terminated = g.terminated
  BY <1>0, <1>5, <1>6, Rebranched
<1>8. /\ h \in GraphState
      /\ h.visits = g.visits /\ h.routed = g.routed /\ h.branches = B
      /\ h.joins = g.joins /\ h.terminated = g.terminated
  BY <1>0, <1>2, <1>7, EventCounted
<1>9. ~AllSucceeded(g)
  BY NoneIsNoString DEF AllSucceeded, Waiting, NoAttempt
<1>10. GraphOK(h)
  BY <1>1, <1>8, <1>9, ValidStates DEF GraphOK, AllReached, ForkWaits
<1> QED
  BY <1>6, <1>8, <1>10

\* An attempt ends: the branch keeps the outcome and nothing else changes.
LEMMA AttemptEnds ==
  ASSUME NEW g, GraphOK(g), NEW i \in Items, Attempting(g.branches[i]),
         NEW outcome \in {"Success", "Failure"}, NEW visit, NEW attempt,
         NEW h \in apply_graph_event(g, AttemptCompleted(i, visit, attempt, outcome))
  PROVE  /\ GraphOK(h) /\ h.visits = g.visits
         /\ \A j \in Items \ {i} : h.branches[j] = g.branches[j]
         /\ EndedWith(h.branches[i], outcome)
<1> DEFINE ev == AttemptCompleted(i, visit, attempt, outcome)
           last == [visit |-> 1, attempt |-> 1, outcome |-> outcome]
           B == [g.branches EXCEPT ![i].running = FALSE, ![i].last = last]
<1>0. g \in GraphState /\ g.branches \in [Items -> Branch] /\ g.events \in Nat
  BY DEF GraphOK, GraphState
<1>1. g.terminated = None /\ validate_state(h)
  BY AppliedEvent
<1>2. PICK m \in apply_initialized_event(g, ev) : h = [m EXCEPT !.events = g.events + 1]
  BY AppliedEvent
<1>3. /\ apply_initialized_event(g, ev) = complete_branch_attempt(g, ev)
      /\ ev.branch = i /\ ev.visit = visit /\ ev.attempt = attempt /\ ev.outcome = outcome
  BY DEF apply_initialized_event, AttemptCompleted
<1> HIDE DEF ev
<1>4. /\ m = [g EXCEPT !.branches[i].running = FALSE,
                       !.branches[i].last = [visit |-> visit, attempt |-> attempt, outcome |-> outcome]]
      /\ [visit |-> visit, attempt |-> attempt] = next_attempt_cursor(NoAttempt)
  BY <1>2, <1>3 DEF complete_branch_attempt, Accepted, Attempting
<1>5. visit = 1 /\ attempt = 1
  BY <1>4 DEF next_attempt_cursor
<1>6. m = [g EXCEPT !.branches = B]
  BY <1>0, <1>4, <1>5
<1>7. B \in [Items -> Branch] /\ (\A j \in Items \ {i} : B[j] = g.branches[j]) /\ EndedWith(B[i], outcome)
  <2>1. outcome \in Outcomes
    BY DEF Outcomes
  <2> QED
    BY <1>0, <2>1, BranchEnds
<1> HIDE DEF B
<1>8. /\ m \in GraphState
      /\ m.visits = g.visits /\ m.routed = g.routed /\ m.branches = B
      /\ m.joins = g.joins /\ m.terminated = g.terminated
  BY <1>0, <1>6, <1>7, Rebranched
<1>9. /\ h \in GraphState
      /\ h.visits = g.visits /\ h.routed = g.routed /\ h.branches = B
      /\ h.joins = g.joins /\ h.terminated = g.terminated
  BY <1>0, <1>2, <1>8, EventCounted
<1>10. ~AllSucceeded(g)
  BY NoneIsNoString DEF AllSucceeded, Attempting, NoAttempt
<1>11. GraphOK(h)
  BY <1>1, <1>9, <1>10, ValidStates DEF GraphOK, AllReached, ForkWaits
<1> QED
  BY <1>7, <1>9, <1>11

\* The events the cascade appends on its own.
LEMMA ControlEvents ==
  ASSUME NEW g \in GraphState, NEW ev \in NextControlEvents(g)
  PROVE  \E n \in ActiveNodes(g) :
           \/ \E outcome : ev = Terminated(n, outcome)
           \/ n \in Of(Licensed, "Join") /\ \E result : ev = JoinResolved(n, result)
           \/ ev = EdgesSelected(n, g.visits[n], compute_eligible_edges(g, n))
<1>1. g.def = Licensed /\ ActiveNodes(g) \subseteq Nodes(Licensed)
  BY DEF GraphState, ActiveNodes
<1> QED
  BY <1>1 DEF NextControlEvents, Of

\* What a join may be resolved to.
LEMMA FanInTyped ==
  ASSUME NEW g, NEW j
  PROVE  derive_fan_in_result(g, j) \in FanInResults \cup {None}
BY DEF derive_fan_in_result, FanInResults

\* A join with the result AllSuccess has successful branches.
LEMMA FanInEarned ==
  ASSUME NEW g \in GraphState, NEW j \in Of(Licensed, "Join"),
         derive_fan_in_result(g, j) = "AllSuccess"
  PROVE  AllSucceeded(g)
<1>1. g.def = Licensed /\ Licensed.kind[j].branches = Items
  BY LicensedFacts DEF GraphState, Of
<1>2. {b \in Items : g.branches[b].last.outcome = "Success"} = Items
  BY <1>1, NoneIsNoString DEF derive_fan_in_result, FanInResults
<1> QED
  BY <1>2 DEF AllSucceeded

\* The graph terminates: every task was reached, and the fork was routed.
LEMMA TerminationKeeps ==
  ASSUME NEW g, GraphOK(g), NEW n \in ActiveNodes(g), NEW outcome,
         NEW h \in apply_graph_event(g, Terminated(n, outcome))
  PROVE  GraphOK(h) /\ h.branches = g.branches /\ h.visits = g.visits
<1> DEFINE ev == Terminated(n, outcome)
           R == [g.routed EXCEPT ![n] = g.visits[n]]
<1>0. /\ g \in GraphState /\ g.events \in Nat /\ g.def = Licensed
      /\ g.visits \in [Nodes(Licensed) -> Nat] /\ g.routed \in [Nodes(Licensed) -> Nat]
      /\ n \in Nodes(Licensed)
  BY DEF GraphOK, GraphState, ActiveNodes
<1>1. g.terminated = None /\ validate_state(h)
  BY AppliedEvent
<1>2. PICK m \in apply_initialized_event(g, ev) : h = [m EXCEPT !.events = g.events + 1]
  BY AppliedEvent
<1>3. apply_initialized_event(g, ev) = terminate_graph(g, ev) /\ ev.node = n
  BY DEF apply_initialized_event, Terminated
<1> HIDE DEF ev
<1>4. /\ m = [g EXCEPT !.terminated = n, !.routed = R]
      /\ g.visits[n] > 0 /\ Licensed.kind[n].type = "Terminate" /\ ActiveNodes(g) = {n}
  BY <1>0, <1>2, <1>3 DEF terminate_graph, Accepted, Reached
<1>5. R \in [Nodes(Licensed) -> Nat]
  BY <1>0
<1> HIDE DEF R
<1>6. /\ m \in GraphState
      /\ m.visits = g.visits /\ m.branches = g.branches /\ m.terminated = n
  BY <1>0, <1>4, <1>5 DEF GraphState
<1>7. h \in GraphState /\ h.visits = g.visits /\ h.branches = g.branches /\ h.terminated = n
  BY <1>0, <1>2, <1>6, EventCounted
<1>8. AllReached(g)
  <2>1. SUFFICES ASSUME ForkWaits(g) PROVE FALSE
    BY DEF GraphOK
  <2>2. "fork" \in ActiveNodes(g)
    BY <1>0, <2>1 DEF ForkWaits, ActiveNodes
  <2> QED
    BY <1>4, <2>1, <2>2 DEF ForkWaits
<1>9. Validated(h)
  BY <1>1, <1>7, ValidStates
<1> QED
  BY <1>4, <1>7, <1>8, <1>9 DEF GraphOK, AllReached, AllSucceeded

\* A join is resolved.
LEMMA JoinKeeps ==
  ASSUME NEW g, GraphOK(g), NEW n \in Of(Licensed, "Join"), NEW result,
         NEW h \in apply_graph_event(g, JoinResolved(n, result))
  PROVE  GraphOK(h) /\ h.branches = g.branches /\ h.visits = g.visits
<1> DEFINE ev == JoinResolved(n, result)
           J == [g.joins EXCEPT ![n] = result]
<1>0. /\ g \in GraphState /\ g.events \in Nat
      /\ g.joins \in [Of(Licensed, "Join") -> FanInResults \cup {None}]
  BY DEF GraphOK, GraphState
<1>1. g.terminated = None /\ validate_state(h)
  BY AppliedEvent
<1>2. PICK m \in apply_initialized_event(g, ev) : h = [m EXCEPT !.events = g.events + 1]
  BY AppliedEvent
<1>3. apply_initialized_event(g, ev) = resolve_join(g, ev) /\ ev.node = n /\ ev.result = result
  BY DEF apply_initialized_event, JoinResolved
<1> HIDE DEF ev
<1>4. m = [g EXCEPT !.joins = J] /\ result = derive_fan_in_result(g, n)
  BY <1>0, <1>2, <1>3 DEF resolve_join, Accepted
<1>5. J \in [Of(Licensed, "Join") -> FanInResults \cup {None}]
  BY <1>0, <1>4, FanInTyped
<1> HIDE DEF J
<1>6. /\ m \in GraphState
      /\ m.visits = g.visits /\ m.routed = g.routed /\ m.branches = g.branches
      /\ m.terminated = g.terminated
  BY <1>0, <1>4, <1>5 DEF GraphState
<1>7. /\ h \in GraphState
      /\ h.visits = g.visits /\ h.routed = g.routed /\ h.branches = g.branches
      /\ h.terminated = g.terminated
  BY <1>0, <1>2, <1>6, EventCounted
<1>8. Validated(h)
  BY <1>1, <1>7, ValidStates
<1> QED
  BY <1>7, <1>8 DEF GraphOK, AllReached, ForkWaits, AllSucceeded

\* An edge into the success node is taken only when everything succeeded.
LEMMA SuccessEdgeEarned ==
  ASSUME NEW g, GraphOK(g), NEW e \in Licensed.edges, e.to = "success",
         condition_matches(g, e.cond)
  PROVE  AllSucceeded(g)
<1>0. g \in GraphState
  BY DEF GraphOK
<1>1. CASE e.cond = JoinIs("join", "AllSuccess") /\ "join" \in Of(Licensed, "Join")
  <2>1. g.joins["join"] = "AllSuccess"
    BY <1>1 DEF condition_matches, JoinIs
  <2>2. derive_fan_in_result(g, "join") = "AllSuccess"
    BY <1>1, <2>1, NoneIsNoString DEF GraphOK, Validated, FanInResults
  <2> QED
    BY <1>0, <1>1, <2>2, FanInEarned
<1>2. CASE \E i \in Items : Items = {i} /\ e.cond = OutcomeIs(i, "Success")
  <2>1. PICK i \in Items : Items = {i} /\ e.cond = OutcomeIs(i, "Success")
    BY <1>2
  <2>2. route_class_for_visit(g.branches[i], g.visits[i]) = "Success"
    BY <2>1 DEF condition_matches, OutcomeIs
  <2>3. g.branches[i].last.outcome = "Success"
    BY <2>2, NoneIsNoString DEF route_class_for_visit
  <2> QED
    BY <2>1, <2>3 DEF AllSucceeded
<1> QED
  BY <1>1, <1>2, LicensedFacts

\* A route is selected: visits only grow, and the fork reaches every task.
LEMMA RouteKeeps ==
  ASSUME NEW g, GraphOK(g), NEW n \in ActiveNodes(g),
         NEW h \in apply_graph_event(g, EdgesSelected(n, g.visits[n], compute_eligible_edges(g, n)))
  PROVE  GraphOK(h) /\ h.branches = g.branches /\ (AllReached(g) => AllReached(h))
<1> DEFINE E == compute_eligible_edges(g, n)
           ev == EdgesSelected(n, g.visits[n], E)
           V == VisitsAfter(g, E)
           C == [e \in DOMAIN g.crossed |-> IF e \in E THEN g.crossed[e] + 1 ELSE g.crossed[e]]
           R == [g.routed EXCEPT ![n] = g.visits[n]]
           L == [l \in DOMAIN g.loops |-> IF l = n THEN [g.loops[l] EXCEPT !.routed = TRUE]
                                          ELSE g.loops[l]]
<1>0. /\ g \in GraphState /\ g.events \in Nat /\ g.def = Licensed
      /\ g.visits \in [Nodes(Licensed) -> Nat] /\ g.routed \in [Nodes(Licensed) -> Nat]
      /\ g.crossed \in [Licensed.edges -> Nat] /\ g.loops \in [{} -> {}]
      /\ n \in Nodes(Licensed)
  BY DEF GraphOK, GraphState, ActiveNodes
<1>1. g.terminated = None /\ validate_state(h)
  BY AppliedEvent
<1>2. PICK m \in apply_initialized_event(g, ev) : h = [m EXCEPT !.events = g.events + 1]
  BY AppliedEvent
<1>3. /\ apply_initialized_event(g, ev) = select_edges(g, ev)
      /\ ev.node = n /\ ev.visit = g.visits[n] /\ ev.edges = E
  BY DEF apply_initialized_event, EdgesSelected
<1> HIDE DEF ev
<1>4. m = [g EXCEPT !.visits = V, !.crossed = C, !.routed = R, !.loops = L]
  <2>1. m = [g EXCEPT !.visits = VisitsAfter(g, ev.edges),
                      !.crossed = [e \in DOMAIN g.crossed |->
                                     IF e \in ev.edges THEN g.crossed[e] + 1 ELSE g.crossed[e]],
                      !.routed[ev.node] = ev.visit,
                      !.loops = [l \in DOMAIN g.loops |->
                                   IF l = ev.node THEN [g.loops[l] EXCEPT !.routed = TRUE]
                                   ELSE g.loops[l]]]
    BY <1>2, <1>3 DEF select_edges, Accepted
  <2> QED
    BY <1>0, <1>3, <2>1
<1>5. /\ R \in [Nodes(Licensed) -> Nat] /\ C \in [Licensed.edges -> Nat] /\ L \in [{} -> {}]
      /\ \A k \in Nodes(Licensed) : k # n => R[k] = g.routed[k]
  BY <1>0
<1>6. V = [k \in Nodes(Licensed) |->
             IF \E e \in E : e.to = k
             THEN IF Licensed.kind[k].type = "Join" THEN 1 ELSE g.visits[k] + 1
             ELSE g.visits[k]]
  BY <1>0 DEF VisitsAfter
<1>7. E \subseteq Licensed.edges /\ \A e \in E : condition_matches(g, e.cond)
  BY <1>0 DEF compute_eligible_edges, Outgoing
<1>8. ASSUME n = "fork", ForkWaits(g) PROVE \A i \in Items : \E e \in E : e.to = i
  <2>1. SUFFICES ASSUME NEW i \in Items PROVE \E e \in E : e.to = i
    OBVIOUS
  <2>2. PICK e \in Outgoing(Licensed, "fork") : e.to = i /\ e.cond = Always
    BY <1>8, LicensedFacts DEF ForkWaits
  <2>3. condition_matches(g, Always)
    BY DEF condition_matches, Always
  <2> QED
    BY <1>0, <1>8, <2>2, <2>3 DEF compute_eligible_edges
<1> HIDE DEF E, V, C, R, L
<1>9. /\ V \in [Nodes(Licensed) -> Nat]
      /\ \A k \in Nodes(Licensed) : Licensed.kind[k].type # "Join" => V[k] >= g.visits[k]
      /\ \A k \in Nodes(Licensed) : (\E e \in E : e.to = k) => V[k] > 0
  BY <1>0, <1>6
<1>10. /\ m \in GraphState
       /\ m.visits = V /\ m.routed = R /\ m.branches = g.branches /\ m.terminated = None
  BY <1>0, <1>1, <1>4, <1>5, <1>9 DEF GraphState
<1>11. /\ h \in GraphState
       /\ h.visits = V /\ h.routed = R /\ h.branches = g.branches /\ h.terminated = None
  BY <1>0, <1>2, <1>10, EventCounted
<1>12. Validated(h)
  BY <1>1, <1>11, ValidStates
<1>13. AllReached(g) => AllReached(h)
  <2>1. \A i \in Items : i \in Nodes(Licensed) /\ Licensed.kind[i].type # "Join"
    BY LicensedFacts DEF Of
  <2> QED
    BY <1>0, <1>9, <1>11, <2>1 DEF AllReached
<1>14. ForkWaits(g) => AllReached(h) \/ ForkWaits(h)
  <2>1. CASE n = "fork"
    BY <1>8, <1>9, <1>11, <2>1, LicensedFacts DEF AllReached
  <2>2. CASE n # "fork"
    <3>1. SUFFICES ASSUME ForkWaits(g) PROVE ForkWaits(h)
      OBVIOUS
    <3>2. /\ "fork" \in Nodes(Licensed) /\ Licensed.kind["fork"].type = "Fork"
          /\ g.visits["fork"] > g.routed["fork"]
      BY <3>1 DEF ForkWaits
    <3>3. V["fork"] >= g.visits["fork"] /\ R["fork"] = g.routed["fork"]
      BY <1>5, <1>9, <2>2, <3>2
    <3>4. V["fork"] \in Nat /\ g.visits["fork"] \in Nat /\ g.routed["fork"] \in Nat
      BY <1>0, <1>9, <3>2
    <3> QED
      BY <1>11, <3>2, <3>3, <3>4 DEF ForkWaits
  <2> QED
    BY <2>1, <2>2
<1>15. V["success"] > 0 => AllSucceeded(g)
  <2>1. CASE \E e \in E : e.to = "success"
    BY <1>7, <2>1, SuccessEdgeEarned
  <2>2. CASE ~\E e \in E : e.to = "success"
    BY <1>6, <2>2, LicensedFacts DEF GraphOK
  <2> QED
    BY <2>1, <2>2
<1> QED
  BY <1>11, <1>12, <1>13, <1>14, <1>15 DEF GraphOK, AllSucceeded

\* A control event keeps the branches, and what was reached stays reached.
LEMMA ControlKeeps ==
  ASSUME NEW g, GraphOK(g), NEW ev \in NextControlEvents(g), NEW h \in apply_graph_event(g, ev)
  PROVE  GraphOK(h) /\ h.branches = g.branches /\ (AllReached(g) => AllReached(h))
<1>1. g \in GraphState
  BY DEF GraphOK
<1>2. PICK n \in ActiveNodes(g) :
           \/ \E outcome : ev = Terminated(n, outcome)
           \/ n \in Of(Licensed, "Join") /\ \E result : ev = JoinResolved(n, result)
           \/ ev = EdgesSelected(n, g.visits[n], compute_eligible_edges(g, n))
  BY <1>1, ControlEvents
<1>3. CASE \E outcome : ev = Terminated(n, outcome)
  BY <1>3, TerminationKeeps DEF AllReached
<1>4. CASE n \in Of(Licensed, "Join") /\ \E result : ev = JoinResolved(n, result)
  BY <1>4, JoinKeeps DEF AllReached
<1>5. CASE ev = EdgesSelected(n, g.visits[n], compute_eligible_edges(g, n))
  BY <1>5, RouteKeeps
<1> QED
  BY <1>2, <1>3, <1>4, <1>5

\* When there is nothing left to append, every task was reached.
LEMMA QuietMeansReached ==
  ASSUME NEW g, GraphOK(g), NextControlEvents(g) = {}
  PROVE  AllReached(g)
<1>1. SUFFICES ASSUME ForkWaits(g) PROVE FALSE
  BY DEF GraphOK
<1>2. g.def = Licensed
  BY DEF GraphOK, GraphState
<1>3. "fork" \in ActiveNodes(g) /\ ReadyToRoute(g, "fork") /\ g.terminated = None
  BY <1>1, <1>2 DEF ForkWaits, ActiveNodes, ReadyToRoute
<1> QED
  BY <1>3 DEF NextControlEvents

\* A graph that ended in success had every branch succeed.
LEMMA SuccessfulEnd ==
  ASSUME NEW g, GraphOK(g), g.terminated # None, g.def.kind[g.terminated].outcome = "Success"
  PROVE  AllSucceeded(g)
<1>1. g.def = Licensed /\ g.terminated \in Nodes(Licensed)
  BY DEF GraphOK, GraphState
<1> QED
  BY <1>1, LicensedFacts DEF GraphOK

-----------------------------------------------------------------------------
(* The lease's events.                                                      *)

\* A claim makes an available lease active.
LEMMA ClaimTyped ==
  ASSUME NEW l \in LeaseState, NEW proof \in Grants, NEW at \in Nat, NEW expires \in Nat,
         NEW m \in apply_claim(l, ClaimedEvent(proof, at, expires))
  PROVE  m \in LeaseState /\ m.phase = "Active"
<1>1. m = [l EXCEPT !.phase = "Active", !.proof = proof, !.generation = proof.generation,
                    !.at = at, !.expires = expires]
  BY DEF apply_claim, Accept, ClaimedEvent
<1>2. proof \in Proofs /\ proof.generation \in Nat
  BY DEF Grants, Proofs
<1> QED
  BY <1>1, <1>2 DEF LeaseState

\* A heartbeat keeps the phase.
LEMMA HeartbeatTyped ==
  ASSUME NEW l \in LeaseState, NEW proof, NEW at \in Nat, NEW expires \in Nat,
         NEW m \in apply_heartbeat(l, HeartbeatEvent(proof, at, expires))
  PROVE  m \in LeaseState /\ m.phase = l.phase
<1>1. m = [l EXCEPT !.at = at, !.expires = expires]
  BY DEF apply_heartbeat, Accept, HeartbeatEvent
<1> QED
  BY <1>1 DEF LeaseState

\* A reclaim keeps the lease active.
LEMMA ReclaimTyped ==
  ASSUME NEW l \in LeaseState, NEW proof \in Grants, NEW at \in Nat, NEW expires \in Nat,
         NEW m \in apply_reclaim(l, ReclaimedEvent(l.proof, l.expires, at, proof, expires))
  PROVE  m \in LeaseState /\ m.phase = "Active"
<1> DEFINE r == [predecessor |-> l.proof, expired |-> l.expires, at |-> at, successor |-> proof]
<1>1. /\ m = [l EXCEPT !.proof = proof, !.generation = proof.generation,
                       !.at = at, !.expires = expires, !.last_reclaim = r]
      /\ l.phase = "Active"
  BY DEF apply_reclaim, Accept, ReclaimedEvent
<1>2. proof \in Proofs /\ proof.generation \in Nat
  BY DEF Grants, Proofs
<1>3. r \in Reclaims
  BY <1>2 DEF Reclaims, LeaseState
<1> HIDE DEF r
<1> QED
  BY <1>1, <1>2, <1>3 DEF LeaseState

\* The effect fences the lease.
LEMMA EffectStartTyped ==
  ASSUME NEW l \in LeaseState, NEW proof, NEW at \in Nat,
         NEW m \in apply_effect_start(l, BoundEvent("EffectStarted", proof, at))
  PROVE  m \in LeaseState /\ m.phase = "EffectFenced"
<1>1. m = [l EXCEPT !.phase = "EffectFenced", !.at = at]
  BY DEF apply_effect_start, Accept, BoundEvent
<1> QED
  BY <1>1 DEF LeaseState

\* The acknowledgement ends the lease.
LEMMA AcknowledgementTyped ==
  ASSUME NEW l \in LeaseState, NEW proof, NEW at \in Nat,
         NEW m \in apply_acknowledgement(l, BoundEvent("Acknowledged", proof, at))
  PROVE  m \in LeaseState /\ m.phase = "Acknowledged"
<1>1. m = [l EXCEPT !.phase = "Acknowledged", !.at = at]
  BY DEF apply_acknowledgement, Accept, BoundEvent
<1> QED
  BY <1>1 DEF LeaseState

-----------------------------------------------------------------------------
(* The queue's records.                                                     *)

\* f is g but for its value at i.
Changed(f, g, i, value) == f[i] = value /\ \A j \in Items \ {i} : f[j] = g[j]

\* x follows c by a record that moves item i to phase ph.
Move(x, c, i, ph) ==
  /\ Bound(x)
  /\ Changed(x.phase, c.phase, i, ph)
  /\ \A j \in Items : Resolves(c, j) => Resolves(x, j) /\ x.graph.branches[j] = c.graph.branches[j]
  /\ AllReached(c.graph) => AllReached(x.graph)

\* What a record has to say of the one item it is about.
LEMMA Moves ==
  ASSUME NEW c, Bound(c), NEW x \in QueueState, x.committed, GraphOK(x.graph),
         NEW i \in Items, NEW ph \in ItemPhases, Changed(x.phase, c.phase, i, ph),
         \A j \in Items \ {i} : x.lease[j] = c.lease[j] /\ x.graph.branches[j] = c.graph.branches[j],
         Story(x, i),
         c.phase[i] = "AcknowledgedTerminal" =>
           ph = "AcknowledgedTerminal" /\ x.graph.branches[i] = c.graph.branches[i],
         c.phase[i] = "Enqueued" /\ ph # "Enqueued" =>
           \A k \in Items : Before(k, i) => Resolves(c, k),
         x.graph.visits = c.graph.visits
  PROVE  Move(x, c, i, ph)
<1>2. x.phase[i] = ph /\ \A j \in Items \ {i} : x.phase[j] = c.phase[j]
  BY DEF Changed
<1>3. ASSUME NEW j \in Items PROVE Story(x, j)
  <2>1. CASE j = i
    BY <2>1
  <2>2. CASE j # i
    BY <1>2, <2>2 DEF Story, Bound
  <2> QED
    BY <2>1, <2>2
<1>4. \A j \in Items : Resolves(c, j) => Resolves(x, j) /\ x.graph.branches[j] = c.graph.branches[j]
  BY <1>2 DEF Resolves
<1>5. InOrder(x)
  <2>1. SUFFICES ASSUME NEW k \in Items, NEW j \in Items, Before(k, j), x.phase[j] # "Enqueued"
                 PROVE  Resolves(c, k)
    BY <1>4 DEF InOrder
  <2>2. CASE c.phase[j] # "Enqueued"
    BY <2>1, <2>2 DEF InOrder, Bound
  <2>3. CASE c.phase[j] = "Enqueued"
    BY <1>2, <2>1, <2>3
  <2> QED
    BY <2>2, <2>3
<1>6. AllReached(c.graph) => AllReached(x.graph)
  BY DEF AllReached
<1> QED
  BY <1>3, <1>4, <1>5, <1>6 DEF Bound, Move

\* The states the records lead to.
Counted(n, c) == [n EXCEPT !.records = c.records + 1]
WithItem(c, i, l, g, ph) == [c EXCEPT !.lease[i] = l, !.graph = g, !.phase[i] = ph]
WithLeaseAndPhase(c, i, l, ph) == [c EXCEPT !.lease[i] = l, !.phase[i] = ph]
WithLease(c, i, l) == [c EXCEPT !.lease[i] = l]
WithPhase(c, i, ph) == [c EXCEPT !.phase[i] = ph]

\* append_event counts the record.
LEMMA Appended ==
  ASSUME NEW c, NEW nexts, NEW x \in append_event(c, nexts)
  PROVE  \E n \in nexts : x = Counted(n, c)
BY DEF append_event, Counted

\* The parts of a queue.
LEMMA QueueParts ==
  ASSUME NEW c \in QueueState
  PROVE  /\ c.records \in Nat /\ c.graph \in GraphState \cup {None}
         /\ c.phase \in [Items -> ItemPhases] /\ c.lease \in [Items -> LeaseState]
BY DEF QueueState

\* Counting a record.
LEMMA Counting ==
  ASSUME NEW n \in QueueState, NEW c \in QueueState, NEW x, x = Counted(n, c)
  PROVE  /\ x \in QueueState
         /\ x.staged = n.staged /\ (x.committed <=> n.committed) /\ x.graph = n.graph
         /\ x.phase = n.phase /\ x.lease = n.lease
<1> DEFINE r == c.records + 1
<1>1. r \in Nat
  BY QueueParts
<1> HIDE DEF r
<1>2. x = [n EXCEPT !.records = r]
  BY DEF Counted, r
<1> QED
  BY <1>1, <1>2 DEF QueueState

\* A record about the lease and the phase of an item, and the graph.
LEMMA WithItemParts ==
  ASSUME NEW c \in QueueState, NEW i \in Items, NEW l \in LeaseState, NEW g \in GraphState,
         NEW ph \in ItemPhases, NEW n, n = WithItem(c, i, l, g, ph)
  PROVE  /\ n \in QueueState /\ (n.committed <=> c.committed) /\ n.graph = g
         /\ Changed(n.phase, c.phase, i, ph) /\ Changed(n.lease, c.lease, i, l)
<1> DEFINE P == [c.phase EXCEPT ![i] = ph]
           L == [c.lease EXCEPT ![i] = l]
<1>1. /\ P \in [Items -> ItemPhases] /\ L \in [Items -> LeaseState]
      /\ Changed(P, c.phase, i, ph) /\ Changed(L, c.lease, i, l)
  BY QueueParts DEF Changed
<1>2. n = [c EXCEPT !.lease = L, !.graph = g, !.phase = P]
  BY DEF WithItem, QueueState
<1> HIDE DEF P, L
<1>3. n \in QueueState /\ (n.committed <=> c.committed) /\ n.graph = g /\ n.phase = P /\ n.lease = L
  BY <1>1, <1>2 DEF QueueState
<1> QED
  BY <1>1, <1>3

\* A record about the lease and the phase of an item.
LEMMA WithLeaseAndPhaseParts ==
  ASSUME NEW c \in QueueState, NEW i \in Items, NEW l \in LeaseState, NEW ph \in ItemPhases,
         NEW n, n = WithLeaseAndPhase(c, i, l, ph)
  PROVE  /\ n \in QueueState /\ (n.committed <=> c.committed) /\ n.graph = c.graph
         /\ Changed(n.phase, c.phase, i, ph) /\ Changed(n.lease, c.lease, i, l)
<1> DEFINE P == [c.phase EXCEPT ![i] = ph]
           L == [c.lease EXCEPT ![i] = l]
<1>1. /\ P \in [Items -> ItemPhases] /\ L \in [Items -> LeaseState]
      /\ Changed(P, c.phase, i, ph) /\ Changed(L, c.lease, i, l)
  BY QueueParts DEF Changed
<1>2. n = [c EXCEPT !.lease = L, !.phase = P]
  BY DEF WithLeaseAndPhase, QueueState
<1> HIDE DEF P, L
<1>3. n \in QueueState /\ (n.committed <=> c.committed) /\ n.graph = c.graph /\ n.phase = P /\ n.lease = L
  BY <1>1, <1>2 DEF QueueState
<1> QED
  BY <1>1, <1>3

\* A record about the lease of an item.
LEMMA WithLeaseParts ==
  ASSUME NEW c \in QueueState, NEW i \in Items, NEW l \in LeaseState, NEW n, n = WithLease(c, i, l)
  PROVE  /\ n \in QueueState /\ (n.committed <=> c.committed) /\ n.graph = c.graph
         /\ n.phase = c.phase /\ Changed(n.lease, c.lease, i, l)
<1> DEFINE L == [c.lease EXCEPT ![i] = l]
<1>1. L \in [Items -> LeaseState] /\ Changed(L, c.lease, i, l)
  BY QueueParts DEF Changed
<1>2. n = [c EXCEPT !.lease = L]
  BY DEF WithLease, QueueState
<1> HIDE DEF L
<1>3. n \in QueueState /\ (n.committed <=> c.committed) /\ n.graph = c.graph /\ n.phase = c.phase /\ n.lease = L
  BY <1>1, <1>2 DEF QueueState
<1> QED
  BY <1>1, <1>3

\* A record about the phase of an item.
LEMMA WithPhaseParts ==
  ASSUME NEW c \in QueueState, NEW i \in Items, NEW ph \in ItemPhases, NEW n, n = WithPhase(c, i, ph)
  PROVE  /\ n \in QueueState /\ (n.committed <=> c.committed) /\ n.graph = c.graph
         /\ Changed(n.phase, c.phase, i, ph) /\ n.lease = c.lease
<1> DEFINE P == [c.phase EXCEPT ![i] = ph]
<1>1. P \in [Items -> ItemPhases] /\ Changed(P, c.phase, i, ph)
  BY QueueParts DEF Changed
<1>2. n = [c EXCEPT !.phase = P]
  BY DEF WithPhase, QueueState
<1> HIDE DEF P
<1>3. n \in QueueState /\ (n.committed <=> c.committed) /\ n.graph = c.graph /\ n.phase = P /\ n.lease = c.lease
  BY <1>1, <1>2 DEF QueueState
<1> QED
  BY <1>1, <1>3

\* The parts of a queue that is bound to its graph.
LEMMA BoundParts ==
  ASSUME NEW c, Bound(c)
  PROVE  /\ c \in QueueState /\ c.committed
         /\ c.phase \in [Items -> ItemPhases] /\ c.lease \in [Items -> LeaseState]
         /\ c.graph \in GraphState /\ GraphOK(c.graph)
         /\ \A i \in Items : Story(c, i)
BY QueueParts DEF Bound, GraphOK

\* A record that rewrites the lease, the graph and the phase of an item.
LEMMA ItemMoves ==
  ASSUME NEW c, Bound(c), NEW i \in Items, NEW l \in LeaseState, NEW g, GraphOK(g),
         NEW ph \in ItemPhases, NEW x, x = Counted(WithItem(c, i, l, g, ph), c),
         g.visits = c.graph.visits,
         \A j \in Items \ {i} : g.branches[j] = c.graph.branches[j],
         Tells(ph, l.phase, g.branches[i]),
         c.phase[i] # "AcknowledgedTerminal",
         c.phase[i] = "Enqueued" => \A k \in Items : Before(k, i) => Resolves(c, k)
  PROVE  Move(x, c, i, ph) /\ x.graph = g
<1>0. c \in QueueState /\ c.committed /\ g \in GraphState
  BY BoundParts DEF GraphOK
<1> DEFINE n == WithItem(c, i, l, g, ph)
<1>1. /\ n \in QueueState /\ (n.committed <=> c.committed) /\ n.graph = g
      /\ Changed(n.phase, c.phase, i, ph) /\ Changed(n.lease, c.lease, i, l)
  BY <1>0, WithItemParts
<1>2. x = Counted(n, c)
  OBVIOUS
<1> HIDE DEF n
<1>3. /\ x \in QueueState /\ x.committed /\ x.graph = g
      /\ Changed(x.phase, c.phase, i, ph) /\ Changed(x.lease, c.lease, i, l)
  <2>1. /\ x \in QueueState /\ (x.committed <=> n.committed) /\ x.graph = n.graph
        /\ x.phase = n.phase /\ x.lease = n.lease
    BY <1>0, <1>1, <1>2, Counting
  <2> QED
    BY <1>0, <1>1, <2>1
<1>4. /\ x.phase[i] = ph /\ x.lease[i] = l
      /\ \A j \in Items \ {i} : x.lease[j] = c.lease[j] /\ x.graph.branches[j] = c.graph.branches[j]
  BY <1>3 DEF Changed
<1>5. Story(x, i)
  BY <1>3, <1>4 DEF Story
<1> QED
  BY <1>3, <1>4, <1>5, Moves

\* LeaseClaimed: the claim and the attempt are one record.
LEMMA ClaimedMoves ==
  ASSUME NEW c, Bound(c), NEW i \in Items, NEW proof \in Grants, NEW at \in Nat, NEW expires \in Nat,
         \A k \in Items : Before(k, i) => Resolves(c, k),
         NEW x \in LeaseClaimed(c, i, proof, at, expires)
  PROVE  Move(x, c, i, "Claimed") /\ c.phase[i] = "Enqueued"
<1> DEFINE cursor == next_attempt_cursor(c.graph.branches[i].last)
           ev == AttemptStarted(i, cursor.visit, cursor.attempt)
           pairs == apply_claim(c.lease[i], ClaimedEvent(proof, at, expires))
                      \X apply_graph_event(c.graph, ev)
           open == IF c.phase[i] # "Enqueued" THEN {} ELSE pairs
           nexts == {WithItem(c, i, y[1], y[2], "Claimed") : y \in open}
<1>0. /\ c \in QueueState /\ c.committed
      /\ c.phase \in [Items -> ItemPhases] /\ c.lease \in [Items -> LeaseState]
      /\ c.graph \in GraphState /\ GraphOK(c.graph) /\ Story(c, i)
  BY BoundParts
<1>1. x \in append_event(c, nexts)
  BY Zenon DEF LeaseClaimed, WithItem
<1> HIDE DEF nexts
<1>2. PICK n \in nexts : x = Counted(n, c)
  BY <1>1, Appended
<1> HIDE DEF open
<1>3. PICK y \in open : n = WithItem(c, i, y[1], y[2], "Claimed")
  BY <1>2 DEF nexts
<1> HIDE DEF pairs
<1>4. c.phase[i] = "Enqueued" /\ y \in pairs
  BY <1>3 DEF open
<1> DEFINE l == y[1]
           g == y[2]
<1>5. /\ l \in apply_claim(c.lease[i], ClaimedEvent(proof, at, expires))
      /\ g \in apply_graph_event(c.graph, ev)
  BY <1>4 DEF pairs
<1>6. n = WithItem(c, i, l, g, "Claimed")
  BY <1>3
<1> HIDE DEF l, g
<1>7. Waiting(c.graph.branches[i])
  BY <1>0, <1>4 DEF Story, Tells
<1>8. l \in LeaseState /\ l.phase = "Active"
  BY <1>0, <1>5, ClaimTyped
<1>9. /\ GraphOK(g) /\ g.visits = c.graph.visits
      /\ (\A j \in Items \ {i} : g.branches[j] = c.graph.branches[j]) /\ Attempting(g.branches[i])
  BY <1>0, <1>5, <1>7, AttemptStarts
<1>10. "Claimed" \in ItemPhases /\ Tells("Claimed", l.phase, g.branches[i])
  BY <1>8, <1>9 DEF ItemPhases, Tells
<1>11. Move(x, c, i, "Claimed")
  BY <1>2, <1>4, <1>6, <1>8, <1>9, <1>10, ItemMoves
<1> QED
  BY <1>4, <1>11

\* A record that rewrites the lease of an item within its phase.
LEMMA LeaseMoves ==
  ASSUME NEW c, Bound(c), NEW i \in Items, NEW l \in LeaseState, l.phase = c.lease[i].phase,
         NEW x, x = Counted(WithLease(c, i, l), c)
  PROVE  Move(x, c, i, c.phase[i])
<1>0. /\ c \in QueueState /\ c.committed
      /\ c.phase \in [Items -> ItemPhases] /\ c.lease \in [Items -> LeaseState]
      /\ c.graph \in GraphState /\ GraphOK(c.graph) /\ Story(c, i)
  BY BoundParts
<1> DEFINE n == WithLease(c, i, l)
<1>1. /\ n \in QueueState /\ (n.committed <=> c.committed) /\ n.graph = c.graph
      /\ n.phase = c.phase /\ Changed(n.lease, c.lease, i, l)
  BY <1>0, WithLeaseParts
<1>2. x = Counted(n, c)
  OBVIOUS
<1> HIDE DEF n
<1>3. /\ x \in QueueState /\ x.committed /\ x.graph = c.graph
      /\ x.phase = c.phase /\ Changed(x.lease, c.lease, i, l)
  <2>1. /\ x \in QueueState /\ (x.committed <=> n.committed) /\ x.graph = n.graph
        /\ x.phase = n.phase /\ x.lease = n.lease
    BY <1>0, <1>1, <1>2, Counting
  <2> QED
    BY <1>0, <1>1, <2>1
<1>4. x.phase[i] = c.phase[i] /\ x.lease[i] = l /\ \A j \in Items \ {i} : x.lease[j] = c.lease[j]
  BY <1>3 DEF Changed
<1>5. Story(x, i)
  BY <1>0, <1>3, <1>4 DEF Story
<1>6. c.phase[i] \in ItemPhases /\ Changed(x.phase, c.phase, i, c.phase[i])
  BY <1>0, <1>3 DEF Changed
<1> QED
  BY <1>0, <1>3, <1>4, <1>5, <1>6, Moves

\* LeaseHeartbeat changes the lease only.
LEMMA HeartbeatMoves ==
  ASSUME NEW c, Bound(c), NEW i \in Items, NEW at \in Nat, NEW expires \in Nat,
         NEW x \in LeaseHeartbeat(c, i, at, expires)
  PROVE  Move(x, c, i, c.phase[i])
<1> DEFINE after == apply_heartbeat(c.lease[i], HeartbeatEvent(c.lease[i].proof, at, expires))
           open == IF <<c.phase[i], c.lease[i].phase>> \notin
                        {<<"Claimed", "Active">>, <<"DispatchStarted", "EffectFenced">>} THEN {}
                   ELSE after
           nexts == {WithLease(c, i, l) : l \in open}
<1>0. c.lease[i] \in LeaseState
  BY BoundParts
<1>1. x \in append_event(c, nexts)
  BY Zenon DEF LeaseHeartbeat, WithLease
<1> HIDE DEF nexts
<1>2. PICK n \in nexts : x = Counted(n, c)
  BY <1>1, Appended
<1> HIDE DEF open
<1>3. PICK l \in open : n = WithLease(c, i, l)
  BY <1>2 DEF nexts
<1> HIDE DEF after
<1>4. l \in after
  BY <1>3 DEF open
<1>5. l \in LeaseState /\ l.phase = c.lease[i].phase
  BY <1>0, <1>4, HeartbeatTyped DEF after
<1> QED
  BY <1>2, <1>3, <1>5, LeaseMoves

\* LeaseReclaimed changes the lease only.
LEMMA ReclaimedMoves ==
  ASSUME NEW c, Bound(c), NEW i \in Items, NEW proof \in Grants, NEW at \in Nat, NEW expires \in Nat,
         NEW x \in LeaseReclaimed(c, i, proof, at, expires)
  PROVE  Move(x, c, i, c.phase[i])
<1> DEFINE after == apply_reclaim(c.lease[i], ReclaimedEvent(c.lease[i].proof, c.lease[i].expires,
                                                             at, proof, expires))
           open == IF c.phase[i] # "Claimed" THEN {} ELSE after
           nexts == {WithLease(c, i, l) : l \in open}
<1>0. c.lease[i] \in LeaseState /\ Story(c, i)
  BY BoundParts
<1>1. x \in append_event(c, nexts)
  BY Zenon DEF LeaseReclaimed, WithLease
<1> HIDE DEF nexts
<1>2. PICK n \in nexts : x = Counted(n, c)
  BY <1>1, Appended
<1> HIDE DEF open
<1>3. PICK l \in open : n = WithLease(c, i, l)
  BY <1>2 DEF nexts
<1> HIDE DEF after
<1>4. l \in after /\ c.phase[i] = "Claimed"
  BY <1>3 DEF open
<1>5. l \in LeaseState /\ l.phase = "Active"
  BY <1>0, <1>4, ReclaimTyped DEF after
<1>6. c.lease[i].phase = "Active"
  BY <1>0, <1>4 DEF Story, Tells
<1> QED
  BY <1>2, <1>3, <1>5, <1>6, LeaseMoves

\* A record that rewrites the lease and the phase of an item.
LEMMA LeaseAndPhaseMoves ==
  ASSUME NEW c, Bound(c), NEW i \in Items, NEW l \in LeaseState,
         NEW ph \in ItemPhases, NEW x, x = Counted(WithLeaseAndPhase(c, i, l, ph), c),
         Tells(ph, l.phase, c.graph.branches[i]),
         c.phase[i] \notin {"AcknowledgedTerminal", "Enqueued"}
  PROVE  Move(x, c, i, ph)
<1>0. c \in QueueState /\ c.committed /\ GraphOK(c.graph)
  BY BoundParts
<1> DEFINE n == WithLeaseAndPhase(c, i, l, ph)
<1>1. /\ n \in QueueState /\ (n.committed <=> c.committed) /\ n.graph = c.graph
      /\ Changed(n.phase, c.phase, i, ph) /\ Changed(n.lease, c.lease, i, l)
  BY <1>0, WithLeaseAndPhaseParts
<1>2. x = Counted(n, c)
  OBVIOUS
<1> HIDE DEF n
<1>3. /\ x \in QueueState /\ x.committed /\ x.graph = c.graph
      /\ Changed(x.phase, c.phase, i, ph) /\ Changed(x.lease, c.lease, i, l)
  <2>1. /\ x \in QueueState /\ (x.committed <=> n.committed) /\ x.graph = n.graph
        /\ x.phase = n.phase /\ x.lease = n.lease
    BY <1>0, <1>1, <1>2, Counting
  <2> QED
    BY <1>0, <1>1, <2>1
<1>4. x.phase[i] = ph /\ x.lease[i] = l /\ \A j \in Items \ {i} : x.lease[j] = c.lease[j]
  BY <1>3 DEF Changed
<1>5. Story(x, i)
  BY <1>3, <1>4 DEF Story
<1> QED
  BY <1>0, <1>3, <1>4, <1>5, Moves

\* A record that rewrites the phase of an item.
LEMMA PhaseMoves ==
  ASSUME NEW c, Bound(c), NEW i \in Items,
         NEW ph \in ItemPhases, NEW x, x = Counted(WithPhase(c, i, ph), c),
         Tells(ph, c.lease[i].phase, c.graph.branches[i]),
         c.phase[i] \notin {"AcknowledgedTerminal", "Enqueued"}
  PROVE  Move(x, c, i, ph)
<1>0. c \in QueueState /\ c.committed /\ GraphOK(c.graph)
  BY BoundParts
<1> DEFINE n == WithPhase(c, i, ph)
<1>1. /\ n \in QueueState /\ (n.committed <=> c.committed) /\ n.graph = c.graph
      /\ Changed(n.phase, c.phase, i, ph) /\ n.lease = c.lease
  BY <1>0, WithPhaseParts
<1>2. x = Counted(n, c)
  OBVIOUS
<1> HIDE DEF n
<1>3. /\ x \in QueueState /\ x.committed /\ x.graph = c.graph
      /\ Changed(x.phase, c.phase, i, ph) /\ x.lease = c.lease
  <2>1. /\ x \in QueueState /\ (x.committed <=> n.committed) /\ x.graph = n.graph
        /\ x.phase = n.phase /\ x.lease = n.lease
    BY <1>0, <1>1, <1>2, Counting
  <2> QED
    BY <1>0, <1>1, <2>1
<1>4. x.phase[i] = ph
  BY <1>3 DEF Changed
<1>5. Story(x, i)
  BY <1>3, <1>4 DEF Story
<1> QED
  BY <1>0, <1>3, <1>4, <1>5, Moves

\* LeaseEffectStarted: the marker and the fence are one record.
LEMMA EffectStartedMoves ==
  ASSUME NEW c, Bound(c), NEW i \in Items, NEW at \in Nat,
         NEW x \in LeaseEffectStarted(c, i, at)
  PROVE  Move(x, c, i, "DispatchStarted")
<1> DEFINE after == apply_effect_start(c.lease[i], BoundEvent("EffectStarted", c.lease[i].proof, at))
           open == IF c.phase[i] # "Claimed" \/ ~bound_branch_attempt_in_progress(c, i) THEN {}
                   ELSE after
           nexts == {WithLeaseAndPhase(c, i, l, "DispatchStarted") : l \in open}
<1>0. c.lease[i] \in LeaseState /\ Story(c, i)
  BY BoundParts
<1>1. x \in append_event(c, nexts)
  BY Zenon DEF LeaseEffectStarted, WithLeaseAndPhase
<1> HIDE DEF nexts
<1>2. PICK n \in nexts : x = Counted(n, c)
  BY <1>1, Appended
<1> HIDE DEF open
<1>3. PICK l \in open : n = WithLeaseAndPhase(c, i, l, "DispatchStarted")
  BY <1>2 DEF nexts
<1> HIDE DEF after
<1>4. l \in after /\ c.phase[i] = "Claimed"
  BY <1>3 DEF open
<1>5. l \in LeaseState /\ l.phase = "EffectFenced"
  BY <1>0, <1>4, EffectStartTyped DEF after
<1>6. "DispatchStarted" \in ItemPhases /\ Tells("DispatchStarted", l.phase, c.graph.branches[i])
  BY <1>0, <1>4, <1>5 DEF ItemPhases, Story, Tells
<1> QED
  BY <1>2, <1>3, <1>4, <1>5, <1>6, LeaseAndPhaseMoves

\* LeaseHeldAmbiguous changes the phase only.
LEMMA HeldMoves ==
  ASSUME NEW c, Bound(c), NEW i \in Items, NEW x \in LeaseHeldAmbiguous(c, i)
  PROVE  Move(x, c, i, "HeldAmbiguous")
<1>0. Story(c, i)
  BY BoundParts
<1> DEFINE held == c.phase[i] = "DispatchStarted" /\ c.lease[i].phase = "EffectFenced"
                     /\ bound_branch_attempt_in_progress(c, i)
           nexts == Accept(held, WithPhase(c, i, "HeldAmbiguous"))
<1>1. x \in append_event(c, nexts)
  BY Zenon DEF LeaseHeldAmbiguous, WithPhase
<1> HIDE DEF nexts
<1>2. PICK n \in nexts : x = Counted(n, c)
  BY <1>1, Appended
<1>3. n = WithPhase(c, i, "HeldAmbiguous") /\ held
  BY <1>2 DEF nexts, Accept
<1>4. "HeldAmbiguous" \in ItemPhases /\ Tells("HeldAmbiguous", c.lease[i].phase, c.graph.branches[i])
  BY <1>0, <1>3 DEF ItemPhases, Story, Tells
<1> QED
  BY <1>2, <1>3, <1>4, PhaseMoves

\* LeaseTerminalAcknowledged: the lease ends and the attempt keeps the verdict.
LEMMA AcknowledgedMoves ==
  ASSUME NEW c, Bound(c), NEW i \in Items, NEW at \in Nat,
         NEW outcome, outcome \in {"Success", "Failure"},
         NEW x \in LeaseTerminalAcknowledged(c, i, at, outcome)
  PROVE  /\ Move(x, c, i, "AcknowledgedTerminal")
         /\ x.graph.branches[i].last.outcome = outcome
         /\ c.phase[i] # "AcknowledgedTerminal"
<1> DEFINE cursor == next_attempt_cursor(c.graph.branches[i].last)
           ev == AttemptCompleted(i, cursor.visit, cursor.attempt, outcome)
           pairs == apply_acknowledgement(c.lease[i], BoundEvent("Acknowledged", c.lease[i].proof, at))
                      \X apply_graph_event(c.graph, ev)
           refused == \/ c.phase[i] \notin {"DispatchStarted", "HeldAmbiguous"}
                      \/ outcome = "RetryableFailure"
           open == IF refused THEN {} ELSE pairs
           nexts == {WithItem(c, i, y[1], y[2], "AcknowledgedTerminal") : y \in open}
<1>0. c.lease[i] \in LeaseState /\ GraphOK(c.graph) /\ Story(c, i)
  BY BoundParts
<1>1. x \in append_event(c, nexts)
  BY Zenon DEF LeaseTerminalAcknowledged, WithItem
<1> HIDE DEF nexts
<1>2. PICK n \in nexts : x = Counted(n, c)
  BY <1>1, Appended
<1> HIDE DEF open
<1>3. PICK y \in open : n = WithItem(c, i, y[1], y[2], "AcknowledgedTerminal")
  BY <1>2 DEF nexts
<1> HIDE DEF pairs
<1>4. c.phase[i] \in {"DispatchStarted", "HeldAmbiguous"} /\ y \in pairs
  BY <1>3 DEF open
<1> DEFINE l == y[1]
           g == y[2]
<1>5. /\ l \in apply_acknowledgement(c.lease[i], BoundEvent("Acknowledged", c.lease[i].proof, at))
      /\ g \in apply_graph_event(c.graph, ev)
  BY <1>4 DEF pairs
<1>6. n = WithItem(c, i, l, g, "AcknowledgedTerminal")
  BY <1>3
<1> HIDE DEF l, g, ev
<1>7. Attempting(c.graph.branches[i])
  BY <1>0, <1>4 DEF Story, Tells
<1>8. l \in LeaseState /\ l.phase = "Acknowledged"
  BY <1>0, <1>5, AcknowledgementTyped
<1>9. /\ GraphOK(g) /\ g.visits = c.graph.visits
      /\ \A j \in Items \ {i} : g.branches[j] = c.graph.branches[j]
      /\ EndedWith(g.branches[i], outcome)
  BY <1>0, <1>5, <1>7, AttemptEnds DEF ev
<1>10. is_terminal_for_visit(g.branches[i], 1) /\ g.branches[i].last.outcome = outcome
  BY <1>9 DEF EndedWith, is_terminal_for_visit
<1>11. "AcknowledgedTerminal" \in ItemPhases /\ Tells("AcknowledgedTerminal", l.phase, g.branches[i])
  BY <1>8, <1>10 DEF ItemPhases, Tells
<1>12. c.phase[i] # "AcknowledgedTerminal" /\ c.phase[i] # "Enqueued"
  BY <1>4
<1>13. Move(x, c, i, "AcknowledgedTerminal") /\ x.graph = g
  BY <1>2, <1>6, <1>8, <1>9, <1>11, <1>12, ItemMoves
<1> QED
  BY <1>10, <1>12, <1>13

\* A refused preparation changes nothing but the number of records.
LEMMA PreparationMoves ==
  ASSUME NEW c, Bound(c), NEW i \in Items,
         NEW x \in PreparationWhileEnqueued(c, i) \cup PreparationWhileClaimed(c, i)
  PROVE  Move(x, c, i, c.phase[i])
<1>0. /\ c \in QueueState /\ c.committed /\ GraphOK(c.graph) /\ Story(c, i)
      /\ c.phase[i] \in ItemPhases
  BY BoundParts
<1>1. x = Counted(c, c)
  BY DEF PreparationWhileEnqueued, PreparationWhileClaimed, append_event, Accept, Counted
<1>2. /\ x \in QueueState /\ x.committed /\ x.graph = c.graph
      /\ x.phase = c.phase /\ x.lease = c.lease
  BY <1>0, <1>1, Counting
<1>3. Story(x, i) /\ Changed(x.phase, c.phase, i, c.phase[i])
  BY <1>0, <1>2 DEF Story, Changed
<1> QED
  BY <1>0, <1>2, <1>3, Moves

\* x follows c by a record that moves no item.
Carries(x, c) ==
  /\ Bound(x)
  /\ x.phase = c.phase
  /\ x.graph.branches = c.graph.branches
  /\ AllReached(c.graph) => AllReached(x.graph)

WithGraph(c, g) == [c EXCEPT !.graph = g]

\* A record about the graph.
LEMMA WithGraphParts ==
  ASSUME NEW c \in QueueState, NEW g \in GraphState, NEW n, n = WithGraph(c, g)
  PROVE  /\ n \in QueueState /\ (n.committed <=> c.committed) /\ n.graph = g
         /\ n.phase = c.phase /\ n.lease = c.lease
BY DEF WithGraph, QueueState

\* GraphTransition appends a control event.
LEMMA ControlCarries ==
  ASSUME NEW c, Bound(c), NEW ev \in NextControlEvents(c.graph), NEW x \in GraphTransition(c, ev)
  PROVE  Carries(x, c)
<1> DEFINE after == apply_graph_event(c.graph, ev)
           open == IF ev.type \in {"AttemptStarted", "AttemptCompleted"} THEN {} ELSE after
           nexts == {WithGraph(c, g) : g \in open}
<1>0. c \in QueueState /\ c.committed /\ GraphOK(c.graph) /\ \A i \in Items : Story(c, i)
  BY BoundParts
<1>1. x \in append_event(c, nexts)
  BY Zenon DEF GraphTransition, WithGraph
<1> HIDE DEF nexts
<1>2. PICK n \in nexts : x = Counted(n, c)
  BY <1>1, Appended
<1> HIDE DEF open
<1>3. PICK g \in open : n = WithGraph(c, g)
  BY <1>2 DEF nexts
<1>4. g \in after
  BY <1>3 DEF open
<1>5. GraphOK(g) /\ g.branches = c.graph.branches /\ (AllReached(c.graph) => AllReached(g))
  BY <1>0, <1>4, ControlKeeps
<1>6. g \in GraphState
  BY <1>5 DEF GraphOK
<1>7. /\ n \in QueueState /\ (n.committed <=> c.committed) /\ n.graph = g
      /\ n.phase = c.phase /\ n.lease = c.lease
  BY <1>0, <1>3, <1>6, WithGraphParts
<1>8. /\ x \in QueueState /\ (x.committed <=> n.committed) /\ x.graph = n.graph
      /\ x.phase = n.phase /\ x.lease = n.lease
  BY <1>0, <1>2, <1>7, Counting
<1>9. /\ x.graph = g /\ x.phase = c.phase /\ x.lease = c.lease /\ x.committed
  BY <1>0, <1>7, <1>8
<1>10. \A i \in Items : Story(x, i)
  BY <1>0, <1>5, <1>9 DEF Story
<1>11. InOrder(x)
  BY <1>9 DEF Bound, InOrder, Resolves
<1> QED
  BY <1>5, <1>8, <1>9, <1>10, <1>11 DEF Carries, Bound

\* The journal's first record.
LEMMA CreatedStages == Staging(Created)
<1>1. initial \in LeaseState /\ None \in ItemPhases
  BY DEF initial, LeaseState, Proofs, Reclaims, ItemPhases
<1>2. [i \in Items |-> initial] \in [Items -> LeaseState] /\ [i \in Items |-> None] \in [Items -> ItemPhases]
  BY <1>1
<1>3. Created \in QueueState
  BY <1>2 DEF Created, QueueState
<1> QED
  BY <1>3 DEF Staging, Created

\* A staged item leaves the batch uncommitted.
LEMMA StagedStages ==
  ASSUME NEW c, Staging(c), NEW i \in Items, NEW x \in EnqueueStaged(c, i)
  PROVE  Staging(x)
<1> DEFINE n == [c EXCEPT !.staged = c.staged \cup {i}]
<1>0. c \in QueueState
  BY DEF Staging
<1>1. x \in append_event(c, Accept(~c.committed /\ i \notin c.staged, n))
  BY DEF EnqueueStaged
<1>2. /\ n \in QueueState /\ (n.committed <=> c.committed) /\ n.graph = c.graph
      /\ n.phase = c.phase /\ n.lease = c.lease
  BY <1>0 DEF QueueState
<1> HIDE DEF n
<1>3. x = Counted(n, c)
  BY <1>1, Appended DEF Accept
<1>4. /\ x \in QueueState /\ (x.committed <=> n.committed) /\ x.graph = n.graph
      /\ x.phase = n.phase /\ x.lease = n.lease
  BY <1>0, <1>2, <1>3, Counting
<1> QED
  BY <1>2, <1>4 DEF Staging

\* The commit makes every item of the batch exist.
LEMMA CommitEnqueues ==
  ASSUME NEW c, Staging(c), NEW x \in Enqueued(c)
  PROVE  Unbound(x)
<1> DEFINE P == [i \in Items |-> "Enqueued"]
           n == [c EXCEPT !.committed = TRUE, !.staged = {}, !.phase = P]
<1>0. c \in QueueState
  BY DEF Staging
<1>1. x \in append_event(c, Accept(~c.committed /\ c.staged = Items, n))
  BY DEF Enqueued
<1>2. P \in [Items -> ItemPhases] /\ \A i \in Items : P[i] = "Enqueued"
  BY DEF ItemPhases
<1> HIDE DEF P
<1>3. /\ n \in QueueState /\ n.committed /\ n.graph = c.graph
      /\ n.phase = P /\ n.lease = c.lease
  BY <1>0, <1>2 DEF QueueState
<1> HIDE DEF n
<1>4. x = Counted(n, c)
  BY <1>1, Appended DEF Accept
<1>5. /\ x \in QueueState /\ (x.committed <=> n.committed) /\ x.graph = n.graph
      /\ x.phase = n.phase /\ x.lease = n.lease
  BY <1>0, <1>3, <1>4, Counting
<1> QED
  BY <1>2, <1>3, <1>5 DEF Staging, Unbound

\* The graph is defined over a batch of which nothing was claimed.
LEMMA DefinitionBinds ==
  ASSUME NEW c, Unbound(c) \/ Bound(c), NEW x \in GraphDefinedAndBound(c, Licensed)
  PROVE  Bound(x) /\ x.phase = c.phase /\ \A i \in Items : c.phase[i] = "Enqueued"
<1> DEFINE g == initialize_state(Licensed)
           free == /\ c.graph = None /\ c.committed
                   /\ \A i \in Items : c.phase[i] = "Enqueued"
                   /\ Of(Licensed, "Task") = Items
                   /\ validate_definition(Licensed)
<1>0. c \in QueueState
  BY DEF Unbound, Bound
<1>1. x \in append_event(c, Accept(free, WithGraph(c, g)))
  BY Zenon DEF GraphDefinedAndBound, WithGraph
<1>2. GraphOK(g) /\ \A i \in Items : Waiting(g.branches[i])
  BY GraphStarts
<1> HIDE DEF g, free
<1>3. PICK n \in Accept(free, WithGraph(c, g)) : x = Counted(n, c)
  BY <1>1, Appended
<1>4. n = WithGraph(c, g) /\ free
  BY <1>3 DEF Accept
<1>5. c.committed /\ \A i \in Items : c.phase[i] = "Enqueued"
  BY <1>4 DEF free
<1>6. g \in GraphState
  BY <1>2 DEF GraphOK
<1>7. /\ n \in QueueState /\ (n.committed <=> c.committed) /\ n.graph = g
      /\ n.phase = c.phase /\ n.lease = c.lease
  BY <1>0, <1>4, <1>6, WithGraphParts
<1>8. /\ x \in QueueState /\ (x.committed <=> n.committed) /\ x.graph = n.graph
      /\ x.phase = n.phase /\ x.lease = n.lease
  BY <1>0, <1>3, <1>7, Counting
<1>9. /\ x.graph = g /\ x.phase = c.phase /\ x.lease = c.lease /\ x.committed
  BY <1>5, <1>7, <1>8
<1>10. \A i \in Items : c.lease[i].phase = "Available"
  <2>1. CASE Unbound(c)
    BY <2>1 DEF Unbound, initial
  <2>2. CASE Bound(c)
    BY <1>5, <2>2 DEF Bound, Story, Tells
  <2> QED
    BY <2>1, <2>2
<1>11. \A i \in Items : Story(x, i)
  BY <1>2, <1>5, <1>9, <1>10 DEF Story, Tells
<1>12. InOrder(x)
  BY <1>5, <1>9 DEF InOrder
<1> QED
  BY <1>2, <1>5, <1>8, <1>9, <1>11, <1>12 DEF Bound

-----------------------------------------------------------------------------
(* The invocation's moves.                                                  *)

\* An invocation that returned.
LEMMA ReturnedParts ==
  ASSUME NEW o \in {None, "Error", "Failure", "Success"}
  PROVE  /\ Returned(o) \in Invocation /\ Returned(o).pc = "idle" /\ Returned(o).outcome = o
BY DEF Returned, Idle, Invocation, Pcs, Dispatching, Effecting, Thens

\* An invocation that advances the graph next.
LEMMA AdvanceParts ==
  ASSUME NEW v \in Invocation, NEW t \in Thens
  PROVE  LET w == Advance(v, t) IN
         /\ w \in Invocation /\ w.pc = "advance" /\ w.then = t
         /\ w.todo = v.todo /\ w.outcome = v.outcome
BY DEF Advance, Invocation, Pcs

\* An invocation that will report a failure.
LEMMA FinishParts ==
  ASSUME NEW v \in Invocation
  PROVE  LET w == Finish(v) IN
         /\ w \in Invocation /\ w.pc = "advance" /\ w.then = "report" /\ w.outcome = v.outcome
<1> DEFINE u == [v EXCEPT !.success = FALSE]
<1>1. u \in Invocation /\ u.outcome = v.outcome
  BY DEF Invocation
<1>2. Finish(v) = Advance(u, "report") /\ "report" \in Thens
  BY DEF Finish, Thens
<1> HIDE DEF u
<1> QED
  BY <1>1, <1>2, AdvanceParts

\* The places that say nothing of the item being dispatched.
LEMMA QuietPlaces ==
  ASSUME NEW c, NEW r, NEW v,
         v.pc # "idle" => v.outcome # "Success",
         \/ v.pc \in {"idle", "enqueue"}
         \/ v.pc = "graph" /\ c.committed
         \/ v.pc = "advance" /\ v.then \in Thens \ {"select"} /\ Bound(c)
         \/ /\ v.pc \in {"claims", "prepare", "reconcile", "admit", "report"}
            /\ Bound(c) /\ AllReached(c.graph)
  PROVE  Placed(c, r, v)
BY DEF Placed, Dispatching, Effecting, Thens

\* The next state is one of the invariant's.
LEMMA StandsNext ==
  ASSUME run' \in [Items -> Run], now' \in Nat, p' \in Invocation, p'.outcome # "Success",
         Staging(q') \/ Unbound(q') \/ Bound(q'),
         Fences(q', run'), Authentic(q', run'), Placed(q', run', p')
  PROVE  CascadeInv'
BY DEF CascadeInv, Types, Standing, SuccessIsEarned

\* The parts of the invariant.
LEMMA InvariantParts ==
  ASSUME CascadeInv
  PROVE  /\ run \in [Items -> Run] /\ now \in Nat /\ p \in Invocation
         /\ p.pc # "idle" =>
              /\ Staging(q) \/ Unbound(q) \/ Bound(q)
              /\ Fences(q, run) /\ Authentic(q, run) /\ Placed(q, run, p)
              /\ p.outcome # "Success"
BY DEF CascadeInv, Types, Fresh, Standing, Placed

\* Past the definition of the graph, the queue is bound to it.
LEMMA BoundPlaces ==
  ASSUME CascadeInv, p.pc \notin {"idle", "enqueue", "graph"}
  PROVE  Bound(q) /\ (p.pc # "advance" => AllReached(q.graph))
BY InvariantParts DEF Placed

\* A record about one item keeps the fences and the verdicts.
LEMMA MoveKeeps ==
  ASSUME NEW c, NEW x, NEW r, NEW i \in Items, NEW ph, Move(x, c, i, ph),
         Fences(c, r), Authentic(c, r),
         c.phase[i] \in Fenced => ph \in Fenced,
         ph = "AcknowledgedTerminal" /\ c.phase[i] # "AcknowledgedTerminal" =>
           /\ r[i].status = "finalized" /\ r[i].planned
           /\ x.graph.branches[i].last.outcome = branch_outcome(r[i].report)
  PROVE  Fences(x, r) /\ Authentic(x, r) /\ Bound(x)
<1>1. x.phase[i] = ph /\ \A j \in Items \ {i} : x.phase[j] = c.phase[j]
  BY DEF Move, Changed
<1>2. Fences(x, r)
  BY <1>1 DEF Fences
<1>3. ASSUME NEW j \in Items, x.phase[j] = "AcknowledgedTerminal"
      PROVE  /\ r[j].status = "finalized" /\ r[j].planned
             /\ x.graph.branches[j].last.outcome = branch_outcome(r[j].report)
  <2>1. CASE c.phase[j] = "AcknowledgedTerminal"
    BY <2>1 DEF Move, Resolves, Authentic
  <2>2. CASE c.phase[j] # "AcknowledgedTerminal"
    BY <1>1, <1>3, <2>2
  <2> QED
    BY <2>1, <2>2
<1> QED
  BY <1>2, <1>3 DEF Authentic, Move

\* So does one that leaves the item in its phase.
LEMMA StayKeeps ==
  ASSUME NEW c, NEW x, NEW r, NEW i \in Items, Move(x, c, i, c.phase[i]),
         Fences(c, r), Authentic(c, r)
  PROVE  Fences(x, r) /\ Authentic(x, r) /\ Bound(x)
<1> DEFINE ph == c.phase[i]
<1>1. Move(x, c, i, ph) /\ ph = c.phase[i]
  OBVIOUS
<1> HIDE DEF ph
<1> QED
  BY <1>1, MoveKeeps

\* So does a record about the graph.
LEMMA CarriedKeeps ==
  ASSUME NEW c, NEW x, NEW r, Carries(x, c), Fences(c, r), Authentic(c, r)
  PROVE  Fences(x, r) /\ Authentic(x, r) /\ Bound(x)
BY DEF Carries, Fences, Authentic

-----------------------------------------------------------------------------
(* The steps of an invocation.                                              *)

\* create_or_open: a new journal stages nothing yet, an existing one is taken as it is.
LEMMA InvokeKeeps ==
  ASSUME CascadeInv, Invoke
  PROVE  CascadeInv'
<1>0. run \in [Items -> Run] /\ now \in Nat /\ p \in Invocation
  BY InvariantParts
<1>1. p' = [Idle EXCEPT !.pc = "enqueue"] /\ run' = run /\ now' = now
  BY DEF Invoke
<1>2. p' \in Invocation /\ p'.pc = "enqueue" /\ p'.outcome = None
  BY <1>1 DEF Idle, Invocation, Pcs
<1>3. p'.outcome # "Success"
  BY <1>2, NoneIsNoString
<1>4. (Staging(q') \/ Unbound(q') \/ Bound(q')) /\ Fences(q', run) /\ Authentic(q', run)
  <2>1. CASE q = None
    <3>1. q' = Created /\ Staging(Created)
      BY <2>1, CreatedStages DEF Invoke
    <3>2. Fresh
      BY <2>1, AbsentStates DEF CascadeInv, Standing, Staging, Unbound, Bound
    <3>3. \A i \in Items : Created.phase[i] # "AcknowledgedTerminal"
      BY NoneIsNoString DEF Created
    <3> QED
      BY <3>1, <3>2, <3>3 DEF Fresh, Fences, Authentic
  <2>2. CASE q # None
    BY <2>2 DEF Invoke, CascadeInv, Fresh, Standing
  <2> QED
    BY <2>1, <2>2
<1>5. Placed(q', run, p')
  BY <1>2, <1>3, QuietPlaces
<1> QED
  BY <1>0, <1>1, <1>2, <1>3, <1>4, <1>5, StandsNext

\* enqueue_all_before_dispatch: the batch is staged item by item, then committed at once.
LEMMA EnqueueKeeps ==
  ASSUME CascadeInv, Enqueue
  PROVE  CascadeInv'
<1>0. /\ run \in [Items -> Run] /\ now \in Nat /\ p \in Invocation /\ p.outcome # "Success"
      /\ Staging(q) \/ Unbound(q) \/ Bound(q)
      /\ Fences(q, run) /\ Authentic(q, run)
  BY InvariantParts DEF Enqueue
<1>1. p.pc = "enqueue" /\ run' = run /\ now' = now
  BY DEF Enqueue
<1> DEFINE w == [p EXCEPT !.pc = "graph"]
<1>2. w \in Invocation /\ w.pc = "graph" /\ w.outcome = p.outcome
  BY <1>0 DEF Invocation, Pcs
<1>3. \/ q.committed /\ q' = q /\ p' = w
      \/ q' = q /\ p' = Returned("Error")
      \/ ~q.committed /\ q.staged # Items /\ q' \in EnqueueStaged(q, First(Items \ q.staged)) /\ p' = p
      \/ ~q.committed /\ q' \in Enqueued(q) /\ p' = w
  BY DEF Enqueue, Journal
<1> HIDE DEF w
<1>4. CASE q.committed /\ q' = q /\ p' = w
  <2>1. Placed(q', run, p')
    BY <1>0, <1>2, <1>4, QuietPlaces
  <2> QED
    BY <1>0, <1>1, <1>2, <1>4, <2>1, StandsNext
<1>5. CASE q' = q /\ p' = Returned("Error")
  <2>1. p' \in Invocation /\ p'.pc = "idle" /\ p'.outcome = "Error"
    BY <1>5, ReturnedParts
  <2>2. Placed(q', run, p')
    BY <2>1, QuietPlaces
  <2> QED
    BY <1>0, <1>1, <1>5, <2>1, <2>2, StandsNext
<1>6. CASE ~q.committed /\ q.staged # Items /\ q' \in EnqueueStaged(q, First(Items \ q.staged)) /\ p' = p
  <2>1. Staging(q)
    BY <1>0, <1>6 DEF Unbound, Bound
  <2>2. q.staged \in SUBSET Items
    BY <2>1 DEF Staging, QueueState
  <2>3. First(Items \ q.staged) \in Items
    BY <1>6, <2>2, FirstIsFirst
  <2>4. Staging(q')
    BY <1>6, <2>1, <2>3, StagedStages
  <2>5. Fences(q', run) /\ Authentic(q', run)
    BY <1>0, <2>1, <2>4, NoneIsNoString DEF Staging, Fences, Authentic, Fenced
  <2>6. Placed(q', run, p')
    BY <1>0, <1>1, <1>6, QuietPlaces
  <2> QED
    BY <1>0, <1>1, <1>6, <2>4, <2>5, <2>6, StandsNext
<1>7. CASE ~q.committed /\ q' \in Enqueued(q) /\ p' = w
  <2>1. Staging(q)
    BY <1>0, <1>7 DEF Unbound, Bound
  <2>2. Unbound(q')
    BY <1>7, <2>1, CommitEnqueues
  <2>3. Fences(q', run) /\ Authentic(q', run)
    BY <1>0, <2>1, <2>2, NoneIsNoString DEF Staging, Unbound, Fences, Authentic, Fenced
  <2>4. Placed(q', run, p')
    BY <1>0, <1>2, <1>7, <2>2, QuietPlaces DEF Unbound
  <2> QED
    BY <1>0, <1>1, <1>2, <1>7, <2>2, <2>3, <2>4, StandsNext
<1> QED
  BY <1>3, <1>4, <1>5, <1>6, <1>7

\* An invocation that returns with the queue as it is.
LEMMA ReturnKeeps ==
  ASSUME CascadeInv, p.pc # "idle", q' = q, run' \in [Items -> Run], now' \in Nat,
         Fences(q, run'), Authentic(q, run'),
         NEW o \in {None, "Error", "Failure"}, p' = Returned(o)
  PROVE  CascadeInv'
<1>1. Staging(q) \/ Unbound(q) \/ Bound(q)
  BY InvariantParts
<1>2. p' \in Invocation /\ p'.pc = "idle" /\ p'.outcome = o
  BY ReturnedParts
<1>3. Placed(q', run', p') /\ p'.outcome # "Success"
  BY <1>2, QuietPlaces, NoneIsNoString
<1> QED
  BY <1>1, <1>2, <1>3, StandsNext

\* ensure_licensed_follow_up_graph binds a committed batch to its graph.
LEMMA DefineGraphKeeps ==
  ASSUME CascadeInv, DefineGraph
  PROVE  CascadeInv'
<1>0. /\ run \in [Items -> Run] /\ now \in Nat /\ p \in Invocation /\ p.outcome # "Success"
      /\ Staging(q) \/ Unbound(q) \/ Bound(q)
      /\ Fences(q, run) /\ Authentic(q, run) /\ q.committed
  BY InvariantParts DEF DefineGraph, Placed
<1>1. p.pc = "graph" /\ run' = run /\ now' = now
  BY DEF DefineGraph
<1> DEFINE w == Advance(p, "claims")
<1>2. w \in Invocation /\ w.pc = "advance" /\ w.then = "claims" /\ w.outcome = p.outcome
  BY <1>0, AdvanceParts DEF Thens
<1>3. \/ q' = q /\ p' = Returned("Error")
      \/ q.graph # None /\ q' = q /\ p' = w
      \/ q' \in GraphDefinedAndBound(q, Licensed) /\ p' = w
  BY DEF DefineGraph, Journal, Licensed
<1> HIDE DEF w
<1>4. Unbound(q) \/ Bound(q)
  BY <1>0 DEF Staging
<1>5. CASE q' = q /\ p' = Returned("Error")
  BY <1>0, <1>1, <1>5, ReturnKeeps
<1>6. CASE q.graph # None /\ q' = q /\ p' = w
  <2>1. Bound(q)
    BY <1>4, <1>6 DEF Unbound
  <2>2. Placed(q', run, p')
    BY <1>0, <1>2, <1>6, <2>1, QuietPlaces DEF Thens
  <2> QED
    BY <1>0, <1>1, <1>2, <1>6, <2>2, StandsNext
<1>7. CASE q' \in GraphDefinedAndBound(q, Licensed) /\ p' = w
  <2>1. Bound(q') /\ q'.phase = q.phase /\ \A i \in Items : q.phase[i] = "Enqueued"
    BY <1>4, <1>7, DefinitionBinds
  <2>2. Fences(q', run) /\ Authentic(q', run)
    BY <1>0, <2>1 DEF Fences, Authentic
  <2>3. Placed(q', run, p')
    BY <1>0, <1>2, <1>7, <2>1, QuietPlaces DEF Thens
  <2> QED
    BY <1>0, <1>1, <1>2, <1>7, <2>1, <2>2, <2>3, StandsNext
<1> QED
  BY <1>3, <1>5, <1>6, <1>7

\* advance_licensed_follow_up_graph goes on when the frontier is quiet: every task was reached.
LEMMA AdvanceGraphKeeps ==
  ASSUME CascadeInv, AdvanceGraph
  PROVE  CascadeInv'
<1>0. /\ run \in [Items -> Run] /\ now \in Nat /\ p \in Invocation /\ p.outcome # "Success"
      /\ Fences(q, run) /\ Authentic(q, run) /\ Placed(q, run, p)
  BY InvariantParts DEF AdvanceGraph
<1>1. p.pc = "advance" /\ run' = run /\ now' = now
  BY DEF AdvanceGraph
<1>2. Bound(q) /\ GraphOK(q.graph) /\ p.then \in Thens
  BY <1>0, <1>1, BoundPlaces DEF Bound, Placed
<1> DEFINE w == [p EXCEPT !.pc = p.then]
<1>3. w \in Invocation /\ w.pc = p.then /\ w.outcome = p.outcome /\ w.todo = p.todo
  BY <1>0, <1>2 DEF Invocation, Pcs
<1>4. \/ NextControlEvents(q.graph) = {} /\ q' = q /\ p' = w
      \/ q' = q /\ p' = Returned("Error")
      \/ \E ev \in NextControlEvents(q.graph) : q' \in GraphTransition(q, ev) /\ p' = p
  BY DEF AdvanceGraph, Journal
<1> HIDE DEF w
<1>5. CASE NextControlEvents(q.graph) = {} /\ q' = q /\ p' = w
  <2>1. AllReached(q.graph)
    BY <1>2, <1>5, QuietMeansReached
  <2>2. Placed(q', run, p')
    <3>1. CASE p.then = "select"
      <4>1. \A i \in Items \ p.todo : Resolves(q, i)
        BY <1>0, <1>1, <3>1 DEF Placed
      <4> QED
        BY <1>0, <1>2, <1>3, <1>5, <2>1, <3>1, <4>1 DEF Placed, Dispatching, Effecting
    <3>2. CASE p.then # "select"
      BY <1>0, <1>2, <1>3, <1>5, <2>1, <3>2, QuietPlaces DEF Thens
    <3> QED
      BY <3>1, <3>2
  <2> QED
    BY <1>0, <1>1, <1>2, <1>3, <1>5, <2>2, StandsNext
<1>6. CASE q' = q /\ p' = Returned("Error")
  BY <1>0, <1>1, <1>6, ReturnKeeps
<1>7. CASE \E ev \in NextControlEvents(q.graph) : q' \in GraphTransition(q, ev) /\ p' = p
  <2>1. Carries(q', q) /\ p' = p
    BY <1>2, <1>7, ControlCarries
  <2>2. Fences(q', run) /\ Authentic(q', run) /\ Bound(q')
    BY <1>0, <2>1, CarriedKeeps
  <2>3. Placed(q', run, p')
    BY <1>0, <1>1, <2>1, <2>2 DEF Placed, Carries, Resolves, Dispatching, Effecting
  <2> QED
    BY <1>0, <1>1, <2>1, <2>2, <2>3, StandsNext
<1> QED
  BY <1>4, <1>5, <1>6, <1>7

\* prepare_existing_claims observes the clock.
LEMMA ObserveClaimsKeeps ==
  ASSUME CascadeInv, ObserveClaims
  PROVE  CascadeInv'
<1>0. /\ run \in [Items -> Run] /\ now \in Nat /\ p \in Invocation /\ p.outcome # "Success"
      /\ Fences(q, run) /\ Authentic(q, run)
  BY InvariantParts DEF ObserveClaims
<1>1. Bound(q) /\ AllReached(q.graph)
  BY BoundPlaces DEF ObserveClaims
<1> DEFINE claimed == {i \in Items : q.phase[i] = "Claimed"}
           later == now + 1
<1>2. claimed \in SUBSET Items /\ later \in Nat
  BY <1>0
<1> HIDE DEF claimed, later
<1>3. /\ p' = [p EXCEPT !.pc = "prepare", !.todo = claimed, !.obs = later]
      /\ run' = run /\ q' = q /\ now' \in Nat
  BY <1>0, <1>2 DEF ObserveClaims, claimed, later
<1>4. p' \in Invocation /\ p'.pc = "prepare" /\ p'.outcome = p.outcome
  BY <1>0, <1>2, <1>3 DEF Invocation, Pcs
<1>5. Placed(q', run, p')
  BY <1>0, <1>1, <1>3, <1>4, QuietPlaces
<1> QED
  BY <1>0, <1>1, <1>3, <1>4, <1>5, StandsNext

\* The grant the driver asks for.
LEMMA SuccessorGranted ==
  ASSUME Bound(q), NEW i \in Items
  PROVE  SuccessorProof(i) \in Grants
<1> DEFINE k == q.lease[i].generation + 1
<1>1. k \in Nat
  BY BoundParts DEF LeaseState
<1> HIDE DEF k
<1>2. SuccessorProof(i) = LeaseProof(Worker, <<i, k>>, k)
  BY DEF SuccessorProof, k
<1> QED
  BY <1>1, <1>2 DEF LeaseProof, Grants

\* prepare_existing_claims: a claim taken up or reclaimed stays the claim it was.
LEMMA PrepareClaimKeeps ==
  ASSUME CascadeInv, PrepareClaim
  PROVE  CascadeInv'
<1>0. /\ run \in [Items -> Run] /\ now \in Nat /\ p \in Invocation /\ p.outcome # "Success"
      /\ Fences(q, run) /\ Authentic(q, run)
  BY InvariantParts DEF PrepareClaim
<1>1. Bound(q) /\ AllReached(q.graph)
  BY BoundPlaces DEF PrepareClaim
<1>2. p.pc = "prepare" /\ run' = run /\ now' = now
  BY DEF PrepareClaim
<1>3. CASE p.todo = {}
  <2> DEFINE u == [p EXCEPT !.todo = Items]
  <2>1. u \in Invocation /\ u.outcome = p.outcome
    BY <1>0 DEF Invocation
  <2>2. q' = q /\ p' = Advance(u, "reconcile")
    BY <1>3 DEF PrepareClaim
  <2> HIDE DEF u
  <2>3. p' \in Invocation /\ p'.pc = "advance" /\ p'.then = "reconcile" /\ p'.outcome = p.outcome
    BY <2>1, <2>2, AdvanceParts DEF Thens
  <2>4. Placed(q', run, p')
    BY <1>0, <1>1, <2>2, <2>3, QuietPlaces DEF Thens
  <2> QED
    BY <1>0, <1>1, <1>2, <2>2, <2>3, <2>4, StandsNext
<1>4. CASE p.todo # {}
  <2> DEFINE i == First(p.todo)
             mine == [p EXCEPT !.todo = p.todo \ {i}, !.owned = p.owned \cup {i}]
             other == [p EXCEPT !.todo = p.todo \ {i}]
             until == p.obs + Ttl
  <2>1. p.todo \in SUBSET Items /\ p.obs \in Nat
    BY <1>0 DEF Invocation
  <2>2. i \in Items
    BY <1>4, <2>1, FirstIsFirst
  <2>3. until \in Nat
    BY <2>1, CascadeAssumption
  <2> HIDE DEF i
  <2>4. /\ mine \in Invocation /\ mine.pc = p.pc /\ mine.outcome = p.outcome
        /\ other \in Invocation /\ other.pc = p.pc /\ other.outcome = p.outcome
    BY <1>0, <2>2 DEF Invocation
  <2>5. \/ q' = q /\ p' = Returned("Error")
        \/ q' = q /\ p' \in {mine, other}
        \/ q' \in LeaseReclaimed(q, i, SuccessorProof(i), p.obs, until) /\ p' = mine
    BY <1>4 DEF PrepareClaim, Journal, i
  <2> HIDE DEF mine, other, until
  <2>6. CASE q' = q /\ p' = Returned("Error")
    BY <1>0, <1>2, <2>6, ReturnKeeps
  <2>7. CASE q' = q /\ p' \in {mine, other}
    <3>1. p' \in Invocation /\ p'.pc = "prepare" /\ p'.outcome = p.outcome
      BY <1>2, <2>4, <2>7
    <3>2. Placed(q', run, p')
      BY <1>0, <1>1, <2>7, <3>1, QuietPlaces
    <3> QED
      BY <1>0, <1>1, <1>2, <2>7, <3>1, <3>2, StandsNext
  <2>8. CASE q' \in LeaseReclaimed(q, i, SuccessorProof(i), p.obs, until) /\ p' = mine
    <3>1. Move(q', q, i, q.phase[i])
      BY <1>1, <2>1, <2>2, <2>3, <2>8, SuccessorGranted, ReclaimedMoves
    <3>2. Fences(q', run) /\ Authentic(q', run) /\ Bound(q')
      BY <1>0, <2>2, <3>1, StayKeeps
    <3>3. p' \in Invocation /\ p'.pc = "prepare" /\ p'.outcome = p.outcome
      BY <1>2, <2>4, <2>8
    <3>4. Placed(q', run, p')
      BY <1>0, <1>1, <3>1, <3>2, <3>3, QuietPlaces DEF Move
    <3> QED
      BY <1>0, <1>2, <3>2, <3>3, <3>4, StandsNext
  <2> QED
    BY <2>5, <2>6, <2>7, <2>8
<1> QED
  BY <1>3, <1>4

\* What a status says of a run: a finalized run stays what it is.
LEMMA StatusParts ==
  ASSUME run \in [Items -> Run], NEW i \in Items, NEW s \in Statuses(i)
  PROVE  /\ s.run \in Run /\ (s.run.launched <=> run[i].launched)
         /\ run[i].status = "finalized" => s.run = run[i]
         /\ s.is = "Finalized" => s.run.status = "finalized"
<1> DEFINE r == run[i]
<1>0. r \in Run
  OBVIOUS
<1>1. s \in subordinate_reconciliation(r) \/ s = [is |-> "Retryable", run |-> r]
  BY DEF Statuses
<1> HIDE DEF r
<1>2. CASE s = [is |-> "Retryable", run |-> r]
  BY <1>0, <1>2 DEF r
<1>3. CASE s \in subordinate_reconciliation(r)
  <2>1. CASE r.status = "finalized"
    BY <1>0, <1>3, <2>1 DEF subordinate_reconciliation, r
  <2>2. CASE r.status = "active"
    BY <1>0, <1>3, <2>2 DEF subordinate_reconciliation, r
  <2>3. CASE r.status = "resumable"
    <3>1. \/ s = [is |-> "Ambiguous", run |-> r]
          \/ \E o \in Reports : s = [is |-> "Finalized",
                                     run |-> [r EXCEPT !.status = "finalized", !.report = o]]
      BY <1>3, <2>3 DEF subordinate_reconciliation
    <3>2. CASE s = [is |-> "Ambiguous", run |-> r]
      BY <1>0, <2>3, <3>2 DEF r
    <3>3. CASE \E o \in Reports : s = [is |-> "Finalized",
                                       run |-> [r EXCEPT !.status = "finalized", !.report = o]]
      <4>1. PICK o \in Reports : s = [is |-> "Finalized",
                                      run |-> [r EXCEPT !.status = "finalized", !.report = o]]
        BY <3>3
      <4> DEFINE t == [r EXCEPT !.status = "finalized", !.report = o]
      <4>2. t \in Run /\ t.status = "finalized" /\ (t.launched <=> r.launched)
        BY <1>0 DEF Run
      <4>3. s.run = t
        BY <4>1
      <4> HIDE DEF t
      <4> QED
        BY <2>3, <4>2, <4>3 DEF r
    <3> QED
      BY <3>1, <3>2, <3>3
  <2>4. CASE r.status \in {"absent", "interrupted"}
    <3>1. s = [is |-> "Ambiguous", run |-> r]
      BY <1>3, <2>4 DEF subordinate_reconciliation
    <3> QED
      BY <1>0, <2>4, <3>1 DEF r
  <2> QED
    BY <1>0, <2>1, <2>2, <2>3, <2>4 DEF Run
<1> QED
  BY <1>1, <1>2, <1>3

\* Asking for a status keeps the fences and the verdicts.
LEMMA StatusKeeps ==
  ASSUME run \in [Items -> Run], NEW i \in Items, NEW s \in Statuses(i),
         run' = [run EXCEPT ![i] = s.run], Fences(q, run), Authentic(q, run)
  PROVE  /\ run' \in [Items -> Run] /\ run'[i] = s.run
         /\ Fences(q, run') /\ Authentic(q, run')
<1> DEFINE t == s.run
<1>1. /\ t \in Run /\ (t.launched <=> run[i].launched)
      /\ run[i].status = "finalized" => t = run[i]
  BY StatusParts
<1> HIDE DEF t
<1>2. /\ run' \in [Items -> Run] /\ run'[i] = t
      /\ \A j \in Items \ {i} : run'[j] = run[j]
  BY <1>1 DEF t
<1>3. Fences(q, run')
  BY <1>1, <1>2 DEF Fences
<1>4. Authentic(q, run')
  <2>1. SUFFICES ASSUME NEW j \in Items, q.phase[j] = "AcknowledgedTerminal"
                 PROVE  run'[j] = run[j]
    BY DEF Authentic
  <2>2. run[j].status = "finalized"
    BY <2>1 DEF Authentic
  <2> QED
    BY <1>1, <1>2, <2>2
<1> QED
  BY <1>2, <1>3, <1>4 DEF t

\* observe_and_acknowledge ends in an error, in the verdict of the run or in a held item.
LEMMA ObserveKeeps ==
  ASSUME Bound(q), now \in Nat, NEW i \in Items, NEW r, r = run'[i], r.status = "finalized",
         r.planned \in BOOLEAN,
         Fences(q, run'), Authentic(q, run'), NEW matched, NEW mismatched,
         observe_and_acknowledge(i, r, matched, mismatched)
  PROVE  /\ now' \in Nat
         /\ \/ q' = q /\ p' = Returned("Error")
            \/ q' = q /\ p' = mismatched
            \/ /\ Bound(q') /\ Fences(q', run') /\ Authentic(q', run')
               /\ AllReached(q.graph) => AllReached(q'.graph)
               /\ \A j \in Items : Resolves(q, j) => Resolves(q', j)
               /\ \/ p' = mismatched
                  \/ Resolves(q', i) /\ p' \in {matched, [matched EXCEPT !.success = FALSE]}
<1> DEFINE known == IF report_success(r.report) THEN matched
                    ELSE [matched EXCEPT !.success = FALSE]
           verdict == branch_outcome(r.report)
           at == now + 1
<1>1. at \in Nat /\ verdict \in {"Success", "Failure"}
  BY DEF branch_outcome
<1>2. CASE r.planned
  <2>1. /\ now' = at
        /\ Journal(LeaseTerminalAcknowledged(q, i, at, verdict), known)
    BY <1>2 DEF observe_and_acknowledge
  <2>2. known \in {matched, [matched EXCEPT !.success = FALSE]}
    OBVIOUS
  <2> HIDE DEF known, verdict, at
  <2>3. CASE q' = q /\ p' = Returned("Error")
    BY <1>1, <2>1, <2>3
  <2>4. CASE q' \in LeaseTerminalAcknowledged(q, i, at, verdict) /\ p' = known
    <3>1. /\ Move(q', q, i, "AcknowledgedTerminal")
          /\ q'.graph.branches[i].last.outcome = verdict
          /\ q.phase[i] # "AcknowledgedTerminal"
      BY <1>1, <2>4, AcknowledgedMoves
    <3>2. Fences(q', run') /\ Authentic(q', run') /\ Bound(q')
      BY <1>2, <3>1, MoveKeeps DEF verdict, Fenced
    <3>3. Resolves(q', i)
      BY <3>1 DEF Move, Changed, Resolves
    <3> QED
      BY <1>1, <2>1, <2>2, <2>4, <3>1, <3>2, <3>3 DEF Move
  <2> QED
    BY <2>1, <2>3, <2>4 DEF Journal
<1>3. CASE ~r.planned
  <2>1. /\ now' = now
        /\ \/ q' = q /\ p' = Returned("Error")
           \/ q' = q /\ p' = mismatched
           \/ q.phase[i] = "DispatchStarted" /\ q' \in LeaseHeldAmbiguous(q, i) /\ p' = mismatched
    BY <1>3 DEF observe_and_acknowledge, Journal
  <2>2. CASE q.phase[i] = "DispatchStarted" /\ q' \in LeaseHeldAmbiguous(q, i) /\ p' = mismatched
    <3>1. Move(q', q, i, "HeldAmbiguous")
      BY <2>2, HeldMoves
    <3>2. Fences(q', run') /\ Authentic(q', run') /\ Bound(q')
      BY <3>1, MoveKeeps DEF Fenced
    <3> QED
      BY <2>1, <2>2, <3>1, <3>2 DEF Move
  <2> QED
    BY <2>1, <2>2
<1> QED
  BY <1>2, <1>3

\* reconcile_started_items: an item moves to the verdict of its run, or it is held.
LEMMA ReconcileItemKeeps ==
  ASSUME CascadeInv, ReconcileItem
  PROVE  CascadeInv'
<1>0. /\ run \in [Items -> Run] /\ now \in Nat /\ p \in Invocation /\ p.outcome # "Success"
      /\ Fences(q, run) /\ Authentic(q, run)
  BY InvariantParts DEF ReconcileItem
<1>1. Bound(q) /\ AllReached(q.graph)
  BY BoundPlaces DEF ReconcileItem
<1>2. p.pc = "reconcile" /\ p.todo # {} /\ p.todo \in SUBSET Items
  BY <1>0 DEF ReconcileItem, Invocation
<1> DEFINE i == First(p.todo)
           rest == [p EXCEPT !.todo = p.todo \ {i}]
           open == [rest EXCEPT !.success = FALSE]
           done == Advance(rest, "reconcile")
<1>3. i \in Items
  BY <1>2, FirstIsFirst
<1> HIDE DEF i
<1>4. rest \in Invocation /\ rest.pc = "reconcile" /\ rest.outcome = p.outcome
  BY <1>0, <1>2 DEF Invocation
<1>5. \/ p' = rest /\ q' = q /\ run' = run /\ now' = now
      \/ \E s \in Statuses(i) :
           /\ run' = [run EXCEPT ![i] = s.run]
           /\ \/ p' \in {rest, open} /\ q' = q /\ now' = now
              \/ s.is = "Finalized" /\ observe_and_acknowledge(i, s.run, done, open)
              \/ /\ q.phase[i] = "DispatchStarted" /\ now' = now
                 /\ Journal(LeaseHeldAmbiguous(q, i), open)
  BY DEF ReconcileItem, i
<1> HIDE DEF rest
<1>6. open \in Invocation /\ open.pc = "reconcile" /\ open.outcome = p.outcome
  BY <1>4 DEF Invocation
<1>7. done \in Invocation /\ done.pc = "advance" /\ done.then = "reconcile" /\ done.outcome = p.outcome
  BY <1>4, AdvanceParts DEF Thens
<1> DEFINE failed == [done EXCEPT !.success = FALSE]
<1> HIDE DEF open, done
<1>8. /\ failed \in Invocation /\ failed.pc = "advance" /\ failed.then = "reconcile"
      /\ failed.outcome = p.outcome
  BY <1>7 DEF Invocation
<1> HIDE DEF failed
<1>9. ASSUME Bound(q'), AllReached(q'.graph), Fences(q', run'), Authentic(q', run'),
             run' \in [Items -> Run], now' \in Nat, p' \in {rest, open, done, failed}
      PROVE  CascadeInv'
  <2>1. /\ p' \in Invocation /\ p'.outcome = p.outcome
        /\ p'.pc = "reconcile" \/ (p'.pc = "advance" /\ p'.then = "reconcile")
    BY <1>4, <1>6, <1>7, <1>8, <1>9
  <2>2. Placed(q', run', p')
    BY <1>0, <1>9, <2>1, QuietPlaces DEF Thens
  <2> QED
    BY <1>0, <1>9, <2>1, <2>2, StandsNext
<1>10. CASE p' = rest /\ q' = q /\ run' = run /\ now' = now
  BY <1>0, <1>1, <1>9, <1>10
<1>11. ASSUME NEW s \in Statuses(i), run' = [run EXCEPT ![i] = s.run],
              \/ p' \in {rest, open} /\ q' = q /\ now' = now
              \/ s.is = "Finalized" /\ observe_and_acknowledge(i, s.run, done, open)
              \/ /\ q.phase[i] = "DispatchStarted" /\ now' = now
                 /\ Journal(LeaseHeldAmbiguous(q, i), open)
       PROVE  CascadeInv'
  <2>1. /\ run' \in [Items -> Run] /\ run'[i] = s.run
        /\ Fences(q, run') /\ Authentic(q, run')
    BY <1>0, <1>3, <1>11, StatusKeeps
  <2>2. s.run \in Run /\ (s.is = "Finalized" => s.run.status = "finalized")
    BY <1>0, <1>3, <1>11, StatusParts
  <2>3. CASE p' \in {rest, open} /\ q' = q /\ now' = now
    BY <1>0, <1>1, <1>9, <2>1, <2>3
  <2>4. CASE s.is = "Finalized" /\ observe_and_acknowledge(i, s.run, done, open)
    <3>1. s.run.planned \in BOOLEAN /\ s.run.status = "finalized"
      BY <2>2, <2>4 DEF Run
    <3>2. /\ now' \in Nat
          /\ \/ q' = q /\ p' = Returned("Error")
             \/ q' = q /\ p' = open
             \/ /\ Bound(q') /\ Fences(q', run') /\ Authentic(q', run')
                /\ AllReached(q.graph) => AllReached(q'.graph)
                /\ \A j \in Items : Resolves(q, j) => Resolves(q', j)
                /\ \/ p' = open
                   \/ Resolves(q', i) /\ p' \in {done, [done EXCEPT !.success = FALSE]}
      BY <1>0, <1>1, <1>3, <2>1, <2>4, <3>1, ObserveKeeps
    <3>3. CASE q' = q /\ p' = Returned("Error")
      BY <1>2, <2>1, <3>2, <3>3, ReturnKeeps
    <3>4. CASE ~(q' = q /\ p' = Returned("Error"))
      <4>1. p' \in {rest, open, done, failed}
        BY <3>2, <3>4 DEF failed
      <4> QED
        BY <1>1, <1>9, <2>1, <3>2, <3>4, <4>1
    <3> QED
      BY <3>3, <3>4
  <2>5. CASE /\ q.phase[i] = "DispatchStarted" /\ now' = now
             /\ Journal(LeaseHeldAmbiguous(q, i), open)
    <3>1. CASE q' = q /\ p' = Returned("Error")
      BY <1>0, <1>2, <2>1, <2>5, <3>1, ReturnKeeps
    <3>2. CASE q' \in LeaseHeldAmbiguous(q, i) /\ p' = open
      <4>1. Move(q', q, i, "HeldAmbiguous")
        BY <1>1, <1>3, <3>2, HeldMoves
      <4>2. Fences(q', run') /\ Authentic(q', run') /\ Bound(q')
        BY <1>3, <2>1, <2>5, <4>1, MoveKeeps DEF Fenced
      <4> QED
        BY <1>0, <1>1, <1>9, <2>1, <2>5, <3>2, <4>1, <4>2 DEF Move
    <3> QED
      BY <2>5, <3>1, <3>2 DEF Journal
  <2> QED
    BY <1>11, <2>3, <2>4, <2>5
<1> QED
  BY <1>5, <1>10, <1>11

\* The reconciliation is over.
LEMMA ReconcileDoneKeeps ==
  ASSUME CascadeInv, ReconcileDone
  PROVE  CascadeInv'
<1>0. /\ run \in [Items -> Run] /\ now \in Nat /\ p \in Invocation /\ p.outcome # "Success"
      /\ Fences(q, run) /\ Authentic(q, run) /\ Bound(q)
  BY InvariantParts, BoundPlaces DEF ReconcileDone
<1>1. p' = Advance(p, "admit") /\ q' = q /\ run' = run /\ now' = now
  BY DEF ReconcileDone
<1>2. p' \in Invocation /\ p'.pc = "advance" /\ p'.then = "admit" /\ p'.outcome = p.outcome
  BY <1>0, <1>1, AdvanceParts DEF Thens
<1>3. Placed(q', run', p')
  BY <1>0, <1>1, <1>2, QuietPlaces DEF Thens
<1> QED
  BY <1>0, <1>1, <1>2, <1>3, StandsNext

\* An enqueued item whose task was reached is pending.
LEMMA EnqueuedIsPending ==
  ASSUME NEW c, Bound(c), AllReached(c.graph), NEW i \in Items, c.phase[i] = "Enqueued"
  PROVE  item_is_pending(c, i)
<1> DEFINE g == c.graph
           b == g.branches[i]
<1>1. GraphOK(g) /\ Story(c, i) /\ c.phase[i] = "Enqueued"
  BY BoundParts
<1>2. Waiting(b)
  BY <1>1 DEF Story, Tells
<1>3. ~b.running /\ b.last.visit = 0
  BY <1>2 DEF Waiting, NoAttempt
<1>4. /\ g \in GraphState /\ i \in Nodes(Licensed)
      /\ g.routed[i] <= b.last.visit /\ g.visits[i] > 0
      /\ g.terminated # None => ActiveNodes(g) = {}
  BY <1>1, LicensedFacts DEF GraphOK, Validated, AllReached
<1>5. g.routed[i] \in Nat /\ g.visits[i] \in Nat /\ g.def = Licensed
  BY <1>4 DEF GraphState
<1>6. i \in ActiveNodes(g) /\ b.last.visit < g.visits[i]
  BY <1>3, <1>4, <1>5 DEF ActiveNodes
<1>7. g # None
  BY <1>4, AbsentStates
<1> QED
  BY <1>1, <1>3, <1>4, <1>6, <1>7 DEF item_is_pending

\* Nothing is admitted past an unresolved item, and what is left out is acknowledged.
LEMMA AdmitKeeps ==
  ASSUME CascadeInv, Admit
  PROVE  CascadeInv'
<1>0. /\ run \in [Items -> Run] /\ now \in Nat /\ p \in Invocation /\ p.outcome # "Success"
      /\ Fences(q, run) /\ Authentic(q, run) /\ Bound(q) /\ AllReached(q.graph)
  BY InvariantParts, BoundPlaces DEF Admit
<1>1. q' = q /\ run' = run /\ now' = now
  BY DEF Admit
<1>2. CASE follow_up_dispatch_unresolved
  <2>1. p' = Finish(p)
    BY <1>2 DEF Admit
  <2>2. p' \in Invocation /\ p'.pc = "advance" /\ p'.then = "report" /\ p'.outcome = p.outcome
    BY <1>0, <2>1, FinishParts
  <2>3. Placed(q', run', p')
    BY <1>0, <1>1, <2>2, QuietPlaces DEF Thens
  <2> QED
    BY <1>0, <1>1, <2>2, <2>3, StandsNext
<1>3. CASE ~follow_up_dispatch_unresolved
  <2> DEFINE S == graph_dispatch_pending_items
  <2>1. p' = [p EXCEPT !.pc = "select", !.todo = S] /\ S \in SUBSET Items
    BY <1>3 DEF Admit, graph_dispatch_pending_items
  <2>2. ASSUME NEW i \in Items \ S PROVE Resolves(q, i)
    <3>1. ~item_is_pending(q, i) /\ ~owns_claim(i)
      BY <2>2 DEF graph_dispatch_pending_items
    <3>2. q.phase[i] # "Enqueued"
      BY <1>0, <3>1, EnqueuedIsPending
    <3>3. q.phase[i] \notin {"DispatchStarted", "HeldAmbiguous", "Claimed"}
      BY <1>3, <3>1 DEF follow_up_dispatch_unresolved
    <3> QED
      BY <1>0, <3>2, <3>3, BoundParts DEF Story, Tells, Resolves
  <2> HIDE DEF S
  <2>3. p' \in Invocation /\ p'.pc = "select" /\ p'.todo = S /\ p'.outcome = p.outcome
    BY <1>0, <2>1 DEF Invocation, Pcs, Thens
  <2>4. Placed(q', run', p')
    BY <1>0, <1>1, <2>2, <2>3 DEF Placed, Dispatching, Effecting
  <2> QED
    BY <1>0, <1>1, <2>3, <2>4, StandsNext
<1> QED
  BY <1>2, <1>3

-----------------------------------------------------------------------------
(* The dispatch of an item.                                                 *)

\* The invocation dispatches p.item, and what stands before it is resolved.
LEMMA DispatchParts ==
  ASSUME CascadeInv, p.pc \in Dispatching
  PROVE  /\ run \in [Items -> Run] /\ now \in Nat /\ p \in Invocation /\ p.outcome # "Success"
         /\ Fences(q, run) /\ Authentic(q, run) /\ Bound(q) /\ AllReached(q.graph)
         /\ Placed(q, run, p) /\ p.item \in Items /\ p.pc # "idle"
         /\ \A i \in Items : Before(i, p.item) => Resolves(q, i)
         /\ p.pc \in Effecting => q.phase[p.item] = "DispatchStarted"
<1>1. p.pc \notin {"idle", "enqueue", "graph", "advance"}
  BY DEF Dispatching, Effecting
<1> QED
  BY <1>1, InvariantParts, BoundPlaces DEF Placed

\* The dispatch goes on with the same item.
LEMMA DispatchPlaces ==
  ASSUME NEW c, NEW r, NEW v, Placed(c, r, v), v.pc \in Dispatching,
         NEW x, Bound(x), AllReached(x.graph),
         \A i \in Items : Resolves(c, i) => Resolves(x, i),
         NEW s, NEW w, w.pc \in Dispatching, w.item = v.item, w.todo = v.todo,
         w.outcome = v.outcome,
         w.pc \in Effecting => x.phase[w.item] = "DispatchStarted",
         w.pc = "settle" => (w.ok => s[w.item].status = "finalized")
  PROVE  Placed(x, s, w)
<1>1. /\ v.item \in Items /\ v.outcome # "Success"
      /\ \A i \in Items \ (v.todo \cup {v.item}) : Resolves(c, i)
      /\ \A i \in Items : Before(i, v.item) => Resolves(c, i)
  BY DEF Placed, Dispatching, Effecting
<1>2. w.pc \notin {"idle", "enqueue", "graph", "advance", "select"}
  BY DEF Dispatching, Effecting
<1> QED
  BY <1>1, <1>2 DEF Placed

\* The first pending item is selected: what stands before it is acknowledged.
LEMMA SelectKeeps ==
  ASSUME CascadeInv, Select
  PROVE  CascadeInv'
<1>0. /\ run \in [Items -> Run] /\ now \in Nat /\ p \in Invocation /\ p.outcome # "Success"
      /\ Fences(q, run) /\ Authentic(q, run) /\ Bound(q) /\ AllReached(q.graph)
      /\ Placed(q, run, p)
  BY InvariantParts, BoundPlaces DEF Select
<1>1. q' = q /\ run' = run /\ now' = now /\ p.pc = "select"
  BY DEF Select
<1>2. \A i \in Items \ p.todo : Resolves(q, i)
  BY <1>0, <1>1 DEF Placed
<1>3. CASE p.todo = {}
  <2>1. p' = Advance(p, "report")
    BY <1>3 DEF Select
  <2>2. p' \in Invocation /\ p'.pc = "advance" /\ p'.then = "report" /\ p'.outcome = p.outcome
    BY <1>0, <2>1, AdvanceParts DEF Thens
  <2>3. Placed(q', run', p')
    BY <1>0, <1>1, <2>2, QuietPlaces DEF Thens
  <2> QED
    BY <1>0, <1>1, <2>2, <2>3, StandsNext
<1>4. CASE p.todo # {}
  <2> DEFINE i == First(p.todo)
             T == p.todo \ {i}
  <2>1. p.todo \in SUBSET Items
    BY <1>0 DEF Invocation
  <2>2. i \in p.todo /\ \A j \in Items : Before(j, i) => j \notin p.todo
    BY <1>4, <2>1, FirstIsFirst
  <2>3. p' = [p EXCEPT !.pc = "ready", !.item = i, !.todo = T]
    BY <1>4 DEF Select
  <2> HIDE DEF i
  <2>4. T \in SUBSET Items /\ p.todo = T \cup {i} /\ i \in Items
    BY <2>1, <2>2
  <2> HIDE DEF T
  <2>5. /\ p' \in Invocation /\ p'.pc = "ready" /\ p'.item = i /\ p'.todo = T
        /\ p'.outcome = p.outcome
    BY <1>0, <2>3, <2>4 DEF Invocation, Pcs, Dispatching
  <2>6. Placed(q', run', p')
    BY <1>0, <1>1, <1>2, <2>2, <2>4, <2>5 DEF Placed, Dispatching, Effecting
  <2> QED
    BY <1>0, <1>1, <2>5, <2>6, StandsNext
<1> QED
  BY <1>3, <1>4

\* The preparation finds the item ready.
LEMMA PreparationReadyKeeps ==
  ASSUME CascadeInv, PreparationReady
  PROVE  CascadeInv'
<1>0. /\ run \in [Items -> Run] /\ now \in Nat /\ p \in Invocation /\ p.outcome # "Success"
      /\ Fences(q, run) /\ Authentic(q, run) /\ Bound(q) /\ AllReached(q.graph)
      /\ Placed(q, run, p) /\ p.pc \in Dispatching
  BY DispatchParts DEF PreparationReady, Dispatching
<1>1. q' = q /\ run' = run /\ now' = now /\ p' = [p EXCEPT !.pc = "claim"]
  BY DEF PreparationReady
<1>2. /\ p' \in Invocation /\ p'.pc = "claim" /\ p'.item = p.item /\ p'.todo = p.todo
      /\ p'.outcome = p.outcome
  BY <1>0, <1>1 DEF Invocation, Pcs, Dispatching
<1>3. Placed(q', run', p')
  BY <1>0, <1>1, <1>2, DispatchPlaces DEF Dispatching, Effecting
<1> QED
  BY <1>0, <1>1, <1>2, <1>3, StandsNext

\* A refusal before the marker leaves every item where it is.
LEMMA RefuseKeeps ==
  ASSUME CascadeInv, p.pc \in Dispatching, NEW next \in {Finish(p), Returned("Error")},
         Refuse(p.item, next), run' = run
  PROVE  CascadeInv'
<1>0. /\ run \in [Items -> Run] /\ now \in Nat /\ p \in Invocation /\ p.outcome # "Success"
      /\ Fences(q, run) /\ Authentic(q, run) /\ Bound(q) /\ p.item \in Items /\ p.pc # "idle"
  BY DispatchParts
<1> DEFINE i == p.item
           refused == PreparationWhileEnqueued(q, i) \cup PreparationWhileClaimed(q, i)
<1>1. now' \in Nat
  BY <1>0 DEF Refuse
<1>2. \/ q' = q /\ p' = Returned("Error")
      \/ q' \in refused /\ p' = next
  BY DEF Refuse, Journal
<1>3. CASE q' = q /\ p' = Returned("Error")
  BY <1>0, <1>1, <1>3, ReturnKeeps
<1>4. CASE q' \in refused /\ p' = next
  <2>1. Move(q', q, i, q.phase[i])
    BY <1>0, <1>4, PreparationMoves
  <2>2. Fences(q', run) /\ Authentic(q', run) /\ Bound(q')
    BY <1>0, <2>1, StayKeeps
  <2>3. /\ p' \in Invocation /\ p'.outcome # "Success"
        /\ p'.pc = "idle" \/ (p'.pc = "advance" /\ p'.then = "report")
    <3>1. CASE next = Finish(p)
      BY <1>0, <1>4, <3>1, FinishParts
    <3>2. CASE next = Returned("Error")
      BY <1>4, <3>2, ReturnedParts
    <3> QED
      BY <3>1, <3>2
  <2>4. Placed(q', run, p')
    BY <2>2, <2>3, QuietPlaces DEF Thens
  <2> QED
    BY <1>0, <1>1, <2>2, <2>3, <2>4, StandsNext
<1> QED
  BY <1>2, <1>3, <1>4

\* The preparation is refused.
LEMMA PreparationRefusedKeeps ==
  ASSUME CascadeInv, PreparationRefused
  PROVE  CascadeInv'
BY RefuseKeeps DEF PreparationRefused, Dispatching

\* The check between the claim and the marker is refused.
LEMMA RecheckRefusedKeeps ==
  ASSUME CascadeInv, RecheckRefused
  PROVE  CascadeInv'
BY RefuseKeeps DEF RecheckRefused, Dispatching

\* claim_prepared claims the item and starts its attempt.
LEMMA ClaimPreparedKeeps ==
  ASSUME CascadeInv, ClaimPrepared
  PROVE  CascadeInv'
<1>0. /\ run \in [Items -> Run] /\ now \in Nat /\ p \in Invocation /\ p.outcome # "Success"
      /\ Fences(q, run) /\ Authentic(q, run) /\ Bound(q) /\ AllReached(q.graph)
      /\ Placed(q, run, p) /\ p.item \in Items /\ p.pc # "idle" /\ p.pc \in Dispatching
      /\ \A k \in Items : Before(k, p.item) => Resolves(q, k)
  BY DispatchParts DEF ClaimPrepared, Dispatching
<1> DEFINE i == p.item
           at == now + 1
           until == at + Ttl
           mine == [p EXCEPT !.pc = "recheck", !.owned = p.owned \cup {i}]
<1>1. at \in Nat /\ until \in Nat
  BY <1>0, CascadeAssumption
<1>2. /\ now' = at /\ run' = run
      /\ \/ q' = q /\ p' = Returned("Error")
         \/ q' = q /\ p' = mine
         \/ q' \in LeaseClaimed(q, i, SuccessorProof(i), at, until) /\ p' = mine
  BY DEF ClaimPrepared, Journal
<1>3. /\ mine \in Invocation /\ mine.pc = "recheck" /\ mine.item = p.item
      /\ mine.todo = p.todo /\ mine.outcome = p.outcome
  BY <1>0 DEF Invocation, Pcs, Dispatching
<1> HIDE DEF at, until, mine
<1>4. CASE q' = q /\ p' = Returned("Error")
  BY <1>0, <1>1, <1>2, <1>4, ReturnKeeps
<1>5. CASE q' = q /\ p' = mine
  <2>1. Placed(q', run', p')
    BY <1>0, <1>2, <1>3, <1>5, DispatchPlaces DEF Dispatching, Effecting
  <2> QED
    BY <1>0, <1>1, <1>2, <1>3, <1>5, <2>1, StandsNext
<1>6. CASE q' \in LeaseClaimed(q, i, SuccessorProof(i), at, until) /\ p' = mine
  <2>1. Move(q', q, i, "Claimed") /\ q.phase[i] = "Enqueued"
    BY <1>0, <1>1, <1>6, SuccessorGranted, ClaimedMoves
  <2>2. Fences(q', run) /\ Authentic(q', run) /\ Bound(q')
    BY <1>0, <2>1, MoveKeeps DEF Fenced
  <2>3. AllReached(q'.graph) /\ \A j \in Items : Resolves(q, j) => Resolves(q', j)
    BY <1>0, <2>1 DEF Move
  <2>4. Placed(q', run', p')
    BY <1>0, <1>2, <1>3, <1>6, <2>2, <2>3, DispatchPlaces DEF Dispatching, Effecting
  <2> QED
    BY <1>0, <1>1, <1>2, <1>3, <1>6, <2>2, <2>4, StandsNext
<1> QED
  BY <1>2, <1>4, <1>5, <1>6

\* mark_effect_started fences the lease before anything is launched.
LEMMA MarkEffectStartedKeeps ==
  ASSUME CascadeInv, MarkEffectStarted
  PROVE  CascadeInv'
<1>0. /\ run \in [Items -> Run] /\ now \in Nat /\ p \in Invocation /\ p.outcome # "Success"
      /\ Fences(q, run) /\ Authentic(q, run) /\ Bound(q) /\ AllReached(q.graph)
      /\ Placed(q, run, p) /\ p.item \in Items /\ p.pc # "idle" /\ p.pc \in Dispatching
  BY DispatchParts DEF MarkEffectStarted, Dispatching
<1> DEFINE i == p.item
           w == [p EXCEPT !.pc = "heartbeat"]
<1>1. q.lease[i].at \in Nat
  BY <1>0, BoundParts DEF LeaseState
<1>2. PICK at \in {now + 1, q.lease[i].at + 1} :
           now' = at /\ Journal(LeaseEffectStarted(q, i, at), w)
  BY DEF MarkEffectStarted
<1>3. at \in Nat /\ run' = run
  BY <1>0, <1>1 DEF MarkEffectStarted
<1>4. /\ w \in Invocation /\ w.pc = "heartbeat" /\ w.item = p.item
      /\ w.todo = p.todo /\ w.outcome = p.outcome
  BY <1>0 DEF Invocation, Pcs, Dispatching, Effecting
<1> HIDE DEF w
<1>5. CASE q' = q /\ p' = Returned("Error")
  BY <1>0, <1>2, <1>3, <1>5, ReturnKeeps
<1>6. CASE q' \in LeaseEffectStarted(q, i, at) /\ p' = w
  <2>1. Move(q', q, i, "DispatchStarted")
    BY <1>0, <1>3, <1>6, EffectStartedMoves
  <2>2. Fences(q', run) /\ Authentic(q', run) /\ Bound(q')
    BY <1>0, <2>1, MoveKeeps DEF Fenced
  <2>3. AllReached(q'.graph) /\ \A j \in Items : Resolves(q, j) => Resolves(q', j)
    BY <1>0, <2>1 DEF Move
  <2>4. q'.phase[p'.item] = "DispatchStarted"
    BY <1>4, <1>6, <2>1 DEF Move, Changed
  <2>5. Placed(q', run', p')
    BY <1>0, <1>3, <1>4, <1>6, <2>2, <2>3, <2>4, DispatchPlaces DEF Dispatching, Effecting
  <2> QED
    BY <1>0, <1>2, <1>3, <1>4, <1>6, <2>2, <2>5, StandsNext
<1> QED
  BY <1>2, <1>5, <1>6 DEF Journal

\* A heartbeat of the item being dispatched.
LEMMA BeatKeeps ==
  ASSUME CascadeInv, p.pc \in Effecting, run' = run, now' \in Nat,
         NEW at \in Nat, NEW until \in Nat, q' \in LeaseHeartbeat(q, p.item, at, until),
         p' \in Invocation, p'.pc \in Effecting \ {"settle"}, p'.item = p.item, p'.todo = p.todo,
         p'.outcome = p.outcome
  PROVE  CascadeInv'
<1>0. /\ run \in [Items -> Run] /\ p.outcome # "Success"
      /\ Fences(q, run) /\ Authentic(q, run) /\ Bound(q) /\ AllReached(q.graph)
      /\ Placed(q, run, p) /\ p.item \in Items /\ p.pc \in Dispatching
      /\ q.phase[p.item] = "DispatchStarted"
  BY DispatchParts DEF Dispatching
<1>1. Move(q', q, p.item, q.phase[p.item])
  BY <1>0, HeartbeatMoves
<1>2. Fences(q', run) /\ Authentic(q', run) /\ Bound(q')
  BY <1>0, <1>1, StayKeeps
<1>3. /\ AllReached(q'.graph) /\ \A j \in Items : Resolves(q, j) => Resolves(q', j)
      /\ q'.phase[p'.item] = "DispatchStarted"
  BY <1>0, <1>1 DEF Move, Changed
<1>4. Placed(q', run', p')
  BY <1>0, <1>2, <1>3, DispatchPlaces DEF Dispatching
<1> QED
  BY <1>0, <1>2, <1>4, StandsNext

\* A step of the dispatch that appends nothing.
LEMMA EffectKeeps ==
  ASSUME CascadeInv, p.pc \in Effecting, q' = q, run' \in [Items -> Run], now' \in Nat,
         Fences(q, run'), Authentic(q, run'),
         p' \in Invocation, p'.pc \in Effecting, p'.item = p.item, p'.todo = p.todo,
         p'.outcome = p.outcome,
         p'.pc = "settle" => (p'.ok => run'[p.item].status = "finalized")
  PROVE  CascadeInv'
<1>0. /\ p.outcome # "Success" /\ Bound(q) /\ AllReached(q.graph)
      /\ Placed(q, run, p) /\ p.item \in Items /\ p.pc \in Dispatching
      /\ q.phase[p.item] = "DispatchStarted"
  BY DispatchParts DEF Dispatching
<1>1. Placed(q', run', p')
  BY <1>0, DispatchPlaces DEF Dispatching
<1> QED
  BY <1>0, <1>1, StandsNext

\* with_heartbeat: the first heartbeat.
LEMMA InitialHeartbeatKeeps ==
  ASSUME CascadeInv, InitialHeartbeat
  PROVE  CascadeInv'
<1>0. /\ run \in [Items -> Run] /\ now \in Nat /\ p \in Invocation
      /\ Fences(q, run) /\ Authentic(q, run) /\ p.pc \in Effecting
  BY DispatchParts DEF InitialHeartbeat, Dispatching, Effecting
<1> DEFINE at == now + 1
           until == at + Ttl
           lost == [p EXCEPT !.pc = "settle", !.ok = FALSE]
           kept == [p EXCEPT !.pc = "launch", !.ok = TRUE, !.beats = 0]
<1>1. at \in Nat /\ until \in Nat
  BY <1>0, CascadeAssumption
<1>2. /\ now' = at /\ run' = run
      /\ \/ q' = q /\ p' = lost
         \/ q' \in LeaseHeartbeat(q, p.item, at, until) /\ p' = kept
  BY DEF InitialHeartbeat
<1>3. /\ lost \in Invocation /\ lost.pc = "settle" /\ ~lost.ok /\ lost.item = p.item
      /\ lost.todo = p.todo /\ lost.outcome = p.outcome
  BY <1>0 DEF Invocation, Pcs, Dispatching, Effecting
<1>4. /\ kept \in Invocation /\ kept.pc = "launch" /\ kept.item = p.item
      /\ kept.todo = p.todo /\ kept.outcome = p.outcome
  BY <1>0 DEF Invocation, Pcs, Dispatching, Effecting
<1> HIDE DEF at, until, lost, kept
<1>5. CASE q' = q /\ p' = lost
  BY <1>0, <1>1, <1>2, <1>3, <1>5, EffectKeeps DEF Effecting
<1>6. CASE q' \in LeaseHeartbeat(q, p.item, at, until) /\ p' = kept
  BY <1>0, <1>1, <1>2, <1>4, <1>6, BeatKeeps DEF Effecting
<1> QED
  BY <1>2, <1>5, <1>6

\* The heartbeats of the thread.
LEMMA HeartbeatKeeps ==
  ASSUME CascadeInv, Heartbeat
  PROVE  CascadeInv'
<1>0. /\ run \in [Items -> Run] /\ now \in Nat /\ p \in Invocation
      /\ Fences(q, run) /\ Authentic(q, run) /\ p.pc \in Effecting /\ p.pc = "running"
  BY DispatchParts DEF Heartbeat, Dispatching, Effecting
<1> DEFINE at == now + 1
           until == at + Ttl
           more == p.beats + 1
           lost == [p EXCEPT !.ok = FALSE]
           kept == [p EXCEPT !.beats = more]
<1>1. at \in Nat /\ until \in Nat
  BY <1>0, CascadeAssumption
<1>2. more \in Nat
  BY <1>0 DEF Invocation
<1>3. /\ now' = at /\ run' = run
      /\ \/ q' = q /\ p' = lost
         \/ q' \in LeaseHeartbeat(q, p.item, at, until) /\ p' = kept
  BY DEF Heartbeat
<1>4. /\ lost \in Invocation /\ lost.pc = "running" /\ lost.item = p.item
      /\ lost.todo = p.todo /\ lost.outcome = p.outcome
  BY <1>0 DEF Invocation
<1> HIDE DEF at, until, lost, more
<1>5. /\ kept \in Invocation /\ kept.pc = "running" /\ kept.item = p.item
      /\ kept.todo = p.todo /\ kept.outcome = p.outcome
  BY <1>0, <1>2 DEF Invocation
<1> HIDE DEF kept
<1>6. CASE q' = q /\ p' = lost
  BY <1>0, <1>1, <1>3, <1>4, <1>6, EffectKeeps DEF Effecting
<1>7. CASE q' \in LeaseHeartbeat(q, p.item, at, until) /\ p' = kept
  BY <1>0, <1>1, <1>3, <1>5, <1>7, BeatKeeps DEF Effecting
<1> QED
  BY <1>3, <1>6, <1>7

\* A run that moves on without a verdict having been taken from it.
LEMMA RunMoves ==
  ASSUME NEW c, NEW r, NEW s, NEW i \in Items, \A j \in Items \ {i} : s[j] = r[j],
         Fences(c, r), Authentic(c, r),
         s[i].launched => c.phase[i] \in Fenced,
         c.phase[i] # "AcknowledgedTerminal" \/ r[i].status # "finalized"
  PROVE  Fences(c, s) /\ Authentic(c, s)
<1>1. Fences(c, s)
  <2>1. SUFFICES ASSUME NEW j \in Items, s[j].launched PROVE c.phase[j] \in Fenced
    BY DEF Fences
  <2>2. CASE j = i
    BY <2>1, <2>2
  <2>3. CASE j # i
    BY <2>1, <2>3 DEF Fences
  <2> QED
    BY <2>2, <2>3
<1>2. Authentic(c, s)
  <2>1. SUFFICES ASSUME NEW j \in Items, c.phase[j] = "AcknowledgedTerminal"
                 PROVE  j # i
    BY DEF Authentic
  <2>2. r[j].status = "finalized"
    BY <2>1 DEF Authentic
  <2> QED
    BY <2>1, <2>2
<1> QED
  BY <1>1, <1>2

\* The subordinate is launched behind the marker.
LEMMA LaunchKeeps ==
  ASSUME CascadeInv, Launch
  PROVE  CascadeInv'
<1>0. /\ run \in [Items -> Run] /\ now \in Nat /\ p \in Invocation
      /\ Fences(q, run) /\ Authentic(q, run) /\ p.pc \in Effecting /\ p.item \in Items
      /\ q.phase[p.item] = "DispatchStarted"
  BY DispatchParts DEF Launch, Dispatching, Effecting
<1> DEFINE i == p.item
           t == [run[i] EXCEPT !.status = "active", !.launched = TRUE]
           started == [p EXCEPT !.pc = "running"]
           lost == [p EXCEPT !.pc = "settle", !.ok = FALSE]
<1>1. /\ lost \in Invocation /\ lost.pc = "settle" /\ ~lost.ok /\ lost.item = p.item
      /\ lost.todo = p.todo /\ lost.outcome = p.outcome
  BY <1>0 DEF Invocation, Pcs, Dispatching, Effecting
<1>2. /\ started \in Invocation /\ started.pc = "running" /\ started.item = p.item
      /\ started.todo = p.todo /\ started.outcome = p.outcome
  BY <1>0 DEF Invocation, Pcs, Dispatching, Effecting
<1>3. run[i] \in Run
  BY <1>0
<1>f. q.phase[i] \in Fenced /\ q.phase[i] # "AcknowledgedTerminal"
  BY <1>0 DEF Fenced
<1>4. t \in Run
  BY <1>3 DEF Run
<1>5. /\ now' = now /\ q' = q
      /\ \/ run' = [run EXCEPT ![i] = t] /\ p' = started
         \/ run' = run /\ p' = lost
  BY <1>0 DEF Launch
<1> HIDE DEF t, started, lost
<1>6. CASE run' = [run EXCEPT ![i] = t] /\ p' = started
  <2>1. run' \in [Items -> Run] /\ Fences(q, run') /\ Authentic(q, run')
    <3>1. run' \in [Items -> Run] /\ \A j \in Items \ {i} : run'[j] = run[j]
      BY <1>0, <1>4, <1>6
    <3> QED
      BY <1>0, <1>f, <3>1, RunMoves
  <2> QED
    BY <1>0, <1>2, <1>5, <1>6, <2>1, EffectKeeps DEF Effecting
<1>7. CASE run' = run /\ p' = lost
  BY <1>0, <1>1, <1>5, <1>7, EffectKeeps DEF Effecting
<1> QED
  BY <1>5, <1>6, <1>7

\* The run returns, with a final report or without one.
LEMMA RunReturnsKeeps ==
  ASSUME CascadeInv, RunReturns
  PROVE  CascadeInv'
<1>0. /\ run \in [Items -> Run] /\ now \in Nat /\ p \in Invocation
      /\ Fences(q, run) /\ Authentic(q, run) /\ p.pc \in Effecting /\ p.item \in Items
      /\ q.phase[p.item] = "DispatchStarted"
  BY DispatchParts DEF RunReturns, Dispatching, Effecting
<1> DEFINE i == p.item
           told == [p EXCEPT !.pc = "settle"]
           lost == [p EXCEPT !.pc = "settle", !.ok = FALSE]
<1>1. /\ lost \in Invocation /\ lost.pc = "settle" /\ ~lost.ok /\ lost.item = p.item
      /\ lost.todo = p.todo /\ lost.outcome = p.outcome
  BY <1>0 DEF Invocation, Pcs, Dispatching, Effecting
<1>2. /\ told \in Invocation /\ told.pc = "settle" /\ told.item = p.item
      /\ told.todo = p.todo /\ told.outcome = p.outcome
  BY <1>0 DEF Invocation, Pcs, Dispatching, Effecting
<1>3. run[i] \in Run /\ now' = now /\ q' = q
  BY <1>0 DEF RunReturns
<1>f. q.phase[i] \in Fenced /\ q.phase[i] # "AcknowledgedTerminal"
  BY <1>0 DEF Fenced
<1>4. \/ \E o \in Reports : /\ run' = [run EXCEPT ![i] = [run[i] EXCEPT !.status = "finalized", !.report = o]]
                            /\ p' = told
      \/ \E s \in {"interrupted", "resumable"} :
            /\ run' = [run EXCEPT ![i] = [run[i] EXCEPT !.status = s]]
            /\ p' = lost
  BY <1>0 DEF RunReturns
<1> HIDE DEF told, lost
<1>5. ASSUME NEW o \in Reports,
             run' = [run EXCEPT ![i] = [run[i] EXCEPT !.status = "finalized", !.report = o]],
             p' = told
      PROVE  CascadeInv'
  <2> DEFINE t == [run[i] EXCEPT !.status = "finalized", !.report = o]
  <2>1. t \in Run /\ t.status = "finalized"
    BY <1>3 DEF Run
  <2>2. run' = [run EXCEPT ![i] = t]
    BY <1>5
  <2> HIDE DEF t
  <2>3. run' \in [Items -> Run] /\ run'[i] = t /\ Fences(q, run') /\ Authentic(q, run')
    <3>1. run' \in [Items -> Run] /\ run'[i] = t /\ \A j \in Items \ {i} : run'[j] = run[j]
      BY <1>0, <2>1, <2>2
    <3> QED
      BY <1>0, <1>f, <3>1, RunMoves
  <2> QED
    BY <1>0, <1>2, <1>3, <1>5, <2>1, <2>3, EffectKeeps DEF Effecting
<1>6. ASSUME NEW s \in {"interrupted", "resumable"},
             run' = [run EXCEPT ![i] = [run[i] EXCEPT !.status = s]], p' = lost
      PROVE  CascadeInv'
  <2> DEFINE t == [run[i] EXCEPT !.status = s]
  <2>1. t \in Run
    BY <1>3 DEF Run
  <2>2. run' = [run EXCEPT ![i] = t]
    BY <1>6
  <2> HIDE DEF t
  <2>3. run' \in [Items -> Run] /\ Fences(q, run') /\ Authentic(q, run')
    <3>1. run' \in [Items -> Run] /\ \A j \in Items \ {i} : run'[j] = run[j]
      BY <1>0, <2>1, <2>2
    <3> QED
      BY <1>0, <1>f, <3>1, RunMoves
  <2> QED
    BY <1>0, <1>1, <1>3, <1>6, <2>3, EffectKeeps DEF Effecting
<1> QED
  BY <1>4, <1>5, <1>6

\* After a verdict the invocation selects the next sibling, or it reports.
LEMMA MatchedParts ==
  ASSUME NEW v \in Invocation, NEW report,
         NEW w, w = NextSibling([v EXCEPT !.success = v.success /\ report_success(report)])
  PROVE  /\ w \in Invocation /\ w.pc = "advance" /\ w.then \in {"select", "report"}
         /\ w.todo = v.todo /\ w.outcome = v.outcome
<1> DEFINE b == v.success /\ report_success(report)
           u == [v EXCEPT !.success = b]
           t == IF u.success THEN "select" ELSE "report"
<1>1. b \in BOOLEAN
  BY DEF report_success, Invocation
<1>2. w = Advance(u, t)
  BY DEF NextSibling
<1>3. t \in {"select", "report"} /\ t \in Thens
  BY DEF Thens
<1> HIDE DEF b, t
<1>4. u \in Invocation /\ u.todo = v.todo /\ u.outcome = v.outcome
  BY <1>1 DEF Invocation
<1> HIDE DEF u
<1> QED
  BY <1>2, <1>3, <1>4, AdvanceParts

\* The cascade goes on after the item it dispatched.
LEMMA SettledPlaces ==
  ASSUME NEW c, NEW r, NEW v, Placed(c, r, v), v.pc = "settle",
         NEW x, Bound(x), \A i \in Items : Resolves(c, i) => Resolves(x, i),
         NEW s, NEW w, w.pc = "advance", w.outcome # "Success",
         \/ w.then = "report"
         \/ w.then = "select" /\ w.todo = v.todo /\ Resolves(x, v.item)
  PROVE  Placed(x, s, w)
<1>1. \A i \in Items \ (v.todo \cup {v.item}) : Resolves(c, i)
  BY DEF Placed, Dispatching, Effecting
<1>2. CASE w.then = "report"
  BY <1>2, QuietPlaces DEF Thens
<1>3. CASE w.then = "select" /\ w.todo = v.todo /\ Resolves(x, v.item)
  <2>1. \A i \in Items \ w.todo : Resolves(x, i)
    BY <1>1, <1>3
  <2> QED
    BY <1>3, <2>1 DEF Placed, Thens, Dispatching, Effecting
<1> QED
  BY <1>2, <1>3

\* What becomes of a finalized run.
LEMMA SettleObserved ==
  ASSUME CascadeInv, p.pc = "settle", run' \in [Items -> Run], Fences(q, run'), Authentic(q, run'),
         run'[p.item].status = "finalized",
         NEW r, r = run'[p.item], NEW matched,
         matched = NextSibling([p EXCEPT !.success = p.success /\ report_success(r.report)]),
         observe_and_acknowledge(p.item, r, matched, Finish(p))
  PROVE  CascadeInv'
<1>0. /\ now \in Nat /\ p \in Invocation /\ p.outcome # "Success"
      /\ Bound(q) /\ Placed(q, run, p) /\ p.item \in Items /\ p.pc # "idle"
  BY DispatchParts DEF Dispatching, Effecting
<1> DEFINE i == p.item
           failed == [matched EXCEPT !.success = FALSE]
           ended == Finish(p)
<1>1. /\ matched \in Invocation /\ matched.pc = "advance" /\ matched.then \in {"select", "report"}
      /\ matched.todo = p.todo /\ matched.outcome = p.outcome
  BY <1>0, MatchedParts
<1>2. /\ failed \in Invocation /\ failed.pc = "advance" /\ failed.then \in {"select", "report"}
      /\ failed.todo = p.todo /\ failed.outcome = p.outcome
  BY <1>1 DEF Invocation
<1>3. /\ ended \in Invocation /\ ended.pc = "advance" /\ ended.then = "report"
      /\ ended.outcome = p.outcome
  BY <1>0, FinishParts
<1>4. r.planned \in BOOLEAN /\ r.status = "finalized"
  BY <1>0 DEF Run
<1>5. observe_and_acknowledge(i, r, matched, ended)
  OBVIOUS
<1> HIDE DEF ended
<1>6. /\ now' \in Nat
      /\ \/ q' = q /\ p' = Returned("Error")
         \/ q' = q /\ p' = ended
         \/ /\ Bound(q') /\ Fences(q', run') /\ Authentic(q', run')
            /\ AllReached(q.graph) => AllReached(q'.graph)
            /\ \A j \in Items : Resolves(q, j) => Resolves(q', j)
            /\ \/ p' = ended
               \/ Resolves(q', i) /\ p' \in {matched, failed}
  BY <1>0, <1>4, <1>5, ObserveKeeps
<1> HIDE DEF failed
<1>7. CASE q' = q /\ p' = Returned("Error")
  BY <1>0, <1>6, <1>7, ReturnKeeps
<1>8. CASE ~(q' = q /\ p' = Returned("Error"))
  <2>1. /\ Bound(q') /\ Fences(q', run') /\ Authentic(q', run')
        /\ \A j \in Items : Resolves(q, j) => Resolves(q', j)
        /\ \/ p' = ended
           \/ Resolves(q', i) /\ p' \in {matched, failed}
    BY <1>0, <1>6, <1>8
  <2>2. /\ p' \in Invocation /\ p'.pc = "advance" /\ p'.outcome # "Success"
        /\ \/ p'.then = "report"
           \/ p'.then = "select" /\ p'.todo = p.todo /\ Resolves(q', p.item)
    BY <1>0, <1>1, <1>2, <1>3, <2>1
  <2>3. Placed(q', run', p')
    BY <1>0, <2>1, <2>2, SettledPlaces
  <2> QED
    BY <1>6, <2>1, <2>2, <2>3, StandsNext
<1> QED
  BY <1>7, <1>8

\* The returned run is acknowledged, or its status decides.
LEMMA SettleKeeps ==
  ASSUME CascadeInv, Settle
  PROVE  CascadeInv'
<1>0. /\ run \in [Items -> Run] /\ now \in Nat /\ p \in Invocation /\ p.outcome # "Success"
      /\ Fences(q, run) /\ Authentic(q, run) /\ Bound(q)
      /\ Placed(q, run, p) /\ p.item \in Items /\ p.pc # "idle" /\ p.pc = "settle"
      /\ q.phase[p.item] = "DispatchStarted"
  BY DispatchParts DEF Settle, Dispatching, Effecting
<1> DEFINE i == p.item
           Matched(report) == NextSibling([p EXCEPT !.success = p.success /\ report_success(report)])
<1>1. CASE p.ok
  <2>1. /\ run' = run
        /\ observe_and_acknowledge(i, run[i], Matched(run[i].report), Finish(p))
    BY <1>1 DEF Settle
  <2>2. run[i].status = "finalized"
    BY <1>0, <1>1 DEF Placed
  <2> QED
    BY <1>0, <2>1, <2>2, SettleObserved
<1>2. CASE ~p.ok
  <2>1. PICK s \in Statuses(i) :
          /\ run' = [run EXCEPT ![i] = s.run]
          /\ \/ /\ s.is = "Finalized"
                /\ observe_and_acknowledge(i, s.run, Matched(s.run.report), Finish(p))
             \/ now' = now /\ Journal(LeaseHeldAmbiguous(q, i), Finish(p))
             \/ now' = now /\ q' = q /\ p' = Finish(p)
    BY <1>2 DEF Settle
  <2>2. /\ run' \in [Items -> Run] /\ run'[i] = s.run
        /\ Fences(q, run') /\ Authentic(q, run')
    BY <1>0, <2>1, StatusKeeps
  <2>3. s.is = "Finalized" => s.run.status = "finalized"
    BY <1>0, <2>1, StatusParts
  <2> DEFINE ended == Finish(p)
  <2>4. /\ ended \in Invocation /\ ended.pc = "advance" /\ ended.then = "report"
        /\ ended.outcome = p.outcome
    BY <1>0, FinishParts
  <2> HIDE DEF ended
  <2>5. CASE /\ s.is = "Finalized"
             /\ observe_and_acknowledge(i, s.run, Matched(s.run.report), Finish(p))
    BY <1>0, <2>2, <2>3, <2>5, SettleObserved
  <2>6. CASE now' = now /\ q' = q /\ p' = Finish(p)
    <3>1. p' = ended
      BY <2>6 DEF ended
    <3>2. Placed(q', run', p')
      BY <1>0, <2>4, <2>6, <3>1, SettledPlaces
    <3> QED
      BY <1>0, <2>2, <2>4, <2>6, <3>1, <3>2, StandsNext
  <2>7. CASE now' = now /\ Journal(LeaseHeldAmbiguous(q, i), Finish(p))
    <3>1. CASE q' = q /\ p' = Returned("Error")
      BY <1>0, <2>2, <2>7, <3>1, ReturnKeeps
    <3>2. CASE q' \in LeaseHeldAmbiguous(q, i) /\ p' = ended
      <4>1. Move(q', q, i, "HeldAmbiguous")
        BY <1>0, <3>2, HeldMoves
      <4>2. Fences(q', run') /\ Authentic(q', run') /\ Bound(q')
        BY <1>0, <2>2, <4>1, MoveKeeps DEF Fenced
      <4>3. Placed(q', run', p')
        BY <1>0, <2>4, <3>2, <4>1, <4>2, SettledPlaces DEF Move
      <4> QED
        BY <1>0, <2>2, <2>4, <2>7, <3>2, <4>2, <4>3, StandsNext
    <3> QED
      BY <2>7, <3>1, <3>2 DEF Journal, ended
  <2> QED
    BY <2>1, <2>5, <2>6, <2>7
<1> QED
  BY <1>1, <1>2

\* A success is reported only of a graph that ended in success.
LEMMA ReportKeeps ==
  ASSUME CascadeInv, Report
  PROVE  CascadeInv'
<1>0. /\ run \in [Items -> Run] /\ now \in Nat /\ p \in Invocation /\ p.pc # "idle"
      /\ Fences(q, run) /\ Authentic(q, run) /\ Bound(q)
  BY InvariantParts, BoundPlaces DEF Report
<1>1. q' = q /\ run' = run /\ now' = now
  BY DEF Report
<1>2. p' = Returned("Failure") \/ (CascadeSucceeded /\ p' = Returned("Success"))
  BY DEF Report
<1>3. CASE p' = Returned("Failure")
  BY <1>0, <1>1, <1>3, ReturnKeeps
<1>4. CASE CascadeSucceeded /\ p' = Returned("Success")
  <2>1. AllSucceeded(q.graph)
    BY <1>0, <1>4, SuccessfulEnd, BoundParts DEF CascadeSucceeded
  <2>2. \A i \in Items : q.phase[i] = "AcknowledgedTerminal"
    BY <1>4 DEF CascadeSucceeded, Complete
  <2>3. \A i \in Items : run[i].status = "finalized" /\ run[i].planned /\ run[i].report = "Success"
    BY <1>0, <2>1, <2>2 DEF Authentic, AllSucceeded, branch_outcome
  <2>4. SuccessIsEarned'
    BY <1>1, <2>3 DEF SuccessIsEarned
  <2>5. p' \in Invocation /\ p'.pc = "idle"
    BY <1>4, ReturnedParts
  <2>6. Placed(q', run', p')
    BY <2>5, QuietPlaces
  <2> QED
    BY <1>0, <1>1, <2>4, <2>5, <2>6 DEF CascadeInv, Types, Standing
<1> QED
  BY <1>2, <1>3, <1>4

-----------------------------------------------------------------------------
(* The environment.                                                         *)

\* The process dies; the run it was executing is left without a report.
LEMMA CrashKeeps ==
  ASSUME CascadeInv, Crash
  PROVE  CascadeInv'
<1>0. /\ run \in [Items -> Run] /\ now \in Nat /\ p \in Invocation /\ p.pc # "idle"
      /\ Fences(q, run) /\ Authentic(q, run)
  BY InvariantParts DEF Crash
<1>1. q' = q /\ now' = now /\ p' = Returned("Error")
  BY DEF Crash
<1>2. CASE p.pc # "running"
  <2>1. run' = run
    BY <1>2 DEF Crash
  <2> QED
    BY <1>0, <1>1, <2>1, ReturnKeeps
<1>3. CASE p.pc = "running"
  <2> DEFINE i == p.item
  <2>1. i \in Items /\ q.phase[i] = "DispatchStarted" /\ run[i] \in Run
    BY <1>0, <1>3, DispatchParts DEF Dispatching, Effecting
  <2>2. PICK s \in {"interrupted", "resumable"} : run' = [run EXCEPT ![i] = [run[i] EXCEPT !.status = s]]
    BY <1>0, <1>3, <2>1 DEF Crash
  <2> DEFINE t == [run[i] EXCEPT !.status = s]
  <2>3. t \in Run
    BY <2>1 DEF Run
  <2> HIDE DEF i, t
  <2>4. run' \in [Items -> Run] /\ \A j \in Items \ {i} : run'[j] = run[j]
    BY <1>0, <2>1, <2>2, <2>3 DEF t
  <2>5. q.phase[i] \in Fenced /\ q.phase[i] # "AcknowledgedTerminal"
    BY <2>1 DEF Fenced
  <2>6. Fences(q, run') /\ Authentic(q, run')
    BY <1>0, <2>1, <2>4, <2>5, RunMoves
  <2> QED
    BY <1>0, <1>1, <2>4, <2>6, ReturnKeeps
<1> QED
  BY <1>2, <1>3

\* The clock is in none of the invariant's parts but the type.
LEMMA ClockKeeps ==
  ASSUME CascadeInv, q' = q, run' = run, p' = p, now' \in Nat
  PROVE  CascadeInv'
BY DEF CascadeInv, Types, SuccessIsEarned, Fresh, Standing

\* Time passes.
LEMMA ElapseKeeps ==
  ASSUME CascadeInv, Elapse
  PROVE  CascadeInv'
<1>1. now + Ttl \in Nat
  BY InvariantParts, CascadeAssumption
<1> QED
  BY <1>1, ClockKeeps DEF Elapse

\* The wall clock is set back.
LEMMA StepBackKeeps ==
  ASSUME CascadeInv, StepBack
  PROVE  CascadeInv'
<1>1. now \in Nat /\ Back \in Nat
  BY InvariantParts, CascadeAssumption
<1>2. now' \in Nat
  BY <1>1 DEF StepBack
<1> QED
  BY <1>2, ClockKeeps DEF StepBack

\* A run that no verdict rests on moves without the cascade.
LEMMA ElsewhereKeeps ==
  ASSUME CascadeInv, q' = q, p' = p, now' = now, NEW i \in Items, run[i].status # "finalized",
         NEW t \in Run, run' = [run EXCEPT ![i] = t], t.launched => run[i].launched
  PROVE  CascadeInv'
<1>0. run \in [Items -> Run] /\ now \in Nat /\ p \in Invocation
  BY InvariantParts
<1>1. /\ run' \in [Items -> Run] /\ (run'[i].launched => run[i].launched)
      /\ \A j \in Items \ {i} : run'[j] = run[j]
  BY <1>0
<1>2. Types'
  BY <1>0, <1>1 DEF Types
<1>3. SuccessIsEarned'
  <2>1. p.outcome # "Success"
    BY DEF CascadeInv, SuccessIsEarned
  <2> QED
    BY <2>1 DEF SuccessIsEarned
<1>4. CASE Fresh
  <2>1. Fresh'
    <3>1. SUFFICES ASSUME NEW j \in Items PROVE ~run'[j].launched
      BY <1>4 DEF Fresh
    <3>2. ~run[j].launched
      BY <1>4 DEF Fresh
    <3> QED
      BY <1>1, <3>2
  <2> QED
    BY <1>2, <1>3, <2>1 DEF CascadeInv
<1>5. CASE Standing
  <2>1. /\ Staging(q) \/ Unbound(q) \/ Bound(q)
        /\ Fences(q, run) /\ Authentic(q, run) /\ Placed(q, run, p)
    BY <1>5 DEF Standing
  <2>2. run'[i].launched => q.phase[i] \in Fenced
    BY <1>1, <2>1 DEF Fences
  <2>3. Fences(q, run') /\ Authentic(q, run')
    BY <1>1, <2>1, <2>2, RunMoves
  <2>4. Placed(q, run', p)
    <3>1. ASSUME p.pc = "settle", p.ok PROVE run'[p.item].status = "finalized"
      <4>1. p.item \in Items /\ run[p.item].status = "finalized"
        BY <2>1, <3>1 DEF Placed, Dispatching, Effecting
      <4> QED
        BY <1>1, <4>1
    <3> QED
      BY <2>1, <3>1 DEF Placed
  <2>5. Standing'
    BY <2>1, <2>3, <2>4 DEF Standing
  <2> QED
    BY <1>2, <1>3, <2>5 DEF CascadeInv
<1> QED
  BY <1>4, <1>5 DEF CascadeInv

\* An operator resumes a run.
LEMMA ResumeRunKeeps ==
  ASSUME CascadeInv, ResumeRun
  PROVE  CascadeInv'
<1>0. run \in [Items -> Run]
  BY InvariantParts
<1>1. PICK i \in Items : /\ run[i].status \in {"interrupted", "resumable"}
                         /\ run' = [run EXCEPT ![i] = [run[i] EXCEPT !.status = "active"]]
  BY <1>0 DEF ResumeRun
<1> DEFINE t == [run[i] EXCEPT !.status = "active"]
<1>2. t \in Run /\ (t.launched <=> run[i].launched)
  BY <1>0 DEF Run
<1>3. q' = q /\ p' = p /\ now' = now /\ run[i].status # "finalized" /\ run' = [run EXCEPT ![i] = t]
  BY <1>1 DEF ResumeRun
<1> HIDE DEF t
<1> QED
  BY <1>2, <1>3, ElsewhereKeeps

\* A run resumed elsewhere ends.
LEMMA ResumedRunEndsKeeps ==
  ASSUME CascadeInv, ResumedRunEnds
  PROVE  CascadeInv'
<1>0. run \in [Items -> Run]
  BY InvariantParts
<1>1. PICK i \in Items :
        /\ run[i].status = "active"
        /\ \/ run' = [run EXCEPT ![i] = [run[i] EXCEPT !.status = "interrupted"]]
           \/ \E o \in Reports :
                run' = [run EXCEPT ![i] = [run[i] EXCEPT !.status = "finalized", !.report = o]]
  BY <1>0 DEF ResumedRunEnds
<1>2. q' = q /\ p' = p /\ now' = now /\ run[i].status # "finalized"
  BY <1>1 DEF ResumedRunEnds
<1>3. CASE run' = [run EXCEPT ![i] = [run[i] EXCEPT !.status = "interrupted"]]
  <2> DEFINE t == [run[i] EXCEPT !.status = "interrupted"]
  <2>1. t \in Run /\ (t.launched <=> run[i].launched)
    BY <1>0 DEF Run
  <2>2. run' = [run EXCEPT ![i] = t]
    BY <1>3
  <2> HIDE DEF t
  <2> QED
    BY <1>2, <2>1, <2>2, ElsewhereKeeps
<1>4. ASSUME NEW o \in Reports,
             run' = [run EXCEPT ![i] = [run[i] EXCEPT !.status = "finalized", !.report = o]]
      PROVE  CascadeInv'
  <2> DEFINE t == [run[i] EXCEPT !.status = "finalized", !.report = o]
  <2>1. t \in Run /\ (t.launched <=> run[i].launched)
    BY <1>0 DEF Run
  <2>2. run' = [run EXCEPT ![i] = t]
    BY <1>4
  <2> HIDE DEF t
  <2> QED
    BY <1>2, <2>1, <2>2, ElsewhereKeeps
<1> QED
  BY <1>1, <1>3, <1>4

\* Another plan is run under the identity of an item's run.
LEMMA ForeignRunKeeps ==
  ASSUME CascadeInv, ForeignRun
  PROVE  CascadeInv'
<1>1. PICK i \in Items, o \in Reports :
        /\ run[i].status = "absent"
        /\ run' = [run EXCEPT ![i] = [NoRun EXCEPT !.status = "finalized", !.report = o,
                                                   !.planned = FALSE]]
  BY DEF ForeignRun
<1> DEFINE t == [NoRun EXCEPT !.status = "finalized", !.report = o, !.planned = FALSE]
<1>2. t \in Run /\ ~t.launched
  BY DEF Run, NoRun
<1>3. q' = q /\ p' = p /\ now' = now /\ run[i].status # "finalized" /\ run' = [run EXCEPT ![i] = t]
  BY <1>1 DEF ForeignRun
<1> HIDE DEF t
<1> QED
  BY <1>2, <1>3, ElsewhereKeeps

-----------------------------------------------------------------------------
(* The theorems.                                                            *)

\* The cascade starts with no journal, no invocation and no run.
LEMMA CascadeStarts ==
  ASSUME Init
  PROVE  CascadeInv
<1>1. NoRun \in Run /\ ~NoRun.launched
  BY DEF NoRun, Run
<1>2. run = [i \in Items |-> NoRun] /\ now = 1 /\ p = Idle /\ q = None
  BY DEF Init
<1>3. p \in Invocation /\ p.pc = "idle" /\ p.outcome = None
  BY <1>2 DEF Idle, Invocation, Pcs
<1> QED
  BY <1>1, <1>2, <1>3, NoneIsNoString DEF CascadeInv, Types, SuccessIsEarned, Fresh

\* Every step keeps the invariant.
LEMMA CascadeSteps ==
  ASSUME CascadeInv, [Next]_vars
  PROVE  CascadeInv'
<1>1. CASE Steps
  BY <1>1, InvokeKeeps, EnqueueKeeps, DefineGraphKeeps, AdvanceGraphKeeps, ObserveClaimsKeeps,
     PrepareClaimKeeps, ReconcileItemKeeps, ReconcileDoneKeeps, AdmitKeeps, SelectKeeps,
     PreparationReadyKeeps, PreparationRefusedKeeps, ClaimPreparedKeeps, RecheckRefusedKeeps,
     MarkEffectStartedKeeps, InitialHeartbeatKeeps, LaunchKeeps, HeartbeatKeeps, RunReturnsKeeps,
     SettleKeeps, ReportKeeps DEF Steps
<1>2. CASE Crash \/ Elapse \/ StepBack \/ ResumeRun \/ ResumedRunEnds \/ ForeignRun
  BY <1>2, CrashKeeps, ElapseKeeps, StepBackKeeps, ResumeRunKeeps, ResumedRunEndsKeeps, ForeignRunKeeps
<1>3. CASE UNCHANGED vars
  <2>1. q' = q /\ run' = run /\ p' = p /\ now' = now
    BY <1>3 DEF vars
  <2> QED
    BY <2>1, InvariantParts, ClockKeeps
<1> QED
  BY <1>1, <1>2, <1>3 DEF Next

\* The inductive invariant of the cascade: what the journal says of the graph, the leases and
\* the items, what the runs say of the items, and what the place of the invocation says of both.
THEOREM CascadeInvariance == Spec => []CascadeInv
<1>1. Init => CascadeInv
  BY CascadeStarts
<1>2. CascadeInv /\ [Next]_vars => CascadeInv'
  BY CascadeSteps
<1> QED
  BY <1>1, <1>2, PTL DEF Spec

\* The composite records of follow_up_queue.rs: in every journal prefix the phase of an item,
\* its lease and its branch of the graph tell one story.
THEOREM CascadeStoryAgrees == Spec => []StoryAgrees
<1>1. CascadeInv => StoryAgrees
  <2>1. SUFFICES ASSUME CascadeInv, q # None, q.graph # None PROVE StoryAgrees
    BY DEF StoryAgrees
  <2>2. Bound(q)
    BY <2>1 DEF CascadeInv, Fresh, Standing, Staging, Unbound
  <2>3. \A i \in Items : Tells(q.phase[i], q.lease[i].phase, q.graph.branches[i])
    BY <2>2 DEF Bound, Story
  <2> QED
    BY <2>3 DEF StoryAgrees, Tells, Waiting, Attempting
<1> QED
  BY <1>1, CascadeInvariance, PTL

\* "Never overtake an unresolved earlier effect": over all invocations, crashes and operators
\* at most one item is claimed or started and unresolved.
THEOREM CascadeNoOvertaking == Spec => []NoOvertaking
<1>1. CascadeInv => NoOvertaking
  <2> DEFINE Open == {"Claimed", "DispatchStarted", "HeldAmbiguous"}
             S == {i \in Items : q.phase[i] \in Open}
  <2>1. SUFFICES ASSUME CascadeInv, q # None PROVE Cardinality(S) <= 1
    BY DEF NoOvertaking
  <2>2. ASSUME NEW i \in S, NEW j \in S PROVE i = j
    <3>1. i \in Items /\ j \in Items /\ q.phase[i] \in Open /\ q.phase[j] \in Open
      OBVIOUS
    <3>2. Bound(q)
      BY <2>1, <3>1, NoneIsNoString DEF CascadeInv, Fresh, Standing, Staging, Unbound
    <3>3. InOrder(q)
      BY <3>2 DEF Bound
    <3>4. ~Before(i, j) /\ ~Before(j, i)
      BY <3>1, <3>3 DEF InOrder, Resolves
    <3> QED
      BY <3>1, <3>4, BeforeTotal
  <2> HIDE DEF S
  <2>3. CASE S = {}
    BY <2>3, FS_EmptySet
  <2>4. CASE S # {}
    <3>1. PICK i \in S : TRUE
      BY <2>4
    <3>2. S = {i}
      BY <2>2, <3>1
    <3>3. Cardinality({i}) = 1
      BY FS_Singleton, Zenon
    <3> QED
      BY <3>2, <3>3
  <2> QED
    BY <2>3, <2>4
<1> QED
  BY <1>1, CascadeInvariance, PTL

\* mark_effect_started before the launch: a subordinate exists only behind a durable marker
\* and a fenced lease.
THEOREM CascadeLaunchIsFenced == Spec => []LaunchIsFenced
<1>1. CascadeInv => LaunchIsFenced
  <2>1. SUFFICES ASSUME CascadeInv, NEW i \in Items, run[i].launched
                 PROVE  /\ q.phase[i] \in {"DispatchStarted", "HeldAmbiguous", "AcknowledgedTerminal"}
                        /\ q.lease[i].phase \in {"EffectFenced", "Acknowledged"}
    BY DEF LaunchIsFenced
  <2>2. Standing
    BY <2>1 DEF CascadeInv, Fresh
  <2>3. q.phase[i] \in {"DispatchStarted", "HeldAmbiguous", "AcknowledgedTerminal"}
    BY <2>1, <2>2 DEF Standing, Fences, Fenced
  <2>4. Bound(q)
    BY <2>2, <2>3, NoneIsNoString DEF Standing, Staging, Unbound
  <2> QED
    BY <2>3, <2>4 DEF Bound, Story, Tells
<1> QED
  BY <1>1, CascadeInvariance, PTL

\* observe_and_acknowledge and the outcome of the cascade: no item is acknowledged and no batch
\* reported as a success but on the strength of the finalized runs of the queued plans.
THEOREM CascadeVerdictIsEarned == Spec => []VerdictIsEarned
<1>1. CascadeInv => VerdictIsEarned
  <2>1. SUFFICES ASSUME CascadeInv PROVE AcknowledgedIsAuthentic
    BY DEF CascadeInv, VerdictIsEarned
  <2>2. CASE Fresh
    BY <2>2 DEF Fresh, AcknowledgedIsAuthentic
  <2>3. CASE Standing
    BY <2>3 DEF Standing, Authentic, AcknowledgedIsAuthentic, branch_outcome
  <2> QED
    BY <2>1, <2>2, <2>3 DEF CascadeInv
<1> QED
  BY <1>1, CascadeInvariance, PTL
=============================================================================
