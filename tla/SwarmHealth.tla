---------------------------- MODULE SwarmHealth -----------------------------
(***************************************************************************)
(* The swarm-health circuit breaker, swarm_health.rs, as the scheduler of a *)
(* supervise run uses it: it stops observing at the first trip, so the      *)
(* breaker that opened stays open and the cooldown and half-open states of  *)
(* the code are never entered.                                              *)
(***************************************************************************)
EXTENDS Naturals, Sequences, FiniteSets

CONSTANTS
  WindowCapacity,        \* signals the window keeps
  FailureThreshold,      \* assignment_failure_threshold
  RetryThreshold,
  DenialThreshold,       \* claim_denial_threshold
  RejectionThreshold,
  SemanticThreshold      \* semantic_conflict_threshold

\* CircuitBreakerConfig::validate.
ASSUME BreakerAssumption ==
  {WindowCapacity, FailureThreshold, RetryThreshold, DenialThreshold, RejectionThreshold,
   SemanticThreshold} \subseteq Nat \ {0}

SwarmHealthSignals ==
  {"Accepted", "Rejected", "Failed", "Retried", "ClaimDenied", "ClaimFailed",
   "SemanticBlocked", "SemanticWarned"}

Closed == [window |-> <<>>, open |-> FALSE]

\* snapshot: how many signals of the window are of these kinds.
Snapshot(window, kinds) == Cardinality({n \in DOMAIN window : window[n] \in kinds})

evaluate_closed_state(window) ==
  \/ Snapshot(window, {"Rejected"}) >= RejectionThreshold
  \/ Snapshot(window, {"Failed"}) >= FailureThreshold
  \/ Snapshot(window, {"Retried"}) >= RetryThreshold
  \/ Snapshot(window, {"ClaimDenied", "ClaimFailed"}) >= DenialThreshold
  \/ Snapshot(window, {"SemanticBlocked", "SemanticWarned"}) >= SemanticThreshold

\* The window after these signals were pushed one by one and the oldest popped.
Window(window, signals) ==
  LET all == window \o signals
  IN SubSeq(all, IF Len(all) > WindowCapacity THEN Len(all) - WindowCapacity + 1 ELSE 1, Len(all))

permits_admission(breaker) == ~breaker.open

\* The breaker after one assignment's signals: it opens at the first of them that trips it
\* and looks at no later one.
Observe(breaker, signals) ==
  LET trips == {n \in 1..Len(signals) :
                  evaluate_closed_state(Window(breaker.window, SubSeq(signals, 1, n)))}
  IN IF breaker.open \/ trips = {}
     THEN [breaker EXCEPT !.window = Window(@, signals)]
     ELSE [window |-> Window(breaker.window,
                        SubSeq(signals, 1, CHOOSE n \in trips : \A m \in trips : n <= m)),
           open |-> TRUE]
=============================================================================
