-------------------------- MODULE AssignmentAttempt --------------------------
(***************************************************************************)
(* What one assignment of a supervise run does with the results of its     *)
(* claim, its child turns and its parent auditor: structural retries, the  *)
(* gate-correction tracker (supervise.rs) and the decisions of             *)
(* assignment_execution.rs.  A thread record holds the local state of      *)
(* execute_supervisor_assignment together with the outcome it builds; the  *)
(* operators below map a record to the record after a step.                *)
(*                                                                         *)
(* A gate denial is its reason and the paths its context names: its        *)
(* denial_id is the hash of the two.  Left out: reports' contents, model   *)
(* selection, evidence-only re-audits, held-out validation, nested workers *)
(* of managed parents, and several lenses of one review, which behave as   *)
(* one auditor here.  A scope is the paths of the request by their place   *)
(* in it, so that a narrowed scope keeps the places of the paths it keeps. *)
(***************************************************************************)
EXTENDS RepoPaths, Functions

CONSTANTS
  MaxRetries,       \* plan.max_child_retries
  MaxCorrections    \* plan.max_gate_corrections

ASSUME AttemptAssumption == MaxRetries \in Nat /\ MaxCorrections \in Nat

\* What a child turn and an audit may show; see decide_child_attempt and
\* decide_parent_auditor_gate.
ChildResults ==
  {"good", "failing", "shape", "unusable", "validation_missing", "validation_failed",
   "terminal", "side_effect", "uncontained"}
AuditResults == {"accept", "defect", "evidence", "blocked", "uncontained"}

MaxAttempts == MaxRetries + MaxCorrections + 1

Denial(reason, paths) == [reason |-> reason, paths |-> paths]
NoGate == Denial("none", {})

NotStarted ==
  [phase |-> "none", role |-> "child", scope |-> <<>>, attempt |-> 1, structural |-> 1,
   used |-> 0, gate |-> NoGate, signals |-> <<>>, notified |-> FALSE, report |-> "none",
   failed |-> FALSE, stopped |-> FALSE, fatal |-> "none", uncontained |-> FALSE]

\* Mutant of Started: the scheduler does not wait for the admission.
Started_Unawaited(scope, signals) ==
  [NotStarted EXCEPT !.phase = "claim", !.scope = scope, !.signals = signals, !.notified = TRUE]

\* An assignment with the signals its run prepared for it.
Started(scope, signals) ==
  [NotStarted EXCEPT !.phase = "claim", !.scope = scope, !.signals = signals]

Ended(r) == r.phase \in {"ended", "dead"}

\* Mutant of Over: an assignment that declines its admission does not say so.
Over_Silent(r) == [r EXCEPT !.phase = "ended", !.gate = NoGate]

(***************************************************************************)
(* The end of execute_supervisor_assignment: the active gate is escalated  *)
(* and the scheduler, which may still wait for the admission, is notified. *)
(***************************************************************************)
Over(r) == [r EXCEPT !.phase = "ended", !.gate = NoGate, !.notified = TRUE]
Fatal(r, cause) == Over([r EXCEPT !.fatal = cause])

\* record_isolated_assignment_failure.
Isolated(r) == Over([r EXCEPT !.failed = TRUE])

Signalled(r, signal) == [r EXCEPT !.signals = Append(@, signal)]

-----------------------------------------------------------------------------
(* GateCorrectionTracker.                                                   *)

\* begin succeeds only for the first denial, or for the active one again.
begins(r, denial) == r.gate \in {NoGate, denial}

\* escalate, then the given end of the assignment.
escalate(r, denial, end) == IF begins(r, denial) THEN end ELSE Fatal(r, "gate")

CanCorrect(r) == r.used < MaxCorrections

\* authorize, when there is a correction left.
Authorized(r, denial) ==
  Signalled([r EXCEPT !.gate = denial, !.used = @ + 1], "Retried")

\* authorize with what follows: a correction, or the end of the denial without one.
authorize(r, denial, corrected, otherwise) ==
  IF ~begins(r, denial) THEN Fatal(r, "gate")
  ELSE IF CanCorrect(r) THEN corrected
  ELSE otherwise

self_corrected(r, reasons) == IF r.gate.reason \in reasons THEN [r EXCEPT !.gate = NoGate] ELSE r

-----------------------------------------------------------------------------
(* The attempt loop.                                                        *)

\* The next child attempt; a loop that runs out of attempts fails in isolation.
Again(r) ==
  IF r.attempt < MaxAttempts
  THEN [r EXCEPT !.attempt = @ + 1, !.role = "child", !.phase = "reserve", !.report = "none"]
  ELSE Isolated(r)

\* publish_assignment_report.
Publish(r, report) == Over([r EXCEPT !.report = report])

(***************************************************************************)
(* A contained child attempt is finished with this report.  An audited     *)
(* report goes to the parent auditor, even a failing one, if its candidate *)
(* was captured; a report that needs a candidate and has none is rejected. *)
(***************************************************************************)
Finish(r, report, audited, captured) ==
  IF audited /\ captured
  THEN [r EXCEPT !.role = "auditor", !.phase = "reserve", !.report = report]
  ELSE Publish(r, IF captured \/ (report # "accepted" /\ ~audited) THEN report ELSE "rejected")

ValidationGates == {"validation_missing", "validation_failed"}

\* Mutant of StructuralRetry: the retry count is never raised.
StructuralRetry_Uncounted(r) == Again(Signalled(r, "Retried"))

StructuralRetry(r) == Again(Signalled([r EXCEPT !.structural = @ + 1], "Retried"))

(***************************************************************************)
(* decide_child_attempt, by what the attempt showed: a good or a failing   *)
(* report, one with structural problems only (shape) or with others too    *)
(* (unusable), one whose validations are missing or failed, a terminal     *)
(* gate (primary integrity, environment, pre-action review, a streak of    *)
(* warnings), an external side effect, or a process tree whose containment *)
(* was not verified.                                                       *)
(***************************************************************************)
decide_child_attempt(r, result, audited, captured) ==
  LET denial == Denial(result, {r.scope[n] : n \in DOMAIN r.scope})
      settled == [r EXCEPT !.gate = NoGate]
  IN CASE result = "uncontained" ->
            Publish([settled EXCEPT !.uncontained = TRUE], "rejected")
       [] result = "terminal" -> Publish(r, "rejected")
       [] result = "side_effect" -> escalate(r, denial, Publish(r, "rejected"))
       [] result = "shape" ->
            IF r.structural <= MaxRetries THEN StructuralRetry(r)
            ELSE Finish(r, "rejected", audited, captured)
       [] result = "unusable" -> Finish(r, "rejected", audited, captured)
       [] result \in ValidationGates ->
            authorize(r, denial, Again(Authorized(r, denial)),
              Finish(settled, "rejected", audited, captured))
       [] result = "failing" ->
            Finish(self_corrected(r, ValidationGates), "failed", audited, captured)
       [] result = "good" ->
            Finish(self_corrected(r, ValidationGates), "accepted", audited, captured)

(***************************************************************************)
(* decide_parent_auditor_gate: the audit accepts, finds a defect, lacks    *)
(* evidence (or failed procedurally), was blocked by its own environment,  *)
(* or was not contained.  An accepted report is still rejected when its    *)
(* candidate changed under the audit.                                      *)
(***************************************************************************)
decide_parent_auditor_gate(r, result, unchanged) ==
  LET denial == Denial(result, {r.scope[n] : n \in DOMAIN r.scope})
  IN CASE result = "accept" -> Publish(r, IF unchanged THEN r.report ELSE "rejected")
       [] result = "defect" ->
            authorize(r, denial, Again(Authorized(r, denial)), Publish(r, "rejected"))
       [] result = "evidence" -> escalate(r, denial, Publish(r, "rejected"))
       [] result = "blocked" -> Publish(r, "rejected")
       [] result = "uncontained" -> Publish([r EXCEPT !.uncontained = TRUE], "rejected")

\* record_budget_dispatch_refusal; a report that waits for its auditor is rejected.
Refused(r) ==
  escalate(r, Denial("budget", {}),
    Over([r EXCEPT !.failed = TRUE, !.stopped = TRUE,
                   !.report = IF r.role = "auditor" THEN "rejected" ELSE @]))

-----------------------------------------------------------------------------
(* The claim of prepare_assignment_execution.                               *)

\* Each claimed path is reported with the first requested path it overlaps.
claim_conflict_details(scope, claimed) ==
  {scope[n] : n \in {m \in DOMAIN scope :
     \E p \in claimed :
       /\ paths_overlap(p, scope[m])
       /\ \A k \in DOMAIN scope : k < m => ~paths_overlap(p, scope[k])}}

safely_narrow_claim_scope(scope, conflicts) ==
  RestrictValues(scope, LAMBDA p : \A q \in conflicts : ~paths_overlap(p, q))

\* A refused claim, with the claims the second look at the store found.
ClaimRefused(r, claimed) ==
  LET conflicts == claim_conflict_details(r.scope, claimed)
      denial == Denial("claim", conflicts)
      denied == Signalled(r, "ClaimDenied")
      narrowed == safely_narrow_claim_scope(r.scope, conflicts)
  IN IF conflicts = {} THEN Isolated(Signalled(r, "ClaimFailed"))
     ELSE IF narrowed \in {<<>>, r.scope} THEN escalate(denied, denial, Isolated(denied))
     ELSE authorize(denied, denial,
            [Authorized(denied, denial) EXCEPT !.scope = narrowed, !.phase = "claim"],
            Isolated(denied))
=============================================================================
