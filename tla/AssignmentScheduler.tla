------------------------- MODULE AssignmentScheduler -------------------------
(***************************************************************************)
(* The assignment scheduler of a supervise run, supervise/scheduler.rs:    *)
(* the concurrent loop, which starts hierarchy-ready, non-overlapping      *)
(* assignments in threads and drains their completions, and the serial     *)
(* loop of a run with a single slot.  It composes the assignments of       *)
(* AssignmentAttempt, the circuit breaker of SwarmHealth, a path-claim     *)
(* store shared with other runs, and a run budget with one hard token      *)
(* ceiling and live grants (the ledger itself is module RunBudget).        *)
(*                                                                         *)
(* A step of the scheduler between two points where it waits is one        *)
(* action: it reads shared state once, under one lock.  Left out: budget   *)
(* degradation and model selection, semantic intents (a blocked one is a   *)
(* failure of Prepare; the order in which Block mode lets assignments take *)
(* their turn is not), journals, and what the report says.                 *)
(***************************************************************************)
EXTENDS AssignmentAttempt, SwarmHealth, FiniteSetsExt

CONSTANTS
  Plans,            \* [width, semantic, jobs], jobs a sequence of [paths, parent, live, parked, turns, audits]:
                    \* what its turns and, if it is audited, its audits may show
  HardTokens,       \* the hard ceiling of the run budget
  Estimate,         \* tokens reserved for a dispatch
  LiveLimit,        \* configured cap of a live grant
  Usages,           \* what a settled dispatch may report
  Faults,           \* subset of {"spawn", "die", "error", "checkpoint", "release", "expire", "missing"}
  MaxFaults,        \* bound: faults of a run
  ForeignPaths,     \* paths another run may claim
  MaxForeign        \* bound: claims other runs take

ASSUME SchedulerAssumption ==
  /\ \A p \in Plans :
       /\ p.width \in Nat \ {0}
       /\ p.semantic \in {"off", "warn", "block"}
       /\ p.jobs \in Seq([paths : Seq(Paths), parent : Nat, live : BOOLEAN, parked : BOOLEAN,
                          turns : SUBSET ChildResults, audits : SUBSET AuditResults])
       /\ \A i \in DOMAIN p.jobs : p.jobs[i].parent \in 0..(i - 1)
  /\ HardTokens \in Nat /\ Estimate \in Nat \ {0} /\ LiveLimit \in Nat /\ LiveLimit >= Estimate
  /\ Usages \subseteq Nat /\ MaxFaults \in Nat /\ MaxForeign \in Nat
  /\ ForeignPaths \subseteq Paths

VARIABLES
  plan,      \* the validated plan
  sched,     \* the loop and its SchedulerProgress
  th,        \* [job -> thread record]
  claims,    \* [job -> paths its claim holds]
  foreign,   \* paths claimed by other runs
  budget,    \* [spent, held, granted, force_stop]
  faults,    \* faults so far
  taken      \* claims other runs took so far

vars == <<plan, sched, th, claims, foreign, budget, faults, taken>>

Jobs == DOMAIN plan.jobs
Job(i) == plan.jobs[i]
Serial == plan.width = 1
PathsOf(scope) == {scope[n] : n \in DOMAIN scope}

\* assignments_overlap.
Overlap(i, j) == ScopesOverlap(PathsOf(Job(i).paths), PathsOf(Job(j).paths))

\* release_assignment_resources_after_completion.
ReleasePerAssignment ==
  \/ plan.width > 1
  \/ \E i, j \in Jobs : i # j /\ Overlap(i, j)
  \/ \E i \in Jobs : Job(i).parent # 0

\* The parent of i, its parent, and so on: what is in every set that contains the parent of
\* i and of each of its members.
Ancestors(i) ==
  {a \in Jobs : \A S \in SUBSET Jobs :
     (\A j \in S \cup {i} : Job(j).parent # 0 => Job(j).parent \in S) => a \in S}

Init ==
  /\ plan \in Plans
  /\ sched = [pc |-> "head", pending |-> Jobs, active |-> {}, admitting |-> 0,
              queue |-> <<>>, outcomes |-> [i \in Jobs |-> "none"], breaker |-> Closed,
              stop |-> FALSE, cancelled |-> FALSE, prevented |-> FALSE, denied |-> {},
              error |-> FALSE, success |-> FALSE]
  /\ th = [i \in Jobs |-> NotStarted]
  /\ claims = [i \in Jobs |-> {}]
  /\ foreign = {}
  /\ budget = [spent |-> 0, held |-> [i \in Jobs |-> 0], granted |-> {}, force_stop |-> FALSE]
  /\ faults = 0
  /\ taken = 0

\* A fault of this kind happens now.
Fault(kind) == kind \in Faults /\ faults < MaxFaults /\ faults' = faults + 1

-----------------------------------------------------------------------------
(* The run budget.                                                          *)

Committed == budget.spent + SumFunctionOnSet(budget.held, Jobs)
WithoutExtras == budget.spent + Estimate * Cardinality({i \in Jobs : budget.held[i] # 0})

new_dispatch_allowed == ~budget.force_stop /\ Committed < HardTokens

\* The second value of concurrent_admission_report.
WaitingForLiveGrant ==
  /\ ~new_dispatch_allowed
  /\ ~budget.force_stop
  /\ budget.granted # {}
  /\ WithoutExtras < HardTokens

request_waits_for_live_grants ==
  /\ ~budget.force_stop
  /\ budget.granted # {}
  /\ Committed + Estimate > HardTokens
  /\ WithoutExtras + Estimate <= HardTokens

Unreserved(b, i) == [b EXCEPT !.held[i] = 0, !.granted = @ \ {i}]

\* The settlement of an invoked dispatch that reported nothing, or nothing reliable.
ChargedMissing(b, i) ==
  [Unreserved(b, i) EXCEPT !.spent = @ + Estimate, !.force_stop = TRUE]

\* live_token_grant has no balance to share.
Overdrawn(i) == Job(i).live /\ Committed > HardTokens

\* live_token_grant: the balance is shared among the reservations that have no grant yet.
Grant(i) ==
  LET allowance == Estimate + (HardTokens - Committed)
                     \div (Cardinality({j \in Jobs : budget.held[j] # 0})
                             - Cardinality(budget.granted))
  IN IF allowance < LiveLimit THEN allowance ELSE LiveLimit

-----------------------------------------------------------------------------
(* Assignment threads.                                                      *)

\* The thread's record becomes r; a thread that ends announces its completion.
Thread(i, r) ==
  /\ th' = [th EXCEPT ![i] = r]
  /\ sched' = IF Ended(r) THEN [sched EXCEPT !.queue = Append(@, i)] ELSE sched

Claimed(i) == foreign \cup UNION {claims[j] : j \in Jobs \ {i}}

\* claim_paths_for_run is granted.
Claim(i) ==
  LET r == th[i]
  IN /\ r.phase = "claim"
     /\ ~ScopesOverlap(PathsOf(r.scope), Claimed(i))
     /\ claims' = [claims EXCEPT ![i] = PathsOf(r.scope)]
     /\ Thread(i, [self_corrected(r, {"claim"}) EXCEPT !.phase = "prepare"])
     /\ UNCHANGED <<plan, foreign, budget, faults, taken>>

\* It is refused; the conflicts are read from the store in a second call.
ClaimConflict(i) ==
  /\ th[i].phase = "claim"
  /\ ScopesOverlap(PathsOf(th[i].scope), Claimed(i))
  /\ Thread(i, [th[i] EXCEPT !.phase = "conflict"])
  /\ UNCHANGED <<plan, claims, foreign, budget, faults, taken>>

\* Also: the narrowed assignment is parked by a second pre-claim check.
Narrow(i) ==
  LET r == ClaimRefused(th[i], Claimed(i))
  IN /\ th[i].phase = "conflict"
     /\ Thread(i, r) \/ (r.phase = "claim" /\ Thread(i, Isolated(r)))
     /\ UNCHANGED <<plan, claims, foreign, budget, faults, taken>>

\* Worktree, lease, controls and semantic intents: ready, perhaps with a warning (a serial
\* run looks for it here), failed in isolation, or blocked.
Prepare(i) ==
  LET r == th[i]
  IN /\ r.phase = "prepare"
     /\ \/ Thread(i, [r EXCEPT !.phase = "reserve"])
        \/ /\ plan.semantic = "warn" /\ Serial
           /\ Thread(i, [Signalled(r, "SemanticWarned") EXCEPT !.phase = "reserve"])
        \/ Thread(i, Isolated(r))
        \/ /\ plan.semantic = "block"
           /\ Thread(i, Isolated(Signalled(r, "SemanticBlocked")))
     /\ UNCHANGED <<plan, claims, foreign, budget, faults, taken>>

Reserved(i) ==
  /\ budget' = [budget EXCEPT !.held[i] = Estimate]
  /\ Thread(i, [th[i] EXCEPT !.phase = "reserved", !.notified = TRUE])

\* reserve_locked.  A request over the ceiling latches the stop.
reserve_locked(i) ==
  \/ /\ new_dispatch_allowed
     /\ Committed + Estimate <= HardTokens
     /\ Reserved(i)
  \/ /\ new_dispatch_allowed
     /\ Committed + Estimate > HardTokens
     /\ budget' = [budget EXCEPT !.force_stop = TRUE]
     /\ Thread(i, Refused(th[i]))
  \/ /\ ~new_dispatch_allowed
     /\ Thread(i, Refused(th[i]))
     /\ UNCHANGED budget

Reserve(i) ==
  /\ th[i].phase = "reserve"
  /\ \/ /\ request_waits_for_live_grants
        /\ Thread(i, [th[i] EXCEPT !.phase = "waiting"])
        /\ UNCHANGED budget
     \/ /\ ~request_waits_for_live_grants
        /\ reserve_locked(i)
  /\ UNCHANGED <<plan, claims, foreign, faults, taken>>

\* Once it waits, a cancellation wins; the deadline may pass too.
Wake(i) ==
  /\ th[i].phase = "waiting"
  /\ \/ /\ sched.cancelled
        /\ Thread(i, Fatal(th[i], "cancelled"))
        /\ UNCHANGED <<budget, faults>>
     \/ /\ ~sched.cancelled
        /\ ~request_waits_for_live_grants
        /\ reserve_locked(i)
        /\ UNCHANGED faults
     \/ /\ ~sched.cancelled
        /\ request_waits_for_live_grants
        /\ Fault("expire")
        /\ Thread(i, Fatal(th[i], "error"))
        /\ UNCHANGED budget
  /\ UNCHANGED <<plan, claims, foreign, taken>>

(***************************************************************************)
(* From the reservation to the provider: a stopped or overdrawn budget     *)
(* refuses the invocation with an error; a cancelled run gets a process    *)
(* that never started; else it runs, under a live grant where there is one. *)
(***************************************************************************)
Launch(i) ==
  /\ th[i].phase = "reserved"
  /\ \/ /\ budget.force_stop \/ Overdrawn(i)
        /\ budget' = Unreserved(budget, i)
        /\ Thread(i, Fatal(th[i], "budget"))
     \/ /\ ~budget.force_stop /\ ~Overdrawn(i)
        /\ budget' = IF Job(i).live
                     THEN [budget EXCEPT !.held[i] = Grant(i), !.granted = @ \cup {i}]
                     ELSE budget
        /\ Thread(i, [th[i] EXCEPT !.phase = IF sched.cancelled THEN "stillborn" ELSE "running"])
  /\ UNCHANGED <<plan, claims, foreign, faults, taken>>

\* The usage of a dispatch that ran is settled before anything else.
Settle(i) ==
  \/ /\ th[i].phase = "stillborn"
     /\ budget' = Unreserved(budget, i)
     /\ UNCHANGED faults
  \/ /\ th[i].phase = "running"
     /\ \E used \in Usages :
          /\ i \in budget.granted => used <= budget.held[i]
          /\ budget' = [Unreserved(budget, i) EXCEPT !.spent = @ + used]
     /\ UNCHANGED faults
  \/ /\ th[i].phase = "running"
     /\ Fault("missing")
     /\ budget' = ChargedMissing(budget, i)

\* A process that never started leaves no report and audits nothing.
Results(i) ==
  IF th[i].role = "child"
  THEN IF th[i].phase = "stillborn" THEN {"shape", "failing"} ELSE Job(i).turns
  ELSE IF th[i].phase = "stillborn" THEN {"evidence"} ELSE Job(i).audits

\* good says whether the candidate was captured before, or was unchanged after, the audit.
EndTurn(i) ==
  /\ th[i].phase \in {"running", "stillborn"}
  /\ Settle(i)
  /\ \E result \in Results(i), good \in BOOLEAN :
       Thread(i, IF th[i].role = "child"
                 THEN decide_child_attempt(th[i], result, Job(i).audits # {}, good)
                 ELSE decide_parent_auditor_gate(th[i], result, good))
  /\ UNCHANGED <<plan, claims, foreign, taken>>

(***************************************************************************)
(* An error or a panic inside the assignment: the dropped reservation is   *)
(* released, or charged if its dispatch was invoked.  An error at a        *)
(* running turn may leave its process tree uncontained.                    *)
(***************************************************************************)
ThreadError(i) ==
  /\ th[i].phase \notin {"none", "ended", "dead"}
  /\ Fault("error")
  /\ \E uncontained \in {FALSE} \cup (IF th[i].phase = "running" THEN {TRUE} ELSE {}) :
       Thread(i, Fatal([th[i] EXCEPT !.uncontained = uncontained], "error"))
  /\ budget' = IF th[i].phase = "running" THEN ChargedMissing(budget, i) ELSE Unreserved(budget, i)
  /\ UNCHANGED <<plan, claims, foreign, taken>>

\* The thread dies before it executes its assignment: nobody notifies the scheduler.
ThreadDies(i) ==
  /\ ~Serial
  /\ th[i].phase = "claim"
  /\ th[i].used = 0
  /\ Fault("die")
  /\ Thread(i, [th[i] EXCEPT !.phase = "dead", !.fatal = "error"])
  /\ UNCHANGED <<plan, claims, foreign, budget, taken>>

\* prepare_semantic_warn_assignments failed the assignment before the schedule began.
PreparedFailed(i) ==
  /\ plan.semantic = "warn" /\ ~Serial
  /\ th[i].phase = "claim"
  /\ th[i].signals = <<>>
  /\ Thread(i, Isolated(th[i]))
  /\ UNCHANGED <<plan, claims, foreign, budget, faults, taken>>

ThreadStep(i) ==
  \/ PreparedFailed(i) \/ Claim(i) \/ ClaimConflict(i) \/ Narrow(i) \/ Prepare(i) \/ Reserve(i)
  \/ Wake(i) \/ Launch(i) \/ EndTurn(i) \/ ThreadError(i) \/ ThreadDies(i)

-----------------------------------------------------------------------------
(* The scheduler.                                                           *)

\* requires_scheduler_abort, and assignment_outcome_succeeded.
Verdict(r, release_failed) ==
  IF r.fatal # "none" \/ r.uncontained \/ release_failed THEN "aborted"
  ELSE IF r.failed \/ r.report # "accepted" THEN "failed"
  ELSE "succeeded"

Unsuccessful == {"failed", "aborted"}

Ready(s, i) == Job(i).parent # 0 => s.outcomes[Job(i).parent] = "succeeded"

suppress_failed_descendants(s) ==
  LET doomed == {i \in s.pending : \E a \in Ancestors(i) : s.outcomes[a] \in Unsuccessful}
  IN [s EXCEPT !.pending = @ \ doomed,
               !.outcomes = [i \in Jobs |-> IF i \in doomed THEN "failed" ELSE @[i]]]

\* Pending assignments are denied for the budget and no more are started.
Denied(s) ==
  [s EXCEPT !.prevented = @ \/ s.pending # {}, !.denied = @ \cup s.pending, !.stop = TRUE]

Bailed(s) == [s EXCEPT !.error = TRUE, !.pc = "exit"]
Cancelled(s) == [s EXCEPT !.cancelled = TRUE]

\* Mutant of Candidates: a pending assignment may overlap an active one.
Candidates_Overlapping(s) == {i \in s.pending : Ready(s, i)}

\* select_ready_nonoverlapping_assignment takes the first of these.
Candidates(s) == {i \in s.pending : Ready(s, i) /\ \A j \in s.active : ~Overlap(i, j)}

\* The loop's head; nothing is admitted once the scheduler stops.
LoopHead ==
  LET s == IF sched.stop THEN sched ELSE suppress_failed_descendants(sched)
  IN /\ sched.pc = "head"
     /\ sched' = [s EXCEPT !.pc =
          IF s.pending = {} /\ s.active = {} THEN "finished"
          ELSE IF Serial THEN "serial"
          ELSE IF sched.stop THEN "drain" ELSE "admit"]
     /\ UNCHANGED <<plan, th, claims, foreign, budget, faults, taken>>

\* prepare_semantic_warn_assignments; the serial loop does not call it.
PreparedSignals ==
  {<<>>} \cup (IF plan.semantic = "warn" /\ ~Serial THEN {<<"SemanticWarned">>} ELSE {})

\* A thread is spawned and the scheduler waits for its admission; or an error ends the loop.
Spawn(i) ==
  LET s == [sched EXCEPT !.pending = @ \ {i}]
  IN \/ /\ \E signals \in PreparedSignals :
             th' = [th EXCEPT ![i] = Started(Job(i).paths, signals)]
        /\ sched' = [s EXCEPT !.active = @ \cup {i}, !.admitting = i,
                              !.pc = IF Serial THEN "inline" ELSE "handshake"]
        /\ UNCHANGED faults
     \/ /\ ~Serial
        /\ Fault("spawn")
        /\ LET failed == [Cancelled(s) EXCEPT !.outcomes[i] = "aborted", !.stop = TRUE]
           IN sched' \in {[failed EXCEPT !.pc = "drain"], Bailed(failed)}
        /\ UNCHANGED th
     \/ /\ Fault("checkpoint")
        /\ sched' = Bailed(s)
        /\ UNCHANGED th

\* A parked assignment fails without being started.
Park(i, pc) ==
  /\ sched' = [sched EXCEPT !.pending = @ \ {i}, !.outcomes[i] = "failed", !.pc = pc]
  /\ UNCHANGED <<th, faults>>

\* One turn of the inner admission loop, up to the choice: the budget is read here.
AdmitNext ==
  /\ sched.pc = "admit"
  /\ \/ /\ Cardinality(sched.active) >= plan.width
        /\ sched' = [sched EXCEPT !.pc = "drain"]
        /\ UNCHANGED <<th, faults>>
     \/ /\ Cardinality(sched.active) < plan.width
        /\ \/ /\ ~permits_admission(sched.breaker)
              /\ sched' = [sched EXCEPT !.stop = TRUE, !.pc = "drain"]
              /\ UNCHANGED <<th, faults>>
           \/ /\ permits_admission(sched.breaker)
              /\ ~new_dispatch_allowed
              /\ sched' = [IF WaitingForLiveGrant /\ sched.active # {} THEN sched
                           ELSE Denied(sched) EXCEPT !.pc = "drain"]
              /\ UNCHANGED <<th, faults>>
           \/ /\ permits_admission(sched.breaker)
              /\ new_dispatch_allowed
              /\ IF Candidates(sched) = {}
                 THEN sched' = [sched EXCEPT !.pc = "drain"] /\ UNCHANGED <<th, faults>>
                 ELSE LET i == Min(Candidates(sched))
                      IN IF Job(i).parked THEN Park(i, "admit")
                         ELSE /\ sched' = [sched EXCEPT !.pc = "starting", !.admitting = i]
                              /\ UNCHANGED <<th, faults>>
  /\ UNCHANGED <<plan, claims, foreign, budget, taken>>

\* The checkpoint is written and the chosen assignment started, whatever its peers did since.
StartNext ==
  /\ sched.pc = "starting"
  /\ Spawn(sched.admitting)
  /\ UNCHANGED <<plan, claims, foreign, budget, taken>>

\* admission_receiver.recv: the thread committed or declined, or it dropped the sender.
Handshake ==
  LET i == sched.admitting
  IN /\ sched.pc = "handshake"
     /\ \/ th[i].notified /\ sched' = [sched EXCEPT !.pc = "admit", !.admitting = 0]
        \/ th[i].phase = "dead" /\ sched' = [Cancelled(sched) EXCEPT !.pc = "joining"]
     /\ UNCHANGED <<plan, th, claims, foreign, budget, faults, taken>>

-----------------------------------------------------------------------------
(* Completions.                                                             *)

\* Mutant of Freed: quarantine is decided after the release.
Freed_Quarantined(i) == claims' = [claims EXCEPT ![i] = {}]

\* release_concurrent_assignment: quarantined authority is kept.
Freed(i) == claims' = IF th[i].uncontained THEN claims ELSE [claims EXCEPT ![i] = {}]

\* The completed assignment leaves the active ones and has its outcome.
Completed(i, release_failed) ==
  [sched EXCEPT !.active = @ \ {i}, !.outcomes[i] = Verdict(th[i], release_failed)]

HealthOutcome(r) ==
  CASE r.report = "rejected" -> "Rejected"
    [] r.report = "accepted" -> "Accepted"
    [] OTHER -> "Failed"

observe_assignment_health(s, r) ==
  IF s.breaker.open THEN s
  ELSE [s EXCEPT !.breaker = Observe(@, Append(r.signals, HealthOutcome(r)))]

\* Mutant of AfterCompletion: an open breaker cancels the assignments that still run.
AfterCompletion_Cancelling(s, i) ==
  LET seen == observe_assignment_health(s, th[i])
  IN IF seen.breaker.open THEN [Cancelled(seen) EXCEPT !.stop = TRUE] ELSE seen

\* What the concurrent loop does with a joined assignment that asks for no abort.
AfterCompletion(s, i) ==
  LET seen == observe_assignment_health(s, th[i])
      halted == [seen EXCEPT !.stop = @ \/ seen.breaker.open]
  IN IF \/ th[i].stopped
        \/ /\ s.pending # {}
           /\ ~new_dispatch_allowed
           /\ s.active = {} \/ ~WaitingForLiveGrant
     THEN [Denied(halted) EXCEPT !.prevented = TRUE]
     ELSE halted

\* Mutant of AfterAbort: the loop forgets to stop.
AfterAbort_NoStop(s) == Cancelled(s)

AfterAbort(s) == [Cancelled(s) EXCEPT !.stop = TRUE]

\* Joined, checkpointed, then released: the claim of an assignment whose checkpoint fails is lost.
DrainOne(i) ==
  \/ \E release_failed \in BOOLEAN :
       LET s == Completed(i, release_failed)
           after == IF s.outcomes[i] = "aborted" THEN AfterAbort(s) ELSE AfterCompletion(s, i)
       IN /\ IF release_failed
             THEN claims[i] # {} /\ ~th[i].uncontained /\ Fault("release") /\ UNCHANGED claims
             ELSE Freed(i) /\ UNCHANGED faults
          /\ sched' = [after EXCEPT !.queue = Tail(@), !.pc = "head"]
  \/ /\ Fault("checkpoint")
     /\ sched' = Bailed([sched EXCEPT !.active = @ \ {i}])
     /\ UNCHANGED claims

Drain ==
  /\ sched.pc = "drain"
  /\ \/ /\ sched.active = {}
        /\ sched' = IF sched.pending = {} \/ sched.stop
                    THEN [sched EXCEPT !.pc = "finished"]
                    ELSE Bailed(Cancelled(sched))
        /\ UNCHANGED <<claims, faults>>
     \/ /\ sched.active # {}
        /\ sched.queue # <<>>
        /\ DrainOne(Head(sched.queue))
  /\ UNCHANGED <<plan, th, foreign, budget, taken>>

\* After a failed handshake every active assignment is joined, in the plan's order.
JoinAll ==
  LET i == Min(sched.active)
  IN /\ sched.pc = "joining"
     /\ IF sched.active = {}
        THEN sched' = Bailed(sched) /\ UNCHANGED <<claims, faults>>
        ELSE /\ Ended(th[i])
             /\ \/ /\ Freed(i)
                   /\ sched' = Completed(i, FALSE)
                   /\ UNCHANGED faults
                \/ /\ claims[i] # {} /\ ~th[i].uncontained
                   /\ Fault("release")
                   /\ sched' = Completed(i, TRUE)
                   /\ UNCHANGED claims
                \/ /\ Fault("checkpoint")
                   /\ sched' = Bailed([sched EXCEPT !.active = @ \ {i}])
                   /\ UNCHANGED claims
     /\ UNCHANGED <<plan, th, foreign, budget, taken>>

\* The scope of an error return joins the threads that still run; their outcomes are lost.
Leave ==
  /\ sched.pc = "exit"
  /\ \A i \in sched.active : Ended(th[i])
  /\ sched' = [sched EXCEPT !.pc = "finished"]
  /\ UNCHANGED <<plan, th, claims, foreign, budget, faults, taken>>

-----------------------------------------------------------------------------
(* The serial loop.                                                         *)

SerialAdmit ==
  LET ready == {i \in sched.pending : Ready(sched, i)}
      i == Min(ready)
  IN /\ sched.pc = "serial"
     /\ \/ /\ ~permits_admission(sched.breaker)
           /\ sched' = [sched EXCEPT !.pc = "finished"]
           /\ UNCHANGED <<th, faults>>
        \/ /\ permits_admission(sched.breaker)
           /\ ~new_dispatch_allowed
           /\ sched' = [Denied(sched) EXCEPT !.pc = "finished"]
           /\ UNCHANGED <<th, faults>>
        \/ /\ permits_admission(sched.breaker)
           /\ new_dispatch_allowed
           /\ IF ready = {} THEN sched' = Bailed(sched) /\ UNCHANGED <<th, faults>>
              ELSE IF Job(i).parked THEN Park(i, "head") ELSE Spawn(i)
     /\ UNCHANGED <<plan, claims, foreign, budget, taken>>

\* The assignment returned; without per-assignment release its claim is kept to the end.
SerialComplete ==
  LET i == sched.admitting
      s(release_failed) == observe_assignment_health(Completed(i, release_failed), th[i])
      after(release_failed) ==
        LET t == s(release_failed)
            prevented == th[i].stopped \/ (t.pending # {} /\ ~new_dispatch_allowed)
        IN [IF prevented THEN [Denied(t) EXCEPT !.prevented = TRUE] ELSE t EXCEPT
              !.queue = <<>>, !.admitting = 0,
              !.pc = IF prevented \/ t.outcomes[i] = "aborted" THEN "finished" ELSE "head"]
  IN /\ sched.pc = "inline"
     /\ Ended(th[i])
     /\ \/ /\ sched' = after(FALSE)
           /\ IF ReleasePerAssignment THEN Freed(i) ELSE UNCHANGED claims
           /\ UNCHANGED faults
        \/ /\ ReleasePerAssignment
           /\ claims[i] # {} /\ ~th[i].uncontained
           /\ Fault("release")
           /\ sched' = after(TRUE)
           /\ UNCHANGED claims
        \/ /\ Fault("checkpoint")
           /\ sched' = Bailed([sched EXCEPT !.active = {}])
           /\ UNCHANGED claims
     /\ UNCHANGED <<plan, th, foreign, budget, taken>>

-----------------------------------------------------------------------------
(* The end of the run.                                                      *)

\* Mutant of Succeeded: only what was recorded counts.
Succeeded_Recorded == \A i \in Jobs : sched.outcomes[i] \in {"none", "succeeded"}

Succeeded ==
  /\ ~sched.error
  /\ ~sched.prevented
  /\ ~sched.breaker.open
  /\ \A i \in Jobs : sched.outcomes[i] \notin Unsuccessful

\* Claims that the terminal release is to free.
Retained ==
  {i \in Jobs : /\ ~ReleasePerAssignment
                /\ sched.outcomes[i] # "none" /\ ~th[i].uncontained /\ claims[i] # {}}

Free(freed) == claims' = [i \in Jobs |-> IF i \in freed THEN {} ELSE claims[i]]

\* The report may still fail for a reason of its own (final integrity, accounting, field
\* guide, environment).  Retained claims are released once its plan is durable; when one of
\* them cannot be, the others are, and the run ends with an error and without its report.
Close ==
  /\ sched.pc = "finished"
  /\ \/ /\ \E clean \in BOOLEAN :
             sched' = [sched EXCEPT !.pc = "closed", !.success = clean /\ Succeeded]
        /\ Free(Retained)
        /\ UNCHANGED faults
     \/ \E i \in Retained :
          /\ Fault("release")
          /\ Free(Retained \ {i})
          /\ sched' = [sched EXCEPT !.pc = "closed", !.error = TRUE, !.success = FALSE]
  /\ UNCHANGED <<plan, th, foreign, budget, taken>>

SchedulerStep ==
  \/ LoopHead \/ AdmitNext \/ StartNext \/ Handshake \/ Drain \/ JoinAll \/ Leave
  \/ SerialAdmit \/ SerialComplete \/ Close

-----------------------------------------------------------------------------
(* Other runs.                                                              *)

ForeignClaim(p) ==
  /\ taken < MaxForeign
  /\ ~ScopesOverlap({p}, foreign \cup UNION {claims[i] : i \in Jobs})
  /\ foreign' = foreign \cup {p}
  /\ taken' = taken + 1
  /\ UNCHANGED <<plan, sched, th, claims, budget, faults>>

ForeignRelease(p) ==
  /\ p \in foreign
  /\ foreign' = foreign \ {p}
  /\ UNCHANGED <<plan, sched, th, claims, budget, faults, taken>>

Next ==
  \/ SchedulerStep
  \/ \E i \in Jobs : ThreadStep(i)
  \/ \E p \in ForeignPaths : ForeignClaim(p) \/ ForeignRelease(p)

Spec == Init /\ [][Next]_vars

\* Turns end (they have a timeout), threads and the scheduler are scheduled.
FairSpec ==
  /\ Spec
  /\ WF_vars(SchedulerStep)
  /\ WF_vars(\E i \in Jobs : ThreadStep(i))

-----------------------------------------------------------------------------
(* Properties.                                                              *)

SchedulerTypeOK ==
  /\ sched.pending \cup sched.active \subseteq Jobs /\ sched.pending \cap sched.active = {}
  /\ sched.outcomes \in [Jobs -> {"none", "failed", "aborted", "succeeded"}]
  /\ \A i \in Jobs : budget.held[i] \in Nat /\ claims[i] \subseteq Paths
  /\ budget.granted \subseteq {i \in Jobs : budget.held[i] # 0}

(***************************************************************************)
(* Two assignments that run at the same time never overlap, and one whose  *)
(* parent has not succeeded, or still holds its claim, was never started   *)
(* (README.md:3848-3851, select_ready_nonoverlapping_assignment).          *)
(***************************************************************************)
DispatchIsSafe ==
  /\ SchedulerTypeOK
  /\ \A i, j \in sched.active : i # j => ~Overlap(i, j)
  /\ \A i \in Jobs :
       th[i].phase # "none" =>
         \A a \in Ancestors(i) : sched.outcomes[a] = "succeeded" /\ claims[a] = {}

(***************************************************************************)
(* Whenever the scheduler looks at the budget to admit another assignment, *)
(* the first attempt of each one it started holds its reservation, or the  *)
(* assignment has ended: the decision cannot race past an invisible        *)
(* reservation of a newly spawned one (README.md:2047-2050).  Retries and  *)
(* audits reserve later, at any time.                                      *)
(***************************************************************************)
NoInvisibleReservation ==
  sched.pc = "admit" =>
    \A i \in sched.active :
      (th[i].attempt = 1 /\ th[i].role = "child" /\ ~Ended(th[i])) => budget.held[i] >= Estimate

(***************************************************************************)
(* An uncontained assignment keeps the claim it ran under, through the     *)
(* drain and the close.  At the close any other claim that is left is one  *)
(* whose release failed, or the scheduler itself returned an error.        *)
(***************************************************************************)
AuthorityAccounted ==
  /\ \A i \in Jobs : th[i].uncontained => claims[i] = PathsOf(th[i].scope)
  /\ sched.pc = "closed" =>
       \A i \in Jobs :
         claims[i] # {} =>
           th[i].uncontained \/ sched.error \/ (faults > 0 /\ sched.outcomes[i] = "aborted")

(***************************************************************************)
(* The run reports success only if every assignment succeeded, nothing of  *)
(* it runs and nothing is claimed or reserved; an assignment that was      *)
(* never dispatched is explained by a failed ancestor, by its parking, or  *)
(* by the stop of the scheduler.                                           *)
(***************************************************************************)
ReportIsTrue ==
  sched.pc = "closed" =>
    /\ sched.success =>
         \A i \in Jobs :
           sched.outcomes[i] = "succeeded" /\ claims[i] = {} /\ budget.held[i] = 0
    /\ \A i \in Jobs :
         /\ th[i].phase \in {"none", "ended", "dead"}
         /\ (th[i].phase = "none" /\ sched.outcomes[i] = "failed") =>
              Job(i).parked \/ \E a \in Ancestors(i) : sched.outcomes[a] \in Unsuccessful
         /\ sched.outcomes[i] = "none" =>
              \/ sched.cancelled \/ sched.error \/ sched.breaker.open \/ i \in sched.denied
              \/ \E j \in Jobs : sched.outcomes[j] = "aborted"

(***************************************************************************)
(* The scheduler cancels its assignments only for a cause: a fault, an     *)
(* assignment left uncontained, a descendant of a parked assignment, or an *)
(* assignment that ended with an error of its own.  The errors are a       *)
(* second gate denial beside an active one, and a dispatch that holds its  *)
(* reservation when the budget stops, and learns of it at its invocation   *)
(* (BudgetStopDrains).  A request refused at the reservation, a rejected   *)
(* report or an open breaker never cancels a turn that runs.               *)
(***************************************************************************)
CancelledForCause ==
  sched.cancelled =>
    \/ faults > 0
    \/ \E i \in Jobs : th[i].uncontained \/ th[i].fatal \in {"gate", "budget"}
    \/ \E i \in sched.pending : \E a \in Ancestors(i) : Job(a).parked

(***************************************************************************)
(* "A hard ceiling still halts new dispatch and drains already-started     *)
(* assignments" (README.md:2046-2047): when nothing failed, no denial was  *)
(* raised beside an active one, every turn was contained and nothing was   *)
(* parked, no turn runs in a cancelled schedule.  The code does not keep   *)
(* this promise: see CancelledForCause.                                    *)
(***************************************************************************)
BudgetStopDrains ==
  /\ sched.cancelled /\ faults = 0
  /\ \A i \in Jobs : ~th[i].uncontained /\ th[i].fatal # "gate" /\ ~Job(i).parked
  => \A i \in Jobs : th[i].phase # "running"

(***************************************************************************)
(* Every attempt is paid for by a structural retry or a gate correction,   *)
(* so the attempt loop ends by a decision and never by running out         *)
(* (supervise.rs GateCorrectionTracker, plan.max_child_retries).           *)
(***************************************************************************)
RetriesAreBounded ==
  \A i \in Jobs :
    /\ th[i].structural <= MaxRetries + 1
    /\ th[i].used <= MaxCorrections
    /\ th[i].attempt < th[i].structural + th[i].used + 1

(***************************************************************************)
(* Once an abort or an open breaker has stopped the scheduler no           *)
(* assignment is started any more (README.md:4115-4117).  Once the budget  *)
(* is stopped none is chosen and none gets a reservation; only the one     *)
(* chosen before, while its checkpoint was written, is still spawned.      *)
(***************************************************************************)
NothingAfterStop ==
  [][/\ sched.cancelled \/ sched.breaker.open =>
          \A i \in Jobs : th[i].phase = "none" => th'[i].phase = "none"
     /\ budget.force_stop =>
          /\ sched'.pc = "starting" => sched.pc = "starting"
          /\ \A i \in Jobs :
               /\ budget.held[i] = 0 => budget'.held[i] = 0
               /\ (th[i].phase = "none" /\ th'[i].phase # "none") =>
                    sched.pc = "starting" /\ sched.admitting = i]_vars

(***************************************************************************)
(* The run ends: no handshake, wait for a live grant or drain blocks it.   *)
(***************************************************************************)
ScheduleEnds == <>(sched.pc = "closed")
=============================================================================
