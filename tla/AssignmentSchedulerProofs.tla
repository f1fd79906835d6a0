---------------------- MODULE AssignmentSchedulerProofs ---------------------
(***************************************************************************)
(* For every plan, every bound and any number of faults: the safety        *)
(* properties of the assignment scheduler.                                 *)
(*                                                                         *)
(* None of them is inductive.  IndInv relates the five places that know    *)
(* about an assignment: its thread record, the loop's pending and active   *)
(* sets and outcomes, its claim, its reservation and the queue.  Attempts  *)
(* says how a record pays for its attempts and what its end implies;       *)
(* Reservations and Authority which phases hold tokens and paths;          *)
(* Placement and Hierarchy where an assignment is and why; Completions and *)
(* Control what the program counter of the loop implies (an admission is   *)
(* awaited before the next one is decided); Stops and Causes what made the *)
(* scheduler stop or cancel.                                               *)
(*                                                                         *)
(* A step of a thread is a ThreadMove, which keeps the invariant; a step   *)
(* of the scheduler that starts nothing Resolves assignments, which keeps  *)
(* all of it but the parts about the loop itself; Spawn is the only step   *)
(* that starts a thread.  Chosen says what is known of an assignment       *)
(* between its choice, when the budget is read, and its start.             *)
(***************************************************************************)
EXTENDS AssignmentScheduler, SumTheorems

-----------------------------------------------------------------------------
(* Thread records.                                                          *)

Holding == {"reserved", "running", "stillborn"}
Claimant == {"prepare", "reserve", "waiting"} \cup Holding
Working == {"claim", "conflict"} \cup Claimant
Phases == Working \cup {"none", "ended", "dead"}

Scope == UNION {[D -> Paths] : D \in SUBSET Nat}
Reasons == {"none", "claim", "budget"} \cup ChildResults \cup AuditResults
Gate == [reason : Reasons, paths : SUBSET Paths]

ThreadRecord ==
  [phase : Phases, role : {"child", "auditor"}, scope : Scope, attempt : Nat \ {0},
   structural : Nat, used : Nat, gate : Gate, signals : Seq(SwarmHealthSignals), notified : BOOLEAN,
   report : {"none", "accepted", "failed", "rejected"}, failed : BOOLEAN, stopped : BOOLEAN,
   fatal : {"none", "error", "cancelled", "budget", "gate"}, uncontained : BOOLEAN]

\* Every attempt is paid for.
Paid(r) ==
  /\ r.structural <= MaxRetries + 1
  /\ r.used <= MaxCorrections
  /\ r.attempt < r.structural + r.used + 1

\* An assignment that was admitted is past its reservation, or past its first child turn.
Admitted(r) ==
  r.notified /\ r.attempt = 1 /\ r.role = "child" => r.phase \in Holding \/ Ended(r)

AttemptOK(r) ==
  /\ r \in ThreadRecord
  /\ Paid(r)
  /\ Admitted(r)
  /\ r.uncontained \/ r.fatal # "none" => Ended(r)
  /\ r.phase = "dead" => r.fatal = "error"
  /\ r.phase = "none" => r.report = "none"

-----------------------------------------------------------------------------
(* The inductive invariant.                                                 *)

LoopPcs == {"head", "admit", "starting", "handshake", "drain", "serial", "inline"}
EndPcs == {"exit", "finished", "closed"}
Outcomes == {"none", "failed", "aborted", "succeeded"}

SchedShape(s) ==
  /\ s = [pc |-> s.pc, pending |-> s.pending, active |-> s.active, admitting |-> s.admitting,
          queue |-> s.queue, outcomes |-> s.outcomes, breaker |-> s.breaker, stop |-> s.stop,
          cancelled |-> s.cancelled, prevented |-> s.prevented, denied |-> s.denied,
          error |-> s.error, success |-> s.success]
  /\ s.pc \in LoopPcs \cup {"joining"} \cup EndPcs
  /\ s.pending \in SUBSET Jobs /\ s.active \in SUBSET Jobs
  /\ s.queue \in Seq(Jobs)
  /\ s.outcomes \in [Jobs -> Outcomes]
  /\ s.stop \in BOOLEAN /\ s.cancelled \in BOOLEAN /\ s.prevented \in BOOLEAN
  /\ s.error \in BOOLEAN /\ s.success \in BOOLEAN

BudgetRecord == [spent : Nat, held : [Jobs -> Nat], granted : SUBSET Jobs, force_stop : BOOLEAN]

Types ==
  /\ plan \in Plans
  /\ SchedShape(sched)
  /\ th \in [Jobs -> ThreadRecord]
  /\ claims \in [Jobs -> SUBSET Paths]
  /\ budget \in BudgetRecord
  /\ faults \in Nat

Attempts == \A i \in Jobs : AttemptOK(th[i])

\* Exactly the dispatches between their reservation and their settlement hold tokens.
Reservations ==
  \A i \in Jobs :
    /\ th[i].phase \in Holding => budget.held[i] >= Estimate
    /\ th[i].phase \notin Holding => budget.held[i] = 0
    /\ i \in budget.granted => th[i].phase \in {"running", "stillborn"}

\* A thread past its claim, and an uncontained one, hold the scope they claimed; what has
\* its outcome holds nothing unless it is uncontained or its release failed (the terminal
\* release fails with an error of the run).
Authority ==
  \A i \in Jobs :
    /\ th[i].phase \in Claimant \/ th[i].uncontained => claims[i] = PathsOf(th[i].scope)
    /\ claims[i] # {} => th[i].phase \in Claimant \cup {"ended", "dead"}
    /\ claims[i] # {} /\ sched.outcomes[i] # "none" /\ ReleasePerAssignment =>
         th[i].uncontained \/ (faults > 0 /\ sched.outcomes[i] = "aborted")
    /\ claims[i] # {} /\ sched.outcomes[i] # "none" /\ sched.pc = "closed" =>
         th[i].uncontained \/ sched.error \/ (faults > 0 /\ sched.outcomes[i] = "aborted")

\* An assignment is pending, active, or has the outcome its record earned.
Placement ==
  /\ \A i \in sched.pending : th[i].phase = "none" /\ sched.outcomes[i] = "none"
  /\ \A i \in sched.active : th[i].phase # "none" /\ sched.outcomes[i] = "none"
  /\ \A i \in Jobs :
       /\ th[i].phase \in Working => i \in sched.active
       /\ sched.outcomes[i] = "none" => i \in sched.pending \cup sched.active \/ sched.error
       /\ sched.outcomes[i] = "succeeded" => Verdict(th[i], FALSE) = "succeeded"

\* Why an assignment was started, or failed without being started.
Hierarchy ==
  \A i \in Jobs :
    /\ th[i].phase # "none" /\ Job(i).parent # 0 =>
         sched.outcomes[Job(i).parent] = "succeeded"
    /\ th[i].phase = "none" /\ sched.outcomes[i] = "failed" =>
         Job(i).parked \/ \E a \in Ancestors(i) : sched.outcomes[a] \in Unsuccessful

Disjoint == \A i, j \in sched.active : i # j => ~Overlap(i, j)

\* While the loop runs, the queue names active assignments that ended, each once.
Completions ==
  sched.pc \in LoopPcs =>
    /\ \A n \in DOMAIN sched.queue : sched.queue[n] \in sched.active /\ Ended(th[sched.queue[n]])
    /\ \A m, n \in DOMAIN sched.queue : m # n => sched.queue[m] # sched.queue[n]

Control ==
  /\ Serial => sched.pc \in {"head", "serial", "inline"} \cup EndPcs /\ ~sched.cancelled
  /\ Serial /\ sched.pc \in {"head", "serial"} => sched.active = {}
  /\ sched.pc = "serial" => Serial
  /\ sched.pc = "inline" => Serial /\ sched.active = {sched.admitting}
  /\ sched.pc = "handshake" => sched.admitting \in sched.active
  /\ sched.pc \in {"admit", "starting", "handshake"} => ~sched.stop
  /\ ~Serial /\ sched.pc \in LoopPcs =>
       \A i \in sched.active :
         th[i].notified \/ (sched.pc = "handshake" /\ i = sched.admitting)
  /\ sched.error => sched.pc \in EndPcs
  /\ sched.pc = "exit" => sched.error
  /\ sched.pc \in {"finished", "closed"} =>
       (\A i \in sched.active : Ended(th[i])) /\ (sched.active = {} \/ sched.error)

\* What stopped the scheduler, and what an assignment without an outcome is explained by.
Stops ==
  /\ sched.cancelled => sched.stop \/ sched.pc = "joining" \/ sched.pc \in EndPcs
  /\ sched.cancelled =>
       sched.error \/ sched.pc = "joining" \/ \E i \in Jobs : sched.outcomes[i] = "aborted"
  /\ sched.stop => sched.cancelled \/ sched.breaker.open \/ sched.pending \subseteq sched.denied
  /\ sched.denied # {} => sched.prevented
  /\ sched.pc \in {"finished", "closed"} =>
       \/ sched.pending \subseteq sched.denied \/ sched.cancelled \/ sched.error
       \/ sched.breaker.open \/ \E i \in Jobs : sched.outcomes[i] = "aborted"
  /\ sched.pc = "closed" /\ sched.success => Succeeded

\* A cause of the cancellation that lasts.
Cause ==
  \/ faults > 0
  \/ \E i \in Jobs : th[i].uncontained \/ th[i].fatal \in {"gate", "budget"}
  \/ /\ sched.pc \in EndPcs
     /\ \E i \in sched.pending : \E a \in Ancestors(i) : Job(a).parked

Causes ==
  /\ sched.cancelled => Cause
  /\ \A i \in Jobs : (th[i].fatal = "error" => faults > 0) /\ (th[i].fatal = "cancelled" => sched.cancelled)
  /\ sched.pc \in {"admit", "starting", "handshake", "drain"} /\ ~sched.stop =>
       \A i \in sched.pending : \A a \in Ancestors(i) :
         sched.outcomes[a] \in Unsuccessful => Job(a).parked
  /\ sched.pc = "drain" /\ sched.active = {} /\ ~sched.stop =>
       \A i \in sched.pending : ~Ready(sched, i)

IndInv ==
  /\ Types /\ Attempts /\ Reservations /\ Authority /\ Placement /\ Hierarchy /\ Disjoint
  /\ Completions /\ Control /\ Stops /\ Causes

-----------------------------------------------------------------------------
(* What the operators of AssignmentAttempt do with a record.                *)

\* A record of an assignment that has not ended in an error.
Sound(r) == r \in ThreadRecord /\ Paid(r) /\ r.fatal = "none" /\ ~r.uncontained

\* q is what a turn makes of r.
Follows(q, r) ==
  /\ AttemptOK(q)
  /\ q.scope = r.scope
  /\ r.notified => q.notified
  /\ q.phase \in {"reserve", "ended"}
  /\ q.fatal \in {"none", "gate"}

\* No gate is a gate.
LEMMA NoGateIsGate == NoGate \in Gate
BY DEF NoGate, Denial, Gate, Reasons

\* Over ends the record and changes nothing else that matters.
LEMMA OverEnds ==
  ASSUME NEW r \in ThreadRecord, Paid(r)
  PROVE  /\ AttemptOK(Over(r))
         /\ Over(r).phase = "ended" /\ Over(r).scope = r.scope /\ Over(r).fatal = r.fatal
         /\ Over(r).uncontained = r.uncontained /\ Over(r).notified
<1> DEFINE q == Over(r)
<1>1. /\ q \in ThreadRecord /\ q.phase = "ended" /\ q.scope = r.scope /\ q.fatal = r.fatal
      /\ q.uncontained = r.uncontained /\ q.structural = r.structural /\ q.used = r.used
      /\ q.attempt = r.attempt /\ q.notified
  BY NoGateIsGate DEF Over, ThreadRecord, Phases
<1> QED
  BY <1>1 DEF AttemptOK, Paid, Admitted, Ended

\* Fatal ends a record with its cause.
LEMMA FatalEnds ==
  ASSUME NEW r \in ThreadRecord, Paid(r), NEW cause \in {"error", "cancelled", "budget", "gate"}
  PROVE  /\ AttemptOK(Fatal(r, cause)) /\ Fatal(r, cause).phase = "ended"
         /\ Fatal(r, cause).scope = r.scope /\ Fatal(r, cause).fatal = cause
         /\ Fatal(r, cause).uncontained = r.uncontained /\ Fatal(r, cause).notified
<1> DEFINE q == [r EXCEPT !.fatal = cause]
<1>1. /\ q \in ThreadRecord /\ Paid(q) /\ q.scope = r.scope /\ q.fatal = cause
      /\ q.uncontained = r.uncontained
  BY DEF ThreadRecord, Paid
<1> QED
  BY <1>1, OverEnds DEF Fatal

\* An isolated failure ends the record.
LEMMA IsolatedEnds ==
  ASSUME NEW r, Sound(r)
  PROVE  /\ Follows(Isolated(r), r) /\ Isolated(r).phase = "ended"
         /\ Isolated(r).notified /\ ~Isolated(r).uncontained /\ Isolated(r).fatal = "none"
<1> DEFINE q == [r EXCEPT !.failed = TRUE]
<1>1. /\ q \in ThreadRecord /\ Paid(q) /\ q.scope = r.scope /\ q.fatal = r.fatal
      /\ q.uncontained = r.uncontained
  BY DEF ThreadRecord, Paid, Sound
<1> QED
  BY <1>1, OverEnds DEF Isolated, Follows, Sound

\* A published report ends the record.
LEMMA PublishEnds ==
  ASSUME NEW r \in ThreadRecord, Paid(r), r.fatal = "none",
         NEW report \in {"none", "accepted", "failed", "rejected"}
  PROVE  Follows(Publish(r, report), r) /\ Publish(r, report).notified
<1> DEFINE q == [r EXCEPT !.report = report]
<1>1. /\ q \in ThreadRecord /\ Paid(q) /\ q.scope = r.scope /\ q.fatal = r.fatal
      /\ q.uncontained = r.uncontained
  BY DEF ThreadRecord, Paid
<1> QED
  BY <1>1, OverEnds DEF Publish, Follows

\* A signal is only recorded.
LEMMA SignalledSound ==
  ASSUME NEW r, Sound(r), NEW signal \in SwarmHealthSignals
  PROVE  /\ Sound(Signalled(r, signal)) /\ Signalled(r, signal).scope = r.scope
         /\ Signalled(r, signal).attempt = r.attempt /\ Signalled(r, signal).used = r.used
         /\ Signalled(r, signal).structural = r.structural
         /\ Signalled(r, signal).notified = r.notified /\ Signalled(r, signal).role = r.role
         /\ Signalled(r, signal).phase = r.phase /\ Signalled(r, signal).gate = r.gate
<1>1. Append(r.signals, signal) \in Seq(SwarmHealthSignals)
  BY DEF Sound, ThreadRecord
<1> QED
  BY <1>1 DEF Sound, Signalled, ThreadRecord, Paid

\* A resolved or corrected gate leaves a sound record.
LEMMA GateSound ==
  ASSUME NEW r, Sound(r), NEW gate \in Gate
  PROVE  LET q == [r EXCEPT !.gate = gate]
         IN /\ Sound(q) /\ q.scope = r.scope /\ q.attempt = r.attempt /\ q.used = r.used
            /\ q.structural = r.structural /\ q.notified = r.notified /\ q.role = r.role
            /\ q.phase = r.phase
BY DEF Sound, ThreadRecord, Paid

\* self_corrected changes the gate at most.
LEMMA SelfCorrectedSound ==
  ASSUME NEW r, Sound(r), NEW reasons
  PROVE  LET q == self_corrected(r, reasons)
         IN /\ Sound(q) /\ q.scope = r.scope /\ q.attempt = r.attempt /\ q.used = r.used
            /\ q.structural = r.structural /\ q.notified = r.notified /\ q.role = r.role
            /\ q.phase = r.phase
BY NoGateIsGate, GateSound DEF self_corrected

\* An attempt that is paid for may be followed by another.
LEMMA AgainFollows ==
  ASSUME NEW r, Sound(r), r.attempt < r.structural + r.used
  PROVE  Follows(Again(r), r)
<1>1. CASE r.attempt < MaxAttempts
  <2> DEFINE q == [r EXCEPT !.attempt = @ + 1, !.role = "child", !.phase = "reserve",
                            !.report = "none"]
  <2>0. r.attempt + 1 \in Nat \ {0} /\ r.attempt + 1 # 1
    BY DEF Sound, ThreadRecord
  <2>1. /\ q \in ThreadRecord /\ q.attempt = r.attempt + 1
        /\ q.phase = "reserve" /\ q.scope = r.scope /\ q.fatal = "none" /\ ~q.uncontained
        /\ q.structural = r.structural /\ q.used = r.used /\ q.notified = r.notified
    BY <2>0 DEF Sound, ThreadRecord, Phases, Working, Claimant
  <2>2. Again(r) = q
    BY <1>1 DEF Again
  <2>3. Paid(q)
    BY <2>1 DEF Sound, Paid, ThreadRecord
  <2> HIDE DEF q
  <2> QED
    BY <2>0, <2>1, <2>2, <2>3 DEF Follows, AttemptOK, Admitted
<1>2. CASE ~(r.attempt < MaxAttempts)
  BY <1>2, IsolatedEnds DEF Again
<1> QED
  BY <1>1, <1>2

\* A structural retry is counted.
LEMMA StructuralRetryFollows ==
  ASSUME NEW r, Sound(r), r.structural <= MaxRetries
  PROVE  Follows(StructuralRetry(r), r)
<1> DEFINE q == [r EXCEPT !.structural = @ + 1]
<1>1. /\ q \in ThreadRecord /\ q.scope = r.scope /\ q.fatal = "none" /\ ~q.uncontained
      /\ q.structural = r.structural + 1 /\ q.attempt = r.attempt /\ q.used = r.used
      /\ q.notified = r.notified
  BY DEF Sound, ThreadRecord
<1> HIDE DEF q
<1>3. Sound(q) /\ q.attempt < q.structural + q.used
  BY <1>1, AttemptAssumption DEF Sound, ThreadRecord, Paid
<1>2. /\ Sound(Signalled(q, "Retried")) /\ Signalled(q, "Retried").scope = q.scope
      /\ Signalled(q, "Retried").notified = q.notified
      /\ Signalled(q, "Retried").attempt
           < Signalled(q, "Retried").structural + Signalled(q, "Retried").used
  BY <1>1, <1>3, SignalledSound DEF SwarmHealthSignals
<1> QED
  BY <1>1, <1>2, AgainFollows DEF StructuralRetry, Follows, q

\* An authorized correction is counted.
LEMMA AuthorizedSound ==
  ASSUME NEW r, Sound(r), NEW denial \in Gate, CanCorrect(r)
  PROVE  /\ Sound(Authorized(r, denial)) /\ Authorized(r, denial).scope = r.scope
         /\ Authorized(r, denial).attempt = r.attempt
         /\ Authorized(r, denial).notified = r.notified
         /\ Authorized(r, denial).role = r.role
         /\ Authorized(r, denial).attempt
              < Authorized(r, denial).structural + Authorized(r, denial).used
<1> DEFINE q == [r EXCEPT !.gate = denial, !.used = @ + 1]
<1>0. r.used + 1 \in Nat
  BY DEF Sound, ThreadRecord
<1>1. /\ q \in ThreadRecord /\ q.scope = r.scope /\ q.fatal = "none" /\ ~q.uncontained
      /\ q.structural = r.structural /\ q.attempt = r.attempt /\ q.used = r.used + 1
      /\ q.notified = r.notified /\ q.role = r.role
  BY <1>0 DEF Sound, ThreadRecord
<1> HIDE DEF q
<1>2. Sound(q) /\ q.attempt < q.structural + q.used
  BY <1>1, AttemptAssumption DEF Sound, ThreadRecord, Paid, CanCorrect
<1> QED
  BY <1>1, <1>2, SignalledSound DEF Authorized, q, SwarmHealthSignals

\* escalate and authorize end in one of the given records or in a gate error.
LEMMA EscalateFollows ==
  ASSUME NEW r, Sound(r), NEW denial, NEW end, Follows(end, r)
  PROVE  Follows(escalate(r, denial, end), r)
BY FatalEnds DEF escalate, Follows, Sound

\* A correction follows, or the other end of the denial, or a gate error.
LEMMA AuthorizeFollows ==
  ASSUME NEW r, Sound(r), NEW denial, NEW corrected, NEW otherwise,
         CanCorrect(r) => Follows(corrected, r), Follows(otherwise, r)
  PROVE  Follows(authorize(r, denial, corrected, otherwise), r)
BY FatalEnds DEF authorize, Follows, Sound

\* A finished child attempt waits for its auditor or is published.
LEMMA FinishFollows ==
  ASSUME NEW r, Sound(r), NEW report \in {"accepted", "failed", "rejected"},
         NEW audited \in BOOLEAN, NEW captured \in BOOLEAN
  PROVE  Follows(Finish(r, report, audited, captured), r)
<1>1. CASE audited /\ captured
  <2> DEFINE q == [r EXCEPT !.role = "auditor", !.phase = "reserve", !.report = report]
  <2>1. /\ q \in ThreadRecord /\ Paid(q) /\ q.role = "auditor" /\ q.phase = "reserve"
        /\ q.scope = r.scope /\ q.fatal = "none" /\ ~q.uncontained /\ q.notified = r.notified
    BY DEF Sound, ThreadRecord, Paid, Phases, Working, Claimant
  <2>2. Finish(r, report, audited, captured) = q
    BY <1>1 DEF Finish
  <2> HIDE DEF q
  <2> QED
    BY <2>1, <2>2 DEF Follows, AttemptOK, Admitted
<1>2. CASE ~(audited /\ captured)
  BY <1>2, PublishEnds DEF Finish, Sound
<1> QED
  BY <1>1, <1>2

\* A denial of a turn is a gate.
LEMMA DenialIsGate ==
  ASSUME NEW scope \in Scope, NEW reason \in Reasons
  PROVE  Denial(reason, {scope[n] : n \in DOMAIN scope}) \in Gate
<1>1. PICK D \in SUBSET Nat : scope \in [D -> Paths]
  BY DEF Scope
<1>2. {scope[n] : n \in DOMAIN scope} \in SUBSET Paths
  BY <1>1
<1> QED
  BY <1>2 DEF Denial, Gate

\* An authorized correction is followed by another attempt.
LEMMA CorrectionFollows ==
  ASSUME NEW r, Sound(r), NEW denial \in Gate, CanCorrect(r)
  PROVE  Follows(Again(Authorized(r, denial)), r)
BY AuthorizedSound, AgainFollows DEF Follows

\* An uncontained turn is published as rejected.
LEMMA UncontainedEnds ==
  ASSUME NEW r, Sound(r)
  PROVE  Follows(Publish([r EXCEPT !.uncontained = TRUE], "rejected"), r)
<1> DEFINE q == [r EXCEPT !.uncontained = TRUE]
<1>1. q \in ThreadRecord /\ Paid(q) /\ q.scope = r.scope /\ q.fatal = "none"
  BY DEF Sound, ThreadRecord, Paid
<1> QED
  BY <1>1, PublishEnds DEF Follows

\* decide_child_attempt follows the record, whatever the turn showed.
LEMMA ChildDecides ==
  ASSUME NEW r, Sound(r), NEW result \in ChildResults, NEW audited \in BOOLEAN,
         NEW captured \in BOOLEAN
  PROVE  Follows(decide_child_attempt(r, result, audited, captured), r)
<1> DEFINE denial == Denial(result, {r.scope[n] : n \in DOMAIN r.scope})
           settled == [r EXCEPT !.gate = NoGate]
           corrected == self_corrected(r, ValidationGates)
           q == decide_child_attempt(r, result, audited, captured)
<1>1. denial \in Gate
  BY DenialIsGate DEF Sound, ThreadRecord, Reasons
<1>2. Sound(settled) /\ settled.scope = r.scope /\ settled.notified = r.notified
  BY NoGateIsGate, GateSound
<1>3. Sound(corrected) /\ corrected.scope = r.scope /\ corrected.notified = r.notified
  BY SelfCorrectedSound
<1>4. Follows(Publish(r, "rejected"), r)
  BY PublishEnds DEF Sound
<1> HIDE DEF denial, settled, corrected
<1>5. CASE result = "uncontained"
  <2>1. q = Publish([settled EXCEPT !.uncontained = TRUE], "rejected")
    BY <1>5 DEF decide_child_attempt, settled, ValidationGates
  <2> QED
    BY <1>2, <2>1, UncontainedEnds DEF Follows
<1>6. CASE result = "terminal"
  <2>1. q = Publish(r, "rejected")
    BY <1>6 DEF decide_child_attempt, ValidationGates
  <2> QED
    BY <2>1, <1>4
<1>7. CASE result = "side_effect"
  <2>1. q = escalate(r, denial, Publish(r, "rejected"))
    BY <1>7 DEF decide_child_attempt, denial, ValidationGates
  <2> QED
    BY <2>1, <1>4, EscalateFollows
<1>8. CASE result = "shape"
  <2>1. q = IF r.structural <= MaxRetries THEN StructuralRetry(r)
            ELSE Finish(r, "rejected", audited, captured)
    BY <1>8 DEF decide_child_attempt, ValidationGates
  <2> QED
    BY <2>1, StructuralRetryFollows, FinishFollows
<1>9. CASE result = "unusable"
  <2>1. q = Finish(r, "rejected", audited, captured)
    BY <1>9 DEF decide_child_attempt, ValidationGates
  <2> QED
    BY <2>1, FinishFollows
<1>10. CASE result \in ValidationGates
  <2>1. q = authorize(r, denial, Again(Authorized(r, denial)),
              Finish(settled, "rejected", audited, captured))
    BY <1>10 DEF decide_child_attempt, denial, settled, ValidationGates
  <2>2. Follows(Finish(settled, "rejected", audited, captured), r)
    BY <1>2, FinishFollows DEF Follows
  <2>3. CanCorrect(r) => Follows(Again(Authorized(r, denial)), r)
    BY <1>1, CorrectionFollows
  <2> QED
    BY <2>1, <2>2, <2>3, AuthorizeFollows
<1>11. CASE result \in {"failing", "good"}
  <2>1. q = Finish(corrected, IF result = "good" THEN "accepted" ELSE "failed", audited, captured)
    BY <1>11 DEF decide_child_attempt, corrected, ValidationGates
  <2> QED
    BY <1>3, <2>1, FinishFollows DEF Follows
<1> QED
  BY <1>5, <1>6, <1>7, <1>8, <1>9, <1>10, <1>11 DEF ChildResults, ValidationGates

\* decide_parent_auditor_gate follows the record, whatever the audit found.
LEMMA AuditorDecides ==
  ASSUME NEW r, Sound(r), NEW result \in AuditResults, NEW unchanged \in BOOLEAN
  PROVE  Follows(decide_parent_auditor_gate(r, result, unchanged), r)
<1> DEFINE denial == Denial(result, {r.scope[n] : n \in DOMAIN r.scope})
           q == decide_parent_auditor_gate(r, result, unchanged)
<1>1. denial \in Gate
  BY DenialIsGate DEF Sound, ThreadRecord, Reasons
<1>2. Follows(Publish(r, "rejected"), r)
  BY PublishEnds DEF Sound
<1> HIDE DEF denial
<1>3. CASE result = "accept"
  <2>1. q = Publish(r, IF unchanged THEN r.report ELSE "rejected")
    BY <1>3 DEF decide_parent_auditor_gate
  <2> QED
    BY <2>1, PublishEnds DEF Sound, ThreadRecord
<1>4. CASE result = "defect"
  <2>1. q = authorize(r, denial, Again(Authorized(r, denial)), Publish(r, "rejected"))
    BY <1>4 DEF decide_parent_auditor_gate, denial
  <2>2. CanCorrect(r) => Follows(Again(Authorized(r, denial)), r)
    BY <1>1, CorrectionFollows
  <2> QED
    BY <2>1, <2>2, <1>2, AuthorizeFollows
<1>5. CASE result = "evidence"
  <2>1. q = escalate(r, denial, Publish(r, "rejected"))
    BY <1>5 DEF decide_parent_auditor_gate, denial
  <2> QED
    BY <2>1, <1>2, EscalateFollows
<1>6. CASE result = "blocked"
  <2>1. q = Publish(r, "rejected")
    BY <1>6 DEF decide_parent_auditor_gate
  <2> QED
    BY <2>1, <1>2
<1>7. CASE result = "uncontained"
  <2>1. q = Publish([r EXCEPT !.uncontained = TRUE], "rejected")
    BY <1>7 DEF decide_parent_auditor_gate
  <2> QED
    BY <2>1, UncontainedEnds
<1> QED
  BY <1>3, <1>4, <1>5, <1>6, <1>7 DEF AuditResults

\* A refused reservation ends the assignment.
LEMMA RefusedFollows ==
  ASSUME NEW r, Sound(r)
  PROVE  /\ Follows(Refused(r), r) /\ Refused(r).phase = "ended"
         /\ Refused(r).notified /\ ~Refused(r).uncontained
<1> DEFINE q == [r EXCEPT !.failed = TRUE, !.stopped = TRUE,
                          !.report = IF r.role = "auditor" THEN "rejected" ELSE @]
<1>1. q \in ThreadRecord /\ Paid(q) /\ q.scope = r.scope /\ q.fatal = "none" /\ ~q.uncontained
  BY DEF Sound, ThreadRecord, Paid
<1>2. Refused(r) = escalate(r, Denial("budget", {}), Over(q))
  BY DEF Refused
<1> HIDE DEF q
<1>3. Follows(Over(q), r) /\ Over(q).phase = "ended" /\ Over(q).notified /\ ~Over(q).uncontained
  BY <1>1, OverEnds DEF Follows
<1>4. CASE begins(r, Denial("budget", {}))
  BY <1>2, <1>3, <1>4 DEF escalate
<1>5. CASE ~begins(r, Denial("budget", {}))
  BY <1>2, <1>5, FatalEnds DEF escalate, Follows, Sound
<1> QED
  BY <1>4, <1>5

\* A refused claim is narrowed and asked for again, or ends the assignment.
LEMMA ClaimRefusedOK ==
  ASSUME NEW r, Sound(r), Admitted(r), r.phase = "conflict", NEW claimed
  PROVE  LET q == ClaimRefused(r, claimed)
         IN /\ AttemptOK(q) /\ q.phase \in {"claim", "ended"} /\ ~q.uncontained
            /\ q.fatal \in {"none", "gate"} /\ (r.notified => q.notified)
            /\ q.phase = "claim" => q.fatal = "none"
<1> DEFINE conflicts == claim_conflict_details(r.scope, claimed)
           denial == Denial("claim", conflicts)
           denied == Signalled(r, "ClaimDenied")
           narrowed == safely_narrow_claim_scope(r.scope, conflicts)
           again == [Authorized(denied, denial) EXCEPT !.scope = narrowed, !.phase = "claim"]
           q == ClaimRefused(r, claimed)
<1>1. PICK D \in SUBSET Nat : r.scope \in [D -> Paths]
  BY DEF Sound, ThreadRecord, Scope
<1>2. conflicts \in SUBSET Paths
  BY <1>1 DEF claim_conflict_details
<1>3. denial \in Gate
  BY <1>2 DEF Denial, Gate, Reasons
<1>4. narrowed \in Scope
  <2>1. \E E \in SUBSET Nat : narrowed \in [E -> Paths]
    BY <1>1 DEF safely_narrow_claim_scope, RestrictValues, Restrict
  <2> QED
    BY <2>1 DEF Scope
<1>5. /\ Sound(denied) /\ denied.phase = "conflict" /\ denied.attempt = r.attempt
      /\ denied.notified = r.notified /\ denied.role = r.role
  BY SignalledSound DEF SwarmHealthSignals
<1>6. /\ AttemptOK(Isolated(denied)) /\ Isolated(denied).phase = "ended"
      /\ ~Isolated(denied).uncontained /\ Isolated(denied).fatal = "none"
      /\ Isolated(denied).notified
  BY <1>5, IsolatedEnds DEF Follows
<1>7. /\ AttemptOK(Fatal(denied, "gate")) /\ Fatal(denied, "gate").phase = "ended"
      /\ ~Fatal(denied, "gate").uncontained /\ Fatal(denied, "gate").fatal = "gate"
      /\ Fatal(denied, "gate").notified
  BY <1>5, FatalEnds DEF Sound
<1> HIDE DEF conflicts, denial, denied, narrowed
<1>8. CASE conflicts = {}
  <2>1. q = Isolated(Signalled(r, "ClaimFailed"))
    BY <1>8 DEF ClaimRefused, conflicts
  <2>2. Sound(Signalled(r, "ClaimFailed"))
    BY SignalledSound DEF SwarmHealthSignals
  <2> QED
    BY <2>1, <2>2, IsolatedEnds DEF Follows
<1>9. CASE conflicts # {} /\ narrowed \in {<<>>, r.scope}
  <2>1. q = escalate(denied, denial, Isolated(denied))
    BY <1>9 DEF ClaimRefused, conflicts, denied, denial, narrowed
  <2>2. q \in {Isolated(denied), Fatal(denied, "gate")}
    BY <2>1 DEF escalate
  <2> HIDE DEF q
  <2> QED
    BY <2>2, <1>6, <1>7 DEF q
<1>10. CASE conflicts # {} /\ narrowed \notin {<<>>, r.scope}
  <2>1. q = authorize(denied, denial, again, Isolated(denied))
    BY <1>10 DEF ClaimRefused, conflicts, denied, denial, narrowed
  <2>2. CASE ~CanCorrect(denied) \/ ~begins(denied, denial)
    <3>1. q \in {Isolated(denied), Fatal(denied, "gate")}
      BY <2>1, <2>2 DEF authorize
    <3> HIDE DEF q
    <3> QED
      BY <3>1, <1>6, <1>7 DEF q
  <2>3. CASE CanCorrect(denied) /\ begins(denied, denial)
    <3>1. q = again
      BY <2>1, <2>3 DEF authorize
    <3> DEFINE a == Authorized(denied, denial)
    <3>2. /\ Sound(a) /\ a.attempt = r.attempt /\ a.notified = r.notified /\ a.role = r.role
      BY <1>3, <1>5, <2>3, AuthorizedSound
    <3> HIDE DEF a
    <3>3. /\ again \in ThreadRecord /\ Paid(again) /\ again.phase = "claim" /\ again.fatal = "none"
          /\ ~again.uncontained /\ again.attempt = r.attempt /\ again.notified = r.notified
          /\ again.role = r.role
      BY <3>2, <1>4 DEF Sound, ThreadRecord, Paid, Phases, Working, a
    <3> HIDE DEF again
    <3>4. AttemptOK(again)
      BY <3>3 DEF AttemptOK, Admitted, Ended, Holding
    <3> HIDE DEF q
    <3> QED
      BY <3>1, <3>3, <3>4 DEF q
  <2> QED
    BY <2>2, <2>3
<1> QED
  BY <1>8, <1>9, <1>10

-----------------------------------------------------------------------------
(* What a step of a thread does.                                            *)

\* The record of i becomes r and everything else that i holds follows it.
ThreadMove(i, r) ==
  /\ th[i].phase \in Working
  /\ AttemptOK(r) /\ r.phase # "none"
  /\ th[i].notified => r.notified
  /\ Thread(i, r)
  /\ claims' \in [Jobs -> SUBSET Paths]
  /\ \A j \in Jobs \ {i} : claims'[j] = claims[j]
  /\ r.phase \in Claimant \/ r.uncontained => claims'[i] = PathsOf(r.scope)
  /\ claims'[i] # {} => r.phase \in Claimant \cup {"ended", "dead"}
  /\ budget' \in BudgetRecord
  /\ \A j \in Jobs \ {i} :
       budget'.held[j] = budget.held[j] /\ (j \in budget'.granted => j \in budget.granted)
  /\ r.phase \in Holding => budget'.held[i] >= Estimate
  /\ r.phase \notin Holding => budget'.held[i] = 0
  /\ i \in budget'.granted => r.phase \in {"running", "stillborn"}
  /\ faults' \in Nat /\ faults' >= faults
  /\ r.fatal = "error" => faults' > 0
  /\ r.fatal = "cancelled" => sched.cancelled
  /\ plan' = plan

\* The plan of a state is one of the plans.
LEMMA PlanFacts ==
  ASSUME Types
  PROVE  /\ IsFiniteSet(Jobs) /\ Jobs \subseteq Nat \ {0}
         /\ plan.width \in Nat \ {0}
         /\ \A i \in Jobs : /\ Job(i).parent \in 0..(i - 1)
                            /\ Job(i).parent # 0 => Job(i).parent \in Jobs
                            /\ Job(i).paths \in Seq(Paths)
                            /\ Job(i).turns \subseteq ChildResults
                            /\ Job(i).audits \subseteq AuditResults
                            /\ Job(i).parked \in BOOLEAN
<1> DEFINE A == [paths : Seq(Paths), parent : Nat, live : BOOLEAN, parked : BOOLEAN,
                 turns : SUBSET ChildResults, audits : SUBSET AuditResults]
<1>1. /\ plan.width \in Nat \ {0} /\ plan.jobs \in Seq(A)
      /\ \A i \in DOMAIN plan.jobs : plan.jobs[i].parent \in 0..(i - 1)
  BY SchedulerAssumption DEF Types
<1>2. Jobs = 1..Len(plan.jobs) /\ Len(plan.jobs) \in Nat
  BY <1>1 DEF Jobs
<1>3. IsFiniteSet(Jobs)
  BY <1>2, FS_Interval
<1>4. \A i \in Jobs : Job(i) \in A /\ Job(i).parent \in 0..(i - 1)
  <2> HIDE DEF A
  <2>1. \A i \in Jobs : Job(i) \in A
    BY <1>1, <1>2 DEF Job
  <2> QED
    BY <1>1, <2>1 DEF Jobs, Job
<1>5. ASSUME NEW i \in Jobs
      PROVE  /\ Job(i).parent # 0 => Job(i).parent \in Jobs
             /\ Job(i).paths \in Seq(Paths) /\ Job(i).turns \subseteq ChildResults
             /\ Job(i).audits \subseteq AuditResults /\ Job(i).parked \in BOOLEAN
  <2>1. /\ Job(i).paths \in Seq(Paths) /\ Job(i).turns \subseteq ChildResults
        /\ Job(i).audits \subseteq AuditResults /\ Job(i).parked \in BOOLEAN
    BY <1>4
  <2>2. i \in Nat /\ i <= Len(plan.jobs) /\ Job(i).parent \in 0..(i - 1)
    BY <1>2, <1>4
  <2>3. Job(i).parent # 0 => Job(i).parent \in Jobs
    BY <1>2, <2>2
  <2> QED
    BY <2>1, <2>3
<1>6. Jobs \subseteq Nat \ {0}
  BY <1>2
<1> HIDE DEF A
<1> QED
  BY <1>1, <1>3, <1>4, <1>5, <1>6

\* A thread at work has a sound record.
LEMMA WorkingSound ==
  ASSUME Types, Attempts, NEW i \in Jobs, th[i].phase \in Working
  PROVE  Sound(th[i]) /\ AttemptOK(th[i]) /\ Admitted(th[i]) /\ ~Ended(th[i])
BY DEF Attempts, AttemptOK, Sound, Ended, Working, Claimant, Holding

\* A step of a thread that holds no tokens and changes neither claims nor reservations.
LEMMA QuietMove ==
  ASSUME IndInv, NEW i \in Jobs, NEW r, th[i].phase \in Working \ Holding, AttemptOK(r),
         Thread(i, r), th[i].notified => r.notified, UNCHANGED <<plan, claims>>,
         budget' \in BudgetRecord, budget'.held = budget.held, budget'.granted = budget.granted,
         r.phase \in Phases \ (Holding \cup {"none"}), ~r.uncontained,
         faults' \in Nat, faults' >= faults, r.fatal = "error" => faults' > 0,
         r.fatal = "cancelled" => sched.cancelled,
         r.phase \in Claimant => th[i].phase \in Claimant /\ r.scope = th[i].scope,
         r.phase \in {"claim", "conflict"} => th[i].phase \in {"claim", "conflict"}
  PROVE  ThreadMove(i, r)
<1>1. Types /\ Reservations /\ Authority
  BY DEF IndInv
<1>2. claims'[i] # {} => r.phase \in Claimant \cup {"ended", "dead"}
  BY <1>1 DEF Authority, Phases, Working, Claimant, Holding
<1>3. r.phase \in Claimant => claims'[i] = PathsOf(r.scope)
  BY <1>1 DEF Authority
<1>4. budget'.held[i] = 0 /\ i \notin budget'.granted
  BY <1>1 DEF Reservations, Holding
<1>5. claims' \in [Jobs -> SUBSET Paths]
  BY <1>1 DEF Types
<1> QED
  BY <1>1, <1>2, <1>3, <1>4, <1>5 DEF ThreadMove

\* Claim, ClaimConflict, Narrow and PreparedFailed.
LEMMA ClaimMoves ==
  ASSUME IndInv, NEW i \in Jobs,
         PreparedFailed(i) \/ Claim(i) \/ ClaimConflict(i) \/ Narrow(i)
  PROVE  \E r : ThreadMove(i, r)
<1>0. Types /\ Attempts /\ Reservations /\ Authority
  BY DEF IndInv
<1>1. CASE PreparedFailed(i)
  <2> DEFINE r == Isolated(th[i])
  <2>1. th[i].phase \in Working \ Holding /\ Thread(i, r) /\ UNCHANGED <<plan, claims, budget, faults>>
    BY <1>1 DEF PreparedFailed, Working, Holding, Claimant
  <2>2. AttemptOK(r) /\ r.phase = "ended" /\ r.notified /\ ~r.uncontained /\ r.fatal = "none"
    BY <1>0, <2>1, WorkingSound, IsolatedEnds DEF Follows
  <2> HIDE DEF r
  <2> QED
    BY <1>0, <2>1, <2>2, QuietMove DEF Phases, Holding, Claimant, Types
<1>2. CASE ClaimConflict(i)
  <2> DEFINE r == [th[i] EXCEPT !.phase = "conflict"]
  <2>1. th[i].phase = "claim" /\ Thread(i, r) /\ UNCHANGED <<plan, claims, budget, faults>>
    BY <1>2 DEF ClaimConflict
  <2>2. Sound(th[i]) /\ Admitted(th[i])
    BY <1>0, <2>1, WorkingSound DEF Working
  <2>3. /\ r \in ThreadRecord /\ Paid(r) /\ r.phase = "conflict" /\ r.fatal = "none"
        /\ ~r.uncontained /\ r.notified = th[i].notified /\ r.attempt = th[i].attempt
        /\ r.role = th[i].role
    BY <2>2 DEF Sound, ThreadRecord, Paid, Phases, Working
  <2> HIDE DEF r
  <2>4. AttemptOK(r)
    BY <2>1, <2>2, <2>3 DEF AttemptOK, Admitted, Ended, Holding
  <2> QED
    BY <1>0, <2>1, <2>3, <2>4, QuietMove DEF Phases, Working, Holding, Claimant, Types
<1>3. CASE Narrow(i)
  <2> DEFINE q == ClaimRefused(th[i], Claimed(i))
  <2>1. th[i].phase = "conflict" /\ UNCHANGED <<plan, claims, budget, faults>>
    BY <1>3 DEF Narrow
  <2>2. Sound(th[i]) /\ Admitted(th[i])
    BY <1>0, <2>1, WorkingSound DEF Working
  <2>3. /\ AttemptOK(q) /\ q.phase \in {"claim", "ended"} /\ ~q.uncontained
        /\ q.fatal \in {"none", "gate"} /\ (th[i].notified => q.notified)
        /\ q.phase = "claim" => q.fatal = "none"
    BY <2>1, <2>2, ClaimRefusedOK
  <2>4. Thread(i, q) \/ (q.phase = "claim" /\ Thread(i, Isolated(q)))
    BY <1>3 DEF Narrow
  <2> HIDE DEF q
  <2>5. CASE Thread(i, q)
    BY <1>0, <2>1, <2>3, <2>5, QuietMove DEF Phases, Working, Holding, Claimant, Types
  <2>6. CASE q.phase = "claim" /\ Thread(i, Isolated(q))
    <3>1. Sound(q)
      BY <2>3, <2>6 DEF Sound, AttemptOK
    <3> DEFINE r == Isolated(q)
    <3>2. AttemptOK(r) /\ r.phase = "ended" /\ r.notified /\ ~r.uncontained /\ r.fatal = "none"
      BY <3>1, IsolatedEnds DEF Follows
    <3> HIDE DEF r
    <3>3. Thread(i, r)
      BY <2>6 DEF r
    <3> QED
      BY <1>0, <2>1, <3>2, <3>3, QuietMove DEF Phases, Working, Holding, Claimant, Types
  <2> QED
    BY <2>4, <2>5, <2>6
<1>4. CASE Claim(i)
  <2> DEFINE c == self_corrected(th[i], {"claim"})
             r == [c EXCEPT !.phase = "prepare"]
  <2>1. /\ th[i].phase = "claim" /\ Thread(i, r) /\ UNCHANGED <<plan, budget, faults>>
        /\ claims' = [claims EXCEPT ![i] = PathsOf(th[i].scope)]
    BY <1>4 DEF Claim
  <2>2. Sound(th[i]) /\ Admitted(th[i])
    BY <1>0, <2>1, WorkingSound DEF Working
  <2>3. /\ Sound(c) /\ c.scope = th[i].scope /\ c.attempt = th[i].attempt
        /\ c.notified = th[i].notified /\ c.role = th[i].role
    BY <2>2, SelfCorrectedSound
  <2> HIDE DEF c
  <2>4. /\ r \in ThreadRecord /\ Paid(r) /\ r.phase = "prepare" /\ r.fatal = "none"
        /\ ~r.uncontained /\ r.notified = th[i].notified /\ r.attempt = th[i].attempt
        /\ r.role = th[i].role /\ r.scope = th[i].scope
    BY <2>3 DEF Sound, ThreadRecord, Paid, Phases, Working, Claimant
  <2> HIDE DEF r
  <2>5. AttemptOK(r)
    BY <2>1, <2>2, <2>4 DEF AttemptOK, Admitted, Ended, Holding
  <2>6. PathsOf(th[i].scope) \in SUBSET Paths
    <3>1. PICK D \in SUBSET Nat : th[i].scope \in [D -> Paths]
      BY <2>2 DEF Sound, ThreadRecord, Scope
    <3> QED
      BY <3>1 DEF PathsOf
  <2>7. /\ claims' \in [Jobs -> SUBSET Paths] /\ claims'[i] = PathsOf(r.scope)
        /\ \A j \in Jobs \ {i} : claims'[j] = claims[j]
    BY <1>0, <2>1, <2>4, <2>6 DEF Types
  <2>8. budget'.held[i] = 0 /\ i \notin budget'.granted /\ budget' \in BudgetRecord /\ faults' \in Nat
    BY <1>0, <2>1 DEF Reservations, Types, Holding
  <2>9. ThreadMove(i, r)
    BY <1>0, <2>1, <2>4, <2>5, <2>7, <2>8 DEF ThreadMove, Types, Working, Claimant, Holding
  <2> QED
    BY <2>9
<1> QED
  BY <1>1, <1>2, <1>3, <1>4

\* Preparation and the wait for a live grant hold no tokens.
LEMMA PrepareMoves ==
  ASSUME IndInv, NEW i \in Jobs, Prepare(i)
  PROVE  \E r : ThreadMove(i, r)
<1>0. Types /\ Attempts
  BY DEF IndInv
<1>1. th[i].phase = "prepare" /\ UNCHANGED <<plan, claims, budget, faults>>
  BY DEF Prepare
<1>2. Sound(th[i]) /\ Admitted(th[i])
  BY <1>0, <1>1, WorkingSound DEF Working, Claimant
<1>3. PICK q : /\ q \in {th[i], Signalled(th[i], "SemanticWarned"), Signalled(th[i], "SemanticBlocked")}
               /\ Thread(i, [q EXCEPT !.phase = "reserve"]) \/ Thread(i, Isolated(q))
  BY DEF Prepare
<1>4. /\ Sound(q) /\ q.scope = th[i].scope /\ q.attempt = th[i].attempt
      /\ q.notified = th[i].notified /\ q.role = th[i].role
  BY <1>2, <1>3, SignalledSound DEF SwarmHealthSignals
<1>5. CASE Thread(i, [q EXCEPT !.phase = "reserve"])
  <2> DEFINE r == [q EXCEPT !.phase = "reserve"]
  <2>1. /\ r \in ThreadRecord /\ Paid(r) /\ r.phase = "reserve" /\ r.fatal = "none"
        /\ ~r.uncontained /\ r.notified = th[i].notified /\ r.attempt = th[i].attempt
        /\ r.role = th[i].role /\ r.scope = th[i].scope
    BY <1>4 DEF Sound, ThreadRecord, Paid, Phases, Working, Claimant
  <2> HIDE DEF r
  <2>2. AttemptOK(r)
    BY <1>1, <1>2, <2>1 DEF AttemptOK, Admitted, Ended, Holding
  <2>3. Thread(i, r)
    BY <1>5 DEF r
  <2> QED
    BY <1>0, <1>1, <2>1, <2>2, <2>3, QuietMove DEF Phases, Working, Holding, Claimant, Types
<1>6. CASE Thread(i, Isolated(q))
  <2> DEFINE r == Isolated(q)
  <2>1. AttemptOK(r) /\ r.phase = "ended" /\ r.notified /\ ~r.uncontained /\ r.fatal = "none"
    BY <1>4, IsolatedEnds DEF Follows
  <2> HIDE DEF r
  <2>2. Thread(i, r)
    BY <1>6 DEF r
  <2> QED
    BY <1>0, <1>1, <2>1, <2>2, QuietMove DEF Phases, Working, Holding, Claimant, Types
<1> QED
  BY <1>3, <1>5, <1>6

\* reserve_locked, by a thread that asks for the first time or was woken.
LEMMA ReserveMoves ==
  ASSUME IndInv, NEW i \in Jobs, th[i].phase \in {"reserve", "waiting"}, reserve_locked(i),
         UNCHANGED <<plan, claims, faults>>
  PROVE  \E r : ThreadMove(i, r)
<1>0. Types /\ Attempts /\ Reservations /\ Authority
  BY DEF IndInv
<1>1. Sound(th[i]) /\ Admitted(th[i])
  BY <1>0, WorkingSound DEF Working, Claimant
<1>2. CASE Reserved(i)
  <2> DEFINE r == [th[i] EXCEPT !.phase = "reserved", !.notified = TRUE]
  <2>1. /\ r \in ThreadRecord /\ Paid(r) /\ r.phase = "reserved" /\ r.fatal = "none"
        /\ ~r.uncontained /\ r.notified /\ r.scope = th[i].scope
    BY <1>1 DEF Sound, ThreadRecord, Paid, Phases, Working, Claimant, Holding
  <2>2. Thread(i, r) /\ budget' = [budget EXCEPT !.held[i] = Estimate]
    BY <1>2 DEF Reserved
  <2> HIDE DEF r
  <2>3. AttemptOK(r)
    BY <2>1 DEF AttemptOK, Admitted, Holding
  <2>4. /\ budget' \in BudgetRecord /\ budget'.held[i] = Estimate /\ budget'.granted = budget.granted
        /\ \A j \in Jobs \ {i} : budget'.held[j] = budget.held[j]
    BY <1>0, <2>2, SchedulerAssumption DEF Types, BudgetRecord
  <2>5. i \notin budget.granted /\ claims[i] = PathsOf(th[i].scope)
    BY <1>0 DEF Reservations, Authority, Claimant
  <2>6. ThreadMove(i, r)
    BY <1>0, <2>1, <2>2, <2>3, <2>4, <2>5, SchedulerAssumption
       DEF ThreadMove, Types, Working, Claimant, Holding
  <2> QED
    BY <2>6
<1>3. CASE Thread(i, Refused(th[i])) /\ budget' \in {budget, [budget EXCEPT !.force_stop = TRUE]}
  <2> DEFINE r == Refused(th[i])
  <2>1. /\ AttemptOK(r) /\ r.phase = "ended" /\ r.notified /\ ~r.uncontained
        /\ r.fatal \in {"none", "gate"}
    BY <1>1, RefusedFollows DEF Follows
  <2> HIDE DEF r
  <2>2. Thread(i, r)
    BY <1>3 DEF r
  <2>3. /\ budget' \in BudgetRecord /\ budget'.held = budget.held
        /\ budget'.granted = budget.granted
    BY <1>0, <1>3 DEF Types, BudgetRecord
  <2> QED
    BY <1>0, <2>1, <2>2, <2>3, QuietMove DEF Phases, Working, Holding, Claimant, Types
<1> QED
  BY <1>2, <1>3 DEF reserve_locked

\* Reserve and Wake.
LEMMA AskMoves ==
  ASSUME IndInv, NEW i \in Jobs, Reserve(i) \/ Wake(i)
  PROVE  \E r : ThreadMove(i, r)
<1>0. Types /\ Attempts
  BY DEF IndInv
<1>1. /\ th[i].phase \in {"reserve", "waiting"} /\ UNCHANGED <<plan, claims>>
  BY DEF Reserve, Wake
<1>2. Sound(th[i]) /\ Admitted(th[i])
  BY <1>0, <1>1, WorkingSound DEF Working, Claimant
<1>3. CASE reserve_locked(i) /\ UNCHANGED faults
  BY <1>1, <1>3, ReserveMoves
<1>4. CASE Thread(i, [th[i] EXCEPT !.phase = "waiting"]) /\ UNCHANGED <<budget, faults>>
  <2> DEFINE r == [th[i] EXCEPT !.phase = "waiting"]
  <2>1. /\ r \in ThreadRecord /\ Paid(r) /\ r.phase = "waiting" /\ r.fatal = "none"
        /\ ~r.uncontained /\ r.notified = th[i].notified /\ r.attempt = th[i].attempt
        /\ r.role = th[i].role /\ r.scope = th[i].scope
    BY <1>2 DEF Sound, ThreadRecord, Paid, Phases, Working, Claimant
  <2> HIDE DEF r
  <2>2. AttemptOK(r)
    BY <1>1, <1>2, <2>1 DEF AttemptOK, Admitted, Ended, Holding
  <2>3. Thread(i, r)
    BY <1>4 DEF r
  <2> QED
    BY <1>0, <1>1, <1>4, <2>1, <2>2, <2>3, QuietMove
       DEF Phases, Working, Holding, Claimant, Types
<1>5. ASSUME NEW cause \in {"error", "cancelled"}, Thread(i, Fatal(th[i], cause)), UNCHANGED budget,
             faults' \in Nat, faults' >= faults, cause = "error" => faults' > 0,
             cause = "cancelled" => sched.cancelled
      PROVE  \E r : ThreadMove(i, r)
  <2> DEFINE r == Fatal(th[i], cause)
  <2>1. AttemptOK(r) /\ r.phase = "ended" /\ r.notified /\ ~r.uncontained /\ r.fatal = cause
    BY <1>2, FatalEnds DEF Sound
  <2> HIDE DEF r
  <2>2. Thread(i, r)
    BY <1>5 DEF r
  <2> QED
    BY <1>0, <1>1, <1>5, <2>1, <2>2, QuietMove DEF Phases, Working, Holding, Claimant, Types
<1>6. CASE Wake(i) /\ sched.cancelled /\ Thread(i, Fatal(th[i], "cancelled")) /\ UNCHANGED <<budget, faults>>
  BY <1>0, <1>5, <1>6 DEF Types
<1>7. CASE Fault("expire") /\ Thread(i, Fatal(th[i], "error")) /\ UNCHANGED budget
  BY <1>0, <1>5, <1>7 DEF Types, Fault
<1> QED
  BY <1>3, <1>4, <1>6, <1>7 DEF Reserve, Wake

\* The constants of the budget are numbers.
LEMMA BudgetConstants ==
  /\ HardTokens \in Nat /\ Estimate \in Nat \ {0} /\ LiveLimit \in Nat /\ LiveLimit >= Estimate
  /\ Usages \subseteq Nat
BY SchedulerAssumption

\* A share of a natural number is one.
LEMMA ShareIsNatural ==
  ASSUME NEW a \in Nat, NEW n \in Nat \ {0}
  PROVE  a \div n \in Nat
OBVIOUS

\* What a dispatch gives back.
LEMMA UnreservedFrees ==
  ASSUME Types, NEW i \in Jobs
  PROVE  LET b == Unreserved(budget, i)
         IN /\ b \in BudgetRecord /\ b.held[i] = 0 /\ i \notin b.granted
            /\ b.spent = budget.spent
            /\ \A j \in Jobs \ {i} :
                 b.held[j] = budget.held[j] /\ (j \in b.granted => j \in budget.granted)
BY DEF Types, BudgetRecord, Unreserved

\* A settled dispatch holds nothing any more.
LEMMA SettleFrees ==
  ASSUME Types, NEW i \in Jobs, Settle(i)
  PROVE  /\ budget' \in BudgetRecord /\ budget'.held[i] = 0 /\ i \notin budget'.granted
         /\ \A j \in Jobs \ {i} :
              budget'.held[j] = budget.held[j] /\ (j \in budget'.granted => j \in budget.granted)
         /\ faults' \in Nat /\ faults' >= faults
<1> DEFINE b == Unreserved(budget, i)
<1>1. /\ b \in BudgetRecord /\ b.held[i] = 0 /\ i \notin b.granted
      /\ \A j \in Jobs \ {i} :
           b.held[j] = budget.held[j] /\ (j \in b.granted => j \in budget.granted)
  BY UnreservedFrees
<1> HIDE DEF b
<1>2. CASE budget' = b /\ UNCHANGED faults
  BY <1>1, <1>2 DEF Types
<1>3. ASSUME NEW used \in Nat, budget' = [b EXCEPT !.spent = @ + used], UNCHANGED faults
      PROVE  /\ budget' \in BudgetRecord /\ budget'.held = b.held /\ budget'.granted = b.granted
             /\ faults' \in Nat /\ faults' >= faults
  BY <1>1, <1>3 DEF Types, BudgetRecord
<1>4. ASSUME Fault("missing"), budget' = [b EXCEPT !.spent = @ + Estimate, !.force_stop = TRUE]
      PROVE  /\ budget' \in BudgetRecord /\ budget'.held = b.held /\ budget'.granted = b.granted
             /\ faults' \in Nat /\ faults' >= faults
  <2>1. b.spent + Estimate \in Nat
    BY <1>1, BudgetConstants DEF BudgetRecord
  <2>2. /\ budget' \in BudgetRecord /\ budget'.held = b.held /\ budget'.granted = b.granted
    BY <1>1, <1>4, <2>1 DEF BudgetRecord
  <2>3. faults \in Nat /\ faults' = faults + 1
    BY <1>4 DEF Types, Fault
  <2> QED
    BY <2>2, <2>3
<1>5. CASE \E used \in Usages : budget' = [b EXCEPT !.spent = @ + used] /\ UNCHANGED faults
  BY <1>1, <1>3, <1>5, BudgetConstants
<1>6. CASE Fault("missing") /\ budget' = ChargedMissing(budget, i)
  BY <1>1, <1>4, <1>6 DEF ChargedMissing, b
<1> QED
  BY <1>2, <1>5, <1>6 DEF Settle, b

\* A live grant covers the estimate: the divisor counts the dispatch itself.
LEMMA GrantCovers ==
  ASSUME IndInv, NEW i \in Jobs, th[i].phase = "reserved", Job(i).live, ~Overdrawn(i)
  PROVE  Grant(i) \in Nat /\ Grant(i) >= Estimate
<1>0. Types /\ Reservations /\ IsFiniteSet(Jobs)
  BY PlanFacts DEF IndInv
<1>1. budget.held[i] >= Estimate /\ i \notin budget.granted
  BY <1>0 DEF Reservations, Holding
<1> DEFINE H == {j \in Jobs : budget.held[j] # 0}
           n == Cardinality(H) - Cardinality(budget.granted)
<1>2. i \in H /\ budget.granted \subseteq H \ {i}
  BY <1>0, <1>1, BudgetConstants DEF Reservations, Holding, Types, BudgetRecord
<1>3. IsFiniteSet(H) /\ IsFiniteSet(H \ {i})
  BY <1>0, FS_Subset
<1>4. /\ Cardinality(H \ {i}) = Cardinality(H) - 1 /\ Cardinality(H) \in Nat
      /\ Cardinality(budget.granted) \in Nat
      /\ Cardinality(budget.granted) <= Cardinality(H \ {i})
  <2> HIDE DEF H
  <2>1. Cardinality(H \ {i}) = Cardinality(H) - 1 /\ Cardinality(H) \in Nat
    BY <1>2, <1>3, FS_RemoveElement, FS_CardinalityType
  <2>2. IsFiniteSet(budget.granted) /\ Cardinality(budget.granted) <= Cardinality(H \ {i})
    BY <1>2, <1>3, FS_Subset
  <2> QED
    BY <2>1, <2>2, FS_CardinalityType
<1>5. n \in Nat \ {0}
  <2> HIDE DEF H
  <2> QED
    BY <1>4
<1>6. Committed \in Nat
  <2>1. budget.spent \in Nat /\ \A j \in Jobs : budget.held[j] \in Nat
    BY <1>0 DEF Types, BudgetRecord
  <2>2. SumFunctionOnSet(budget.held, Jobs) \in Nat
    BY <1>0, <2>1, SumNatural
  <2> QED
    BY <2>1, <2>2 DEF Committed
<1>7. Committed <= HardTokens
  BY <1>6, BudgetConstants DEF Overdrawn
<1> DEFINE share == (HardTokens - Committed) \div n
<1>8. share \in Nat
  <2> HIDE DEF n
  <2>1. HardTokens - Committed \in Nat
    BY <1>6, <1>7, BudgetConstants
  <2> QED
    BY <1>5, <2>1, ShareIsNatural
<1>9. Grant(i) = IF Estimate + share < LiveLimit THEN Estimate + share ELSE LiveLimit
  BY DEF Grant
<1> HIDE DEF share
<1> QED
  BY <1>8, <1>9, BudgetConstants

\* From the reservation to the provider.
LEMMA LaunchMoves ==
  ASSUME IndInv, NEW i \in Jobs, Launch(i)
  PROVE  \E r : ThreadMove(i, r)
<1>0. Types /\ Attempts /\ Reservations /\ Authority
  BY DEF IndInv
<1>1. th[i].phase = "reserved" /\ UNCHANGED <<plan, claims, faults>>
  BY DEF Launch
<1>2. Sound(th[i]) /\ Admitted(th[i])
  BY <1>0, <1>1, WorkingSound DEF Working, Claimant, Holding
<1>3. claims[i] = PathsOf(th[i].scope) /\ claims' \in [Jobs -> SUBSET Paths] /\ faults' \in Nat
  BY <1>0, <1>1 DEF Authority, Claimant, Holding, Types
<1>4. CASE budget' = Unreserved(budget, i) /\ Thread(i, Fatal(th[i], "budget"))
  <2> DEFINE r == Fatal(th[i], "budget")
  <2>1. AttemptOK(r) /\ r.phase = "ended" /\ r.notified /\ ~r.uncontained /\ r.fatal = "budget"
    BY <1>2, FatalEnds DEF Sound
  <2> HIDE DEF r
  <2>2. Thread(i, r)
    BY <1>4 DEF r
  <2>3. /\ budget' \in BudgetRecord /\ budget'.held[i] = 0 /\ i \notin budget'.granted
        /\ \A j \in Jobs \ {i} :
             budget'.held[j] = budget.held[j] /\ (j \in budget'.granted => j \in budget.granted)
    BY <1>0, <1>4, UnreservedFrees
  <2>4. ThreadMove(i, r)
    BY <1>0, <1>1, <1>3, <2>1, <2>2, <2>3 DEF ThreadMove, Types, Working, Claimant, Holding
  <2> QED
    BY <2>4
<1>5. ASSUME NEW phase \in {"stillborn", "running"}, Thread(i, [th[i] EXCEPT !.phase = phase]),
             ~Overdrawn(i),
             budget' = IF Job(i).live
                       THEN [budget EXCEPT !.held[i] = Grant(i), !.granted = @ \cup {i}]
                       ELSE budget
      PROVE  \E r : ThreadMove(i, r)
  <2> DEFINE r == [th[i] EXCEPT !.phase = phase]
  <2>1. /\ r \in ThreadRecord /\ Paid(r) /\ r.phase = phase /\ r.fatal = "none"
        /\ ~r.uncontained /\ r.notified = th[i].notified /\ r.scope = th[i].scope
    BY <1>2 DEF Sound, ThreadRecord, Paid, Phases, Working, Claimant, Holding
  <2>2. Thread(i, r)
    BY <1>5
  <2> HIDE DEF r
  <2>3. AttemptOK(r)
    BY <2>1 DEF AttemptOK, Admitted, Holding
  <2>4. /\ budget' \in BudgetRecord /\ budget'.held[i] >= Estimate
        /\ \A j \in Jobs \ {i} :
             budget'.held[j] = budget.held[j] /\ (j \in budget'.granted => j \in budget.granted)
    <3>1. CASE Job(i).live
      <4>1. Grant(i) \in Nat /\ Grant(i) >= Estimate
        BY <1>1, <1>5, <3>1, GrantCovers
      <4> QED
        BY <1>0, <1>5, <3>1, <4>1 DEF Types, BudgetRecord
    <3>2. CASE ~Job(i).live
      BY <1>0, <1>1, <1>5, <3>2 DEF Types, Reservations, Holding
    <3> QED
      BY <3>1, <3>2
  <2>5. ThreadMove(i, r)
    BY <1>0, <1>1, <1>3, <2>1, <2>2, <2>3, <2>4 DEF ThreadMove, Types, Working, Claimant, Holding
  <2> QED
    BY <2>5
<1> QED
  BY <1>4, <1>5 DEF Launch

\* The end of a turn.
LEMMA EndTurnMoves ==
  ASSUME IndInv, NEW i \in Jobs, EndTurn(i)
  PROVE  \E r : ThreadMove(i, r)
<1>0. Types /\ Attempts /\ Authority
  BY DEF IndInv
<1>1. th[i].phase \in {"running", "stillborn"} /\ Settle(i) /\ UNCHANGED <<plan, claims>>
  BY DEF EndTurn
<1>2. Sound(th[i]) /\ Admitted(th[i])
  BY <1>0, <1>1, WorkingSound DEF Working, Claimant, Holding
<1>3. claims[i] = PathsOf(th[i].scope) /\ claims' \in [Jobs -> SUBSET Paths]
  BY <1>0, <1>1 DEF Authority, Claimant, Holding, Types
<1>4. PICK result \in Results(i), good \in BOOLEAN :
         Thread(i, IF th[i].role = "child"
                   THEN decide_child_attempt(th[i], result, Job(i).audits # {}, good)
                   ELSE decide_parent_auditor_gate(th[i], result, good))
  BY DEF EndTurn
<1>5. PICK r : Thread(i, r) /\ Follows(r, th[i])
  <2>1. CASE th[i].role = "child"
    <3>1. result \in ChildResults
      BY <1>0, <1>4, <2>1, PlanFacts DEF Results, ChildResults
    <3> QED
      BY <1>2, <1>4, <2>1, <3>1, ChildDecides
  <2>2. CASE th[i].role # "child"
    <3>1. result \in AuditResults
      BY <1>0, <1>4, <2>2, PlanFacts DEF Results, AuditResults
    <3> QED
      BY <1>2, <1>4, <2>2, <3>1, AuditorDecides
  <2> QED
    BY <2>1, <2>2
<1>6. /\ budget' \in BudgetRecord /\ budget'.held[i] = 0 /\ i \notin budget'.granted
      /\ \A j \in Jobs \ {i} :
           budget'.held[j] = budget.held[j] /\ (j \in budget'.granted => j \in budget.granted)
      /\ faults' \in Nat /\ faults' >= faults
  BY <1>0, <1>1, SettleFrees
<1>7. ThreadMove(i, r)
  BY <1>0, <1>1, <1>3, <1>5, <1>6 DEF ThreadMove, Follows, Types, Working, Claimant, Holding
<1> QED
  BY <1>7

\* Errors and deaths.
LEMMA FailureMoves ==
  ASSUME IndInv, NEW i \in Jobs, ThreadError(i) \/ ThreadDies(i)
  PROVE  \E r : ThreadMove(i, r)
<1>0. Types /\ Attempts /\ Authority
  BY DEF IndInv
<1>1. faults' = faults + 1 /\ faults' \in Nat /\ faults' > 0 /\ UNCHANGED <<plan, claims>>
  <2>1. faults' = faults + 1 /\ UNCHANGED <<plan, claims>>
    BY DEF ThreadError, ThreadDies, Fault
  <2>2. faults \in Nat
    BY <1>0 DEF Types
  <2> QED
    BY <2>1, <2>2
<1>2. th[i].phase \in Working
  BY <1>0 DEF ThreadError, ThreadDies, Types, ThreadRecord, Phases, Working
<1>3. Sound(th[i]) /\ Admitted(th[i])
  BY <1>0, <1>2, WorkingSound
<1>4. CASE ThreadDies(i)
  <2> DEFINE r == [th[i] EXCEPT !.phase = "dead", !.fatal = "error"]
  <2>1. /\ r \in ThreadRecord /\ Paid(r) /\ r.phase = "dead" /\ r.fatal = "error"
        /\ ~r.uncontained /\ r.notified = th[i].notified
    BY <1>3 DEF Sound, ThreadRecord, Paid, Phases
  <2>2. Thread(i, r) /\ th[i].phase = "claim" /\ budget' = budget
    BY <1>4 DEF ThreadDies
  <2> HIDE DEF r
  <2>3. AttemptOK(r)
    BY <2>1 DEF AttemptOK, Admitted, Ended
  <2> QED
    BY <1>0, <1>1, <2>1, <2>2, <2>3, QuietMove DEF Phases, Working, Holding, Claimant, Types
<1>5. CASE ThreadError(i)
  <2>1. PICK u \in BOOLEAN : /\ Thread(i, Fatal([th[i] EXCEPT !.uncontained = u], "error"))
                             /\ u => th[i].phase = "running"
    BY <1>5 DEF ThreadError
  <2> DEFINE q == [th[i] EXCEPT !.uncontained = u]
             r == Fatal(q, "error")
  <2>2. q \in ThreadRecord /\ Paid(q) /\ q.scope = th[i].scope /\ q.uncontained = u
    BY <1>3 DEF Sound, ThreadRecord, Paid
  <2> HIDE DEF q
  <2>3. /\ AttemptOK(r) /\ r.phase = "ended" /\ r.notified /\ r.uncontained = u
        /\ r.fatal = "error" /\ r.scope = th[i].scope
    BY <2>2, FatalEnds
  <2>4. Thread(i, r)
    BY <2>1 DEF q
  <2> HIDE DEF r
  <2> DEFINE b == Unreserved(budget, i)
  <2>5. /\ b \in BudgetRecord /\ b.held[i] = 0 /\ i \notin b.granted
        /\ \A j \in Jobs \ {i} :
             b.held[j] = budget.held[j] /\ (j \in b.granted => j \in budget.granted)
    BY <1>0, UnreservedFrees
  <2> HIDE DEF b
  <2>6. budget' \in {b, [b EXCEPT !.spent = @ + Estimate, !.force_stop = TRUE]}
    BY <1>5 DEF ThreadError, ChargedMissing, b
  <2>7. budget' \in BudgetRecord /\ budget'.held = b.held /\ budget'.granted = b.granted
    <3>1. b.spent + Estimate \in Nat
      BY <2>5, BudgetConstants DEF BudgetRecord
    <3> QED
      BY <2>5, <2>6, <3>1 DEF BudgetRecord
  <2>8. u => claims[i] = PathsOf(th[i].scope)
    BY <1>0, <2>1 DEF Authority, Claimant, Holding
  <2>9. ThreadMove(i, r)
    BY <1>0, <1>1, <1>2, <2>3, <2>4, <2>5, <2>7, <2>8 DEF ThreadMove, Types, Claimant, Holding
  <2> QED
    BY <2>9
<1> QED
  BY <1>4, <1>5

\* Every step of a thread is such a move.
LEMMA ThreadStepMoves ==
  ASSUME IndInv, NEW i \in Jobs, ThreadStep(i)
  PROVE  \E r : ThreadMove(i, r)
BY ClaimMoves, PrepareMoves, AskMoves, LaunchMoves, EndTurnMoves, FailureMoves DEF ThreadStep

-----------------------------------------------------------------------------
(* The hierarchy.                                                           *)

\* Nothing that is read from the plan changes.
LEMMA PlanKept ==
  ASSUME plan' = plan
  PROVE  /\ Jobs' = Jobs /\ Serial' = Serial /\ ReleasePerAssignment' = ReleasePerAssignment
         /\ \A i : Job(i)' = Job(i)
         /\ \A i : Ancestors(i)' = Ancestors(i)
         /\ \A i, j : Overlap(i, j)' = Overlap(i, j)
BY DEF Jobs, Serial, ReleasePerAssignment, Job, Ancestors, Overlap, PathsOf

\* A parent is an ancestor.
LEMMA ParentIsAncestor ==
  ASSUME Types, NEW i \in Jobs, Job(i).parent # 0
  PROVE  Job(i).parent \in Ancestors(i)
BY PlanFacts DEF Ancestors

\* Ancestors are assignments, and those of an ancestor are ancestors.
LEMMA AncestorsTransitive ==
  ASSUME NEW i \in Jobs, NEW j \in Ancestors(i), NEW a \in Ancestors(j)
  PROVE  a \in Ancestors(i)
BY DEF Ancestors

-----------------------------------------------------------------------------
(* Thread steps keep the invariant.                                         *)

\* A step of a thread keeps the invariant.
LEMMA ThreadMoveKeeps ==
  ASSUME IndInv, NEW i \in Jobs, NEW r, ThreadMove(i, r)
  PROVE  IndInv'
<1>0. /\ Types /\ Attempts /\ Reservations /\ Authority /\ Placement /\ Hierarchy /\ Disjoint
      /\ Completions /\ Control /\ Stops /\ Causes
  BY DEF IndInv
<1>1. /\ Jobs' = Jobs /\ Serial' = Serial /\ ReleasePerAssignment' = ReleasePerAssignment
      /\ \A j : Job(j)' = Job(j)
      /\ \A j : Ancestors(j)' = Ancestors(j)
      /\ \A j, k : Overlap(j, k)' = Overlap(j, k)
  BY PlanKept DEF ThreadMove
<1>2. /\ th' \in [Jobs -> ThreadRecord] /\ th'[i] = r /\ r \in ThreadRecord
      /\ \A j \in Jobs \ {i} : th'[j] = th[j]
  BY <1>0 DEF ThreadMove, Thread, Types, AttemptOK
<1>3. /\ sched.queue \in Seq(Jobs) /\ sched'.queue \in Seq(Jobs)
      /\ sched'.queue = IF Ended(r) THEN Append(sched.queue, i) ELSE sched.queue
      /\ sched'.pc = sched.pc /\ sched'.pending = sched.pending /\ sched'.active = sched.active
      /\ sched'.admitting = sched.admitting /\ sched'.outcomes = sched.outcomes
      /\ sched'.breaker = sched.breaker /\ sched'.stop = sched.stop
      /\ sched'.cancelled = sched.cancelled /\ sched'.prevented = sched.prevented
      /\ sched'.denied = sched.denied /\ sched'.error = sched.error
      /\ sched'.success = sched.success
      /\ SchedShape(sched)'
  <2>1. SchedShape(sched) /\ Append(sched.queue, i) \in Seq(Jobs)
    BY <1>0 DEF Types, SchedShape
  <2>2. CASE Ended(r)
    <3>1. sched' = [sched EXCEPT !.queue = Append(@, i)]
      BY <2>2 DEF ThreadMove, Thread
    <3> QED
      BY <1>1, <2>1, <2>2, <3>1 DEF SchedShape
  <2>3. CASE ~Ended(r)
    <3>1. sched' = sched
      BY <2>3 DEF ThreadMove, Thread
    <3> QED
      BY <1>1, <2>1, <2>3, <3>1 DEF SchedShape
  <2> QED
    BY <2>2, <2>3
<1>4. /\ th[i].phase \in Working /\ th[i].phase # "none" /\ ~Ended(th[i])
      /\ ~th[i].uncontained /\ th[i].fatal = "none"
      /\ i \in sched.active /\ i \notin sched.pending /\ sched.outcomes[i] = "none"
      /\ r.phase # "none"
  <2>1. th[i].phase \in Working /\ r.phase # "none"
    BY DEF ThreadMove
  <2>2. Sound(th[i]) /\ ~Ended(th[i])
    BY <1>0, <2>1, WorkingSound
  <2> QED
    BY <1>0, <2>1, <2>2 DEF Placement, Sound, Working, Claimant, Holding
<1>5. sched.pc \notin {"finished", "closed"}
  BY <1>0, <1>4 DEF Control
<1>6. faults' \in Nat /\ faults \in Nat /\ faults' >= faults
  BY <1>0 DEF ThreadMove, Types
<1>7. Types'
  BY <1>0, <1>1, <1>2, <1>3, <1>6 DEF Types, ThreadMove, BudgetRecord
<1>8. Attempts'
  BY <1>0, <1>1, <1>2 DEF Attempts, ThreadMove
<1>9. Reservations'
  BY <1>0, <1>1, <1>2 DEF Reservations, ThreadMove
<1>10. Authority'
  <2> SUFFICES ASSUME NEW j \in Jobs
               PROVE  /\ th'[j].phase \in Claimant \/ th'[j].uncontained
                           => claims'[j] = PathsOf(th'[j].scope)
                      /\ claims'[j] # {} => th'[j].phase \in Claimant \cup {"ended", "dead"}
                      /\ claims'[j] # {} /\ sched'.outcomes[j] # "none" /\ ReleasePerAssignment' =>
                           th'[j].uncontained \/ (faults' > 0 /\ sched'.outcomes[j] = "aborted")
    BY <1>1, <1>3, <1>5 DEF Authority, PathsOf
  <2>1. CASE j = i
    BY <2>1, <1>2, <1>3, <1>4 DEF ThreadMove
  <2>2. CASE j # i
    BY <2>2, <1>0, <1>1, <1>2, <1>3, <1>6 DEF ThreadMove, Authority
  <2> QED
    BY <2>1, <2>2
<1>11. Placement'
  <2>1. \A j \in Jobs : th'[j].phase \in Working => j \in sched.active
    BY <1>0, <1>2, <1>4 DEF Placement
  <2>2. \A j \in Jobs : sched.outcomes[j] = "succeeded" => Verdict(th'[j], FALSE) = "succeeded"
    BY <1>0, <1>2, <1>4 DEF Placement
  <2>3. \A j \in sched.active : th'[j].phase # "none"
    BY <1>0, <1>2, <1>4 DEF Placement, Types, SchedShape
  <2>4. \A j \in sched.pending : th'[j].phase = "none"
    BY <1>0, <1>2, <1>4 DEF Placement, Types, SchedShape
  <2>5. \A j \in Jobs : sched.outcomes[j] = "none" => j \in sched.pending \cup sched.active \/ sched.error
    BY <1>0 DEF Placement
  <2>6. \A j \in sched.pending \cup sched.active : sched.outcomes[j] = "none"
    BY <1>0 DEF Placement
  <2> QED
    BY <1>1, <1>3, <2>1, <2>2, <2>3, <2>4, <2>5, <2>6 DEF Placement, Verdict
<1>12. Hierarchy'
  <2>1. \A j \in Jobs : th'[j].phase = "none" <=> th[j].phase = "none"
    BY <1>2, <1>4
  <2> QED
    BY <1>0, <1>1, <1>3, <2>1 DEF Hierarchy
<1>13. Disjoint'
  BY <1>0, <1>1, <1>3 DEF Disjoint
<1>14. Completions'
  <2> SUFFICES ASSUME sched.pc \in LoopPcs PROVE Completions'
    BY <1>3 DEF Completions
  <2>1. /\ \A n \in DOMAIN sched.queue : sched.queue[n] \in sched.active /\ Ended(th[sched.queue[n]])
        /\ \A m, n \in DOMAIN sched.queue : m # n => sched.queue[m] # sched.queue[n]
    BY <1>0 DEF Completions
  <2>2. \A n \in DOMAIN sched.queue : sched.queue[n] # i /\ th'[sched.queue[n]] = th[sched.queue[n]]
    BY <1>0, <1>2, <1>4, <2>1 DEF Types, SchedShape
  <2>3. CASE Ended(r)
    <3> DEFINE q == Append(sched.queue, i)
    <3>1. /\ DOMAIN q = DOMAIN sched.queue \cup {Len(sched.queue) + 1}
          /\ q[Len(sched.queue) + 1] = i
          /\ \A n \in DOMAIN sched.queue : q[n] = sched.queue[n] /\ n # Len(sched.queue) + 1
      BY <1>3
    <3>2. sched'.queue = q
      BY <1>3, <2>3
    <3> HIDE DEF q
    <3>3. /\ \A n \in DOMAIN q : q[n] \in sched.active /\ Ended(th'[q[n]])
          /\ \A m, n \in DOMAIN q : m # n => q[m] # q[n]
      BY <1>2, <1>4, <2>1, <2>2, <2>3, <3>1
    <3> QED
      BY <1>3, <3>2, <3>3 DEF Completions, Ended
  <2>4. CASE ~Ended(r)
    BY <1>3, <2>1, <2>2, <2>4 DEF Completions, Ended
  <2> QED
    BY <2>3, <2>4
<1>15. Control'
  <2>1. \A j \in Jobs : th[j].notified => th'[j].notified
    BY <1>2 DEF ThreadMove
  <2> QED
    BY <1>0, <1>1, <1>3, <1>5, <2>1 DEF Control, Types, SchedShape
<1>16. Stops'
  BY <1>0, <1>1, <1>3, <1>5 DEF Stops
<1>17. Causes'
  <2>1. Cause => Cause'
    <3> SUFFICES ASSUME Cause PROVE Cause'
      OBVIOUS
    <3>1. CASE faults > 0
      BY <1>6, <3>1 DEF Cause
    <3>2. CASE \E j \in Jobs : th[j].uncontained \/ th[j].fatal \in {"gate", "budget"}
      BY <1>1, <1>2, <1>4, <3>2 DEF Cause
    <3>3. CASE sched.pc \in EndPcs /\ \E j \in sched.pending : \E a \in Ancestors(j) : Job(a).parked
      BY <1>1, <1>3, <3>3 DEF Cause
    <3> QED
      BY <3>1, <3>2, <3>3 DEF Cause
  <2>2. \A j \in Jobs : /\ th'[j].fatal = "error" => faults' > 0
                        /\ th'[j].fatal = "cancelled" => sched.cancelled
    BY <1>0, <1>2, <1>6 DEF Causes, ThreadMove
  <2>3. \A j : Ready(sched, j)' = Ready(sched, j)
    BY <1>1, <1>3 DEF Ready
  <2> QED
    BY <1>0, <1>1, <1>3, <2>1, <2>2, <2>3 DEF Causes
<1> QED
  BY <1>7, <1>8, <1>9, <1>10, <1>11, <1>12, <1>13, <1>14, <1>15, <1>16, <1>17 DEF IndInv

-----------------------------------------------------------------------------
(* Steps of the scheduler that start no thread.                             *)

\* Assignments leave the loop with the outcome they earned, or an error ends the loop.
Resolves ==
  /\ plan' = plan /\ th' = th /\ budget' = budget
  /\ faults' \in Nat /\ faults' >= faults
  /\ SchedShape(sched)'
  /\ sched'.pending \subseteq sched.pending /\ sched'.active \subseteq sched.active
  /\ sched.error => sched'.error
  /\ claims' \in [Jobs -> SUBSET Paths]
  /\ \A j \in Jobs :
       /\ claims'[j] # claims[j] =>
            claims'[j] = {} /\ th[j].phase \notin Claimant /\ ~th[j].uncontained
       /\ sched'.pc = "closed" /\ claims'[j] # {} /\ sched'.outcomes[j] # "none" =>
            th[j].uncontained \/ sched'.error \/ (faults' > 0 /\ sched'.outcomes[j] = "aborted")
       /\ j \in sched.active => j \in sched'.active \/ Ended(th[j])
       /\ j \in sched.pending \cup sched.active =>
            \/ /\ j \in sched'.pending \cup sched'.active \/ sched'.error
               /\ sched'.outcomes[j] = sched.outcomes[j]
            \/ /\ j \notin sched'.pending \cup sched'.active
               /\ sched'.outcomes[j] \in Unsuccessful \/ Verdict(th[j], FALSE) = "succeeded"
               /\ sched'.outcomes[j] # "none"
               /\ sched'.outcomes[j] = "failed" /\ th[j].phase = "none" =>
                    Job(j).parked \/ \E a \in Ancestors(j) : sched'.outcomes[a] \in Unsuccessful
               /\ claims'[j] # {} =>
                    \/ ~ReleasePerAssignment \/ th[j].uncontained
                    \/ faults' > 0 /\ sched'.outcomes[j] = "aborted"
       /\ j \notin sched.pending \cup sched.active => sched'.outcomes[j] = sched.outcomes[j]

\* An outcome is final.
LEMMA OutcomesFinal ==
  ASSUME IndInv, Resolves, NEW j \in Jobs, sched.outcomes[j] # "none"
  PROVE  sched'.outcomes[j] = sched.outcomes[j]
BY DEF IndInv, Placement, Resolves

\* A scheduler step that starts nothing keeps all but the parts about the loop.
LEMMA ResolvesKeeps ==
  ASSUME IndInv, Resolves, Completions', Control', Stops', Causes'
  PROVE  IndInv'
<1>0. Types /\ Attempts /\ Reservations /\ Authority /\ Placement /\ Hierarchy /\ Disjoint
  BY DEF IndInv
<1>1. /\ Jobs' = Jobs /\ Serial' = Serial /\ ReleasePerAssignment' = ReleasePerAssignment
      /\ \A j : Job(j)' = Job(j)
      /\ \A j : Ancestors(j)' = Ancestors(j)
      /\ \A j, k : Overlap(j, k)' = Overlap(j, k)
  BY PlanKept DEF Resolves
<1>2. Types'
  BY <1>0, <1>1 DEF Types, Resolves, BudgetRecord
<1>3. Attempts'
  BY <1>0, <1>1 DEF Attempts, Resolves
<1>4. Reservations'
  BY <1>0, <1>1 DEF Reservations, Resolves
<1>5. \A j \in Jobs : sched.outcomes[j] # "none" => sched'.outcomes[j] = sched.outcomes[j]
  BY OutcomesFinal
<1>6. Authority'
  <2> SUFFICES ASSUME NEW j \in Jobs
               PROVE  /\ th[j].phase \in Claimant \/ th[j].uncontained
                           => claims'[j] = PathsOf(th[j].scope)
                      /\ claims'[j] # {} => th[j].phase \in Claimant \cup {"ended", "dead"}
                      /\ claims'[j] # {} /\ sched'.outcomes[j] # "none" /\ ReleasePerAssignment =>
                           th[j].uncontained \/ (faults' > 0 /\ sched'.outcomes[j] = "aborted")
                      /\ claims'[j] # {} /\ sched'.outcomes[j] # "none" /\ sched'.pc = "closed" =>
                           \/ th[j].uncontained \/ sched'.error
                           \/ faults' > 0 /\ sched'.outcomes[j] = "aborted"
    BY <1>1 DEF Authority, PathsOf, Resolves
  <2>1. /\ th[j].phase \in Claimant \/ th[j].uncontained => claims'[j] = PathsOf(th[j].scope)
        /\ claims'[j] # {} => th[j].phase \in Claimant \cup {"ended", "dead"}
    BY <1>0 DEF Authority, Resolves
  <2>2. ASSUME claims'[j] # {}, sched'.outcomes[j] # "none", ReleasePerAssignment
        PROVE  th[j].uncontained \/ (faults' > 0 /\ sched'.outcomes[j] = "aborted")
    <3>1. CASE j \in sched.pending \cup sched.active
      <4>1. sched.outcomes[j] = "none"
        BY <1>0, <3>1 DEF Placement
      <4> QED
        BY <2>2, <3>1, <4>1 DEF Resolves
    <3>2. CASE j \notin sched.pending \cup sched.active
      <4>1. sched'.outcomes[j] = sched.outcomes[j] /\ claims[j] = claims'[j]
        BY <2>2, <3>2 DEF Resolves
      <4>2. faults \in Nat /\ faults' \in Nat /\ faults' >= faults
        BY <1>0 DEF Types, Resolves
      <4> QED
        BY <1>0, <2>2, <4>1, <4>2 DEF Authority
    <3> QED
      BY <3>1, <3>2
  <2>3. ASSUME claims'[j] # {}, sched'.outcomes[j] # "none", sched'.pc = "closed"
        PROVE  th[j].uncontained \/ sched'.error \/ (faults' > 0 /\ sched'.outcomes[j] = "aborted")
    BY <2>3 DEF Resolves
  <2> QED
    BY <2>1, <2>2, <2>3
<1>7. Placement'
  <2>1. \A j \in sched'.pending : th[j].phase = "none" /\ sched'.outcomes[j] = "none"
    BY <1>0 DEF Placement, Resolves, Types, SchedShape
  <2>2. \A j \in sched'.active : th[j].phase # "none" /\ sched'.outcomes[j] = "none"
    BY <1>0 DEF Placement, Resolves, Types, SchedShape
  <2>3. \A j \in Jobs : th[j].phase \in Working => j \in sched'.active
    BY <1>0 DEF Placement, Resolves, Ended, Working, Claimant, Holding
  <2>4. \A j \in Jobs : sched'.outcomes[j] = "none" => j \in sched'.pending \cup sched'.active \/ sched'.error
    BY <1>0 DEF Placement, Resolves
  <2>5. \A j \in Jobs : sched'.outcomes[j] = "succeeded" => Verdict(th[j], FALSE) = "succeeded"
    BY <1>0 DEF Placement, Resolves, Unsuccessful
  <2>6. th' = th
    BY DEF Resolves
  <2> QED
    BY <1>1, <2>1, <2>2, <2>3, <2>4, <2>5, <2>6 DEF Placement, Verdict
<1>8. Hierarchy'
  <2> SUFFICES ASSUME NEW j \in Jobs
               PROVE  /\ th[j].phase # "none" /\ Job(j).parent # 0 =>
                           sched'.outcomes[Job(j).parent] = "succeeded"
                      /\ th[j].phase = "none" /\ sched'.outcomes[j] = "failed" =>
                           Job(j).parked \/ \E a \in Ancestors(j) : sched'.outcomes[a] \in Unsuccessful
    BY <1>1 DEF Hierarchy, Resolves, Unsuccessful
  <2>1. ASSUME th[j].phase # "none", Job(j).parent # 0
        PROVE  sched'.outcomes[Job(j).parent] = "succeeded"
    BY <1>0, <1>5, <2>1, PlanFacts DEF Hierarchy
  <2>2. ASSUME th[j].phase = "none", sched'.outcomes[j] = "failed"
        PROVE  Job(j).parked \/ \E a \in Ancestors(j) : sched'.outcomes[a] \in Unsuccessful
    <3>1. CASE sched.outcomes[j] = "failed"
      <4>1. Ancestors(j) \subseteq Jobs
        BY DEF Ancestors
      <4> QED
        BY <1>0, <1>5, <2>2, <3>1, <4>1 DEF Hierarchy, Unsuccessful
    <3>2. CASE sched.outcomes[j] # "failed"
      <4>1. j \in sched.pending \cup sched.active /\ sched.outcomes[j] = "none"
        BY <1>0, <2>2, <3>2 DEF Resolves, Placement
      <4> QED
        BY <2>2, <4>1 DEF Resolves
    <3> QED
      BY <3>1, <3>2
  <2> QED
    BY <2>1, <2>2
<1>9. Disjoint'
  BY <1>0, <1>1 DEF Disjoint, Resolves
<1> QED
  BY <1>2, <1>3, <1>4, <1>6, <1>7, <1>8, <1>9 DEF IndInv

\* A cause lasts.
LEMMA CauseLasts ==
  ASSUME IndInv, Resolves, Cause,
         sched.pc \in EndPcs => sched'.pc \in EndPcs /\ sched'.pending = sched.pending
  PROVE  Cause'
<1>1. /\ Jobs' = Jobs /\ (\A j : Job(j)' = Job(j)) /\ (\A j : Ancestors(j)' = Ancestors(j))
      /\ th' = th
  BY PlanKept DEF Resolves
<1>2. CASE faults > 0
  <2>1. faults \in Nat /\ faults' \in Nat /\ faults' >= faults
    BY DEF Resolves, IndInv, Types
  <2> QED
    BY <1>2, <2>1 DEF Cause
<1>3. CASE \E j \in Jobs : th[j].uncontained \/ th[j].fatal \in {"gate", "budget"}
  BY <1>1, <1>3 DEF Cause
<1>4. CASE sched.pc \in EndPcs /\ \E j \in sched.pending : \E a \in Ancestors(j) : Job(a).parked
  BY <1>1, <1>4 DEF Cause
<1> QED
  BY <1>2, <1>3, <1>4 DEF Cause

\* The least of some natural numbers is one of them.
LEMMA MinIn ==
  ASSUME NEW S \in SUBSET Nat, S # {}
  PROVE  Min(S) \in S /\ \A n \in S : Min(S) <= n
<1>1. PICK x \in S : \A y \in S : ~(<<y, x>> \in OpToRel(<, Nat))
  BY NatLessThanWellFounded, WFMin
<1>2. ASSUME NEW y \in S PROVE x <= y
  <2>1. <<y, x>> \in Nat \X Nat /\ <<y, x>>[1] = y /\ <<y, x>>[2] = x
    OBVIOUS
  <2>2. ~(y < x)
    BY <1>1, <2>1 DEF OpToRel
  <2> QED
    BY <2>1, <2>2
<1> QED
  BY <1>2 DEF Min

-----------------------------------------------------------------------------
(* The initial states.                                                      *)

\* An assignment that was not started.
LEMMA NotStartedOK ==
  AttemptOK(NotStarted) /\ NotStarted.phase = "none" /\ NotStarted.fatal = "none"
    /\ ~NotStarted.uncontained
<1>1. <<>> \in Scope
  BY DEF Scope
<1>2. NotStarted \in ThreadRecord
  BY <1>1, NoGateIsGate DEF NotStarted, ThreadRecord, Phases
<1> QED
  BY <1>2, AttemptAssumption DEF NotStarted, AttemptOK, Paid, Admitted, Ended

\* The invariant holds at the start of a run.
LEMMA InitEstablishes == Init => IndInv
<1> SUFFICES ASSUME Init PROVE IndInv
  OBVIOUS
<1>1. /\ sched.pc = "head" /\ sched.pending = Jobs /\ sched.active = {} /\ sched.admitting = 0
      /\ sched.queue = <<>> /\ sched.outcomes = [i \in Jobs |-> "none"]
      /\ sched.stop = FALSE /\ sched.cancelled = FALSE /\ sched.prevented = FALSE
      /\ sched.denied = {} /\ sched.error = FALSE /\ sched.success = FALSE
      /\ SchedShape(sched)
  BY DEF Init, SchedShape, LoopPcs, Outcomes
<1>2. /\ th = [i \in Jobs |-> NotStarted] /\ claims = [i \in Jobs |-> {}] /\ faults = 0
      /\ budget = [spent |-> 0, held |-> [i \in Jobs |-> 0], granted |-> {}, force_stop |-> FALSE]
      /\ plan \in Plans
  BY DEF Init
<1>3. \A i \in Jobs : AttemptOK(th[i]) /\ th[i].phase = "none" /\ th[i].fatal = "none" /\ ~th[i].uncontained
  BY <1>2, NotStartedOK
<1>4. Types /\ Attempts
  BY <1>1, <1>2, <1>3, NotStartedOK DEF Types, Attempts, AttemptOK, BudgetRecord
<1>5. Reservations /\ Authority
  BY <1>2, <1>3 DEF Reservations, Authority, Claimant, Holding
<1>6. Placement /\ Hierarchy /\ Disjoint /\ Completions
  BY <1>1, <1>3 DEF Placement, Hierarchy, Disjoint, Completions, Working, Claimant, Holding
<1>7. Control /\ Stops
  BY <1>1 DEF Control, Stops, LoopPcs, EndPcs
<1>8. Causes
  BY <1>1, <1>3 DEF Causes
<1> QED
  BY <1>4, <1>5, <1>6, <1>7, <1>8 DEF IndInv

-----------------------------------------------------------------------------
(* Scheduler steps keep the invariant.                                      *)

\* The loop's head dooms the pending descendants of what failed, unless it is stopped.
LEMMA LoopHeadKeeps ==
  ASSUME IndInv, LoopHead
  PROVE  IndInv'
<1> DEFINE doomed == IF sched.stop THEN {}
                     ELSE {i \in sched.pending : \E a \in Ancestors(i) : sched.outcomes[a] \in Unsuccessful}
<1>0. /\ Types /\ Authority /\ Placement /\ Completions /\ Control /\ Stops /\ Causes
      /\ SchedShape(sched)
  BY DEF IndInv, Types
<1>1. /\ Jobs' = Jobs /\ Serial' = Serial /\ ReleasePerAssignment' = ReleasePerAssignment
      /\ \A j : Job(j)' = Job(j)
      /\ \A j : Ancestors(j)' = Ancestors(j)
  BY PlanKept DEF LoopHead
<1>2. /\ sched.pc = "head" /\ UNCHANGED <<plan, th, claims, budget, faults>>
      /\ sched'.pending = sched.pending \ doomed /\ sched'.active = sched.active
      /\ sched'.admitting = sched.admitting /\ sched'.queue = sched.queue
      /\ sched'.outcomes = [j \in Jobs |-> IF j \in doomed THEN "failed" ELSE sched.outcomes[j]]
      /\ sched'.breaker = sched.breaker /\ sched'.stop = sched.stop
      /\ sched'.cancelled = sched.cancelled /\ sched'.prevented = sched.prevented
      /\ sched'.denied = sched.denied /\ sched'.error = sched.error
      /\ sched'.success = sched.success
      /\ sched'.pc = IF sched'.pending = {} /\ sched'.active = {} THEN "finished"
                     ELSE IF Serial THEN "serial"
                     ELSE IF sched.stop THEN "drain" ELSE "admit"
      /\ SchedShape(sched)'
  <2>1. sched.outcomes = [j \in Jobs |-> sched.outcomes[j]]
    BY <1>0 DEF SchedShape
  <2>2. CASE sched.stop
    BY <1>0, <1>1, <2>1, <2>2 DEF LoopHead, SchedShape, LoopPcs, EndPcs
  <2>3. CASE ~sched.stop
    BY <1>0, <1>1, <2>3 DEF LoopHead, SchedShape, LoopPcs, EndPcs, suppress_failed_descendants, Outcomes
  <2> QED
    BY <1>0, <2>2, <2>3 DEF SchedShape
<1>3. \A j \in doomed : /\ j \in sched.pending /\ j \in Jobs
                        /\ \E a \in Ancestors(j) : sched.outcomes[a] \in Unsuccessful
  BY <1>0 DEF SchedShape
<1>4. \A i \in sched.pending : i \notin doomed /\ ~sched.stop =>
        \A a \in Ancestors(i) : sched.outcomes[a] \notin Unsuccessful
  OBVIOUS
<1> HIDE DEF doomed
<1>5. \A j : Ancestors(j) \subseteq Jobs
  BY DEF Ancestors
<1>6. \A a \in Jobs : sched.outcomes[a] \in Unsuccessful => sched'.outcomes[a] = sched.outcomes[a]
  BY <1>0, <1>2, <1>3 DEF Placement, Unsuccessful
<1>7. Resolves
  <2>1. \A j \in sched.pending : claims[j] = {} /\ th[j].phase = "none"
    BY <1>0 DEF Authority, Placement, SchedShape, Claimant, Holding
  <2>2. \A j \in doomed : /\ sched'.outcomes[j] = "failed"
                          /\ \E a \in Ancestors(j) : sched'.outcomes[a] \in Unsuccessful
    BY <1>2, <1>3, <1>5, <1>6
  <2>3. \A j \in Jobs : j \notin doomed => sched'.outcomes[j] = sched.outcomes[j]
    BY <1>2
  <2>4. sched'.pc # "closed" /\ faults \in Nat /\ claims \in [Jobs -> SUBSET Paths]
    BY <1>0, <1>2 DEF Types
  <2>5. doomed \cap sched.active = {}
    BY <1>0, <1>3, <2>1 DEF Placement
  <2>6. \A j \in Jobs : j \in sched.pending \cup sched.active =>
          \/ /\ j \in sched'.pending \cup sched'.active /\ sched'.outcomes[j] = sched.outcomes[j]
          \/ /\ j \in doomed /\ j \notin sched'.pending \cup sched'.active
             /\ sched'.outcomes[j] = "failed" /\ claims'[j] = {}
    BY <1>2, <1>3, <2>1, <2>2, <2>3, <2>5
  <2>7. \A j \in Jobs : j \notin sched.pending \cup sched.active => sched'.outcomes[j] = sched.outcomes[j]
    BY <1>3, <2>3
  <2>8. sched'.pending \subseteq sched.pending /\ faults' = faults /\ faults' >= faults
    BY <1>2, <2>4
  <2> QED
    BY <1>2, <2>2, <2>4, <2>6, <2>7, <2>8 DEF Resolves, Unsuccessful
<1>8. Completions'
  BY <1>0, <1>2 DEF Completions, LoopPcs, Ended
<1>9. Control'
  BY <1>0, <1>1, <1>2 DEF Control, LoopPcs, EndPcs
<1>10. Stops'
  BY <1>0, <1>1, <1>2, <1>6 DEF Stops, EndPcs, Unsuccessful
<1>11. Causes'
  <2>1. Cause => Cause'
    BY <1>2, <1>7, CauseLasts DEF EndPcs
  <2>2. ASSUME ~sched.stop, NEW i \in sched'.pending, NEW a \in Ancestors(i),
               sched'.outcomes[a] \in Unsuccessful
        PROVE  FALSE
    <3>1. i \in sched.pending /\ i \notin doomed /\ i \in Jobs /\ a \in Jobs
      BY <1>0, <1>2, <1>5 DEF SchedShape
    <3>2. sched.outcomes[a] \notin Unsuccessful
      BY <1>4, <2>2, <3>1
    <3>3. a \in doomed
      BY <1>2, <2>2, <3>1, <3>2
    <3>4. PICK b \in Ancestors(a) : sched.outcomes[b] \in Unsuccessful
      BY <1>3, <3>3
    <3>5. b \in Ancestors(i)
      BY <3>1, AncestorsTransitive
    <3> QED
      BY <1>4, <2>2, <3>1, <3>4, <3>5
  <2> QED
    BY <1>0, <1>1, <1>2, <2>1, <2>2 DEF Causes
<1> QED
  BY <1>7, <1>8, <1>9, <1>10, <1>11, ResolvesKeeps

\* A step that resolves no assignment.
LEMMA IdleResolves ==
  ASSUME IndInv, UNCHANGED <<plan, th, claims, budget, faults>>, SchedShape(sched)',
         sched'.pending = sched.pending, sched'.active = sched.active,
         sched'.outcomes = sched.outcomes, sched.error => sched'.error, sched'.pc # "closed"
  PROVE  Resolves
<1>1. faults \in Nat /\ claims \in [Jobs -> SUBSET Paths] /\ faults' >= faults
  BY DEF IndInv, Types
<1> QED
  BY <1>1 DEF Resolves

\* An error ends the loop.
LEMMA BailKeeps ==
  ASSUME IndInv, Resolves, sched'.pc = "exit", sched'.error, Serial => ~sched'.cancelled,
         sched.cancelled => sched'.cancelled, sched'.cancelled => Cause',
         sched'.stop => sched.stop \/ sched'.cancelled,
         sched'.breaker = sched.breaker, sched'.denied = sched.denied,
         sched'.prevented = sched.prevented
  PROVE  IndInv'
<1>0. Types /\ Stops /\ Causes /\ Control
  BY DEF IndInv
<1>1. /\ Jobs' = Jobs /\ Serial' = Serial /\ th' = th
      /\ faults \in Nat /\ faults' \in Nat /\ faults' >= faults
      /\ sched'.pending \subseteq sched.pending
  BY <1>0, PlanKept DEF Resolves, Types
<1>2. Completions'
  BY DEF Completions, LoopPcs
<1>3. Control'
  BY <1>1 DEF Control, LoopPcs, EndPcs
<1>4. Stops'
  BY <1>0, <1>1 DEF Stops, EndPcs
<1>5. Causes'
  BY <1>0, <1>1 DEF Causes
<1> QED
  BY <1>2, <1>3, <1>4, <1>5, ResolvesKeeps

\* The admission loop of a run with several slots.
LEMMA AdmitFacts ==
  ASSUME IndInv, sched.pc \in {"admit", "starting"}
  PROVE  /\ ~Serial /\ ~sched.stop /\ ~sched.cancelled /\ ~sched.error
         /\ \A i \in sched.active : th[i].notified
BY DEF IndInv, Control, Stops, LoopPcs, EndPcs

\* The loop of a run with a single slot.
LEMMA SerialFacts ==
  ASSUME IndInv, sched.pc = "serial"
  PROVE  Serial /\ ~sched.cancelled /\ ~sched.error /\ sched.active = {}
BY DEF IndInv, Control, EndPcs

\* The admission loop starts nothing more and goes on to drain.
LEMMA AdmitIdleKeeps ==
  ASSUME IndInv, sched.pc = "admit", UNCHANGED <<plan, th, claims, budget, faults>>,
         SchedShape(sched)', sched'.pc = "drain",
         sched'.pending = sched.pending, sched'.active = sched.active,
         sched'.queue = sched.queue, sched'.outcomes = sched.outcomes,
         sched'.breaker = sched.breaker, sched'.cancelled = sched.cancelled,
         sched'.error = sched.error,
         sched'.denied # {} => sched'.prevented,
         sched'.stop => sched.breaker.open \/ sched.pending \subseteq sched'.denied,
         ~sched'.stop /\ sched.active = {} => \A i \in sched.pending : ~Ready(sched, i)
  PROVE  IndInv'
<1>0. Types /\ Placement /\ Completions /\ Control /\ Stops /\ Causes
  BY DEF IndInv
<1>1. /\ Jobs' = Jobs /\ Serial' = Serial
      /\ \A j : Job(j)' = Job(j)
      /\ \A j : Ancestors(j)' = Ancestors(j)
  BY PlanKept
<1>2. /\ ~Serial /\ ~sched.stop /\ ~sched.cancelled /\ ~sched.error
      /\ \A i \in sched.active : th[i].notified
  BY AdmitFacts
<1>3. Resolves
  BY IdleResolves
<1>4. Completions'
  BY <1>0 DEF Completions, LoopPcs, Ended
<1>5. Control'
  BY <1>1, <1>2 DEF Control, LoopPcs, EndPcs
<1>6. Stops'
  BY <1>1, <1>2 DEF Stops, EndPcs
<1>7. Causes'
  <2>1. \A j : Ready(sched, j)' = Ready(sched, j)
    BY <1>1 DEF Ready
  <2> QED
    BY <1>0, <1>1, <1>2, <2>1 DEF Causes
<1> QED
  BY <1>3, <1>4, <1>5, <1>6, <1>7, ResolvesKeeps

\* A parked assignment fails.
LEMMA ParkKeeps ==
  ASSUME IndInv, NEW i \in sched.pending, Job(i).parked, NEW pc,
         \/ sched.pc = "admit" /\ pc = "admit"
         \/ sched.pc = "serial" /\ pc = "head",
         Park(i, pc), UNCHANGED <<plan, claims, budget>>
  PROVE  IndInv'
<1>0. /\ Types /\ Authority /\ Placement /\ Completions /\ Control /\ Stops /\ Causes
      /\ SchedShape(sched) /\ i \in Jobs
  BY DEF IndInv, Types, SchedShape
<1>1. /\ Jobs' = Jobs /\ Serial' = Serial
      /\ \A j : Job(j)' = Job(j)
      /\ \A j : Ancestors(j)' = Ancestors(j)
  BY PlanKept
<1>2. /\ UNCHANGED <<plan, th, claims, budget, faults>> /\ sched'.pc = pc
      /\ sched'.pending = sched.pending \ {i} /\ sched'.active = sched.active
      /\ sched'.admitting = sched.admitting /\ sched'.queue = sched.queue
      /\ sched'.outcomes = [sched.outcomes EXCEPT ![i] = "failed"]
      /\ sched'.breaker = sched.breaker /\ sched'.stop = sched.stop
      /\ sched'.cancelled = sched.cancelled /\ sched'.prevented = sched.prevented
      /\ sched'.denied = sched.denied /\ sched'.error = sched.error
      /\ sched'.success = sched.success
      /\ SchedShape(sched)'
  BY <1>0, <1>1 DEF Park, SchedShape, LoopPcs, Outcomes
<1>3. /\ claims[i] = {} /\ th[i].phase = "none" /\ sched.outcomes[i] = "none"
      /\ sched'.outcomes[i] = "failed" /\ i \notin sched.active
      /\ \A j \in Jobs \ {i} : sched'.outcomes[j] = sched.outcomes[j]
  BY <1>0, <1>2 DEF Authority, Placement, SchedShape, Claimant, Holding
<1>4. Resolves
  <2>1. faults \in Nat /\ claims \in [Jobs -> SUBSET Paths] /\ faults' = faults /\ faults' >= faults
    BY <1>0, <1>2 DEF Types
  <2> QED
    BY <1>2, <1>3, <2>1 DEF Resolves, Unsuccessful
<1>5. Completions'
  BY <1>0, <1>2 DEF Completions, LoopPcs, Ended
<1>6. Control'
  BY <1>0, <1>1, <1>2 DEF Control, LoopPcs, EndPcs
<1>7. Stops'
  BY <1>0, <1>1, <1>2, <1>3 DEF Stops, EndPcs
<1>8. Causes'
  <2>1. Cause => Cause'
    BY <1>2, <1>4, CauseLasts DEF EndPcs
  <2>2. \A j : Ancestors(j) \subseteq Jobs
    BY DEF Ancestors
  <2> QED
    BY <1>0, <1>1, <1>2, <1>3, <2>1, <2>2 DEF Causes, EndPcs
<1> QED
  BY <1>4, <1>5, <1>6, <1>7, <1>8, ResolvesKeeps

\* A thread that cannot be spawned, and a checkpoint that fails before it is.
LEMMA SpawnFailsKeeps ==
  ASSUME IndInv, NEW i \in sched.pending, sched.pc \in {"starting", "serial"},
         UNCHANGED th, Fault("spawn") \/ Fault("checkpoint"),
         \/ sched' = Bailed([sched EXCEPT !.pending = @ \ {i}])
         \/ ~Serial /\ sched' \in
              LET failed == [Cancelled([sched EXCEPT !.pending = @ \ {i}])
                               EXCEPT !.outcomes[i] = "aborted", !.stop = TRUE]
              IN {[failed EXCEPT !.pc = "drain"], Bailed(failed)},
         UNCHANGED <<plan, claims, budget>>
  PROVE  IndInv'
<1>0. /\ Types /\ Authority /\ Placement /\ Completions /\ Control /\ Stops /\ Causes
      /\ SchedShape(sched) /\ i \in Jobs
  BY DEF IndInv, Types, SchedShape
<1>1. /\ Jobs' = Jobs /\ Serial' = Serial
      /\ \A j : Job(j)' = Job(j)
      /\ \A j : Ancestors(j)' = Ancestors(j)
  BY PlanKept
<1>2. faults \in Nat /\ faults' \in Nat /\ faults' >= faults /\ faults' > 0 /\ claims \in [Jobs -> SUBSET Paths]
  BY <1>0 DEF Types, Fault
<1>3. /\ claims[i] = {} /\ th[i].phase = "none" /\ sched.outcomes[i] = "none" /\ i \notin sched.active
  BY <1>0 DEF Authority, Placement, Claimant, Holding
<1>4. Cause'
  BY <1>2 DEF Cause
<1>5. CASE sched' = Bailed([sched EXCEPT !.pending = @ \ {i}])
  <2>1. /\ sched'.pc = "exit" /\ sched'.error
        /\ sched'.pending = sched.pending \ {i} /\ sched'.active = sched.active
        /\ sched'.outcomes = sched.outcomes
        /\ sched'.breaker = sched.breaker /\ sched'.stop = sched.stop
        /\ sched'.cancelled = sched.cancelled /\ sched'.prevented = sched.prevented
        /\ sched'.denied = sched.denied
        /\ SchedShape(sched)'
    BY <1>0, <1>1, <1>5 DEF Bailed, SchedShape, EndPcs
  <2>2. Resolves
    BY <1>2, <2>1 DEF Resolves
  <2>3. Serial => ~sched'.cancelled
    BY <1>0, <2>1 DEF Control
  <2> QED
    BY <1>4, <2>1, <2>2, <2>3, BailKeeps
<1>6. ASSUME ~Serial,
             sched' \in LET failed == [Cancelled([sched EXCEPT !.pending = @ \ {i}])
                                         EXCEPT !.outcomes[i] = "aborted", !.stop = TRUE]
                        IN {[failed EXCEPT !.pc = "drain"], Bailed(failed)}
      PROVE  IndInv'
  <2>1. /\ sched'.pending = sched.pending \ {i} /\ sched'.active = sched.active
        /\ sched'.admitting = sched.admitting /\ sched'.queue = sched.queue
        /\ sched'.outcomes = [sched.outcomes EXCEPT ![i] = "aborted"]
        /\ sched'.breaker = sched.breaker /\ sched'.stop /\ sched'.cancelled
        /\ sched'.prevented = sched.prevented /\ sched'.denied = sched.denied
        /\ \/ sched'.pc = "drain" /\ sched'.error = sched.error
           \/ sched'.pc = "exit" /\ sched'.error
        /\ SchedShape(sched)'
    <3> DEFINE failed == [Cancelled([sched EXCEPT !.pending = @ \ {i}])
                            EXCEPT !.outcomes[i] = "aborted", !.stop = TRUE]
    <3>1. /\ failed.pending = sched.pending \ {i} /\ failed.active = sched.active
          /\ failed.admitting = sched.admitting /\ failed.queue = sched.queue
          /\ failed.outcomes = [sched.outcomes EXCEPT ![i] = "aborted"]
          /\ failed.breaker = sched.breaker /\ failed.stop = TRUE /\ failed.cancelled = TRUE
          /\ failed.prevented = sched.prevented /\ failed.denied = sched.denied
          /\ failed.error = sched.error
          /\ SchedShape(failed)
      <4> DEFINE o == [sched.outcomes EXCEPT ![i] = "aborted"]
      <4>1. o \in [Jobs -> Outcomes]
        BY <1>0 DEF SchedShape, Outcomes
      <4>2. failed = [sched EXCEPT !.pending = @ \ {i}, !.cancelled = TRUE, !.outcomes = o, !.stop = TRUE]
        BY <1>0 DEF Cancelled, SchedShape
      <4> HIDE DEF o, failed
      <4> QED
        BY <1>0, <4>1, <4>2 DEF SchedShape, o
    <3>2. sched' \in {[failed EXCEPT !.pc = "drain"], Bailed(failed)}
      BY <1>6
    <3> HIDE DEF failed
    <3>3. CASE sched' = [failed EXCEPT !.pc = "drain"]
      BY <1>1, <3>1, <3>3 DEF SchedShape, LoopPcs
    <3>4. CASE sched' = Bailed(failed)
      BY <1>1, <3>1, <3>4 DEF Bailed, SchedShape, EndPcs
    <3> QED
      BY <3>2, <3>3, <3>4
  <2>2. /\ sched'.outcomes[i] = "aborted"
        /\ \A j \in Jobs \ {i} : sched'.outcomes[j] = sched.outcomes[j]
    BY <1>0, <2>1 DEF SchedShape
  <2>3. Resolves
    BY <1>2, <1>3, <2>1, <2>2 DEF Resolves, Unsuccessful
  <2>4. CASE sched'.pc = "exit" /\ sched'.error
    BY <1>4, <1>6, <2>1, <2>3, <2>4, BailKeeps
  <2>5. CASE sched'.pc = "drain" /\ sched'.error = sched.error
    <3>0. sched.pc = "starting" /\ ~sched.error /\ \A j \in sched.active : th[j].notified
      BY <1>6, AdmitFacts, SerialFacts
    <3>1. Completions'
      BY <1>0, <2>1, <3>0 DEF Completions, LoopPcs, Ended
    <3>2. Control'
      BY <1>1, <1>6, <2>1, <2>5, <3>0 DEF Control, LoopPcs, EndPcs
    <3>3. Stops'
      BY <1>0, <1>1, <2>1, <2>2, <2>5 DEF Stops, EndPcs
    <3>4. Causes'
      BY <1>0, <1>1, <1>2, <1>4, <2>1, <2>5 DEF Causes
    <3> QED
      BY <2>3, <3>1, <3>2, <3>3, <3>4, ResolvesKeeps
  <2> QED
    BY <2>1, <2>4, <2>5
<1> QED
  BY <1>5, <1>6

\* The record of a thread that starts.
LEMMA StartedOK ==
  ASSUME Types, NEW i \in Jobs, NEW signals \in PreparedSignals
  PROVE  LET r == Started(Job(i).paths, signals)
         IN AttemptOK(r) /\ r.phase = "claim" /\ r.fatal = "none" /\ ~r.uncontained
<1> DEFINE r == Started(Job(i).paths, signals)
<1>1. signals \in Seq(SwarmHealthSignals)
  <2>1. <<>> \in Seq(SwarmHealthSignals) /\ <<"SemanticWarned">> \in Seq(SwarmHealthSignals)
    BY DEF SwarmHealthSignals
  <2> QED
    BY <2>1 DEF PreparedSignals
<1>2. Job(i).paths \in Scope
  <2>1. Job(i).paths \in [1..Len(Job(i).paths) -> Paths] /\ 1..Len(Job(i).paths) \in SUBSET Nat
    BY PlanFacts
  <2> QED
    BY <2>1 DEF Scope
<1>3. /\ r \in ThreadRecord /\ r.phase = "claim" /\ r.fatal = "none" /\ ~r.uncontained
      /\ r.attempt = 1 /\ r.structural = 1 /\ r.used = 0 /\ ~r.notified
  <2>1. /\ NotStarted \in ThreadRecord /\ NotStarted.fatal = "none" /\ ~NotStarted.uncontained
        /\ NotStarted.attempt = 1 /\ NotStarted.structural = 1 /\ NotStarted.used = 0
        /\ ~NotStarted.notified
    BY NotStartedOK DEF AttemptOK, NotStarted
  <2>2. "claim" \in Phases
    BY DEF Phases, Working
  <2> QED
    BY <1>1, <1>2, <2>1, <2>2 DEF Started, ThreadRecord
<1> HIDE DEF r
<1>4. AttemptOK(r)
  BY <1>3, AttemptAssumption DEF AttemptOK, Paid, Admitted, Ended
<1> QED
  BY <1>3, <1>4 DEF r

\* Paths overlap in both directions.
LEMMA OverlapSymmetric ==
  ASSUME NEW i, NEW j, Overlap(i, j)
  PROVE  Overlap(j, i)
BY DEF Overlap, ScopesOverlap, paths_overlap

\* An assignment is started: it is ready, overlaps no active one, and nothing stopped the loop.
LEMMA SpawnStartsKeeps ==
  ASSUME IndInv, NEW i \in sched.pending, sched.pc \in {"starting", "serial"}, Ready(sched, i),
         \A j \in sched.active : ~Overlap(i, j),
         NEW signals \in PreparedSignals, th' = [th EXCEPT ![i] = Started(Job(i).paths, signals)],
         sched' = [sched EXCEPT !.pending = @ \ {i}, !.active = @ \cup {i}, !.admitting = i,
                                !.pc = IF Serial THEN "inline" ELSE "handshake"],
         UNCHANGED <<plan, claims, budget, faults>>
  PROVE  IndInv'
<1> DEFINE r == Started(Job(i).paths, signals)
<1>0. /\ Types /\ Attempts /\ Reservations /\ Authority /\ Placement /\ Hierarchy /\ Disjoint
      /\ Completions /\ Control /\ Stops /\ Causes
      /\ SchedShape(sched) /\ i \in Jobs
  BY DEF IndInv, Types, SchedShape
<1>1. /\ Jobs' = Jobs /\ Serial' = Serial /\ ReleasePerAssignment' = ReleasePerAssignment
      /\ \A j : Job(j)' = Job(j)
      /\ \A j : Ancestors(j)' = Ancestors(j)
      /\ \A j, k : Overlap(j, k)' = Overlap(j, k)
  BY PlanKept
<1>2. AttemptOK(r) /\ r.phase = "claim" /\ r.fatal = "none" /\ ~r.uncontained /\ r \in ThreadRecord
  BY <1>0, StartedOK DEF AttemptOK
<1>3. th' \in [Jobs -> ThreadRecord] /\ th'[i] = r /\ \A j \in Jobs \ {i} : th'[j] = th[j]
  BY <1>0, <1>2 DEF Types
<1> HIDE DEF r
<1>4. /\ sched'.pending = sched.pending \ {i} /\ sched'.active = sched.active \cup {i}
      /\ sched'.admitting = i /\ sched'.queue = sched.queue
      /\ sched'.outcomes = sched.outcomes
      /\ sched'.breaker = sched.breaker /\ sched'.stop = sched.stop
      /\ sched'.cancelled = sched.cancelled /\ sched'.prevented = sched.prevented
      /\ sched'.denied = sched.denied /\ sched'.error = sched.error
      /\ sched'.success = sched.success
      /\ sched'.pc = IF Serial THEN "inline" ELSE "handshake"
      /\ SchedShape(sched)'
  BY <1>0, <1>1 DEF SchedShape, LoopPcs
<1>5. /\ th[i].phase = "none" /\ sched.outcomes[i] = "none" /\ i \notin sched.active
      /\ claims[i] = {} /\ budget.held[i] = 0 /\ i \notin budget.granted
      /\ ~sched.cancelled /\ ~sched.error /\ (sched.pc = "serial" <=> Serial)
      /\ (Serial => sched.active = {}) /\ (~Serial => ~sched.stop)
      /\ ~Serial => \A j \in sched.active : th[j].notified
  BY <1>0, AdmitFacts, SerialFacts DEF Placement, Authority, Reservations, Claimant, Holding
<1>6. Types' /\ Attempts'
  BY <1>0, <1>1, <1>2, <1>3, <1>4 DEF Types, Attempts, BudgetRecord
<1>7. Reservations' /\ Authority'
  <2>1. Reservations'
    BY <1>0, <1>1, <1>2, <1>3, <1>5 DEF Reservations, Holding
  <2>2. Authority'
    BY <1>0, <1>1, <1>2, <1>3, <1>4, <1>5 DEF Authority, Claimant, Holding, PathsOf
  <2> QED
    BY <2>1, <2>2
<1>8. Placement'
  <2>1. \A j \in sched'.pending : th'[j].phase = "none" /\ sched.outcomes[j] = "none"
    BY <1>0, <1>3, <1>4 DEF Placement, SchedShape
  <2>2. \A j \in sched'.active : th'[j].phase # "none" /\ sched.outcomes[j] = "none"
    BY <1>0, <1>2, <1>3, <1>4, <1>5 DEF Placement, SchedShape
  <2>3. \A j \in Jobs : th'[j].phase \in Working => j \in sched'.active
    BY <1>0, <1>3, <1>4 DEF Placement
  <2>4. \A j \in Jobs : sched.outcomes[j] = "none" => j \in sched'.pending \cup sched'.active \/ sched'.error
    BY <1>0, <1>4 DEF Placement
  <2>5. \A j \in Jobs : sched.outcomes[j] = "succeeded" => Verdict(th'[j], FALSE) = "succeeded"
    BY <1>0, <1>3, <1>5 DEF Placement
  <2> QED
    BY <1>1, <1>4, <2>1, <2>2, <2>3, <2>4, <2>5 DEF Placement, Verdict
<1>9. Hierarchy'
  <2> SUFFICES ASSUME NEW j \in Jobs
               PROVE  /\ th'[j].phase # "none" /\ Job(j).parent # 0 =>
                           sched.outcomes[Job(j).parent] = "succeeded"
                      /\ th'[j].phase = "none" /\ sched.outcomes[j] = "failed" =>
                           Job(j).parked \/ \E a \in Ancestors(j) : sched.outcomes[a] \in Unsuccessful
    BY <1>1, <1>4 DEF Hierarchy
  <2>1. CASE j = i
    BY <1>2, <1>3, <2>1 DEF Ready
  <2>2. CASE j # i
    BY <1>0, <1>3, <2>2 DEF Hierarchy
  <2> QED
    BY <2>1, <2>2
<1>10. Disjoint'
  BY <1>0, <1>1, <1>4, OverlapSymmetric DEF Disjoint
<1>11. Completions'
  <2>1. sched.pc \in LoopPcs
    BY DEF LoopPcs
  <2>2. \A n \in DOMAIN sched.queue : sched.queue[n] \in sched.active /\ sched.queue[n] \in Jobs \ {i}
    BY <1>0, <1>5, <2>1 DEF Completions, SchedShape
  <2> QED
    BY <1>0, <1>3, <1>4, <2>1, <2>2 DEF Completions, Ended
<1>12. Control'
  BY <1>0, <1>1, <1>3, <1>4, <1>5 DEF Control, SchedShape, LoopPcs, EndPcs
<1>13. Stops'
  BY <1>0, <1>1, <1>4, <1>5 DEF Stops, EndPcs
<1>14. Causes'
  BY <1>0, <1>1, <1>2, <1>3, <1>4, <1>5 DEF Causes
<1> QED
  BY <1>6, <1>7, <1>8, <1>9, <1>10, <1>11, <1>12, <1>13, <1>14 DEF IndInv

\* All that Spawn may do.
LEMMA SpawnKeeps ==
  ASSUME IndInv, NEW i \in sched.pending, sched.pc \in {"starting", "serial"}, Ready(sched, i),
         \A j \in sched.active : ~Overlap(i, j), Spawn(i), UNCHANGED <<plan, claims, budget>>
  PROVE  IndInv'
<1> DEFINE s == [sched EXCEPT !.pending = @ \ {i}]
<1>1. ASSUME NEW signals \in PreparedSignals, th' = [th EXCEPT ![i] = Started(Job(i).paths, signals)],
             sched' = [s EXCEPT !.active = @ \cup {i}, !.admitting = i,
                                !.pc = IF Serial THEN "inline" ELSE "handshake"],
             UNCHANGED faults
      PROVE  IndInv'
  <2>1. SchedShape(sched)
    BY DEF IndInv, Types
  <2>2. sched' = [sched EXCEPT !.pending = @ \ {i}, !.active = @ \cup {i}, !.admitting = i,
                               !.pc = IF Serial THEN "inline" ELSE "handshake"]
    BY <1>1, <2>1 DEF SchedShape
  <2> QED
    BY <1>1, <2>2, SpawnStartsKeeps
<1>2. ASSUME ~Serial, Fault("spawn"), UNCHANGED th,
             sched' \in LET failed == [Cancelled(s) EXCEPT !.outcomes[i] = "aborted", !.stop = TRUE]
                        IN {[failed EXCEPT !.pc = "drain"], Bailed(failed)}
      PROVE  IndInv'
  BY <1>2, SpawnFailsKeeps
<1>3. ASSUME Fault("checkpoint"), UNCHANGED th, sched' = Bailed(s)
      PROVE  IndInv'
  BY <1>3, SpawnFailsKeeps
<1> QED
  BY <1>1, <1>2, <1>3 DEF Spawn

\* An assignment is chosen: nothing but the loop's place changes.
LEMMA ChooseKeeps ==
  ASSUME IndInv, sched.pc = "admit", NEW i,
         sched' = [sched EXCEPT !.pc = "starting", !.admitting = i],
         UNCHANGED <<plan, th, claims, budget, faults>>
  PROVE  IndInv'
<1>0. Types /\ Completions /\ Control /\ Stops /\ Causes /\ SchedShape(sched)
  BY DEF IndInv, Types
<1>1. /\ Jobs' = Jobs /\ Serial' = Serial
      /\ \A j : Job(j)' = Job(j)
      /\ \A j : Ancestors(j)' = Ancestors(j)
  BY PlanKept
<1>2. /\ ~Serial /\ ~sched.stop /\ ~sched.cancelled /\ ~sched.error
      /\ \A j \in sched.active : th[j].notified
  BY AdmitFacts
<1>3. /\ sched'.pc = "starting" /\ sched'.pending = sched.pending /\ sched'.active = sched.active
      /\ sched'.queue = sched.queue /\ sched'.outcomes = sched.outcomes
      /\ sched'.breaker = sched.breaker /\ sched'.cancelled = sched.cancelled
      /\ sched'.error = sched.error /\ sched'.denied = sched.denied
      /\ sched'.prevented = sched.prevented /\ sched'.stop = sched.stop
      /\ SchedShape(sched)'
  BY <1>0, <1>1 DEF SchedShape, LoopPcs
<1>4. Resolves
  BY <1>3, IdleResolves
<1>5. Completions'
  BY <1>0, <1>3 DEF Completions, LoopPcs, Ended
<1>6. Control'
  BY <1>1, <1>2, <1>3 DEF Control, LoopPcs, EndPcs
<1>7. Stops' /\ Causes'
  BY <1>0, <1>1, <1>2, <1>3 DEF Stops, Causes, EndPcs
<1> QED
  BY <1>4, <1>5, <1>6, <1>7, ResolvesKeeps

\* What is known of the assignment that was chosen, until it is started.
Chosen ==
  sched.pc = "starting" =>
    /\ sched.admitting \in sched.pending /\ Ready(sched, sched.admitting)
    /\ \A j \in sched.active : ~Overlap(sched.admitting, j)
    /\ ~sched.breaker.open

\* The chosen assignment is started.
LEMMA StartNextKeeps ==
  ASSUME IndInv, Chosen, StartNext
  PROVE  IndInv'
BY SpawnKeeps DEF Chosen, StartNext

\* One turn of the admission loop.
LEMMA AdmitNextKeeps ==
  ASSUME IndInv, AdmitNext
  PROVE  IndInv'
<1>0. /\ Types /\ Stops /\ SchedShape(sched) /\ sched.pc = "admit" /\ ~sched.stop
      /\ UNCHANGED <<plan, claims, budget>> /\ Jobs' = Jobs
  BY AdmitFacts, PlanKept DEF IndInv, Types, AdmitNext
<1>1. CASE /\ Cardinality(sched.active) >= plan.width \/ Candidates(sched) = {}
           /\ sched' = [sched EXCEPT !.pc = "drain"] /\ UNCHANGED <<th, faults>>
  <2>1. /\ sched'.pc = "drain" /\ sched'.pending = sched.pending /\ sched'.active = sched.active
        /\ sched'.queue = sched.queue /\ sched'.outcomes = sched.outcomes
        /\ sched'.breaker = sched.breaker /\ sched'.cancelled = sched.cancelled
        /\ sched'.error = sched.error /\ sched'.denied = sched.denied
        /\ sched'.prevented = sched.prevented /\ sched'.stop = sched.stop
        /\ SchedShape(sched)'
    BY <1>0, <1>1 DEF SchedShape, LoopPcs
  <2>2. sched.active = {} => Cardinality(sched.active) = 0 /\ 0 < plan.width
    BY <1>0, FS_EmptySet, PlanFacts
  <2>3. sched.active = {} => \A i \in sched.pending : ~Ready(sched, i)
    <3> SUFFICES ASSUME sched.active = {} PROVE \A i \in sched.pending : ~Ready(sched, i)
      OBVIOUS
    <3>1. Candidates(sched) = {}
      BY <1>0, <1>1, <2>2, PlanFacts
    <3> QED
      BY <3>1 DEF Candidates
  <2> QED
    BY <1>0, <1>1, <2>1, <2>3, AdmitIdleKeeps DEF Stops
<1>2. CASE /\ ~permits_admission(sched.breaker)
           /\ sched' = [sched EXCEPT !.stop = TRUE, !.pc = "drain"] /\ UNCHANGED <<th, faults>>
  <2>1. /\ sched'.pc = "drain" /\ sched'.pending = sched.pending /\ sched'.active = sched.active
        /\ sched'.queue = sched.queue /\ sched'.outcomes = sched.outcomes
        /\ sched'.breaker = sched.breaker /\ sched'.cancelled = sched.cancelled
        /\ sched'.error = sched.error /\ sched'.denied = sched.denied
        /\ sched'.prevented = sched.prevented /\ sched'.stop = TRUE
        /\ SchedShape(sched)'
    BY <1>0, <1>2 DEF SchedShape, LoopPcs
  <2> QED
    BY <1>0, <1>2, <2>1, AdmitIdleKeeps DEF Stops, permits_admission
<1>3. CASE /\ sched' = [IF WaitingForLiveGrant /\ sched.active # {} THEN sched
                        ELSE Denied(sched) EXCEPT !.pc = "drain"] /\ UNCHANGED <<th, faults>>
  <2>1. CASE WaitingForLiveGrant /\ sched.active # {}
    <3>1. /\ sched'.pc = "drain" /\ sched'.pending = sched.pending /\ sched'.active = sched.active
          /\ sched'.queue = sched.queue /\ sched'.outcomes = sched.outcomes
          /\ sched'.breaker = sched.breaker /\ sched'.cancelled = sched.cancelled
          /\ sched'.error = sched.error /\ sched'.denied = sched.denied
          /\ sched'.prevented = sched.prevented /\ sched'.stop = sched.stop
          /\ SchedShape(sched)'
      BY <1>0, <1>3, <2>1 DEF SchedShape, LoopPcs
    <3> QED
      BY <1>0, <1>3, <2>1, <3>1, AdmitIdleKeeps DEF Stops
  <2>2. CASE ~(WaitingForLiveGrant /\ sched.active # {})
    <3>1. /\ sched'.pc = "drain" /\ sched'.pending = sched.pending /\ sched'.active = sched.active
          /\ sched'.queue = sched.queue /\ sched'.outcomes = sched.outcomes
          /\ sched'.breaker = sched.breaker /\ sched'.cancelled = sched.cancelled
          /\ sched'.error = sched.error /\ sched'.denied = sched.denied \cup sched.pending
          /\ sched'.prevented = (sched.prevented \/ sched.pending # {}) /\ sched'.stop = TRUE
          /\ SchedShape(sched)'
      BY <1>0, <1>3, <2>2 DEF SchedShape, LoopPcs, Denied
    <3> QED
      BY <1>0, <1>3, <3>1, AdmitIdleKeeps DEF Stops
  <2> QED
    BY <2>1, <2>2
<1>4. ASSUME Candidates(sched) # {},
             LET i == Min(Candidates(sched))
             IN IF Job(i).parked THEN Park(i, "admit")
                ELSE /\ sched' = [sched EXCEPT !.pc = "starting", !.admitting = i]
                     /\ UNCHANGED <<th, faults>>
      PROVE  IndInv'
  <2> DEFINE i == Min(Candidates(sched))
  <2>1. i \in Candidates(sched)
    <3>1. Candidates(sched) \in SUBSET Nat
      BY <1>0, PlanFacts DEF Candidates, SchedShape
    <3> QED
      BY <1>4, <3>1, MinIn
  <2>2. i \in sched.pending /\ Ready(sched, i) /\ \A j \in sched.active : ~Overlap(i, j)
    BY <2>1 DEF Candidates
  <2>3. \/ Job(i).parked /\ Park(i, "admit")
        \/ sched' = [sched EXCEPT !.pc = "starting", !.admitting = i] /\ UNCHANGED <<th, faults>>
    BY <1>4
  <2> HIDE DEF i
  <2>4. CASE Job(i).parked /\ Park(i, "admit")
    BY <1>0, <2>2, <2>4, ParkKeeps
  <2>5. CASE sched' = [sched EXCEPT !.pc = "starting", !.admitting = i] /\ UNCHANGED <<th, faults>>
    BY <1>0, <2>5, ChooseKeeps
  <2> QED
    BY <2>3, <2>4, <2>5
<1> QED
  BY <1>1, <1>2, <1>3, <1>4 DEF AdmitNext

\* The scheduler's wait for the admission of the thread it spawned.
LEMMA HandshakeKeeps ==
  ASSUME IndInv, Handshake
  PROVE  IndInv'
<1> DEFINE i == sched.admitting
<1>0. /\ Types /\ Attempts /\ Completions /\ Control /\ Stops /\ Causes
      /\ SchedShape(sched) /\ sched.pc = "handshake" /\ ~sched.stop /\ ~sched.error /\ ~sched.cancelled
      /\ UNCHANGED <<plan, th, claims, budget, faults>>
      /\ i \in sched.active /\ i \in Jobs /\ ~Serial
  BY DEF IndInv, Types, SchedShape, Handshake, Control, EndPcs, Stops
<1>1. /\ Jobs' = Jobs /\ Serial' = Serial
      /\ \A j : Job(j)' = Job(j)
      /\ \A j : Ancestors(j)' = Ancestors(j)
  BY <1>0, PlanKept
<1>2. CASE th[i].notified /\ sched' = [sched EXCEPT !.pc = "admit", !.admitting = 0]
  <2>1. /\ sched'.pc = "admit" /\ sched'.pending = sched.pending /\ sched'.active = sched.active
        /\ sched'.queue = sched.queue /\ sched'.outcomes = sched.outcomes
        /\ sched'.breaker = sched.breaker /\ sched'.cancelled = sched.cancelled
        /\ sched'.error = sched.error /\ sched'.denied = sched.denied
        /\ sched'.prevented = sched.prevented /\ sched'.stop = sched.stop
        /\ SchedShape(sched)'
    BY <1>0, <1>1, <1>2 DEF SchedShape, LoopPcs
  <2>2. Resolves
    BY <1>0, <2>1, IdleResolves
  <2>3. Completions' /\ Control'
    <3>1. \A j \in sched.active : th[j].notified
      BY <1>0, <1>2 DEF Control, LoopPcs
    <3> QED
      BY <1>0, <1>1, <2>1, <3>1 DEF Completions, Control, LoopPcs, EndPcs, Ended
  <2>4. Stops' /\ Causes'
    BY <1>0, <1>1, <2>1 DEF Stops, Causes, EndPcs
  <2> QED
    BY <2>2, <2>3, <2>4, ResolvesKeeps
<1>3. CASE th[i].phase = "dead" /\ sched' = [Cancelled(sched) EXCEPT !.pc = "joining"]
  <2>1. /\ sched'.pc = "joining" /\ sched'.pending = sched.pending /\ sched'.active = sched.active
        /\ sched'.queue = sched.queue /\ sched'.outcomes = sched.outcomes
        /\ sched'.breaker = sched.breaker /\ sched'.cancelled = TRUE
        /\ sched'.error = sched.error /\ sched'.denied = sched.denied
        /\ sched'.prevented = sched.prevented /\ sched'.stop = sched.stop
        /\ SchedShape(sched)'
    BY <1>0, <1>1, <1>3 DEF SchedShape, Cancelled
  <2>2. Resolves
    BY <1>0, <2>1, IdleResolves
  <2>3. faults > 0
    BY <1>0, <1>3 DEF Attempts, AttemptOK, Causes
  <2>4. Completions' /\ Control'
    BY <1>0, <1>1, <2>1 DEF Completions, Control, LoopPcs, EndPcs
  <2>5. Stops'
    BY <1>0, <1>1, <2>1 DEF Stops, EndPcs
  <2>6. Causes'
    BY <1>0, <1>1, <2>1, <2>3 DEF Causes, Cause
  <2> QED
    BY <2>2, <2>4, <2>5, <2>6, ResolvesKeeps
<1> QED
  BY <1>2, <1>3 DEF Handshake

-----------------------------------------------------------------------------
(* Completions.                                                             *)

\* What a verdict says of the record.
LEMMA VerdictFacts ==
  ASSUME NEW r, NEW release_failed \in BOOLEAN
  PROVE  /\ Verdict(r, release_failed) \in {"failed", "aborted", "succeeded"}
         /\ release_failed => Verdict(r, release_failed) = "aborted"
         /\ Verdict(r, release_failed) = "succeeded" => Verdict(r, FALSE) = "succeeded"
         /\ Verdict(r, release_failed) = "aborted" =>
              r.fatal # "none" \/ r.uncontained \/ release_failed
BY DEF Verdict

\* A completed assignment leaves with its verdict.
LEMMA CompletionResolves ==
  ASSUME IndInv, NEW i \in sched.active, Ended(th[i]), NEW release_failed \in BOOLEAN,
         SchedShape(sched)', UNCHANGED <<plan, th, budget>>, sched'.pc # "closed",
         sched'.pending = sched.pending, sched'.active = sched.active \ {i},
         sched'.outcomes = [sched.outcomes EXCEPT ![i] = Verdict(th[i], release_failed)],
         sched'.error = sched.error,
         \/ release_failed /\ faults' = faults + 1 /\ claims' = claims
         \/ ~release_failed /\ faults' = faults /\ Freed(i)
         \/ ~release_failed /\ faults' = faults /\ ~ReleasePerAssignment /\ claims' = claims
  PROVE  /\ Resolves /\ i \in Jobs
         /\ sched'.outcomes[i] = Verdict(th[i], release_failed)
         /\ \A j \in Jobs : sched.outcomes[j] = "aborted" => sched'.outcomes[j] = "aborted"
<1>0. /\ Types /\ Placement /\ SchedShape(sched) /\ i \in Jobs
      /\ sched.outcomes[i] = "none" /\ th[i].phase # "none" /\ i \notin sched.pending
      /\ faults \in Nat /\ claims \in [Jobs -> SUBSET Paths]
  BY DEF IndInv, Types, SchedShape, Placement
<1>1. /\ faults' \in Nat /\ faults' >= faults /\ (release_failed => faults' > 0)
  BY <1>0
<1>2. /\ sched'.outcomes[i] = Verdict(th[i], release_failed)
      /\ \A j \in Jobs \ {i} : sched'.outcomes[j] = sched.outcomes[j]
  BY <1>0 DEF SchedShape
<1>3. /\ claims' \in [Jobs -> SUBSET Paths]
      /\ \A j \in Jobs : claims'[j] # claims[j] => j = i /\ claims'[j] = {} /\ ~th[j].uncontained
      /\ claims'[i] # {} => release_failed \/ ~ReleasePerAssignment \/ th[i].uncontained
  BY <1>0 DEF Freed
<1>4. th[i].phase \notin Claimant
  BY DEF Ended, Claimant, Holding
<1>5. Resolves
  <2>1. ASSUME NEW j \in Jobs, j \in sched.pending \cup sched.active, j # i
        PROVE  j \in sched'.pending \cup sched'.active /\ sched'.outcomes[j] = sched.outcomes[j]
    BY <1>2, <2>1
  <2>2. /\ i \notin sched'.pending \cup sched'.active /\ sched'.outcomes[i] # "none"
        /\ sched'.outcomes[i] \in Unsuccessful \/ Verdict(th[i], FALSE) = "succeeded"
        /\ claims'[i] # {} =>
             \/ ~ReleasePerAssignment \/ th[i].uncontained
             \/ faults' > 0 /\ sched'.outcomes[i] = "aborted"
    BY <1>0, <1>1, <1>2, <1>3, VerdictFacts DEF Unsuccessful
  <2>3. \A j \in Jobs : /\ j \in sched.active => j \in sched'.active \/ Ended(th[j])
                        /\ j \notin sched.pending \cup sched.active =>
                             sched'.outcomes[j] = sched.outcomes[j]
    BY <1>2
  <2>4. \A j \in Jobs : claims'[j] # claims[j] =>
          claims'[j] = {} /\ th[j].phase \notin Claimant /\ ~th[j].uncontained
    BY <1>3, <1>4
  <2> QED
    BY <1>0, <1>1, <1>3, <2>1, <2>2, <2>3, <2>4 DEF Resolves
<1> QED
  BY <1>0, <1>2, <1>5

\* An abort has a cause.
LEMMA AbortCause ==
  ASSUME IndInv, Resolves, NEW i \in Jobs, NEW release_failed \in BOOLEAN,
         release_failed => faults' > 0, Verdict(th[i], release_failed) = "aborted",
         sched.pc \notin EndPcs
  PROVE  Cause'
<1>0. /\ Causes /\ Jobs' = Jobs /\ th' = th /\ faults \in Nat /\ faults' \in Nat /\ faults' >= faults
      /\ th[i].fatal \in {"none", "error", "cancelled", "budget", "gate"}
  BY PlanKept DEF IndInv, Types, ThreadRecord, Resolves
<1>1. th[i].fatal # "none" \/ th[i].uncontained \/ release_failed
  BY VerdictFacts
<1>2. CASE release_failed \/ th[i].fatal = "error"
  BY <1>0, <1>2 DEF Cause, Causes
<1>3. CASE th[i].uncontained \/ th[i].fatal \in {"budget", "gate"}
  BY <1>0, <1>3 DEF Cause
<1>4. CASE th[i].fatal = "cancelled"
  BY <1>0, <1>4, CauseLasts DEF Causes
<1> QED
  BY <1>0, <1>1, <1>2, <1>3, <1>4

\* The checkpoint of a completed assignment fails: its outcome is lost.
LEMMA LostKeeps ==
  ASSUME IndInv, NEW i \in sched.active, Ended(th[i]), Fault("checkpoint"),
         sched' = Bailed([sched EXCEPT !.active = @ \ {i}]),
         UNCHANGED <<plan, th, claims, budget>>
  PROVE  IndInv'
<1>0. /\ Types /\ Control /\ SchedShape(sched)
      /\ faults \in Nat /\ faults' \in Nat /\ faults' >= faults /\ faults' > 0
      /\ claims \in [Jobs -> SUBSET Paths] /\ Jobs' = Jobs
  BY PlanKept DEF IndInv, Types, Fault
<1>1. /\ sched'.pc = "exit" /\ sched'.error = TRUE
      /\ sched'.pending = sched.pending /\ sched'.active = sched.active \ {i}
      /\ sched'.outcomes = sched.outcomes
      /\ sched'.breaker = sched.breaker /\ sched'.stop = sched.stop
      /\ sched'.cancelled = sched.cancelled /\ sched'.prevented = sched.prevented
      /\ sched'.denied = sched.denied
      /\ SchedShape(sched)'
  BY <1>0 DEF Bailed, SchedShape, EndPcs
<1>2. Resolves
  BY <1>0, <1>1 DEF Resolves
<1>3. Serial => ~sched'.cancelled
  BY <1>0, <1>1 DEF Control
<1>4. Cause'
  BY <1>0 DEF Cause
<1> QED
  BY <1>1, <1>2, <1>3, <1>4, BailKeeps

\* What AfterCompletion and AfterAbort may change.
Settled(t, s, aborted) ==
  /\ SchedShape(t)
  /\ t.pc = s.pc /\ t.pending = s.pending /\ t.active = s.active /\ t.queue = s.queue
  /\ t.admitting = s.admitting /\ t.outcomes = s.outcomes /\ t.error = s.error
  /\ t.success = s.success
  /\ s.breaker.open => t.breaker.open
  /\ s.cancelled => t.cancelled
  /\ t.cancelled => s.cancelled \/ aborted
  /\ t.stop => s.stop \/ t.cancelled \/ t.breaker.open \/ t.pending \subseteq t.denied
  /\ s.denied \subseteq t.denied
  /\ t.denied # {} => t.prevented

\* Observing the signals of a completed assignment changes the breaker only.
LEMMA ObserveSettles ==
  ASSUME NEW s, SchedShape(s), NEW r
  PROVE  LET t == observe_assignment_health(s, r)
         IN /\ SchedShape(t)
            /\ t.pc = s.pc /\ t.pending = s.pending /\ t.active = s.active /\ t.queue = s.queue
            /\ t.admitting = s.admitting /\ t.outcomes = s.outcomes /\ t.error = s.error
            /\ t.success = s.success /\ t.stop = s.stop /\ t.cancelled = s.cancelled
            /\ t.denied = s.denied /\ t.prevented = s.prevented
            /\ s.breaker.open => t.breaker.open
<1>1. CASE s.breaker.open
  BY <1>1 DEF observe_assignment_health
<1>2. CASE ~s.breaker.open
  <2> DEFINE b == Observe(s.breaker, Append(r.signals, HealthOutcome(r)))
  <2>1. observe_assignment_health(s, r) = [s EXCEPT !.breaker = b]
    BY <1>2 DEF observe_assignment_health
  <2> HIDE DEF b
  <2> QED
    BY <1>2, <2>1 DEF SchedShape
<1> QED
  BY <1>1, <1>2

\* A completion that asks for no abort.
LEMMA AfterCompletionSettles ==
  ASSUME NEW s, SchedShape(s), NEW i, s.denied # {} => s.prevented, ~s.cancelled \/ s.stop
  PROVE  Settled(AfterCompletion(s, i), s, FALSE)
<1> DEFINE seen == observe_assignment_health(s, th[i])
           halted == [seen EXCEPT !.stop = @ \/ seen.breaker.open]
           t == AfterCompletion(s, i)
<1> SUFFICES Settled(t, s, FALSE)
  OBVIOUS
<1>1. /\ SchedShape(seen)
      /\ seen.pc = s.pc /\ seen.pending = s.pending /\ seen.active = s.active /\ seen.queue = s.queue
      /\ seen.admitting = s.admitting /\ seen.outcomes = s.outcomes /\ seen.error = s.error
      /\ seen.success = s.success /\ seen.stop = s.stop /\ seen.cancelled = s.cancelled
      /\ seen.denied = s.denied /\ seen.prevented = s.prevented
      /\ s.breaker.open => seen.breaker.open
  BY ObserveSettles
<1> HIDE DEF seen
<1>2. /\ SchedShape(halted)
      /\ halted.pc = s.pc /\ halted.pending = s.pending /\ halted.active = s.active
      /\ halted.queue = s.queue /\ halted.admitting = s.admitting /\ halted.outcomes = s.outcomes
      /\ halted.error = s.error /\ halted.success = s.success
      /\ halted.stop = (s.stop \/ seen.breaker.open) /\ halted.cancelled = s.cancelled
      /\ halted.denied = s.denied /\ halted.prevented = s.prevented
      /\ halted.breaker = seen.breaker
  BY <1>1 DEF SchedShape
<1>6. /\ halted.stop => s.stop \/ halted.breaker.open
      /\ s.breaker.open => halted.breaker.open
      /\ s.stop => halted.stop
  BY <1>1, <1>2
<1>3. t \in {halted, [Denied(halted) EXCEPT !.prevented = TRUE]}
  BY DEF AfterCompletion, seen
<1> HIDE DEF halted, t
<1>4. CASE t = halted
  BY <1>2, <1>4, <1>6 DEF Settled
<1>5. CASE t = [Denied(halted) EXCEPT !.prevented = TRUE]
  <2>1. t = [halted EXCEPT !.prevented = TRUE, !.denied = @ \cup halted.pending, !.stop = TRUE]
    BY <1>2, <1>5 DEF Denied, SchedShape
  <2>2. /\ SchedShape(t)
        /\ t.pc = s.pc /\ t.pending = s.pending /\ t.active = s.active
        /\ t.queue = s.queue /\ t.admitting = s.admitting /\ t.outcomes = s.outcomes
        /\ t.error = s.error /\ t.success = s.success
        /\ t.stop = TRUE /\ t.cancelled = s.cancelled
        /\ t.denied = s.denied \cup s.pending /\ t.prevented = TRUE
        /\ t.breaker = halted.breaker
    BY <1>2, <2>1 DEF SchedShape
  <2> QED
    BY <1>6, <2>2 DEF Settled
<1> QED
  BY <1>3, <1>4, <1>5

\* A scheduler that stopped stays stopped.
LEMMA AfterCompletionStops ==
  ASSUME NEW s, SchedShape(s), NEW i, s.stop
  PROVE  AfterCompletion(s, i).stop
<1> DEFINE seen == observe_assignment_health(s, th[i])
           halted == [seen EXCEPT !.stop = @ \/ seen.breaker.open]
<1>1. SchedShape(seen) /\ seen.stop
  BY ObserveSettles
<1>2. AfterCompletion(s, i) \in {halted, [Denied(halted) EXCEPT !.prevented = TRUE]}
  BY DEF AfterCompletion
<1> HIDE DEF seen
<1>3. halted.stop /\ SchedShape(halted)
  BY <1>1 DEF SchedShape
<1> HIDE DEF halted
<1>4. [Denied(halted) EXCEPT !.prevented = TRUE].stop
  BY <1>3 DEF Denied, SchedShape
<1> QED
  BY <1>2, <1>3, <1>4

\* The concurrent loop joins the assignment at the head of its queue.
LEMMA DrainOneKeeps ==
  ASSUME IndInv, sched.pc = "drain", sched.queue # <<>>, DrainOne(Head(sched.queue)),
         UNCHANGED <<plan, th, budget>>
  PROVE  IndInv'
<1> DEFINE i == Head(sched.queue)
<1>0. /\ Types /\ Placement /\ Completions /\ Control /\ Stops /\ Causes /\ SchedShape(sched)
      /\ ~Serial /\ ~sched.error /\ (sched.cancelled => sched.stop)
      /\ \A j \in sched.active : th[j].notified
      /\ sched.cancelled => \E j \in Jobs : sched.outcomes[j] = "aborted"
  BY DEF IndInv, Types, Control, Stops, LoopPcs, EndPcs
<1>1. /\ Jobs' = Jobs /\ Serial' = Serial
      /\ \A j : Job(j)' = Job(j)
      /\ \A j : Ancestors(j)' = Ancestors(j)
  BY PlanKept
<1>2. /\ sched.queue \in Seq(Jobs) /\ 1 \in DOMAIN sched.queue /\ i = sched.queue[1]
      /\ i \in sched.active /\ Ended(th[i]) /\ i \in Jobs
  <2>1. sched.queue \in Seq(Jobs) /\ 1 \in DOMAIN sched.queue /\ i = sched.queue[1]
    BY <1>0 DEF SchedShape
  <2> QED
    BY <1>0, <2>1 DEF Completions, LoopPcs, SchedShape
<1>3. DrainOne(i)
  OBVIOUS
<1> HIDE DEF i
<1>4. CASE Fault("checkpoint") /\ sched' = Bailed([sched EXCEPT !.active = @ \ {i}]) /\ UNCHANGED claims
  BY <1>2, <1>4, LostKeeps
<1>5. ASSUME NEW release_failed \in BOOLEAN,
             LET s == Completed(i, release_failed)
                 after == IF s.outcomes[i] = "aborted" THEN AfterAbort(s) ELSE AfterCompletion(s, i)
             IN /\ IF release_failed
                   THEN claims[i] # {} /\ ~th[i].uncontained /\ Fault("release") /\ UNCHANGED claims
                   ELSE Freed(i) /\ UNCHANGED faults
                /\ sched' = [after EXCEPT !.queue = Tail(@), !.pc = "head"]
      PROVE  IndInv'
  <2> DEFINE s == Completed(i, release_failed)
             v == Verdict(th[i], release_failed)
             t == IF s.outcomes[i] = "aborted" THEN AfterAbort(s) ELSE AfterCompletion(s, i)
  <2>1. v \in Outcomes /\ v # "none"
    BY VerdictFacts DEF Outcomes
  <2> HIDE DEF v
  <2>2. /\ SchedShape(s) /\ s.pc = sched.pc /\ s.pending = sched.pending
        /\ s.active = sched.active \ {i} /\ s.queue = sched.queue /\ s.admitting = sched.admitting
        /\ s.outcomes = [sched.outcomes EXCEPT ![i] = v] /\ s.outcomes[i] = v
        /\ s.error = sched.error /\ s.success = sched.success /\ s.breaker = sched.breaker
        /\ s.cancelled = sched.cancelled /\ s.stop = sched.stop /\ s.denied = sched.denied
        /\ s.prevented = sched.prevented
    <3>1. s = [sched EXCEPT !.active = @ \ {i}, !.outcomes = [@ EXCEPT ![i] = v]]
      BY <1>0 DEF Completed, SchedShape, v
    <3> HIDE DEF s
    <3> QED
      BY <1>0, <1>2, <2>1, <3>1 DEF SchedShape
  <2>3. Settled(t, s, v = "aborted")
    <3>1. CASE v = "aborted"
      <4>1. t = [s EXCEPT !.cancelled = TRUE, !.stop = TRUE]
        BY <2>2, <3>1 DEF AfterAbort, Cancelled, SchedShape
      <4> HIDE DEF s, t
      <4>2. /\ SchedShape(t) /\ t.pc = s.pc /\ t.pending = s.pending /\ t.active = s.active
            /\ t.queue = s.queue /\ t.admitting = s.admitting /\ t.outcomes = s.outcomes
            /\ t.error = s.error /\ t.success = s.success /\ t.breaker = s.breaker
            /\ t.cancelled = TRUE /\ t.stop = TRUE /\ t.denied = s.denied
            /\ t.prevented = s.prevented
        BY <2>2, <4>1 DEF SchedShape
      <4>3. s.denied # {} => s.prevented
        BY <1>0, <2>2 DEF Stops
      <4> QED
        BY <3>1, <4>2, <4>3 DEF Settled
    <3>2. CASE v # "aborted"
      <4>1. t = AfterCompletion(s, i)
        BY <2>2, <3>2
      <4>2. (s.denied # {} => s.prevented) /\ (~s.cancelled \/ s.stop)
        BY <1>0, <2>2 DEF Stops
      <4> HIDE DEF s, t
      <4>3. Settled(t, s, FALSE)
        BY <2>2, <4>1, <4>2, AfterCompletionSettles
      <4> QED
        BY <3>2, <4>3 DEF Settled
    <3> QED
      BY <3>1, <3>2
  <2>4. sched' = [t EXCEPT !.queue = Tail(@), !.pc = "head"]
    BY <1>5
  <2> HIDE DEF s, t
  <2>5. Tail(sched.queue) \in Seq(Jobs)
    BY <1>2
  <2>6. /\ sched'.pc = "head" /\ sched'.queue = Tail(sched.queue)
        /\ sched'.pending = sched.pending /\ sched'.active = sched.active \ {i}
        /\ sched'.outcomes = [sched.outcomes EXCEPT ![i] = v]
        /\ sched'.error = sched.error
        /\ sched'.breaker = t.breaker /\ sched'.cancelled = t.cancelled
        /\ sched'.stop = t.stop /\ sched'.denied = t.denied /\ sched'.prevented = t.prevented
        /\ SchedShape(sched)'
    BY <1>1, <2>2, <2>3, <2>4, <2>5 DEF Settled, SchedShape, LoopPcs
  <2>7. /\ (sched.breaker.open => sched'.breaker.open)
        /\ (sched.cancelled => sched'.cancelled)
        /\ (sched'.cancelled => sched.cancelled \/ v = "aborted")
        /\ (sched'.stop => sched.stop \/ sched'.cancelled \/ sched'.breaker.open
                             \/ sched'.pending \subseteq sched'.denied)
        /\ sched.denied \subseteq sched'.denied
        /\ (sched'.denied # {} => sched'.prevented)
    BY <2>2, <2>3, <2>6 DEF Settled
  <2>8. sched'.cancelled => sched'.stop
    <3>1. s.outcomes[i] = "aborted" => t = AfterAbort(s)
      BY DEF t
    <3>2. v = "aborted" => sched'.stop
      <4>1. v = "aborted" => t = [Cancelled(s) EXCEPT !.stop = TRUE]
        BY <2>2, <3>1 DEF AfterAbort
      <4> QED
        BY <2>2, <2>6, <4>1 DEF Cancelled, SchedShape
    <3>3. ASSUME v # "aborted", sched.stop PROVE sched'.stop
      <4>1. t = AfterCompletion(s, i)
        BY <2>2, <3>3 DEF t
      <4>2. AfterCompletion(s, i).stop
        BY <2>2, <3>3, AfterCompletionStops
      <4> QED
        BY <2>6, <4>1, <4>2
    <3> QED
      BY <1>0, <2>7, <3>2, <3>3
  <2>9. /\ release_failed => faults' = faults + 1 /\ faults' > 0 /\ claims' = claims
        /\ ~release_failed => faults' = faults /\ Freed(i)
    BY <1>0, <1>5 DEF Fault, Types
  <2>10. /\ Resolves /\ sched'.outcomes[i] = v
         /\ \A j \in Jobs : sched.outcomes[j] = "aborted" => sched'.outcomes[j] = "aborted"
    BY <1>2, <2>6, <2>9, CompletionResolves DEF v
  <2>11. Completions'
    <3> DEFINE q == Tail(sched.queue)
    <3>1. \A n \in DOMAIN q : n + 1 \in DOMAIN sched.queue /\ q[n] = sched.queue[n + 1] /\ n + 1 # 1 /\ n \in Nat
      BY <1>2
    <3>2. /\ \A n \in DOMAIN sched.queue : sched.queue[n] \in sched.active /\ Ended(th[sched.queue[n]])
          /\ \A m, n \in DOMAIN sched.queue : m # n => sched.queue[m] # sched.queue[n]
      BY <1>0 DEF Completions, LoopPcs
    <3> HIDE DEF q
    <3>3. /\ \A n \in DOMAIN q : q[n] \in sched.active \ {i} /\ Ended(th[q[n]])
          /\ \A m, n \in DOMAIN q : m # n => q[m] # q[n]
      BY <1>2, <3>1, <3>2
    <3> QED
      BY <2>6, <3>3 DEF Completions, Ended, q
  <2>12. Control'
    BY <1>0, <1>1, <2>6 DEF Control, LoopPcs, EndPcs
  <2>13. Stops'
    BY <1>0, <1>1, <1>2, <2>6, <2>7, <2>8, <2>10 DEF Stops, EndPcs
  <2>14. Causes'
    <3>1. sched'.cancelled => Cause'
      <4>1. CASE v = "aborted"
        BY <1>2, <2>9, <2>10, <4>1, AbortCause DEF v, EndPcs
      <4>2. CASE sched.cancelled
        BY <1>0, <2>10, <4>2, CauseLasts DEF Causes, EndPcs
      <4> QED
        BY <2>7, <4>1, <4>2
    <3>2. faults \in Nat /\ faults' \in Nat /\ faults' >= faults
      BY <1>0, <2>10 DEF Types, Resolves
    <3> QED
      BY <1>0, <1>1, <2>6, <2>7, <3>1, <3>2 DEF Causes
  <2> QED
    BY <2>10, <2>11, <2>12, <2>13, <2>14, ResolvesKeeps
<1> QED
  BY <1>3, <1>4, <1>5 DEF DrainOne

\* Nothing is ready although nothing runs: some pending assignment has a parked parent.
LEMMA StallHasParkedAncestor ==
  ASSUME IndInv, sched.pc = "drain", sched.active = {}, ~sched.stop, sched.pending # {}
  PROVE  \E i \in sched.pending : \E a \in Ancestors(i) : Job(a).parked
<1> DEFINE i == Min(sched.pending)
           p == Job(i).parent
<1>0. /\ Types /\ Placement /\ Causes /\ SchedShape(sched) /\ ~sched.error
  BY DEF IndInv, Types, Control, EndPcs
<1>1. i \in sched.pending /\ i \in Jobs /\ \A j \in sched.pending : i <= j
  <2>1. sched.pending \in SUBSET Nat /\ sched.pending \in SUBSET Jobs
    BY <1>0, PlanFacts DEF SchedShape
  <2> QED
    BY <2>1, MinIn
<1> HIDE DEF i
<1>2. p # 0 /\ sched.outcomes[p] # "succeeded"
  BY <1>0, <1>1 DEF Causes, Ready
<1>3. p \in Jobs /\ p \in 0..(i - 1) /\ i \in Nat \ {0} /\ p \in Ancestors(i)
  BY <1>0, <1>1, <1>2, PlanFacts, ParentIsAncestor
<1> HIDE DEF p
<1>4. p \notin sched.pending
  BY <1>1, <1>3
<1>5. sched.outcomes[p] \in Outcomes /\ sched.outcomes[p] # "none"
  BY <1>0, <1>3, <1>4 DEF Placement, SchedShape
<1>6. sched.outcomes[p] \in Unsuccessful
  BY <1>2, <1>5 DEF Outcomes, Unsuccessful
<1> QED
  BY <1>0, <1>1, <1>3, <1>6 DEF Causes

\* The drain of the concurrent loop.
LEMMA DrainKeeps ==
  ASSUME IndInv, Drain
  PROVE  IndInv'
<1>0. /\ Types /\ Control /\ Stops /\ Causes /\ SchedShape(sched) /\ sched.pc = "drain"
      /\ UNCHANGED <<plan, th, budget>> /\ ~Serial /\ ~sched.error /\ faults \in Nat
  BY DEF IndInv, Types, Drain, Control, EndPcs
<1>1. /\ Jobs' = Jobs /\ Serial' = Serial
      /\ \A j : Job(j)' = Job(j)
      /\ \A j : Ancestors(j)' = Ancestors(j)
  BY <1>0, PlanKept
<1>2. CASE /\ sched.active = {} /\ UNCHANGED <<claims, faults>> /\ (sched.pending = {} \/ sched.stop)
           /\ sched' = [sched EXCEPT !.pc = "finished"]
  <2>1. /\ sched'.pc = "finished" /\ sched'.pending = sched.pending /\ sched'.active = sched.active
        /\ sched'.queue = sched.queue /\ sched'.outcomes = sched.outcomes
        /\ sched'.breaker = sched.breaker /\ sched'.cancelled = sched.cancelled
        /\ sched'.error = sched.error /\ sched'.denied = sched.denied
        /\ sched'.prevented = sched.prevented /\ sched'.stop = sched.stop
        /\ SchedShape(sched)'
    BY <1>0, <1>1, <1>2 DEF SchedShape, EndPcs
  <2>2. Resolves
    BY <1>0, <1>2, <2>1, IdleResolves
  <2>3. Completions' /\ Control'
    BY <1>0, <1>1, <1>2, <2>1 DEF Completions, Control, LoopPcs, EndPcs
  <2>4. Stops'
    BY <1>0, <1>1, <1>2, <2>1 DEF Stops, EndPcs
  <2>5. Causes'
    <3>1. Cause => Cause'
      BY <1>0, <2>2, CauseLasts DEF EndPcs
    <3> QED
      BY <1>0, <1>1, <1>2, <2>1, <3>1 DEF Causes
  <2> QED
    BY <2>2, <2>3, <2>4, <2>5, ResolvesKeeps
<1>3. CASE /\ sched.active = {} /\ UNCHANGED <<claims, faults>> /\ sched.pending # {} /\ ~sched.stop
           /\ sched' = Bailed(Cancelled(sched))
  <2>1. sched' = [sched EXCEPT !.cancelled = TRUE, !.error = TRUE, !.pc = "exit"]
    BY <1>0, <1>3 DEF Bailed, Cancelled, SchedShape
  <2>2. /\ sched'.pc = "exit" /\ sched'.pending = sched.pending /\ sched'.active = sched.active
        /\ sched'.outcomes = sched.outcomes
        /\ sched'.breaker = sched.breaker /\ sched'.cancelled = TRUE
        /\ sched'.error = TRUE /\ sched'.denied = sched.denied
        /\ sched'.prevented = sched.prevented /\ sched'.stop = sched.stop
        /\ SchedShape(sched)'
    BY <1>0, <1>1, <2>1 DEF SchedShape, EndPcs
  <2>3. Resolves
    BY <1>0, <1>3, <2>2, IdleResolves
  <2>4. Cause'
    BY <1>0, <1>1, <1>3, <2>2, StallHasParkedAncestor DEF Cause, EndPcs
  <2> QED
    BY <1>0, <2>2, <2>3, <2>4, BailKeeps
<1>4. CASE sched.active # {} /\ sched.queue # <<>> /\ DrainOne(Head(sched.queue))
  BY <1>0, <1>4, DrainOneKeeps
<1> QED
  BY <1>2, <1>3, <1>4 DEF Drain

\* The joins after a failed handshake.
LEMMA JoinAllKeeps ==
  ASSUME IndInv, JoinAll
  PROVE  IndInv'
<1> DEFINE i == Min(sched.active)
<1>0. /\ Types /\ Control /\ Stops /\ Causes /\ SchedShape(sched) /\ sched.pc = "joining"
      /\ UNCHANGED <<plan, th, budget>> /\ ~Serial /\ ~sched.error /\ faults \in Nat
  BY DEF IndInv, Types, JoinAll, Control, EndPcs
<1>1. Jobs' = Jobs /\ Serial' = Serial
  BY <1>0, PlanKept
<1>2. CASE sched.active = {}
  <2>1. sched' = Bailed(sched) /\ UNCHANGED <<claims, faults>>
    BY <1>2 DEF JoinAll
  <2>2. /\ sched'.pc = "exit" /\ sched'.pending = sched.pending /\ sched'.active = sched.active
        /\ sched'.outcomes = sched.outcomes
        /\ sched'.breaker = sched.breaker /\ sched'.cancelled = sched.cancelled
        /\ sched'.error = TRUE /\ sched'.denied = sched.denied
        /\ sched'.prevented = sched.prevented /\ sched'.stop = sched.stop
        /\ SchedShape(sched)'
    BY <1>0, <1>1, <2>1 DEF Bailed, SchedShape, EndPcs
  <2>3. Resolves
    BY <1>0, <2>1, <2>2, IdleResolves
  <2>4. sched'.cancelled => Cause'
    BY <1>0, <2>2, <2>3, CauseLasts DEF Causes, EndPcs
  <2> QED
    BY <1>0, <2>2, <2>3, <2>4, BailKeeps
<1>3. CASE sched.active # {}
  <2>1. i \in sched.active
    <3>1. sched.active \in SUBSET Nat
      BY <1>0, PlanFacts DEF SchedShape
    <3> QED
      BY <1>3, <3>1, MinIn
  <2>2. /\ Ended(th[i])
        /\ \/ Freed(i) /\ sched' = Completed(i, FALSE) /\ UNCHANGED faults
           \/ Fault("release") /\ sched' = Completed(i, TRUE) /\ UNCHANGED claims
           \/ /\ Fault("checkpoint") /\ UNCHANGED claims
              /\ sched' = Bailed([sched EXCEPT !.active = @ \ {i}])
    BY <1>3 DEF JoinAll
  <2> HIDE DEF i
  <2>3. CASE Fault("checkpoint") /\ UNCHANGED claims /\ sched' = Bailed([sched EXCEPT !.active = @ \ {i}])
    BY <1>0, <2>1, <2>2, <2>3, LostKeeps
  <2>4. ASSUME NEW release_failed \in BOOLEAN, sched' = Completed(i, release_failed),
               \/ release_failed /\ faults' = faults + 1 /\ claims' = claims
               \/ ~release_failed /\ faults' = faults /\ Freed(i)
        PROVE  IndInv'
    <3> DEFINE v == Verdict(th[i], release_failed)
    <3>1. v \in Outcomes
      BY VerdictFacts DEF Outcomes
    <3>2. sched' = [sched EXCEPT !.active = @ \ {i}, !.outcomes = [@ EXCEPT ![i] = v]]
      BY <1>0, <2>4 DEF Completed, SchedShape
    <3> HIDE DEF v
    <3>3. /\ sched'.pc = "joining" /\ sched'.pending = sched.pending
          /\ sched'.active = sched.active \ {i}
          /\ sched'.outcomes = [sched.outcomes EXCEPT ![i] = v]
          /\ sched'.breaker = sched.breaker /\ sched'.cancelled = sched.cancelled
          /\ sched'.error = sched.error /\ sched'.denied = sched.denied
          /\ sched'.prevented = sched.prevented /\ sched'.stop = sched.stop
          /\ SchedShape(sched)'
      BY <1>0, <1>1, <2>1, <3>1, <3>2 DEF SchedShape
    <3>4. Resolves
      BY <1>0, <2>1, <2>2, <2>4, <3>3, CompletionResolves DEF v
    <3>5. Completions' /\ Control'
      BY <1>0, <1>1, <3>3 DEF Completions, Control, LoopPcs, EndPcs
    <3>6. Stops'
      BY <1>0, <1>1, <3>3 DEF Stops, EndPcs
    <3>7. Causes'
      <4>1. Cause => Cause'
        BY <1>0, <3>4, CauseLasts DEF EndPcs
      <4>2. faults' \in Nat /\ faults' >= faults
        BY <3>4 DEF Resolves
      <4> QED
        BY <1>0, <1>1, <3>3, <4>1, <4>2 DEF Causes
    <3> QED
      BY <3>4, <3>5, <3>6, <3>7, ResolvesKeeps
  <2> QED
    BY <2>2, <2>3, <2>4 DEF Fault
<1> QED
  BY <1>2, <1>3

\* The scope of an error return.
LEMMA LeaveKeeps ==
  ASSUME IndInv, Leave
  PROVE  IndInv'
<1>0. /\ Types /\ Control /\ Stops /\ Causes /\ SchedShape(sched) /\ sched.pc = "exit" /\ sched.error
      /\ UNCHANGED <<plan, th, claims, budget, faults>> /\ \A i \in sched.active : Ended(th[i])
  BY DEF IndInv, Types, Leave, Control
<1>1. /\ Jobs' = Jobs /\ Serial' = Serial
      /\ \A j : Job(j)' = Job(j)
      /\ \A j : Ancestors(j)' = Ancestors(j)
  BY <1>0, PlanKept
<1>2. /\ sched'.pc = "finished" /\ sched'.pending = sched.pending /\ sched'.active = sched.active
      /\ sched'.queue = sched.queue /\ sched'.outcomes = sched.outcomes
      /\ sched'.breaker = sched.breaker /\ sched'.cancelled = sched.cancelled
      /\ sched'.error = sched.error /\ sched'.denied = sched.denied
      /\ sched'.prevented = sched.prevented /\ sched'.stop = sched.stop
      /\ SchedShape(sched)'
  BY <1>0, <1>1 DEF Leave, SchedShape, EndPcs
<1>3. Resolves
  BY <1>0, <1>2, IdleResolves
<1>4. Completions' /\ Control'
  BY <1>0, <1>1, <1>2 DEF Completions, Control, LoopPcs, EndPcs, Ended
<1>5. Stops'
  BY <1>0, <1>1, <1>2 DEF Stops, EndPcs
<1>6. Causes'
  <2>1. Cause => Cause'
    BY <1>2, <1>3, CauseLasts DEF EndPcs
  <2> QED
    BY <1>0, <1>1, <1>2, <2>1 DEF Causes
<1> QED
  BY <1>3, <1>4, <1>5, <1>6, ResolvesKeeps

-----------------------------------------------------------------------------
(* The serial loop, and the end of the run.                                 *)

\* The serial loop ends: an open breaker or the budget stopped it.
LEMMA SerialStopKeeps ==
  ASSUME IndInv, sched.pc = "serial", UNCHANGED <<plan, th, claims, budget, faults>>,
         \/ ~permits_admission(sched.breaker) /\ sched' = [sched EXCEPT !.pc = "finished"]
         \/ sched' = [Denied(sched) EXCEPT !.pc = "finished"]
  PROVE  IndInv'
<1>0. /\ Types /\ Control /\ Stops /\ Causes /\ SchedShape(sched)
      /\ Serial /\ ~sched.cancelled /\ ~sched.error /\ sched.active = {}
  BY SerialFacts DEF IndInv, Types
<1>1. Jobs' = Jobs /\ Serial' = Serial
  BY PlanKept
<1>2. /\ sched'.pc = "finished" /\ sched'.pending = sched.pending /\ sched'.active = sched.active
      /\ sched'.outcomes = sched.outcomes
      /\ sched'.breaker = sched.breaker /\ sched'.cancelled = sched.cancelled
      /\ sched'.error = sched.error
      /\ sched.denied \subseteq sched'.denied /\ (sched'.denied # {} => sched'.prevented)
      /\ sched'.stop => sched.stop \/ sched.pending \subseteq sched'.denied
      /\ sched.breaker.open \/ sched.pending \subseteq sched'.denied
      /\ SchedShape(sched)'
  <2>1. CASE ~permits_admission(sched.breaker) /\ sched' = [sched EXCEPT !.pc = "finished"]
    BY <1>0, <1>1, <2>1 DEF SchedShape, EndPcs, permits_admission, Stops
  <2>2. CASE sched' = [Denied(sched) EXCEPT !.pc = "finished"]
    <3>1. sched' = [sched EXCEPT !.prevented = @ \/ sched.pending # {},
                                 !.denied = @ \cup sched.pending, !.stop = TRUE, !.pc = "finished"]
      BY <1>0, <2>2 DEF Denied, SchedShape
    <3> QED
      BY <1>0, <1>1, <3>1 DEF SchedShape, EndPcs, Stops
  <2> QED
    BY <2>1, <2>2
<1>3. Resolves
  BY <1>2, IdleResolves
<1>4. Completions' /\ Control'
  BY <1>0, <1>1, <1>2 DEF Completions, Control, LoopPcs, EndPcs
<1>5. Stops'
  BY <1>0, <1>1, <1>2 DEF Stops, EndPcs
<1>6. Causes'
  BY <1>0, <1>1, <1>2 DEF Causes
<1> QED
  BY <1>3, <1>4, <1>5, <1>6, ResolvesKeeps

\* One turn of the serial loop up to the call of its assignment.
LEMMA SerialAdmitKeeps ==
  ASSUME IndInv, SerialAdmit
  PROVE  IndInv'
<1> DEFINE ready == {i \in sched.pending : Ready(sched, i)}
           i == Min(ready)
<1>0. /\ Types /\ SchedShape(sched) /\ sched.pc = "serial" /\ UNCHANGED <<plan, claims, budget>>
      /\ Serial /\ ~sched.cancelled /\ sched.active = {} /\ Jobs' = Jobs
  BY SerialFacts, PlanKept DEF IndInv, Types, SerialAdmit
<1>1. CASE /\ UNCHANGED <<th, faults>>
           /\ \/ ~permits_admission(sched.breaker) /\ sched' = [sched EXCEPT !.pc = "finished"]
              \/ sched' = [Denied(sched) EXCEPT !.pc = "finished"]
  BY <1>0, <1>1, SerialStopKeeps
<1>2. CASE sched' = Bailed(sched) /\ UNCHANGED <<th, faults>>
  <2>1. /\ sched'.pc = "exit" /\ sched'.pending = sched.pending /\ sched'.active = sched.active
        /\ sched'.outcomes = sched.outcomes
        /\ sched'.breaker = sched.breaker /\ sched'.cancelled = sched.cancelled
        /\ sched'.error = TRUE /\ sched'.denied = sched.denied
        /\ sched'.prevented = sched.prevented /\ sched'.stop = sched.stop
        /\ SchedShape(sched)'
    BY <1>0, <1>2 DEF Bailed, SchedShape, EndPcs
  <2>2. Resolves
    BY <1>0, <1>2, <2>1, IdleResolves
  <2> QED
    BY <1>0, <2>1, <2>2, BailKeeps
<1>3. ASSUME ready # {}, IF Job(i).parked THEN Park(i, "head") ELSE Spawn(i)
      PROVE  IndInv'
  <2>1. i \in ready
    <3>1. ready \in SUBSET Nat
      BY <1>0, PlanFacts DEF SchedShape
    <3> QED
      BY <1>3, <3>1, MinIn
  <2>2. i \in sched.pending /\ Ready(sched, i) /\ \A j \in sched.active : ~Overlap(i, j)
    BY <1>0, <2>1
  <2> HIDE DEF i
  <2>3. CASE Job(i).parked
    BY <1>0, <1>3, <2>2, <2>3, ParkKeeps
  <2>4. CASE ~Job(i).parked
    BY <1>0, <1>3, <2>2, <2>4, SpawnKeeps
  <2> QED
    BY <2>3, <2>4
<1> QED
  BY <1>1, <1>2, <1>3 DEF SerialAdmit

\* The assignment of the serial loop returned.
LEMMA SerialCompleteKeeps ==
  ASSUME IndInv, SerialComplete
  PROVE  IndInv'
<1> DEFINE i == sched.admitting
<1>0. /\ Types /\ Control /\ Stops /\ Causes /\ SchedShape(sched) /\ sched.pc = "inline"
      /\ Ended(th[i]) /\ UNCHANGED <<plan, th, budget>> /\ Serial /\ sched.active = {i}
      /\ i \in sched.active /\ i \in Jobs /\ ~sched.cancelled /\ ~sched.error /\ faults \in Nat
  BY DEF IndInv, Types, SerialComplete, Control, EndPcs, SchedShape
<1>1. Jobs' = Jobs /\ Serial' = Serial
  BY <1>0, PlanKept
<1> DEFINE t(release_failed) == observe_assignment_health(Completed(i, release_failed), th[i])
           prevented(release_failed) ==
             th[i].stopped \/ (t(release_failed).pending # {} /\ ~new_dispatch_allowed)
           after(release_failed) ==
             [IF prevented(release_failed) THEN [Denied(t(release_failed)) EXCEPT !.prevented = TRUE]
              ELSE t(release_failed) EXCEPT
                !.queue = <<>>, !.admitting = 0,
                !.pc = IF prevented(release_failed) \/ t(release_failed).outcomes[i] = "aborted"
                       THEN "finished" ELSE "head"]
<1>2. CASE Fault("checkpoint") /\ sched' = Bailed([sched EXCEPT !.active = {}]) /\ UNCHANGED claims
  <2>1. sched' = Bailed([sched EXCEPT !.active = @ \ {i}])
    <3>1. sched.active \ {i} = {}
      BY <1>0
    <3> QED
      BY <1>2, <3>1
  <2> QED
    BY <1>0, <1>2, <2>1, LostKeeps
<1>3. ASSUME NEW release_failed \in BOOLEAN, sched' = after(release_failed),
             \/ release_failed /\ faults' = faults + 1 /\ claims' = claims
             \/ ~release_failed /\ faults' = faults /\ Freed(i)
             \/ ~release_failed /\ faults' = faults /\ ~ReleasePerAssignment /\ claims' = claims
      PROVE  IndInv'
  <2> DEFINE v == Verdict(th[i], release_failed)
             c == Completed(i, release_failed)
             s == t(release_failed)
             stopped == prevented(release_failed)
  <2>1. v \in Outcomes /\ v # "none"
    BY VerdictFacts DEF Outcomes
  <2>2. c = [sched EXCEPT !.active = @ \ {i}, !.outcomes = [@ EXCEPT ![i] = v]]
    BY <1>0 DEF Completed, SchedShape
  <2>3. s = observe_assignment_health(c, th[i])
    OBVIOUS
  <2>4. /\ stopped => sched' = [[Denied(s) EXCEPT !.prevented = TRUE] EXCEPT
                                  !.queue = <<>>, !.admitting = 0, !.pc = "finished"]
        /\ ~stopped => sched' = [s EXCEPT !.queue = <<>>, !.admitting = 0,
                                   !.pc = IF s.outcomes[i] = "aborted" THEN "finished" ELSE "head"]
    BY <1>3
  <2> HIDE DEF v, c, s, stopped
  <2>5. /\ SchedShape(c) /\ c.pending = sched.pending /\ c.active = sched.active \ {i}
        /\ c.outcomes = [sched.outcomes EXCEPT ![i] = v] /\ c.outcomes[i] = v
        /\ c.error = sched.error /\ c.breaker = sched.breaker /\ c.cancelled = sched.cancelled
        /\ c.stop = sched.stop /\ c.denied = sched.denied /\ c.prevented = sched.prevented
    BY <1>0, <2>1, <2>2 DEF SchedShape
  <2>6. /\ SchedShape(s) /\ s.pending = sched.pending /\ s.active = sched.active \ {i}
        /\ s.outcomes = [sched.outcomes EXCEPT ![i] = v] /\ s.outcomes[i] = v
        /\ s.error = sched.error /\ s.cancelled = sched.cancelled
        /\ s.stop = sched.stop /\ s.denied = sched.denied /\ s.prevented = sched.prevented
        /\ sched.breaker.open => s.breaker.open
    <3> DEFINE o == observe_assignment_health(c, th[i])
    <3>1. /\ SchedShape(o) /\ o.pending = c.pending /\ o.active = c.active
          /\ o.outcomes = c.outcomes /\ o.error = c.error /\ o.stop = c.stop
          /\ o.cancelled = c.cancelled /\ o.denied = c.denied /\ o.prevented = c.prevented
          /\ c.breaker.open => o.breaker.open
      BY <2>5, ObserveSettles
    <3> HIDE DEF o
    <3>2. s = o
      BY <2>3 DEF o
    <3> QED
      BY <2>5, <3>1, <3>2
  <2>7. /\ sched'.pc \in {"head", "finished"}
        /\ sched'.queue = <<>>
        /\ sched'.pending = sched.pending /\ sched'.active = sched.active \ {i}
        /\ sched'.outcomes = [sched.outcomes EXCEPT ![i] = v]
        /\ sched'.error = sched.error /\ sched'.cancelled = sched.cancelled
        /\ sched.breaker.open => sched'.breaker.open
        /\ sched'.stop => sched.stop \/ sched.pending \subseteq sched'.denied
        /\ sched.denied \subseteq sched'.denied
        /\ sched'.denied # {} => sched'.prevented
        /\ sched'.pc = "finished" => sched.pending \subseteq sched'.denied \/ v = "aborted"
        /\ SchedShape(sched)'
    <3>0. <<>> \in Seq(Jobs) /\ (sched.denied # {} => sched.prevented)
      BY <1>0 DEF Stops
    <3>1. CASE stopped
      <4>1. sched' = [s EXCEPT !.prevented = TRUE, !.denied = @ \cup s.pending, !.stop = TRUE,
                               !.queue = <<>>, !.admitting = 0, !.pc = "finished"]
        BY <2>4, <2>6, <3>1 DEF Denied, SchedShape
      <4>2. /\ sched'.pc = "finished" /\ sched'.queue = <<>>
            /\ sched'.pending = s.pending /\ sched'.active = s.active
            /\ sched'.outcomes = s.outcomes /\ sched'.error = s.error
            /\ sched'.cancelled = s.cancelled /\ sched'.breaker = s.breaker
            /\ sched'.denied = s.denied \cup s.pending /\ sched'.prevented = TRUE
            /\ SchedShape(sched)'
        BY <1>1, <2>6, <3>0, <4>1 DEF SchedShape, EndPcs
      <4> QED
        BY <2>6, <4>2
    <3>2. CASE ~stopped
      <4>1. sched' = [s EXCEPT !.queue = <<>>, !.admitting = 0,
                               !.pc = IF v = "aborted" THEN "finished" ELSE "head"]
        BY <2>4, <2>6, <3>2
      <4>2. /\ sched'.pc = (IF v = "aborted" THEN "finished" ELSE "head") /\ sched'.queue = <<>>
            /\ sched'.pending = s.pending /\ sched'.active = s.active
            /\ sched'.outcomes = s.outcomes /\ sched'.error = s.error
            /\ sched'.cancelled = s.cancelled /\ sched'.breaker = s.breaker
            /\ sched'.denied = s.denied /\ sched'.prevented = s.prevented /\ sched'.stop = s.stop
            /\ SchedShape(sched)'
        BY <1>1, <2>6, <3>0, <4>1 DEF SchedShape, EndPcs, LoopPcs
      <4> QED
        BY <2>6, <3>0, <4>2
    <3> QED
      BY <3>1, <3>2
  <2>8. /\ Resolves /\ sched'.outcomes[i] = v
        /\ \A j \in Jobs : sched.outcomes[j] = "aborted" => sched'.outcomes[j] = "aborted"
    BY <1>0, <1>3, <2>7, CompletionResolves DEF v
  <2>9. sched'.active = {}
    BY <1>0, <2>7
  <2>10. Completions' /\ Control'
    BY <1>0, <1>1, <2>7, <2>9 DEF Completions, Control, LoopPcs, EndPcs
  <2>11. Stops'
    BY <1>0, <1>1, <2>7, <2>8 DEF Stops, EndPcs
  <2>12. Causes'
    <3>1. faults' \in Nat /\ faults' >= faults
      BY <2>8 DEF Resolves
    <3> QED
      BY <1>0, <1>1, <2>7, <3>1 DEF Causes
  <2> QED
    BY <2>8, <2>10, <2>11, <2>12, ResolvesKeeps
<1>4. \/ Fault("checkpoint") /\ sched' = Bailed([sched EXCEPT !.active = {}]) /\ UNCHANGED claims
      \/ /\ sched' = after(FALSE) /\ faults' = faults
         /\ Freed(i) \/ (~ReleasePerAssignment /\ claims' = claims)
      \/ /\ sched' = after(TRUE) /\ faults' = faults + 1 /\ claims' = claims
  BY DEF SerialComplete, Fault
<1> HIDE DEF after
<1> QED
  BY <1>2, <1>3, <1>4

\* The report is written and the retained claims are released.
LEMMA CloseKeeps ==
  ASSUME IndInv, Close
  PROVE  IndInv'
<1>0. /\ Types /\ Authority /\ Placement /\ Control /\ Stops /\ Causes /\ SchedShape(sched)
      /\ sched.pc = "finished" /\ UNCHANGED <<plan, th, budget>> /\ faults \in Nat
      /\ claims \in [Jobs -> SUBSET Paths]
  BY DEF IndInv, Types, Close
<1>1. /\ Jobs' = Jobs /\ Serial' = Serial
      /\ \A j : Job(j)' = Job(j)
      /\ \A j : Ancestors(j)' = Ancestors(j)
  BY <1>0, PlanKept
<1>2. /\ sched'.pc = "closed" /\ sched'.pending = sched.pending /\ sched'.active = sched.active
      /\ sched'.queue = sched.queue /\ sched'.outcomes = sched.outcomes
      /\ sched'.breaker = sched.breaker /\ sched'.cancelled = sched.cancelled
      /\ sched'.denied = sched.denied
      /\ sched'.prevented = sched.prevented /\ sched'.stop = sched.stop
  BY <1>0 DEF Close, SchedShape
<1>3. SchedShape(sched)' /\ sched'.error \in BOOLEAN /\ (sched.error => sched'.error)
      /\ (sched'.success => Succeeded /\ sched'.error = sched.error)
  <2>1. CASE \E clean \in BOOLEAN :
               sched' = [sched EXCEPT !.pc = "closed", !.success = clean /\ Succeeded]
    BY <1>0, <1>1, <2>1 DEF SchedShape, EndPcs
  <2>2. CASE sched' = [sched EXCEPT !.pc = "closed", !.error = TRUE, !.success = FALSE]
    BY <1>0, <1>1, <2>2 DEF SchedShape, EndPcs
  <2> QED
    BY <2>1, <2>2 DEF Close
<1>4. PICK freed \in SUBSET Retained :
        /\ Free(freed) /\ faults' \in Nat /\ faults' >= faults
        /\ freed = Retained \/ sched'.error
  <2>1. CASE Free(Retained) /\ UNCHANGED faults
    BY <1>0, <2>1
  <2>2. ASSUME NEW i \in Retained, Fault("release"), Free(Retained \ {i}),
               sched' = [sched EXCEPT !.pc = "closed", !.error = TRUE, !.success = FALSE]
        PROVE  /\ Free(Retained \ {i}) /\ faults' \in Nat /\ faults' >= faults
               /\ sched'.error
    BY <1>0, <2>2 DEF Fault, SchedShape
  <2> QED
    BY <2>1, <2>2 DEF Close
<1>5. /\ claims' \in [Jobs -> SUBSET Paths]
      /\ \A j \in Jobs : claims'[j] = IF j \in freed THEN {} ELSE claims[j]
  BY <1>0, <1>4 DEF Free
<1>6. \A j \in Jobs : sched.outcomes[j] # "none" => th[j].phase \notin Claimant
  BY <1>0 DEF Placement, Working
<1>7. \A j \in Jobs : claims'[j] # claims[j] =>
        claims'[j] = {} /\ th[j].phase \notin Claimant /\ ~th[j].uncontained
  BY <1>5, <1>6 DEF Retained
<1>8. ASSUME NEW j \in Jobs, claims'[j] # {}, sched.outcomes[j] # "none"
      PROVE  th[j].uncontained \/ sched'.error \/ (faults' > 0 /\ sched.outcomes[j] = "aborted")
  <2>1. claims[j] # {} /\ j \notin freed
    BY <1>5, <1>8
  <2>2. CASE j \in Retained
    BY <1>4, <2>1, <2>2
  <2>3. CASE j \notin Retained
    <3>1. ReleasePerAssignment \/ th[j].uncontained
      BY <1>8, <2>1, <2>3 DEF Retained
    <3> QED
      BY <1>0, <1>4, <1>8, <2>1, <3>1 DEF Authority
  <2> QED
    BY <2>2, <2>3
<1>9. Resolves
  BY <1>0, <1>2, <1>3, <1>4, <1>5, <1>7, <1>8 DEF Resolves
<1>10. Completions' /\ Control'
  BY <1>0, <1>1, <1>2, <1>3 DEF Completions, Control, LoopPcs, EndPcs, Ended
<1>11. Stops'
  <2>1. sched'.success => Succeeded'
    BY <1>1, <1>2, <1>3 DEF Succeeded, Unsuccessful
  <2> QED
    BY <1>0, <1>1, <1>2, <1>3, <2>1 DEF Stops, EndPcs
<1>12. Causes'
  <2>1. Cause => Cause'
    BY <1>2, <1>9, CauseLasts DEF EndPcs
  <2>2. faults > 0 => faults' > 0
    BY <1>0, <1>4
  <2> QED
    BY <1>0, <1>1, <1>2, <2>1, <2>2 DEF Causes
<1> QED
  BY <1>9, <1>10, <1>11, <1>12, ResolvesKeeps

-----------------------------------------------------------------------------
(* The theorems.                                                            *)

\* Every step of the run keeps the invariant.
LEMMA NextKeeps ==
  ASSUME IndInv, Chosen, [Next]_vars
  PROVE  IndInv'
<1>1. CASE SchedulerStep
  BY <1>1, LoopHeadKeeps, AdmitNextKeeps, StartNextKeeps, HandshakeKeeps, DrainKeeps, JoinAllKeeps,
     LeaveKeeps, SerialAdmitKeeps, SerialCompleteKeeps, CloseKeeps DEF SchedulerStep
<1>2. CASE \E i \in Jobs : ThreadStep(i)
  BY <1>2, ThreadStepMoves, ThreadMoveKeeps
<1>3. CASE UNCHANGED <<plan, sched, th, claims, budget, faults>>
  <2>0. /\ Jobs' = Jobs /\ ReleasePerAssignment' = ReleasePerAssignment
        /\ (\A i : Job(i)' = Job(i)) /\ (\A i : Ancestors(i)' = Ancestors(i))
    BY <1>3, PlanKept
  <2>1. Types' /\ Attempts' /\ Reservations'
    BY <1>3, <2>0 DEF IndInv, Types, SchedShape, BudgetRecord, Attempts, Reservations
  <2>3. Authority' /\ Placement' /\ Hierarchy'
    BY <1>3, <2>0 DEF IndInv, Authority, PathsOf, Placement, Verdict, Hierarchy, Unsuccessful
  <2>2. Disjoint' /\ Completions' /\ Control' /\ Stops' /\ Causes'
    BY <1>3 DEF IndInv, Disjoint, Completions, Control, Stops, Succeeded, Causes, Cause, Jobs, Job,
       Ancestors, Unsuccessful, Overlap, PathsOf, Ended, Serial, Ready
  <2> QED
    BY <2>1, <2>2, <2>3 DEF IndInv
<1>4. CASE \E p \in ForeignPaths : ForeignClaim(p) \/ ForeignRelease(p)
  BY <1>3, <1>4 DEF ForeignClaim, ForeignRelease
<1> QED
  BY <1>1, <1>2, <1>3, <1>4 DEF Next, vars

\* No step of the scheduler but AdmitNext ends at the choice of an assignment.
LEMMA OnlyAdmitChooses ==
  ASSUME IndInv, Chosen, [Next]_vars,
         \/ LoopHead \/ StartNext \/ Handshake \/ Drain \/ JoinAll \/ Leave
         \/ SerialAdmit \/ SerialComplete \/ Close
  PROVE  sched'.pc # "starting"
<1>0. "pc" \in DOMAIN sched /\ SchedShape(sched) /\ Control
  BY DEF IndInv, Types, SchedShape
<1>1. CASE LoopHead
  <2> DEFINE s == IF sched.stop THEN sched ELSE suppress_failed_descendants(sched)
             pc == IF s.pending = {} /\ s.active = {} THEN "finished"
                   ELSE IF Serial THEN "serial" ELSE IF sched.stop THEN "drain" ELSE "admit"
  <2>1. sched' = [s EXCEPT !.pc = pc]
    BY <1>1 DEF LoopHead
  <2>2. "pc" \in DOMAIN s
    BY <1>0 DEF suppress_failed_descendants
  <2>3. pc # "starting"
    OBVIOUS
  <2> HIDE DEF s, pc
  <2> QED
    BY <2>1, <2>2, <2>3
<1>2. CASE StartNext
  <2> DEFINE i == sched.admitting
             s == [sched EXCEPT !.pending = @ \ {i}]
             failed == [Cancelled(s) EXCEPT !.outcomes[i] = "aborted", !.stop = TRUE]
  <2>1. "pc" \in DOMAIN s /\ "pc" \in DOMAIN failed
    BY <1>0 DEF Cancelled
  <2>2. \/ sched' = [s EXCEPT !.active = @ \cup {i}, !.admitting = i,
                             !.pc = IF Serial THEN "inline" ELSE "handshake"]
        \/ sched' = [failed EXCEPT !.pc = "drain"]
        \/ sched' = Bailed(failed) \/ sched' = Bailed(s)
    BY <1>2 DEF StartNext, Spawn
  <2> HIDE DEF s, failed
  <2> QED
    BY <2>1, <2>2 DEF Bailed
<1>3. CASE Handshake
  <2>1. \/ sched' = [sched EXCEPT !.pc = "admit", !.admitting = 0]
        \/ sched' = [Cancelled(sched) EXCEPT !.pc = "joining"]
    BY <1>3 DEF Handshake
  <2>2. "pc" \in DOMAIN Cancelled(sched)
    BY <1>0 DEF Cancelled
  <2> QED
    BY <1>0, <2>1, <2>2
<1>4. CASE Drain
  <2>1. CASE sched.active = {}
    BY <1>0, <1>4, <2>1 DEF Drain, Cancelled, Bailed
  <2>2. CASE sched.active # {}
    <3> DEFINE i == Head(sched.queue)
               after(b) == IF Completed(i, b).outcomes[i] = "aborted" THEN AfterAbort(Completed(i, b))
                           ELSE AfterCompletion(Completed(i, b), i)
    <3>1. \/ sched' = Bailed([sched EXCEPT !.active = @ \ {i}])
          \/ \E b \in BOOLEAN : sched' = [after(b) EXCEPT !.queue = Tail(@), !.pc = "head"]
      BY <1>4, <2>2 DEF Drain, DrainOne
    <3>2. \A b : "pc" \in DOMAIN Completed(i, b)
      BY <1>0 DEF Completed
    <3>3. ASSUME NEW s, "pc" \in DOMAIN s
          PROVE  "pc" \in DOMAIN AfterAbort(s) /\ "pc" \in DOMAIN AfterCompletion(s, i)
      <4>1. "pc" \in DOMAIN observe_assignment_health(s, th[i])
        BY <3>3 DEF observe_assignment_health
      <4> QED
        BY <3>3, <4>1 DEF AfterAbort, Cancelled, AfterCompletion, Denied
    <3>4. \A b : "pc" \in DOMAIN after(b)
      BY <3>2, <3>3
    <3> HIDE DEF after
    <3> QED
      BY <1>0, <3>1, <3>4 DEF Bailed
  <2> QED
    BY <2>1, <2>2
<1>5. CASE JoinAll
  BY <1>0, <1>5 DEF JoinAll, Bailed, Completed
<1>6. CASE Leave \/ Close
  BY <1>0, <1>6 DEF Leave, Close
<1>7. CASE SerialAdmit \/ SerialComplete
  <2>1. Serial /\ plan' = plan
    BY <1>0, <1>7 DEF SerialAdmit, SerialComplete, Control
  <2>2. Serial'
    BY <2>1, PlanKept
  <2>3. Control'
    BY NextKeeps DEF IndInv
  <2> QED
    BY <2>2, <2>3 DEF Control, EndPcs
<1> QED
  BY <1>1, <1>2, <1>3, <1>4, <1>5, <1>6, <1>7

\* What may follow the choice of an assignment: its start, or a step of another process.
LEMMA ChosenKept ==
  ASSUME IndInv, Chosen, [Next]_vars
  PROVE  Chosen'
<1> SUFFICES ASSUME sched'.pc = "starting" PROVE Chosen'
  BY DEF Chosen
<1>0. Types /\ SchedShape(sched) /\ Control
  BY DEF IndInv, Types
<1>1. CASE AdmitNext
  <2>1. /\ permits_admission(sched.breaker) /\ Candidates(sched) # {}
        /\ sched' = [sched EXCEPT !.pc = "starting", !.admitting = Min(Candidates(sched))]
        /\ plan' = plan
    BY <1>0, <1>1 DEF AdmitNext, Park, Denied, SchedShape
  <2>2. Candidates(sched) \in SUBSET Nat
    BY <1>0, PlanFacts DEF Candidates, SchedShape
  <2>3. Min(Candidates(sched)) \in Candidates(sched)
    BY <2>1, <2>2, MinIn
  <2>4. /\ sched'.admitting = Min(Candidates(sched)) /\ sched'.pending = sched.pending
        /\ sched'.active = sched.active /\ sched'.outcomes = sched.outcomes
        /\ sched'.breaker = sched.breaker
    BY <1>0, <2>1 DEF SchedShape
  <2>5. (\A j : Job(j)' = Job(j)) /\ \A j, k : Overlap(j, k)' = Overlap(j, k)
    BY <2>1, PlanKept
  <2> QED
    BY <2>1, <2>3, <2>4, <2>5 DEF Chosen, Candidates, Ready, permits_admission
<1>2. CASE \/ LoopHead \/ StartNext \/ Handshake \/ Drain \/ JoinAll \/ Leave
           \/ SerialAdmit \/ SerialComplete \/ Close
  BY <1>2, OnlyAdmitChooses
<1>3. CASE \E i \in Jobs : ThreadStep(i)
  <2>1. PICK i \in Jobs : \E r : ThreadMove(i, r)
    BY <1>3, ThreadStepMoves
  <2>2. /\ plan' = plan /\ sched'.pc = sched.pc /\ sched'.admitting = sched.admitting
        /\ sched'.pending = sched.pending /\ sched'.active = sched.active
        /\ sched'.outcomes = sched.outcomes /\ sched'.breaker = sched.breaker
    BY <1>0, <2>1 DEF ThreadMove, Thread, SchedShape
  <2>3. (\A j : Job(j)' = Job(j)) /\ \A j, k : Overlap(j, k)' = Overlap(j, k)
    BY <2>2, PlanKept
  <2> QED
    BY <2>2, <2>3 DEF Chosen, Ready
<1>4. CASE UNCHANGED <<plan, sched>>
  <2>1. (\A j : Job(j)' = Job(j)) /\ \A j, k : Overlap(j, k)' = Overlap(j, k)
    BY <1>4, PlanKept
  <2> QED
    BY <1>4, <2>1 DEF Chosen, Ready
<1>5. CASE \E p \in ForeignPaths : ForeignClaim(p) \/ ForeignRelease(p)
  BY <1>4, <1>5 DEF ForeignClaim, ForeignRelease
<1> QED
  BY <1>1, <1>2, <1>3, <1>4, <1>5 DEF Next, SchedulerStep, vars

(***************************************************************************)
(* Placement, authority, reservations, hierarchy and the causes of a stop  *)
(* stay consistent in every run of the scheduler loops.                    *)
(***************************************************************************)
THEOREM SchedulerInvariance == Spec => [](IndInv /\ Chosen)
<1>1. Init => IndInv /\ Chosen
  BY InitEstablishes DEF Init, Chosen
<1>2. IndInv /\ Chosen /\ [Next]_vars => (IndInv /\ Chosen)'
  BY NextKeeps, ChosenKept
<1> QED
  BY <1>1, <1>2, PTL DEF Spec

(***************************************************************************)
(* The attempt loop of an assignment always ends by a decision.            *)
(***************************************************************************)
THEOREM SchedulerRetriesAreBounded == Spec => []RetriesAreBounded
<1>1. IndInv => RetriesAreBounded
  BY DEF IndInv, Attempts, AttemptOK, Paid, RetriesAreBounded
<1> QED
  BY <1>1, SchedulerInvariance, PTL

(***************************************************************************)
(* The admission decision never races past a reservation it cannot see.    *)
(***************************************************************************)
THEOREM SchedulerNoInvisibleReservation == Spec => []NoInvisibleReservation
<1>1. ASSUME IndInv, sched.pc = "admit", NEW i \in sched.active,
             th[i].attempt = 1, th[i].role = "child", ~Ended(th[i])
      PROVE  budget.held[i] >= Estimate
  <2>1. th[i].notified /\ i \in Jobs
    BY <1>1, AdmitFacts DEF IndInv, Types, SchedShape
  <2>2. th[i].phase \in Holding
    BY <1>1, <2>1 DEF IndInv, Attempts, AttemptOK, Admitted
  <2> QED
    BY <1>1, <2>1, <2>2 DEF IndInv, Reservations
<1>2. IndInv => NoInvisibleReservation
  BY <1>1 DEF NoInvisibleReservation
<1> QED
  BY <1>2, SchedulerInvariance, PTL

\* A succeeded assignment was started, and its claim is released where its descendants need it.
LEMMA SucceededFrees ==
  ASSUME IndInv, NEW i \in Jobs, sched.outcomes[i] = "succeeded"
  PROVE  /\ th[i].phase # "none" /\ ~th[i].uncontained
         /\ ReleasePerAssignment \/ (sched.pc = "closed" /\ ~sched.error) => claims[i] = {}
<1>1. Verdict(th[i], FALSE) = "succeeded" /\ AttemptOK(th[i])
  BY DEF IndInv, Placement, Attempts
<1>2. th[i].report = "accepted" /\ ~th[i].uncontained
  BY <1>1 DEF Verdict
<1>3. th[i].phase # "none"
  BY <1>1, <1>2 DEF AttemptOK
<1> QED
  BY <1>2, <1>3 DEF IndInv, Authority

\* The assignments above a started one succeeded and hold nothing.
LEMMA AncestorsReleased ==
  ASSUME IndInv, NEW i \in Jobs, th[i].phase # "none", NEW a \in Ancestors(i)
  PROVE  sched.outcomes[a] = "succeeded" /\ claims[a] = {}
<1> DEFINE S == {j \in Jobs : sched.outcomes[j] = "succeeded" /\ claims[j] = {}}
<1>1. ASSUME NEW j \in S \cup {i}, Job(j).parent # 0
      PROVE  Job(j).parent \in S
  <2>1. j \in Jobs /\ th[j].phase # "none"
    BY SucceededFrees
  <2>2. Job(j).parent \in Jobs /\ sched.outcomes[Job(j).parent] = "succeeded"
    BY <1>1, <2>1, PlanFacts DEF IndInv, Hierarchy
  <2>3. ReleasePerAssignment
    BY <1>1, <2>1 DEF ReleasePerAssignment
  <2> QED
    BY <2>2, <2>3, SucceededFrees
<1>2. S \in SUBSET Jobs
  OBVIOUS
<1> HIDE DEF S
<1>3. a \in S
  BY <1>1, <1>2 DEF Ancestors
<1> QED
  BY <1>3 DEF S

(***************************************************************************)
(* Whatever the plan, no two running assignments overlap, and none was     *)
(* started before its ancestors succeeded and gave up their claims.        *)
(***************************************************************************)
THEOREM SchedulerDispatchIsSafe == Spec => []DispatchIsSafe
<1>1. ASSUME IndInv PROVE SchedulerTypeOK
  <2>1. /\ sched.pending \cup sched.active \subseteq Jobs /\ sched.pending \cap sched.active = {}
        /\ sched.outcomes \in [Jobs -> {"none", "failed", "aborted", "succeeded"}]
    BY <1>1 DEF IndInv, Types, SchedShape, Outcomes, Placement
  <2>2. \A i \in Jobs : budget.held[i] \in Nat /\ claims[i] \subseteq Paths
    BY <1>1 DEF IndInv, Types, BudgetRecord
  <2>3. ASSUME NEW i \in budget.granted PROVE i \in Jobs /\ budget.held[i] # 0
    <3>1. i \in Jobs
      BY <1>1 DEF IndInv, Types, BudgetRecord
    <3>2. budget.held[i] >= Estimate
      BY <1>1, <3>1 DEF IndInv, Reservations, Holding
    <3> QED
      BY <2>2, <3>1, <3>2, BudgetConstants
  <2> QED
    BY <2>1, <2>2, <2>3 DEF SchedulerTypeOK
<1>2. IndInv => DispatchIsSafe
  BY <1>1, AncestorsReleased DEF DispatchIsSafe, IndInv, Disjoint
<1> QED
  BY <1>2, SchedulerInvariance, PTL

(***************************************************************************)
(* An uncontained assignment keeps its claim; any other claim that is left *)
(* at the close has an error behind it.                                    *)
(***************************************************************************)
THEOREM SchedulerAuthorityAccounted == Spec => []AuthorityAccounted
<1>1. ASSUME IndInv, NEW i \in Jobs, sched.pc = "closed", claims[i] # {}
      PROVE  th[i].uncontained \/ sched.error \/ (faults > 0 /\ sched.outcomes[i] = "aborted")
  <2>1. CASE sched.outcomes[i] # "none"
    BY <1>1, <2>1 DEF IndInv, Authority
  <2>2. CASE sched.outcomes[i] = "none"
    <3>1. i \notin sched.pending
      BY <1>1 DEF IndInv, Placement, Authority, Claimant, Holding
    <3>2. i \in sched.active => sched.error
      BY <1>1 DEF IndInv, Control
    <3> QED
      BY <1>1, <2>2, <3>1, <3>2 DEF IndInv, Placement
  <2> QED
    BY <2>1, <2>2
<1>2. IndInv => \A i \in Jobs : th[i].uncontained => claims[i] = PathsOf(th[i].scope)
  BY DEF IndInv, Authority
<1>3. IndInv => AuthorityAccounted
  BY <1>1, <1>2 DEF AuthorityAccounted
<1> QED
  BY <1>3, SchedulerInvariance, PTL

(***************************************************************************)
(* The report of a closed run says no more than what happened.             *)
(***************************************************************************)
THEOREM SchedulerReportIsTrue == Spec => []ReportIsTrue
<1> SUFFICES ASSUME IndInv, sched.pc = "closed" PROVE ReportIsTrue
  <2>1. IndInv => ReportIsTrue
    BY DEF ReportIsTrue
  <2> QED
    BY <2>1, SchedulerInvariance, PTL
<1>1. /\ \A i \in sched.active : Ended(th[i])
      /\ sched.active = {} \/ sched.error
      /\ \/ sched.pending \subseteq sched.denied \/ sched.cancelled \/ sched.error
         \/ sched.breaker.open \/ \E i \in Jobs : sched.outcomes[i] = "aborted"
  BY DEF IndInv, Control, Stops
<1>2. ASSUME sched.success, NEW i \in Jobs
      PROVE  sched.outcomes[i] = "succeeded" /\ claims[i] = {} /\ budget.held[i] = 0
  <2>1. /\ ~sched.error /\ ~sched.prevented /\ ~sched.breaker.open
        /\ \A j \in Jobs : sched.outcomes[j] \notin Unsuccessful
    BY <1>2 DEF IndInv, Stops, Succeeded
  <2>2. sched.denied = {} /\ ~sched.cancelled
    BY <2>1 DEF IndInv, Stops, Unsuccessful
  <2>3. sched.pending = {} /\ sched.active = {}
    BY <1>1, <2>1, <2>2 DEF Unsuccessful
  <2>4. sched.outcomes[i] # "none" /\ sched.outcomes[i] \in Outcomes
    BY <2>1, <2>3 DEF IndInv, Placement, Types, SchedShape
  <2>5. sched.outcomes[i] = "succeeded"
    BY <2>1, <2>4 DEF Outcomes, Unsuccessful
  <2>6. th[i].phase \notin Holding
    BY <2>3 DEF IndInv, Placement, Working, Claimant
  <2> QED
    BY <2>1, <2>5, <2>6, SucceededFrees DEF IndInv, Reservations
<1>3. ASSUME NEW i \in Jobs
      PROVE  /\ th[i].phase \in {"none", "ended", "dead"}
             /\ (th[i].phase = "none" /\ sched.outcomes[i] = "failed") =>
                  Job(i).parked \/ \E a \in Ancestors(i) : sched.outcomes[a] \in Unsuccessful
  <2>1. th[i].phase \in Phases
    BY DEF IndInv, Types, ThreadRecord
  <2>2. th[i].phase \notin Working
    BY <1>1 DEF IndInv, Placement, Ended, Working, Claimant, Holding
  <2> QED
    BY <2>1, <2>2 DEF IndInv, Hierarchy, Phases
<1>4. ASSUME NEW i \in Jobs, sched.outcomes[i] = "none"
      PROVE  \/ sched.cancelled \/ sched.error \/ sched.breaker.open \/ i \in sched.denied
             \/ \E j \in Jobs : sched.outcomes[j] = "aborted"
  <2>1. i \in sched.pending \cup sched.active \/ sched.error
    BY <1>4 DEF IndInv, Placement
  <2> QED
    BY <1>1, <2>1
<1> QED
  BY <1>2, <1>3, <1>4 DEF ReportIsTrue

(***************************************************************************)
(* Running assignments are cancelled for a fault, an uncontained turn, a   *)
(* parked ancestor, or an assignment that ended with an error of its own:  *)
(* a second gate denial, or an invocation that a stopped budget refused    *)
(* after its reservation.  A refused reservation, a rejected report and an *)
(* open breaker are not among the causes.                                  *)
(***************************************************************************)
THEOREM SchedulerCancelledForCause == Spec => []CancelledForCause
<1>1. IndInv => CancelledForCause
  BY DEF IndInv, Causes, Cause, CancelledForCause
<1> QED
  BY <1>1, SchedulerInvariance, PTL

\* An assignment is started only when it was chosen, or by a serial loop that nothing stopped.
LEMMA StartsUnstopped ==
  ASSUME IndInv, Chosen, Next, NEW i \in Jobs, th[i].phase = "none", th'[i].phase # "none"
  PROVE  /\ ~sched.cancelled /\ ~sched.breaker.open
         /\ budget.force_stop => sched.pc = "starting" /\ sched.admitting = i
<1>1. CASE \E j \in Jobs : ThreadStep(j)
  <2>1. PICK j \in Jobs : \E r : ThreadMove(j, r)
    BY <1>1, ThreadStepMoves
  <2>2. th[j].phase # "none" /\ \A k \in Jobs \ {j} : th'[k] = th[k]
    BY <2>1 DEF ThreadMove, Thread, Working, Claimant, Holding, IndInv, Types
  <2> QED
    BY <2>2
<1>2. CASE StartNext
  <2>1. sched.pc = "starting" /\ ~sched.breaker.open /\ ~sched.cancelled
    BY <1>2, AdmitFacts DEF StartNext, Chosen
  <2>2. \A j \in Jobs \ {sched.admitting} : th'[j] = th[j]
    BY <1>2 DEF StartNext, Spawn, IndInv, Types
  <2> QED
    BY <2>1, <2>2
<1>3. CASE SerialAdmit
  BY <1>3, SerialFacts DEF SerialAdmit, permits_admission, new_dispatch_allowed
<1>4. CASE \/ LoopHead \/ AdmitNext \/ Handshake \/ Drain \/ JoinAll \/ Leave
           \/ SerialComplete \/ Close
  BY <1>4 DEF LoopHead, AdmitNext, Park, Handshake, Drain, JoinAll, Leave, SerialComplete, Close
<1>5. CASE \E p \in ForeignPaths : ForeignClaim(p) \/ ForeignRelease(p)
  BY <1>5 DEF ForeignClaim, ForeignRelease
<1> QED
  BY <1>1, <1>2, <1>3, <1>4, <1>5 DEF Next, SchedulerStep

\* A stopped budget gives nobody a reservation.
LEMMA NothingReserved ==
  ASSUME IndInv, Next, budget.force_stop, NEW i \in Jobs, budget.held[i] = 0
  PROVE  budget'.held[i] = 0
<1>1. ASSUME NEW j \in Jobs, ThreadStep(j)
      PROVE  budget'.held[i] = 0
  <2>1. PICK r : ThreadMove(j, r)
    BY <1>1, ThreadStepMoves
  <2>2. CASE i # j
    BY <2>1, <2>2 DEF ThreadMove
  <2>3. CASE i = j
    <3>1. Types
      BY DEF IndInv
    <3>2. CASE Reserve(i) \/ Wake(i)
      BY <3>2 DEF Reserve, Wake, reserve_locked, new_dispatch_allowed
    <3>3. CASE Launch(i) \/ (ThreadError(i) /\ th[i].phase # "running")
      BY <3>1, <3>3, UnreservedFrees DEF Launch, ThreadError
    <3>4. CASE EndTurn(i)
      BY <3>1, <3>4, SettleFrees DEF EndTurn
    <3>5. CASE ThreadError(i) /\ th[i].phase = "running"
      BY <3>5, BudgetConstants DEF IndInv, Types, BudgetRecord, Reservations, Holding
    <3>6. CASE PreparedFailed(i) \/ Claim(i) \/ ClaimConflict(i) \/ Narrow(i) \/ Prepare(i) \/ ThreadDies(i)
      BY <3>6 DEF PreparedFailed, Claim, ClaimConflict, Narrow, Prepare, ThreadDies
    <3> QED
      BY <1>1, <2>3, <3>2, <3>3, <3>4, <3>5, <3>6 DEF ThreadStep
  <2> QED
    BY <2>2, <2>3
<1>2. CASE SchedulerStep
  BY <1>2 DEF SchedulerStep, LoopHead, AdmitNext, StartNext, Handshake, Drain, JoinAll, Leave,
     SerialAdmit, SerialComplete, Close
<1>3. CASE \E p \in ForeignPaths : ForeignClaim(p) \/ ForeignRelease(p)
  BY <1>3 DEF ForeignClaim, ForeignRelease
<1> QED
  BY <1>1, <1>2, <1>3 DEF Next

\* A stopped budget lets no assignment be chosen.
LEMMA NothingChosen ==
  ASSUME IndInv, Chosen, Next, budget.force_stop, sched'.pc = "starting"
  PROVE  sched.pc = "starting"
<1>0. "pc" \in DOMAIN sched
  BY DEF IndInv, Types, SchedShape
<1>1. CASE \E j \in Jobs : ThreadStep(j)
  BY <1>0, <1>1, ThreadStepMoves DEF ThreadMove, Thread
<1>2. CASE AdmitNext
  BY <1>0, <1>2 DEF AdmitNext, new_dispatch_allowed, Denied
<1>3. CASE \E p \in ForeignPaths : ForeignClaim(p) \/ ForeignRelease(p)
  BY <1>3 DEF ForeignClaim, ForeignRelease
<1> QED
  BY <1>1, <1>2, <1>3, OnlyAdmitChooses DEF Next, SchedulerStep

(***************************************************************************)
(* A cancelled run or an open breaker starts no assignment any more.  A    *)
(* stopped budget lets none be chosen and gives none a reservation; at     *)
(* most the assignment that was chosen before the stop is still started.   *)
(***************************************************************************)
THEOREM SchedulerNothingAfterStop == Spec => NothingAfterStop
<1> DEFINE A == /\ sched.cancelled \/ sched.breaker.open =>
                     \A i \in Jobs : th[i].phase = "none" => th'[i].phase = "none"
                /\ budget.force_stop =>
                     /\ sched'.pc = "starting" => sched.pc = "starting"
                     /\ \A i \in Jobs :
                          /\ budget.held[i] = 0 => budget'.held[i] = 0
                          /\ (th[i].phase = "none" /\ th'[i].phase # "none") =>
                               sched.pc = "starting" /\ sched.admitting = i
<1>1. IndInv /\ Chosen /\ Next => A
  BY StartsUnstopped, NothingReserved, NothingChosen
<1>2. IndInv /\ Chosen /\ [Next]_vars => [A]_vars
  BY <1>1
<1> QED
  BY <1>2, SchedulerInvariance, PTL DEF Spec, NothingAfterStop
=============================================================================
