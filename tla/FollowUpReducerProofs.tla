------------------------ MODULE FollowUpReducerProofs ------------------------
(***************************************************************************)
(* The two reducers of the follow-up queue: of a lease, for any number of  *)
(* workers, lease identities, clock values and occurrences, and of a graph,*)
(* for any batch and any definition validate() admits.                     *)
(*                                                                         *)
(* Lease.  What makes the invariant inductive is that the current proof    *)
(* carries the highest generation ever granted (ProofIsNewest), so a new   *)
(* grant equals no earlier one, and that an effect of the current          *)
(* occurrence pins the lease behind the fence (EffectsFence).              *)
(*                                                                         *)
(* Graph.  An edge crossed for a join's result or for the outcome of a     *)
(* task without predecessors stays true (JoinEdgesTrue, RootEdgesTrue):    *)
(* a result is the one its routed branches still give (JoinsDecided), and  *)
(* a routed branch has no attempt left to change its outcome               *)
(* (BranchesSettled).  A termination was reached along such an edge        *)
(* (Arrived).                                                              *)
(***************************************************************************)
EXTENDS LeaseProtocol, FollowUpGraphRun, TLAPS

------------------------------------------------------------------------------
(* The lease.                                                                *)

\* What the reducer accepts, action by action: the guard of the one branch that
\* applies and the record it leads to.
LEMMA ClaimAccepted ==
    ASSUME NEW proof, NEW at, NEW expires,
           lease' \in apply(lease, ClaimedEvent(proof, at, expires))
    PROVE  /\ lease.phase = "Available"
           /\ at > lease.at /\ expires > at
           /\ proof.generation = lease.generation + 1
           /\ lease' = [lease EXCEPT !.phase = "Active", !.proof = proof,
                                     !.generation = proof.generation,
                                     !.at = at, !.expires = expires]
BY DEF apply, ClaimedEvent, apply_claim, Accept

\* A heartbeat moves only the observation and the expiry.
LEMMA HeartbeatAccepted ==
    ASSUME NEW proof, NEW at, NEW expires,
           lease' \in apply(lease, HeartbeatEvent(proof, at, expires))
    PROVE  lease' = [lease EXCEPT !.at = at, !.expires = expires]
BY DEF apply, HeartbeatEvent, apply_heartbeat, Accept

\* A release is the holder's, of an unfenced lease.
LEMMA ReleaseAccepted ==
    ASSUME NEW proof, NEW at,
           lease' \in apply(lease, BoundEvent("Released", proof, at))
    PROVE  /\ lease.phase = "Active"
           /\ proof = lease.proof
           /\ lease' = [lease EXCEPT !.phase = "Available", !.proof = NoProof,
                                     !.at = at, !.expires = 0]
BY DEF apply, BoundEvent, apply_release, Accept, Released

\* A reclaim replaces an expired, unfenced holder by the next generation.
LEMMA ReclaimAccepted ==
    ASSUME NEW at, NEW proof, NEW expires,
           lease' \in apply(lease, ReclaimedEvent(lease.proof, lease.expires, at,
                                                  proof, expires))
    PROVE  /\ lease.phase = "Active"
           /\ at >= lease.expires
           /\ proof.generation = lease.proof.generation + 1
           /\ lease' = [lease EXCEPT !.proof = proof, !.generation = proof.generation,
                                     !.at = at, !.expires = expires,
                                     !.last_reclaim = [predecessor |-> lease.proof,
                                                       expired |-> lease.expires,
                                                       at |-> at, successor |-> proof]]
BY DEF apply, ReclaimedEvent, apply_reclaim, Accept

\* An effect starts under the holder's proof and fences the lease.
LEMMA EffectStartAccepted ==
    ASSUME NEW proof, NEW at,
           lease' \in apply(lease, BoundEvent("EffectStarted", proof, at))
    PROVE  /\ lease.phase = "Active"
           /\ proof = lease.proof
           /\ lease' = [lease EXCEPT !.phase = "EffectFenced", !.at = at]
BY DEF apply, BoundEvent, apply_effect_start, Accept

\* An acknowledgement follows the fence.
LEMMA AcknowledgeAccepted ==
    ASSUME NEW proof, NEW at,
           lease' \in apply(lease, BoundEvent("Acknowledged", proof, at))
    PROVE  /\ lease.phase = "EffectFenced"
           /\ lease' = [lease EXCEPT !.phase = "Acknowledged", !.at = at]
BY DEF apply, BoundEvent, apply_acknowledgement, Accept

\* The invariant holds before the first claim.
LEMMA LeaseInvInit == Init => LeaseInv
BY LeaseAssumption
DEF Init, initial, LeaseInv, LeaseTypeOK, Proofs, Lineages, ProofIsNewest,
    GenerationsNameOneGrant, RetiredStaysRetired, EffectsFence, OneEffectPerOccurrence,
    LineageExplainsTakeover

\* What the caller can name: positive generations and times.
LEMMA NamedValues ==
    ASSUME NEW w \in Workers, NEW id \in LeaseIds, NEW gen \in Generations
    PROVE  /\ gen \in Nat
           /\ LeaseProof(w, id, gen) \in Proofs
           /\ LeaseProof(w, id, gen).generation = gen
           /\ LeaseProof(w, id, gen) # NoProof
BY LeaseAssumption DEF Generations, LeaseProof, Proofs

\* The next generation equals none before it.
LEMMA NextGenerationIsNew ==
    ASSUME LeaseTypeOK, ProofIsNewest, NEW proof \in Proofs,
           proof.generation = lease.generation + 1
    PROVE  proof \notin granted /\ \A p \in granted : p.generation < proof.generation
BY DEF ProofIsNewest, LeaseTypeOK, Proofs

\* A claim's generation is new, so its proof equals no earlier one.
LEMMA ClaimKeeps == LeaseInv /\ Claim => LeaseInv'
<1> SUFFICES ASSUME LeaseInv,
                    NEW proof \in Proofs, proof # NoProof,
                    NEW at \in Times, NEW expires \in Times,
                    lease' \in apply(lease, ClaimedEvent(proof, at, expires)),
                    granted' = granted \cup {proof},
                    UNCHANGED <<occurrence, retired, effects>>
             PROVE  LeaseInv'
  BY NamedValues DEF Claim
<1> USE DEF LeaseInv
<1>1. at \in Nat /\ expires \in Nat /\ proof.generation \in Nat /\ lease.generation \in Nat
  BY LeaseAssumption DEF Proofs, LeaseTypeOK
<1>2. /\ lease.phase = "Available" /\ proof.generation = lease.generation + 1
      /\ lease' = [lease EXCEPT !.phase = "Active", !.proof = proof,
                                !.generation = proof.generation,
                                !.at = at, !.expires = expires]
  BY ClaimAccepted
<1>3. /\ lease'.phase = "Active" /\ lease'.proof = proof
      /\ lease'.generation = proof.generation
      /\ lease'.last_reclaim = lease.last_reclaim
  BY <1>2 DEF LeaseTypeOK
<1>4. LeaseTypeOK'
  BY <1>1, <1>2 DEF LeaseTypeOK
<1>5. proof \notin granted /\ \A p \in granted : p.generation < proof.generation
  BY <1>2, NextGenerationIsNew
<1>6. \A p \in granted : p.generation \in Nat
  BY DEF LeaseTypeOK, Proofs
<1>7. ProofIsNewest'
  BY <1>1, <1>3, <1>5, <1>6 DEF ProofIsNewest
<1>8. GenerationsNameOneGrant'
  BY <1>1, <1>5, <1>6 DEF GenerationsNameOneGrant
<1>9. RetiredStaysRetired'
  BY <1>3, <1>5 DEF RetiredStaysRetired, LeaseTypeOK
<1>10. EffectsFence' /\ OneEffectPerOccurrence'
  BY <1>2, <1>3 DEF EffectsFence, OneEffectPerOccurrence
<1>11. LineageExplainsTakeover'
  <2> SUFFICES ASSUME lease.last_reclaim # NoReclaim
               PROVE  lease.last_reclaim.successor.generation <= proof.generation
    BY <1>3 DEF LineageExplainsTakeover
  <2>1. lease.last_reclaim.successor.generation \in Nat
    BY DEF LeaseTypeOK, Lineages, Proofs
  <2> QED BY <2>1, <1>1, <1>2 DEF LineageExplainsTakeover
<1> QED BY <1>4, <1>7, <1>8, <1>9, <1>10, <1>11

\* A heartbeat touches neither proof nor phase.
LEMMA HeartbeatKeeps == LeaseInv /\ Heartbeat => LeaseInv'
<1> SUFFICES ASSUME LeaseInv,
                    NEW proof \in granted, NEW at \in Times, NEW expires \in Times,
                    lease' \in apply(lease, HeartbeatEvent(proof, at, expires)),
                    UNCHANGED <<occurrence, granted, retired, effects>>
             PROVE  LeaseInv'
  BY DEF Heartbeat
<1> USE DEF LeaseInv
<1>1. at \in Nat /\ expires \in Nat
  BY LeaseAssumption
<1>2. lease' = [lease EXCEPT !.at = at, !.expires = expires]
  BY HeartbeatAccepted
<1>3. /\ lease'.phase = lease.phase /\ lease'.proof = lease.proof
      /\ lease'.generation = lease.generation /\ lease'.last_reclaim = lease.last_reclaim
  BY <1>2 DEF LeaseTypeOK
<1>4. LeaseTypeOK'
  BY <1>1, <1>2 DEF LeaseTypeOK
<1> QED BY <1>3, <1>4 DEF ProofIsNewest, GenerationsNameOneGrant, RetiredStaysRetired,
                          EffectsFence, OneEffectPerOccurrence, LineageExplainsTakeover

\* Released, the proof is retired and nothing is current.
LEMMA ReleaseKeeps == LeaseInv /\ Release => LeaseInv'
<1> SUFFICES ASSUME LeaseInv,
                    NEW proof \in granted, NEW at \in Times,
                    lease' \in apply(lease, BoundEvent("Released", proof, at)),
                    retired' = retired \cup {proof},
                    UNCHANGED <<occurrence, granted, effects>>
             PROVE  LeaseInv'
  BY DEF Release
<1> USE DEF LeaseInv
<1>1. at \in Nat
  BY LeaseAssumption
<1>2. /\ lease.phase = "Active" /\ proof = lease.proof
      /\ lease' = [lease EXCEPT !.phase = "Available", !.proof = NoProof,
                                !.at = at, !.expires = 0]
  BY ReleaseAccepted
<1>3. /\ lease'.phase = "Available" /\ lease'.proof = NoProof
      /\ lease'.generation = lease.generation /\ lease'.last_reclaim = lease.last_reclaim
  BY <1>2 DEF LeaseTypeOK
<1>4. LeaseTypeOK'
  BY <1>1, <1>2 DEF LeaseTypeOK
<1>5. NoProof \notin granted
  BY LeaseAssumption DEF LeaseTypeOK, Proofs
<1>6. ProofIsNewest' /\ GenerationsNameOneGrant'
  BY <1>3 DEF ProofIsNewest, GenerationsNameOneGrant
<1>7. RetiredStaysRetired'
  BY <1>3, <1>4, <1>5 DEF RetiredStaysRetired, LeaseTypeOK
<1>8. EffectsFence' /\ OneEffectPerOccurrence'
  BY <1>2, <1>3 DEF EffectsFence, OneEffectPerOccurrence
<1>9. LineageExplainsTakeover'
  BY <1>3 DEF LineageExplainsTakeover
<1> QED BY <1>4, <1>6, <1>7, <1>8, <1>9

\* A takeover: the predecessor started no effect, for an effect of this occurrence
\* would have fenced the lease and one of an earlier occurrence is retired.
LEMMA ReclaimKeeps == LeaseInv /\ Reclaim => LeaseInv'
<1> SUFFICES ASSUME LeaseInv,
                    NEW proof \in Proofs, proof # NoProof,
                    NEW at \in Times, NEW expires \in Times,
                    lease' \in apply(lease, ReclaimedEvent(lease.proof, lease.expires, at,
                                                           proof, expires)),
                    granted' = granted \cup {proof},
                    retired' = retired \cup {lease.proof},
                    UNCHANGED <<occurrence, effects>>
             PROVE  LeaseInv'
  BY NamedValues DEF Reclaim
<1> USE DEF LeaseInv
<1> DEFINE lineage == [predecessor |-> lease.proof, expired |-> lease.expires,
                       at |-> at, successor |-> proof]
<1>1. at \in Nat /\ expires \in Nat /\ proof.generation \in Nat /\ lease.generation \in Nat
  BY LeaseAssumption DEF Proofs, LeaseTypeOK
<1>2. /\ lease.phase = "Active" /\ at >= lease.expires
      /\ proof.generation = lease.proof.generation + 1
      /\ lease' = [lease EXCEPT !.proof = proof, !.generation = proof.generation,
                                !.at = at, !.expires = expires,
                                !.last_reclaim = lineage]
  BY ReclaimAccepted
<1>3. /\ lease.proof \in granted /\ lease.proof \in Proofs /\ lease.proof # NoProof
      /\ lease.proof.generation = lease.generation
  BY <1>2 DEF LeaseTypeOK, ProofIsNewest
<1>4. /\ lineage \in Lineages
      /\ lineage.predecessor = lease.proof /\ lineage.expired = lease.expires
      /\ lineage.at = at /\ lineage.successor = proof
  BY <1>1, <1>3 DEF Lineages, LeaseTypeOK
<1> HIDE DEF lineage
<1>5. /\ lease'.phase = "Active" /\ lease'.proof = proof
      /\ lease'.generation = proof.generation /\ lease'.last_reclaim = lineage
  BY <1>2 DEF LeaseTypeOK
<1>6. LeaseTypeOK'
  BY <1>1, <1>2, <1>3, <1>4 DEF LeaseTypeOK
<1>7. proof \notin granted /\ \A p \in granted : p.generation < proof.generation
  BY <1>2, <1>3, NextGenerationIsNew
<1>8. \A p \in granted : p.generation \in Nat
  BY DEF LeaseTypeOK, Proofs
<1>9. ProofIsNewest'
  BY <1>1, <1>5, <1>7, <1>8 DEF ProofIsNewest
<1>10. GenerationsNameOneGrant'
  BY <1>1, <1>7, <1>8 DEF GenerationsNameOneGrant
<1>11. RetiredStaysRetired'
  BY <1>3, <1>5, <1>7 DEF RetiredStaysRetired, LeaseTypeOK
<1>12. \A x \in effects : x[1] \in Nat /\ x[1] < occurrence /\ x[2] \in retired
  BY <1>2 DEF EffectsFence, LeaseTypeOK
<1>13. EffectsFence' /\ OneEffectPerOccurrence'
  BY <1>12 DEF EffectsFence, OneEffectPerOccurrence, LeaseTypeOK
<1>14. \A x \in effects : x[2] # lease.proof
  BY <1>12 DEF RetiredStaysRetired
<1>15. LineageExplainsTakeover'
  BY <1>1, <1>2, <1>4, <1>5, <1>14 DEF LineageExplainsTakeover
<1> QED BY <1>6, <1>9, <1>10, <1>11, <1>13, <1>15

\* The fence: no earlier effect of this occurrence exists.
LEMMA EffectStartKeeps == LeaseInv /\ EffectStart => LeaseInv'
<1> SUFFICES ASSUME LeaseInv,
                    NEW proof \in granted, NEW at \in Times,
                    lease' \in apply(lease, BoundEvent("EffectStarted", proof, at)),
                    effects' = effects \cup {<<occurrence, proof>>},
                    UNCHANGED <<occurrence, granted, retired>>
             PROVE  LeaseInv'
  BY DEF EffectStart
<1> USE DEF LeaseInv
<1>1. at \in Nat
  BY LeaseAssumption
<1>2. /\ lease.phase = "Active" /\ proof = lease.proof
      /\ lease' = [lease EXCEPT !.phase = "EffectFenced", !.at = at]
  BY EffectStartAccepted
<1>3. /\ lease'.phase = "EffectFenced" /\ lease'.proof = lease.proof
      /\ lease'.generation = lease.generation /\ lease'.last_reclaim = lease.last_reclaim
  BY <1>2 DEF LeaseTypeOK
<1>4. LeaseTypeOK'
  <2>1. <<occurrence, proof>> \in (1..Occurrences) \X granted
    BY DEF LeaseTypeOK
  <2> QED BY <1>1, <1>2, <2>1 DEF LeaseTypeOK
<1>5. ProofIsNewest' /\ GenerationsNameOneGrant' /\ RetiredStaysRetired'
  BY <1>3 DEF ProofIsNewest, GenerationsNameOneGrant, RetiredStaysRetired
<1>6. occurrence \in Nat
  BY DEF LeaseTypeOK
<1>7. \A x \in effects : x[1] # occurrence
  BY <1>2 DEF EffectsFence
<1>8. EffectsFence' /\ OneEffectPerOccurrence'
  BY <1>2, <1>3, <1>6, <1>7 DEF EffectsFence, OneEffectPerOccurrence
<1>9. LineageExplainsTakeover'
  BY <1>2, <1>3 DEF LineageExplainsTakeover, RetiredStaysRetired
<1> QED BY <1>4, <1>5, <1>8, <1>9

\* An acknowledgement stays behind the fence.
LEMMA AcknowledgeKeeps == LeaseInv /\ Acknowledge => LeaseInv'
<1> SUFFICES ASSUME LeaseInv,
                    NEW proof \in granted, NEW at \in Times,
                    lease' \in apply(lease, BoundEvent("Acknowledged", proof, at)),
                    UNCHANGED <<occurrence, granted, retired, effects>>
             PROVE  LeaseInv'
  BY DEF Acknowledge
<1> USE DEF LeaseInv
<1>1. at \in Nat
  BY LeaseAssumption
<1>2. /\ lease.phase = "EffectFenced"
      /\ lease' = [lease EXCEPT !.phase = "Acknowledged", !.at = at]
  BY AcknowledgeAccepted
<1>3. /\ lease'.phase = "Acknowledged" /\ lease'.proof = lease.proof
      /\ lease'.generation = lease.generation /\ lease'.last_reclaim = lease.last_reclaim
  BY <1>2 DEF LeaseTypeOK
<1>4. LeaseTypeOK'
  BY <1>1, <1>2 DEF LeaseTypeOK
<1> QED BY <1>3, <1>4 DEF ProofIsNewest, GenerationsNameOneGrant, RetiredStaysRetired,
                          EffectsFence, OneEffectPerOccurrence, LineageExplainsTakeover

\* The next visit: the acknowledged proof is archived with its effect.
LEMMA NextOccurrenceKeeps == LeaseInv /\ NextOccurrence => LeaseInv'
<1> SUFFICES ASSUME LeaseInv, NextOccurrence
             PROVE  LeaseInv'
  OBVIOUS
<1> USE DEF LeaseInv
<1>1. /\ lease.phase = "Acknowledged"
      /\ lease' = [lease EXCEPT !.phase = "Available", !.proof = NoProof,
                                !.at = lease.at, !.expires = 0]
      /\ occurrence < Occurrences /\ occurrence' = occurrence + 1
      /\ retired' = retired \cup {lease.proof}
      /\ UNCHANGED <<granted, effects>>
  BY DEF NextOccurrence, for_next_occurrence, Accept, Released
<1>2. /\ lease'.phase = "Available" /\ lease'.proof = NoProof
      /\ lease'.generation = lease.generation /\ lease'.last_reclaim = lease.last_reclaim
  BY <1>1 DEF LeaseTypeOK
<1>3. lease.proof \in granted /\ NoProof \notin granted
  BY <1>1, LeaseAssumption DEF LeaseTypeOK, ProofIsNewest, Proofs
<1>4. occurrence' \in 1..Occurrences
  BY <1>1, LeaseAssumption DEF LeaseTypeOK
<1>5. LeaseTypeOK'
  BY <1>1, <1>3, <1>4 DEF LeaseTypeOK
<1>6. ProofIsNewest' /\ GenerationsNameOneGrant'
  BY <1>1, <1>2 DEF ProofIsNewest, GenerationsNameOneGrant
<1>7. RetiredStaysRetired'
  BY <1>1, <1>2, <1>3 DEF RetiredStaysRetired, LeaseTypeOK
<1>8. \A x \in effects : x[1] \in Nat /\ occurrence \in Nat
  BY DEF LeaseTypeOK
<1>9. EffectsFence' /\ OneEffectPerOccurrence'
  BY <1>1, <1>8 DEF EffectsFence, OneEffectPerOccurrence
<1>10. LineageExplainsTakeover'
  BY <1>1, <1>2 DEF LineageExplainsTakeover
<1> QED BY <1>5, <1>6, <1>7, <1>9, <1>10

\* The reducer keeps everything a lease record claims about grants, retirements, effects
\* and takeovers true, whatever events callers present in whatever order.
THEOREM LeaseInvariance == Spec => []LeaseInv
<1>1. LeaseInv /\ [Next]_vars => LeaseInv'
  <2>1. LeaseInv /\ UNCHANGED vars => LeaseInv'
    BY DEF vars, LeaseInv, LeaseTypeOK, ProofIsNewest, GenerationsNameOneGrant,
           RetiredStaysRetired, EffectsFence, OneEffectPerOccurrence,
           LineageExplainsTakeover
  <2> QED BY <2>1, ClaimKeeps, HeartbeatKeeps, ReleaseKeeps, ReclaimKeeps, EffectStartKeeps,
             AcknowledgeKeeps, NextOccurrenceKeeps DEF Next
<1> QED BY <1>1, LeaseInvInit, PTL DEF Spec

\* The reducer keeps the lease and the workers' memories well typed, whatever
\* events callers present.
THEOREM LeaseTypes == Spec => []LeaseTypeOK
BY LeaseInvariance, PTL DEF LeaseInv

\* The effect fence of lease.rs: one effect for each occurrence of an item, for
\* any number of workers that crash, pause and come back with old proofs.
THEOREM EffectFence == Spec => []OneEffectPerOccurrence
BY LeaseInvariance, PTL DEF LeaseInv

\* A released, reclaimed or archived proof is never current again.
THEOREM RetirementIsFinal == Spec => []RetiredStaysRetired
BY LeaseInvariance, PTL DEF LeaseInv

\* Generations are unique across claims, reclaims and occurrences.
THEOREM GenerationsAreUnique == Spec => []GenerationsNameOneGrant
BY LeaseInvariance, PTL DEF LeaseInv

\* A retained reclaim lineage names an expired holder that started no effect.
THEOREM TakeoversAreExplained == Spec => []LineageExplainsTakeover
BY LeaseInvariance, PTL DEF LeaseInv

------------------------------------------------------------------------------
(* The states of a graph and the inductive invariant.                        *)

Attempt == [visit : Nat, attempt : Nat, outcome : Outcomes \cup {None}]
Branch == [last : Attempt, running : BOOLEAN, retry : BOOLEAN]
Iteration == [done : Nat, decision : {"Continue", "Exit", None}, routed : BOOLEAN]

GraphState(d) ==
    [def : {d}, events : Nat, visits : [Nodes(d) -> Nat], routed : [Nodes(d) -> Nat],
     crossed : [d.edges -> Nat],
     branches : [Of(d, "Task") -> Branch],
     joins : [Of(d, "Join") -> FanInResults \cup {None}],
     loops : [Of(d, "Loop") -> Iteration],
     terminated : Nodes(d) \cup {None}]

\* A branch between its routed and its reached visits.
BranchSettled(b, visits, routed) ==
    /\ routed <= b.last.visit /\ b.last.visit <= visits
    /\ b.running \/ b.retry => routed < visits
    /\ b.running => next_attempt_cursor(b.last).visit = visits
    /\ routed > 0 /\ b.last.visit = routed => b.last.outcome \in {"Success", "Failure"}

BranchesSettled(s) ==
    \A n \in Of(s.def, "Task") : BranchSettled(s.branches[n], s.visits[n], s.routed[n])

\* A routed join has a result, and a result is the one its branches still give.
JoinsDecided(s) ==
    \A j \in Of(s.def, "Join") :
        /\ s.routed[j] > 0 => s.joins[j] # None
        /\ s.joins[j] # None => derive_fan_in_result(s, j) = s.joins[j]

\* A node was reached along an edge, and an edge was crossed for what it says.
Arrived(s) ==
    \A n \in Nodes(s.def) :
        s.visits[n] > 0 => n = s.def.entry \/ \E e \in Incoming(s.def, n) : s.crossed[e] > 0
JoinEdgesTrue(s) ==
    \A e \in s.def.edges :
        s.crossed[e] > 0 /\ e.cond.on = "Join" /\ e.cond.is # None
            => s.joins[e.cond.node] = e.cond.is

\* A node without incoming edges is visited once, so its outcome is final.
RootsOnce(s) ==
    \A n \in Nodes(s.def) : Incoming(s.def, n) = {} => s.visits[n] <= 1
RootEdge(d, e) == e.cond.on = "Outcome" /\ e.cond.is # None /\ e.cond.node = e.from
                    /\ Incoming(d, e.from) = {} /\ e.from \in Of(d, "Task")
RootEdgesTrue(s) ==
    \A e \in s.def.edges :
        s.crossed[e] > 0 /\ RootEdge(s.def, e) =>
            /\ s.routed[e.from] > 0
            /\ s.branches[e.from].last.outcome = e.cond.is

Ended(s) ==
    s.terminated # None =>
        /\ s.terminated \in Of(s.def, "Terminate") /\ s.visits[s.terminated] > 0
        /\ ActiveNodes(s) = {}

GraphSound(s) ==
    /\ \A n \in Nodes(s.def) : s.routed[n] <= s.visits[n]
    /\ BranchesSettled(s) /\ JoinsDecided(s) /\ Arrived(s) /\ JoinEdgesTrue(s)
    /\ RootsOnce(s) /\ RootEdgesTrue(s) /\ Ended(s)

GraphInv == g.def \in AllDefinitions /\ g \in GraphState(g.def) /\ GraphSound(g)

\* None stands for no outcome and no result.
LEMMA NoneIsNoResult ==
  /\ None \notin Outcomes /\ None \notin FanInResults
  /\ None # "Success" /\ None # "Failure" /\ None # "RetryableFailure"
  /\ None # "AllSuccess" /\ None # "PartialSuccess"
BY GraphAssumption DEF Outcomes, FanInResults

\* The fields of a state.
LEMMA GraphFields ==
  ASSUME NEW d, NEW s \in GraphState(d)
  PROVE  /\ s.def = d /\ s.events \in Nat
         /\ s.visits \in [Nodes(d) -> Nat] /\ s.routed \in [Nodes(d) -> Nat]
         /\ s.crossed \in [d.edges -> Nat]
         /\ s.branches \in [Of(d, "Task") -> Branch]
         /\ s.joins \in [Of(d, "Join") -> FanInResults \cup {None}]
         /\ s.loops \in [Of(d, "Loop") -> Iteration]
         /\ s.terminated \in Nodes(d) \cup {None}
BY DEF GraphState

Counted(m, k) == [m EXCEPT !.events = k + 1]

\* An accepted event is counted, its state is valid and the graph was not over.
LEMMA AcceptedEvent ==
  ASSUME NEW s, NEW ev, NEW t \in apply_graph_event(s, ev)
  PROVE  /\ s.terminated = None
         /\ validate_state(t)
         /\ \E m \in apply_initialized_event(s, ev) : t = Counted(m, s.events)
BY DEF apply_graph_event, Candidates, Counted

\* Counting the event changes nothing else.
LEMMA CountedEvent ==
  ASSUME NEW d, NEW m \in GraphState(d), NEW k \in Nat, NEW t, t = Counted(m, k)
  PROVE  /\ t \in GraphState(d)
         /\ t.def = m.def /\ t.visits = m.visits /\ t.routed = m.routed /\ t.crossed = m.crossed
         /\ t.branches = m.branches /\ t.joins = m.joins /\ t.loops = m.loops
         /\ t.terminated = m.terminated
<1>1. k + 1 \in Nat
  OBVIOUS
<1> QED
  BY <1>1 DEF GraphState, Counted

\* What the validation of a candidate state gives.
LEMMA ValidatedState ==
  ASSUME NEW d, NEW t \in GraphState(d), validate_state(t)
  PROVE  /\ \A n \in Nodes(d) : t.routed[n] <= t.visits[n]
         /\ \A n \in Of(d, "Task") :
              LET b == t.branches[n] IN
              /\ t.routed[n] <= b.last.visit /\ b.last.visit <= t.visits[n]
              /\ b.running \/ b.retry =>
                   next_attempt_cursor(b.last).visit = t.visits[n] /\ t.routed[n] < t.visits[n]
         /\ \A j \in Of(d, "Join") : t.joins[j] # None => derive_fan_in_result(t, j) = t.joins[j]
         /\ t.terminated # None => ActiveNodes(t) = {}
<1>1. t.def = d /\ DOMAIN t.branches = Of(d, "Task") /\ DOMAIN t.joins = Of(d, "Join")
  BY GraphFields
<1>2. \A n \in Nodes(d) : t.routed[n] <= t.visits[n]
  BY <1>1 DEF validate_state
<1>3. ASSUME NEW n \in Of(d, "Task")
      PROVE  LET b == t.branches[n] IN
              /\ t.routed[n] <= b.last.visit /\ b.last.visit <= t.visits[n]
              /\ b.running \/ b.retry =>
                   next_attempt_cursor(b.last).visit = t.visits[n] /\ t.routed[n] < t.visits[n]
  <2> DEFINE b == t.branches[n]
  <2>1. /\ t.visits[n] - b.last.visit \in {0, 1} /\ t.routed[n] <= b.last.visit
        /\ b.running \/ b.retry =>
             next_attempt_cursor(b.last).visit = t.visits[n] /\ t.routed[n] < t.visits[n]
    BY <1>1, <1>3 DEF validate_state
  <2>2. b.last.visit \in Nat /\ t.visits[n] \in Nat
    <3>0. t.visits \in [Nodes(d) -> Nat] /\ t.branches \in [Of(d, "Task") -> Branch]
      BY GraphFields
    <3>1. n \in Nodes(d) /\ t.visits \in [Nodes(d) -> Nat] /\ b \in Branch
      BY <3>0 DEF Of
    <3>2. b.last.visit \in Nat
      BY <3>1 DEF Branch, Attempt
    <3> QED
      BY <3>1, <3>2
  <2> QED
    BY <2>1, <2>2
<1> QED
  BY <1>1, <1>2, <1>3 DEF validate_state

-----------------------------------------------------------------------------
(* Events of a branch.                                                      *)

\* The visit that comes next is a later one, or the same one after a failure that may be
\* retried.
LEMMA CursorTyped ==
  ASSUME NEW last \in Attempt
  PROVE  next_attempt_cursor(last) \in [visit : Nat, attempt : Nat]
<1>1. last.visit \in Nat /\ last.attempt \in Nat
  BY DEF Attempt
<1>2. last.visit + 1 \in Nat /\ last.attempt + 1 \in Nat
  BY <1>1
<1> QED
  BY <1>1, <1>2 DEF next_attempt_cursor

\* A step that changes one branch, and its last attempt only while it runs.
BranchStep(s, t, i) ==
  /\ t.def = s.def /\ t.visits = s.visits /\ t.routed = s.routed /\ t.crossed = s.crossed
  /\ t.joins = s.joins /\ t.terminated = s.terminated
  /\ \A n \in Of(s.def, "Task") \ {i} : t.branches[n] = s.branches[n]
  /\ \/ t.branches[i].last = s.branches[i].last
     \/ /\ s.branches[i].running
        /\ t.branches[i].last.visit = next_attempt_cursor(s.branches[i].last).visit

\* Such a step keeps the invariant.
LEMMA BranchStepKeeps ==
  ASSUME NEW d, NEW s \in GraphState(d), GraphSound(s), NEW t \in GraphState(d),
         validate_state(t), NEW i \in Of(d, "Task"), BranchStep(s, t, i), s.terminated = None
  PROVE  GraphSound(t)
<1>1. /\ s.def = d /\ t.def = d
      /\ t.visits = s.visits /\ t.routed = s.routed /\ t.crossed = s.crossed
      /\ t.joins = s.joins /\ t.terminated = None
      /\ \A n \in Of(d, "Task") \ {i} : t.branches[n] = s.branches[n]
  BY GraphFields DEF BranchStep
<1>2. /\ \A n \in Nodes(d) : s.visits[n] \in Nat /\ s.routed[n] \in Nat
      /\ i \in Nodes(d)
  <2>1. s.visits \in [Nodes(d) -> Nat] /\ s.routed \in [Nodes(d) -> Nat]
    BY GraphFields
  <2> QED
    BY <2>1 DEF Of
<1>3. /\ \A n \in Nodes(d) : t.routed[n] <= t.visits[n]
      /\ \A j \in Of(d, "Join") : t.joins[j] # None => derive_fan_in_result(t, j) = t.joins[j]
  BY ValidatedState
<1>4. BranchSettled(s.branches[i], s.visits[i], s.routed[i])
  BY <1>1 DEF GraphSound, BranchesSettled
<1>5. ASSUME NEW n \in Of(d, "Task")
      PROVE  BranchSettled(t.branches[n], t.visits[n], t.routed[n])
  <2>1. CASE n # i
    BY <1>1, <2>1 DEF GraphSound, BranchesSettled
  <2>2. CASE n = i
    <3> DEFINE b == t.branches[i]
    <3>1. /\ t.routed[i] <= b.last.visit /\ b.last.visit <= t.visits[i]
          /\ b.running \/ b.retry =>
               next_attempt_cursor(b.last).visit = t.visits[i] /\ t.routed[i] < t.visits[i]
      BY ValidatedState
    <3>2. t.routed[i] > 0 /\ b.last.visit = t.routed[i] => b.last.outcome \in {"Success", "Failure"}
      <4>1. CASE b.last = s.branches[i].last
        BY <1>1, <1>4, <4>1 DEF BranchSettled
      <4>2. CASE /\ s.branches[i].running
                 /\ b.last.visit = next_attempt_cursor(s.branches[i].last).visit
        <5>1. b.last.visit = s.visits[i] /\ s.routed[i] < s.visits[i]
          BY <1>4, <4>2 DEF BranchSettled
        <5> QED
          BY <1>1, <1>2, <5>1
      <4> QED
        BY <4>1, <4>2 DEF BranchStep
    <3> QED
      BY <2>2, <3>1, <3>2 DEF BranchSettled
  <2> QED
    BY <2>1, <2>2
<1>6. JoinsDecided(t)
  BY <1>1, <1>3 DEF GraphSound, JoinsDecided
<1>7. Arrived(t) /\ JoinEdgesTrue(t) /\ RootsOnce(t)
  BY <1>1 DEF GraphSound, Arrived, JoinEdgesTrue, RootsOnce
<1>8. RootEdgesTrue(t)
  <2> SUFFICES ASSUME NEW e \in d.edges, s.crossed[e] > 0, RootEdge(d, e)
               PROVE  t.routed[e.from] > 0 /\ t.branches[e.from].last.outcome = e.cond.is
    BY <1>1 DEF RootEdgesTrue
  <2>1. /\ s.routed[e.from] > 0 /\ s.branches[e.from].last.outcome = e.cond.is
        /\ e.from \in Of(d, "Task") /\ s.visits[e.from] <= 1
    <3>1. e.from \in Of(d, "Task") /\ e.from \in Nodes(d) /\ Incoming(d, e.from) = {}
      BY DEF RootEdge, Of
    <3> QED
      BY <1>1, <3>1 DEF GraphSound, RootEdgesTrue, RootsOnce
  <2>2. t.branches[e.from].last = s.branches[e.from].last
    <3>1. CASE e.from # i
      BY <1>1, <2>1, <3>1
    <3>2. CASE e.from = i
      <4>1. ~s.branches[i].running
        BY <1>2, <1>4, <2>1, <3>2 DEF BranchSettled
      <4> QED
        BY <3>2, <4>1 DEF BranchStep
    <3> QED
      BY <3>1, <3>2
  <2> QED
    BY <1>1, <2>1, <2>2
<1>9. Ended(t)
  BY <1>1 DEF Ended
<1>10. BranchesSettled(t)
  BY <1>1, <1>5 DEF BranchesSettled
<1> QED
  BY <1>1, <1>3, <1>6, <1>7, <1>8, <1>9, <1>10 DEF GraphSound

WithBranch(s, i, c) == [s EXCEPT !.branches = [s.branches EXCEPT ![i] = c]]

\* A changed branch in a state.
LEMMA BranchChanged ==
  ASSUME NEW d, NEW s \in GraphState(d), NEW i \in Of(d, "Task"), NEW c \in Branch,
         NEW m, m = WithBranch(s, i, c)
  PROVE  /\ m \in GraphState(d)
         /\ m.def = s.def /\ m.visits = s.visits /\ m.routed = s.routed /\ m.crossed = s.crossed
         /\ m.joins = s.joins /\ m.terminated = s.terminated
         /\ m.branches[i] = c
         /\ \A n \in Of(d, "Task") \ {i} : m.branches[n] = s.branches[n]
<1> DEFINE B == [s.branches EXCEPT ![i] = c]
<1>1. s.branches \in [Of(d, "Task") -> Branch]
  BY GraphFields
<1>2. /\ B \in [Of(d, "Task") -> Branch] /\ B[i] = c
      /\ \A n \in Of(d, "Task") \ {i} : B[n] = s.branches[n]
  BY <1>1
<1> HIDE DEF B
<1>3. m = [s EXCEPT !.branches = B]
  BY DEF B, WithBranch
<1>4. /\ m \in GraphState(d)
      /\ m.def = s.def /\ m.visits = s.visits /\ m.routed = s.routed /\ m.crossed = s.crossed
      /\ m.joins = s.joins /\ m.terminated = s.terminated /\ m.branches = B
  BY <1>2, <1>3 DEF GraphState
<1> QED
  BY <1>2, <1>4

\* An event that only changes its branch.
LEMMA BranchEventKeeps ==
  ASSUME NEW d, NEW s \in GraphState(d), GraphSound(s), NEW i \in Of(d, "Task"), NEW c \in Branch,
         NEW m, m = WithBranch(s, i, c),
         NEW t, t = Counted(m, s.events), validate_state(t), s.terminated = None,
         \/ c.last = s.branches[i].last
         \/ /\ s.branches[i].running
            /\ c.last.visit = next_attempt_cursor(s.branches[i].last).visit
  PROVE  t \in GraphState(d) /\ GraphSound(t)
<1>1. s.events \in Nat /\ s.def = d
  BY GraphFields
<1>2. /\ m \in GraphState(d)
      /\ m.def = s.def /\ m.visits = s.visits /\ m.routed = s.routed /\ m.crossed = s.crossed
      /\ m.joins = s.joins /\ m.terminated = s.terminated
      /\ m.branches[i] = c
      /\ \A n \in Of(d, "Task") \ {i} : m.branches[n] = s.branches[n]
  BY BranchChanged
<1>3. /\ t \in GraphState(d)
      /\ t.def = m.def /\ t.visits = m.visits /\ t.routed = m.routed /\ t.crossed = m.crossed
      /\ t.branches = m.branches /\ t.joins = m.joins /\ t.terminated = m.terminated
  BY <1>1, <1>2, CountedEvent
<1>4. BranchStep(s, t, i)
  BY <1>1, <1>2, <1>3 DEF BranchStep
<1> QED
  BY <1>3, <1>4, BranchStepKeeps

\* An attempt starts.
LEMMA StartKeeps ==
  ASSUME NEW d, NEW s \in GraphState(d), GraphSound(s), NEW i \in Of(d, "Task"),
         NEW visit, NEW attempt,
         NEW t \in apply_graph_event(s, AttemptStarted(i, visit, attempt))
  PROVE  t \in GraphState(d) /\ GraphSound(t)
<1> DEFINE ev == AttemptStarted(i, visit, attempt)
           b == s.branches[i]
           c == [[b EXCEPT !.running = TRUE] EXCEPT !.retry = FALSE]
<1>0. s.branches \in [Of(d, "Task") -> Branch] /\ b \in Branch
  <2>1. s.branches \in [Of(d, "Task") -> Branch]
    BY GraphFields
  <2> QED
    BY <2>1
<1>1. s.terminated = None /\ validate_state(t)
  BY AcceptedEvent
<1>2. PICK m \in apply_initialized_event(s, ev) : t = Counted(m, s.events)
  BY AcceptedEvent
<1>3. apply_initialized_event(s, ev) = start_branch_attempt(s, ev) /\ ev.branch = i
  BY DEF apply_initialized_event, AttemptStarted
<1> HIDE DEF ev
<1>4. m = [s EXCEPT !.branches[i].running = TRUE, !.branches[i].retry = FALSE]
  BY <1>2, <1>3 DEF start_branch_attempt, Accepted
<1>5. m = WithBranch(s, i, c)
  <2>1. m = [s EXCEPT !.branches = [s.branches EXCEPT ![i].running = TRUE, ![i].retry = FALSE]]
    BY <1>4 DEF GraphState
  <2>2. [s.branches EXCEPT ![i].running = TRUE, ![i].retry = FALSE] = [s.branches EXCEPT ![i] = c]
    BY <1>0
  <2> QED
    BY <2>1, <2>2 DEF WithBranch
<1>6. c \in Branch /\ c.last = b.last
  BY <1>0 DEF Branch
<1> HIDE DEF c
<1> QED
  BY <1>1, <1>2, <1>5, <1>6, BranchEventKeeps

\* A retry is scheduled.
LEMMA RetryKeeps ==
  ASSUME NEW d, NEW s \in GraphState(d), GraphSound(s), NEW i \in Of(d, "Task"),
         NEW visit, NEW attempt,
         NEW t \in apply_graph_event(s, RetryScheduled(i, visit, attempt))
  PROVE  t \in GraphState(d) /\ GraphSound(t)
<1> DEFINE ev == RetryScheduled(i, visit, attempt)
           b == s.branches[i]
           c == [b EXCEPT !.retry = TRUE]
<1>0. s.branches \in [Of(d, "Task") -> Branch] /\ b \in Branch
  <2>1. s.branches \in [Of(d, "Task") -> Branch]
    BY GraphFields
  <2> QED
    BY <2>1
<1>1. s.terminated = None /\ validate_state(t)
  BY AcceptedEvent
<1>2. PICK m \in apply_initialized_event(s, ev) : t = Counted(m, s.events)
  BY AcceptedEvent
<1>3. apply_initialized_event(s, ev) = schedule_branch_retry(s, ev) /\ ev.branch = i
  BY DEF apply_initialized_event, RetryScheduled
<1> HIDE DEF ev
<1>4. m = [s EXCEPT !.branches[i].retry = TRUE]
  BY <1>2, <1>3 DEF schedule_branch_retry, Accepted
<1>5. m = WithBranch(s, i, c)
  BY <1>0, <1>4 DEF GraphState, WithBranch
<1>6. c \in Branch /\ c.last = b.last
  BY <1>0 DEF Branch
<1> HIDE DEF c
<1> QED
  BY <1>1, <1>2, <1>5, <1>6, BranchEventKeeps

\* An attempt ends: the running branch takes the visit it was started for.
LEMMA CompletionKeeps ==
  ASSUME NEW d, NEW s \in GraphState(d), GraphSound(s), NEW i \in Of(d, "Task"),
         NEW visit, NEW attempt, NEW outcome \in Outcomes,
         NEW t \in apply_graph_event(s, AttemptCompleted(i, visit, attempt, outcome))
  PROVE  t \in GraphState(d) /\ GraphSound(t)
<1> DEFINE ev == AttemptCompleted(i, visit, attempt, outcome)
           b == s.branches[i]
           last == [visit |-> visit, attempt |-> attempt, outcome |-> outcome]
           c == [[b EXCEPT !.running = FALSE] EXCEPT !.last = last]
<1>0. s.branches \in [Of(d, "Task") -> Branch] /\ b \in Branch
  <2>1. s.branches \in [Of(d, "Task") -> Branch]
    BY GraphFields
  <2> QED
    BY <2>1
<1>1. s.terminated = None /\ validate_state(t)
  BY AcceptedEvent
<1>2. PICK m \in apply_initialized_event(s, ev) : t = Counted(m, s.events)
  BY AcceptedEvent
<1>3. /\ apply_initialized_event(s, ev) = complete_branch_attempt(s, ev) /\ ev.branch = i
      /\ ev.visit = visit /\ ev.attempt = attempt /\ ev.outcome = outcome
  BY DEF apply_initialized_event, AttemptCompleted
<1> HIDE DEF ev
<1>4. /\ m = [s EXCEPT !.branches[i].running = FALSE, !.branches[i].last = last]
      /\ b.running /\ [visit |-> visit, attempt |-> attempt] = next_attempt_cursor(b.last)
  BY <1>2, <1>3 DEF complete_branch_attempt, Accepted
<1>5. visit = next_attempt_cursor(b.last).visit /\ visit \in Nat /\ attempt \in Nat
  <2>1. next_attempt_cursor(b.last) \in [visit : Nat, attempt : Nat]
    BY <1>0, CursorTyped DEF Branch
  <2> QED
    BY <1>4, <2>1
<1>6. last \in Attempt /\ last.visit = visit
  BY <1>5 DEF Attempt
<1> HIDE DEF last
<1>7. m = WithBranch(s, i, c)
  <2>1. m = [s EXCEPT !.branches = [s.branches EXCEPT ![i].running = FALSE, ![i].last = last]]
    BY <1>4 DEF GraphState
  <2>2. [s.branches EXCEPT ![i].running = FALSE, ![i].last = last] = [s.branches EXCEPT ![i] = c]
    BY <1>0
  <2> QED
    BY <2>1, <2>2 DEF WithBranch
<1>8. c \in Branch /\ c.last = last
  BY <1>0, <1>6 DEF Branch
<1> HIDE DEF c
<1> QED
  BY <1>1, <1>2, <1>4, <1>5, <1>6, <1>7, <1>8, BranchEventKeeps

-----------------------------------------------------------------------------
(* Events of the graph.                                                     *)

\* What validate_edge gives of the edges that carry a condition.
LEMMA EdgeFacts ==
  ASSUME NEW d \in AllDefinitions, NEW e \in d.edges
  PROVE  /\ e.from \in Nodes(d) /\ e.to \in Nodes(d)
         /\ e.cond.on = "Join" => e.cond.node \in Of(d, "Join")
<1>1. validate_edge(d, e)
  BY GraphAssumption DEF validate_definition
<1> QED
  BY <1>1 DEF validate_edge

\* A join is resolved, once.
LEMMA ResolveKeeps ==
  ASSUME NEW d \in AllDefinitions, NEW s \in GraphState(d), GraphSound(s),
         NEW n \in Of(d, "Join"), NEW result,
         NEW t \in apply_graph_event(s, JoinResolved(n, result))
  PROVE  t \in GraphState(d) /\ GraphSound(t)
<1> DEFINE ev == JoinResolved(n, result)
           J == [s.joins EXCEPT ![n] = result]
<1>0. s.joins \in [Of(d, "Join") -> FanInResults \cup {None}] /\ s.events \in Nat /\ s.def = d
  BY GraphFields
<1>1. s.terminated = None /\ validate_state(t)
  BY AcceptedEvent
<1>2. PICK m \in apply_initialized_event(s, ev) : t = Counted(m, s.events)
  BY AcceptedEvent
<1>3. apply_initialized_event(s, ev) = resolve_join(s, ev) /\ ev.node = n /\ ev.result = result
  BY DEF apply_initialized_event, JoinResolved
<1> HIDE DEF ev
<1>4. /\ m = [s EXCEPT !.joins[n] = result]
      /\ s.joins[n] = None /\ result # None /\ result = derive_fan_in_result(s, n)
  BY <1>2, <1>3 DEF resolve_join, Accepted
<1>5. m = [s EXCEPT !.joins = J]
  BY <1>4 DEF GraphState
<1>6. result \in FanInResults
  BY <1>4 DEF derive_fan_in_result, FanInResults
<1>7. /\ J \in [Of(d, "Join") -> FanInResults \cup {None}] /\ J[n] = result
      /\ \A j \in Of(d, "Join") \ {n} : J[j] = s.joins[j]
  BY <1>0, <1>6
<1> HIDE DEF J
<1>8. /\ m \in GraphState(d)
      /\ m.def = s.def /\ m.visits = s.visits /\ m.routed = s.routed /\ m.crossed = s.crossed
      /\ m.branches = s.branches /\ m.terminated = s.terminated /\ m.joins = J
  BY <1>5, <1>7 DEF GraphState
<1>9. /\ t \in GraphState(d)
      /\ t.def = d /\ t.visits = s.visits /\ t.routed = s.routed /\ t.crossed = s.crossed
      /\ t.branches = s.branches /\ t.terminated = None /\ t.joins = J
  BY <1>0, <1>1, <1>2, <1>8, CountedEvent
<1>10. /\ \A k \in Nodes(d) : t.routed[k] <= t.visits[k]
       /\ \A j \in Of(d, "Join") : t.joins[j] # None => derive_fan_in_result(t, j) = t.joins[j]
  BY <1>1, <1>9, ValidatedState
<1>11. JoinsDecided(t)
  <2>1. \A j \in Of(d, "Join") : t.routed[j] > 0 => t.joins[j] # None
    BY <1>0, <1>4, <1>7, <1>9 DEF GraphSound, JoinsDecided
  <2> QED
    BY <1>9, <1>10, <2>1 DEF JoinsDecided
<1>12. JoinEdgesTrue(t)
  <2> SUFFICES ASSUME NEW e \in d.edges, s.crossed[e] > 0, e.cond.on = "Join", e.cond.is # None
               PROVE  J[e.cond.node] = e.cond.is
    BY <1>9 DEF JoinEdgesTrue
  <2>1. s.joins[e.cond.node] = e.cond.is
    BY <1>0 DEF GraphSound, JoinEdgesTrue
  <2>2. e.cond.node \in Of(d, "Join")
    BY EdgeFacts
  <2> QED
    BY <1>4, <1>7, <2>1, <2>2
<1>13. BranchesSettled(t) /\ Arrived(t) /\ RootsOnce(t) /\ RootEdgesTrue(t) /\ Ended(t)
  BY <1>0, <1>9 DEF GraphSound, BranchesSettled, Arrived, RootsOnce, RootEdgesTrue, Ended
<1> QED
  BY <1>9, <1>10, <1>11, <1>12, <1>13 DEF GraphSound

\* An iteration of a loop is completed: nothing else depends on it.
LEMMA IterationKeeps ==
  ASSUME NEW d \in AllDefinitions, NEW s \in GraphState(d), GraphSound(s),
         NEW n \in Of(d, "Loop"), NEW iteration, NEW decision \in {"Continue", "Exit"},
         NEW t \in apply_graph_event(s, LoopCompleted(n, iteration, decision))
  PROVE  t \in GraphState(d) /\ GraphSound(t)
<1> DEFINE ev == LoopCompleted(n, iteration, decision)
           l == [done |-> iteration, decision |-> decision, routed |-> FALSE]
           L == [s.loops EXCEPT ![n] = l]
<1>0. s.loops \in [Of(d, "Loop") -> Iteration] /\ s.events \in Nat /\ s.def = d
  BY GraphFields
<1>1. s.terminated = None /\ validate_state(t)
  BY AcceptedEvent
<1>2. PICK m \in apply_initialized_event(s, ev) : t = Counted(m, s.events)
  BY AcceptedEvent
<1>3. /\ apply_initialized_event(s, ev) = complete_loop_iteration(s, ev)
      /\ ev.node = n /\ ev.iteration = iteration /\ ev.decision = decision
  BY DEF apply_initialized_event, LoopCompleted
<1> HIDE DEF ev
<1>4. m = [s EXCEPT !.loops[n] = l] /\ iteration = s.loops[n].done + 1
  BY <1>2, <1>3 DEF complete_loop_iteration, Accepted
<1>5. l \in Iteration
  <2>1. s.loops[n] \in Iteration
    BY <1>0
  <2>2. iteration \in Nat
    BY <1>4, <2>1 DEF Iteration
  <2> QED
    BY <2>2 DEF Iteration
<1> HIDE DEF l
<1>6. m = [s EXCEPT !.loops = L]
  BY <1>4 DEF GraphState
<1>7. L \in [Of(d, "Loop") -> Iteration]
  BY <1>0, <1>5
<1> HIDE DEF L
<1>8. /\ m \in GraphState(d)
      /\ m.def = s.def /\ m.visits = s.visits /\ m.routed = s.routed /\ m.crossed = s.crossed
      /\ m.branches = s.branches /\ m.terminated = s.terminated /\ m.joins = s.joins
  BY <1>6, <1>7 DEF GraphState
<1>9. /\ t \in GraphState(d)
      /\ t.def = d /\ t.visits = s.visits /\ t.routed = s.routed /\ t.crossed = s.crossed
      /\ t.branches = s.branches /\ t.terminated = None /\ t.joins = s.joins
  BY <1>0, <1>1, <1>2, <1>8, CountedEvent
<1>10. /\ \A k \in Nodes(d) : t.routed[k] <= t.visits[k]
       /\ \A j \in Of(d, "Join") : t.joins[j] # None => derive_fan_in_result(t, j) = t.joins[j]
  BY <1>1, <1>9, ValidatedState
<1>11. JoinsDecided(t)
  BY <1>0, <1>9, <1>10 DEF GraphSound, JoinsDecided
<1>12. /\ BranchesSettled(t) /\ Arrived(t) /\ JoinEdgesTrue(t)
       /\ RootsOnce(t) /\ RootEdgesTrue(t) /\ Ended(t)
  BY <1>0, <1>9
     DEF GraphSound, BranchesSettled, Arrived, JoinEdgesTrue, RootsOnce, RootEdgesTrue, Ended
<1> QED
  BY <1>9, <1>10, <1>11, <1>12 DEF GraphSound

\* The graph terminates at a node that was reached, and nothing is left on the frontier.
LEMMA TerminateKeeps ==
  ASSUME NEW d \in AllDefinitions, NEW s \in GraphState(d), GraphSound(s),
         NEW n \in Nodes(d), NEW outcome,
         NEW t \in apply_graph_event(s, Terminated(n, outcome))
  PROVE  t \in GraphState(d) /\ GraphSound(t)
<1> DEFINE ev == Terminated(n, outcome)
           R == [s.routed EXCEPT ![n] = s.visits[n]]
<1>0. /\ s.visits \in [Nodes(d) -> Nat] /\ s.routed \in [Nodes(d) -> Nat]
      /\ s.events \in Nat /\ s.def = d
  BY GraphFields
<1>1. s.terminated = None /\ validate_state(t)
  BY AcceptedEvent
<1>2. PICK m \in apply_initialized_event(s, ev) : t = Counted(m, s.events)
  BY AcceptedEvent
<1>3. apply_initialized_event(s, ev) = terminate_graph(s, ev) /\ ev.node = n
  BY DEF apply_initialized_event, Terminated
<1> HIDE DEF ev
<1>4. /\ m = [s EXCEPT !.terminated = n, !.routed[n] = s.visits[n]]
      /\ s.visits[n] > 0 /\ d.kind[n].type = "Terminate"
  BY <1>0, <1>2, <1>3 DEF terminate_graph, Accepted, Reached
<1>5. m = [s EXCEPT !.terminated = n, !.routed = R]
  BY <1>4 DEF GraphState
<1>6. /\ R \in [Nodes(d) -> Nat] /\ R[n] = s.visits[n]
      /\ \A k \in Nodes(d) \ {n} : R[k] = s.routed[k]
  BY <1>0
<1> HIDE DEF R
<1>7. /\ m \in GraphState(d)
      /\ m.def = s.def /\ m.visits = s.visits /\ m.routed = R /\ m.crossed = s.crossed
      /\ m.branches = s.branches /\ m.terminated = n /\ m.joins = s.joins
  BY <1>5, <1>6 DEF GraphState
<1>8. /\ t \in GraphState(d)
      /\ t.def = d /\ t.visits = s.visits /\ t.routed = R /\ t.crossed = s.crossed
      /\ t.branches = s.branches /\ t.terminated = n /\ t.joins = s.joins
  <2>1. m \in GraphState(d) /\ s.events \in Nat /\ t = Counted(m, s.events)
    BY <1>0, <1>2, <1>7
  <2>2. /\ t \in GraphState(d)
        /\ t.def = m.def /\ t.visits = m.visits /\ t.routed = m.routed /\ t.crossed = m.crossed
        /\ t.branches = m.branches /\ t.joins = m.joins /\ t.terminated = m.terminated
    BY ONLY <2>1, CountedEvent
  <2> QED
    BY <1>0, <1>1, <1>7, <2>2
<1>9. /\ \A k \in Nodes(d) : t.routed[k] <= t.visits[k]
      /\ \A j \in Of(d, "Join") : t.joins[j] # None => derive_fan_in_result(t, j) = t.joins[j]
      /\ t.terminated # None => ActiveNodes(t) = {}
  BY <1>1, <1>8, ValidatedState
<1>10. \A k \in Of(d, "Task") \cup Of(d, "Join") : R[k] = s.routed[k]
  BY <1>4, <1>6 DEF Of
<1>11. BranchesSettled(t)
  BY <1>0, <1>8, <1>10 DEF GraphSound, BranchesSettled
<1>12. JoinsDecided(t)
  BY <1>0, <1>8, <1>9, <1>10 DEF GraphSound, JoinsDecided
<1>13. Arrived(t) /\ JoinEdgesTrue(t) /\ RootsOnce(t)
  BY <1>0, <1>8 DEF GraphSound, Arrived, JoinEdgesTrue, RootsOnce
<1>14. RootEdgesTrue(t)
  BY <1>0, <1>8, <1>10 DEF GraphSound, RootEdgesTrue, RootEdge
<1>15. Ended(t)
  BY <1>4, <1>8, <1>9 DEF Ended, Of
<1> QED
  BY <1>8, <1>9, <1>11, <1>12, <1>13, <1>14, <1>15 DEF GraphSound

\* Edges are selected: the source is routed, the edges are crossed and their ends reached.
LEMMA RoutingKeeps ==
  ASSUME NEW d \in AllDefinitions, NEW s \in GraphState(d), GraphSound(s),
         NEW n \in Nodes(d), NEW visit, NEW E,
         NEW t \in apply_graph_event(s, EdgesSelected(n, visit, E))
  PROVE  t \in GraphState(d) /\ GraphSound(t)
<1> DEFINE ev == EdgesSelected(n, visit, E)
           V == VisitsAfter(s, E)
           C == [e \in DOMAIN s.crossed |-> IF e \in E THEN s.crossed[e] + 1 ELSE s.crossed[e]]
           R == [s.routed EXCEPT ![n] = visit]
           L == [l \in DOMAIN s.loops |-> IF l = n THEN [s.loops[l] EXCEPT !.routed = TRUE]
                                          ELSE s.loops[l]]
<1>0. /\ s.visits \in [Nodes(d) -> Nat] /\ s.routed \in [Nodes(d) -> Nat]
      /\ s.crossed \in [d.edges -> Nat] /\ s.loops \in [Of(d, "Loop") -> Iteration]
      /\ s.events \in Nat /\ s.def = d
  BY GraphFields
<1>1. s.terminated = None /\ validate_state(t)
  BY AcceptedEvent
<1>2. PICK m \in apply_initialized_event(s, ev) : t = Counted(m, s.events)
  BY AcceptedEvent
<1>3. /\ apply_initialized_event(s, ev) = select_edges(s, ev)
      /\ ev.node = n /\ ev.visit = visit /\ ev.edges = E
  BY DEF apply_initialized_event, EdgesSelected
<1> HIDE DEF ev
<1>4. /\ m = [s EXCEPT !.visits = V, !.crossed = C, !.routed[n] = visit, !.loops = L]
      /\ visit = s.routed[n] + 1 /\ ensure_source_visit_complete(s, n, visit)
      /\ E = compute_eligible_edges(s, n)
  BY <1>2, <1>3 DEF select_edges, Accepted
<1>5. m = [s EXCEPT !.visits = V, !.crossed = C, !.routed = R, !.loops = L]
  BY <1>4 DEF GraphState
<1>6. \A e \in E : e \in d.edges /\ e.from = n /\ condition_matches(s, e.cond)
  BY <1>0, <1>4 DEF compute_eligible_edges, Outgoing
<1>7. V = [k \in Nodes(d) |->
             IF \E e \in E : e.to = k
             THEN IF d.kind[k].type = "Join" THEN 1 ELSE s.visits[k] + 1
             ELSE s.visits[k]]
  BY <1>0 DEF VisitsAfter
<1>8. /\ C \in [d.edges -> Nat]
      /\ \A e \in d.edges : C[e] > 0 => e \in E \/ s.crossed[e] > 0
      /\ \A e \in d.edges : e \in E \/ s.crossed[e] > 0 => C[e] > 0
  BY <1>0
<1>9. visit \in Nat /\ visit > 0
  BY <1>0, <1>4
<1>10. /\ R \in [Nodes(d) -> Nat] /\ R[n] = visit
       /\ \A k \in Nodes(d) \ {n} : R[k] = s.routed[k]
  BY <1>0, <1>9
<1>11. L \in [Of(d, "Loop") -> Iteration]
  <2>1. \A l \in Of(d, "Loop") : s.loops[l] \in Iteration
    BY <1>0
  <2>2. \A x \in Iteration : [x EXCEPT !.routed = TRUE] \in Iteration
    BY DEF Iteration
  <2>3. DOMAIN s.loops = Of(d, "Loop")
    BY <1>0
  <2> QED
    BY <2>1, <2>2, <2>3
<1> HIDE DEF V, C, R, L
<1>12. /\ V \in [Nodes(d) -> Nat]
       /\ \A k \in Nodes(d) : ~(\E e \in E : e.to = k) => V[k] = s.visits[k]
  BY <1>0, <1>7
<1>13. /\ m \in GraphState(d)
       /\ m.def = s.def /\ m.visits = V /\ m.routed = R /\ m.crossed = C
       /\ m.branches = s.branches /\ m.terminated = s.terminated /\ m.joins = s.joins
  BY <1>5, <1>8, <1>10, <1>11, <1>12 DEF GraphState
<1>14. /\ t \in GraphState(d)
       /\ t.def = d /\ t.visits = V /\ t.routed = R /\ t.crossed = C
       /\ t.branches = s.branches /\ t.terminated = None /\ t.joins = s.joins
  <2>1. m \in GraphState(d) /\ s.events \in Nat /\ t = Counted(m, s.events)
    BY <1>0, <1>2, <1>13
  <2>2. /\ t \in GraphState(d)
        /\ t.def = m.def /\ t.visits = m.visits /\ t.routed = m.routed /\ t.crossed = m.crossed
        /\ t.branches = m.branches /\ t.joins = m.joins /\ t.terminated = m.terminated
    BY ONLY <2>1, CountedEvent
  <2> QED
    BY <1>0, <1>1, <1>13, <2>2
<1>15. /\ \A k \in Nodes(d) : t.routed[k] <= t.visits[k]
       /\ \A j \in Of(d, "Join") : t.joins[j] # None => derive_fan_in_result(t, j) = t.joins[j]
  BY <1>1, <1>14, ValidatedState
<1>16. ASSUME NEW k \in Of(d, "Task")
       PROVE  BranchSettled(s.branches[k], V[k], R[k])
  <2> DEFINE b == s.branches[k]
  <2>1. /\ R[k] <= b.last.visit /\ b.last.visit <= V[k]
        /\ b.running \/ b.retry => next_attempt_cursor(b.last).visit = V[k] /\ R[k] < V[k]
    BY <1>1, <1>14, ValidatedState
  <2>2. R[k] > 0 /\ b.last.visit = R[k] => b.last.outcome \in {"Success", "Failure"}
    <3>1. CASE k # n
      <4>1. R[k] = s.routed[k]
        BY <1>10, <3>1 DEF Of
      <4> QED
        BY <1>0, <4>1 DEF GraphSound, BranchesSettled, BranchSettled
    <3>2. CASE k = n
      <4>1. is_terminal_for_visit(b, visit)
        BY <1>0, <1>4, <3>2 DEF ensure_source_visit_complete, Of
      <4> QED
        BY <4>1 DEF is_terminal_for_visit
    <3> QED
      BY <3>1, <3>2
  <2> QED
    BY <2>1, <2>2 DEF BranchSettled
<1>17. BranchesSettled(t)
  BY <1>14, <1>16 DEF BranchesSettled
<1>18. JoinsDecided(t)
  <2>1. ASSUME NEW j \in Of(d, "Join"), R[j] > 0
        PROVE  s.joins[j] # None
    <3>1. CASE j # n
      <4>1. R[j] = s.routed[j]
        BY <1>10, <3>1 DEF Of
      <4> QED
        BY <1>0, <2>1, <4>1 DEF GraphSound, JoinsDecided
    <3>2. CASE j = n
      BY <1>0, <1>4, <3>2 DEF ensure_source_visit_complete, Of
    <3> QED
      BY <3>1, <3>2
  <2> QED
    BY <1>14, <1>15, <2>1 DEF JoinsDecided
<1>19. Arrived(t)
  <2> SUFFICES ASSUME NEW k \in Nodes(d), V[k] > 0
               PROVE  k = d.entry \/ \E e \in Incoming(d, k) : C[e] > 0
    BY <1>14 DEF Arrived
  <2>1. CASE \E e \in E : e.to = k
    BY <1>6, <1>8, <2>1 DEF Incoming
  <2>2. CASE ~ \E e \in E : e.to = k
    <3>1. k = d.entry \/ \E e \in Incoming(d, k) : s.crossed[e] > 0
      BY <1>0, <1>12, <2>2 DEF GraphSound, Arrived
    <3> QED
      BY <1>8, <3>1 DEF Incoming
  <2> QED
    BY <2>1, <2>2
<1>20. JoinEdgesTrue(t)
  <2> SUFFICES ASSUME NEW e \in d.edges, C[e] > 0, e.cond.on = "Join", e.cond.is # None
               PROVE  s.joins[e.cond.node] = e.cond.is
    BY <1>14 DEF JoinEdgesTrue
  <2>1. CASE e \in E
    BY <1>6, <2>1 DEF condition_matches
  <2>2. CASE s.crossed[e] > 0
    BY <1>0, <2>2 DEF GraphSound, JoinEdgesTrue
  <2> QED
    BY <1>8, <2>1, <2>2
<1>21. RootsOnce(t)
  <2> SUFFICES ASSUME NEW k \in Nodes(d), Incoming(d, k) = {}
               PROVE  V[k] <= 1
    BY <1>14 DEF RootsOnce
  <2>1. ~ \E e \in E : e.to = k
    BY <1>6 DEF Incoming
  <2> QED
    BY <1>0, <1>12, <2>1 DEF GraphSound, RootsOnce
<1>22. RootEdgesTrue(t)
  <2> SUFFICES ASSUME NEW e \in d.edges, C[e] > 0, RootEdge(d, e)
               PROVE  R[e.from] > 0 /\ s.branches[e.from].last.outcome = e.cond.is
    BY <1>14 DEF RootEdgesTrue
  <2>1. CASE e \in E
    <3>1. e.from = n /\ condition_matches(s, e.cond)
      BY <1>6, <2>1
    <3>2. route_class_for_visit(s.branches[n], s.visits[n]) = e.cond.is
      BY <3>1 DEF condition_matches, RootEdge
    <3>3. s.branches[n].last.outcome = e.cond.is
      BY <3>2 DEF route_class_for_visit, RootEdge
    <3> QED
      BY <1>9, <1>10, <3>1, <3>3
  <2>2. CASE s.crossed[e] > 0
    <3>1. s.routed[e.from] > 0 /\ s.branches[e.from].last.outcome = e.cond.is
      BY <1>0, <2>2 DEF GraphSound, RootEdgesTrue
    <3>2. e.from \in Nodes(d)
      BY EdgeFacts
    <3> QED
      BY <1>9, <1>10, <3>1, <3>2
  <2> QED
    BY <1>8, <2>1, <2>2
<1>23. Ended(t)
  BY <1>14 DEF Ended
<1> QED
  BY <1>14, <1>15, <1>17, <1>18, <1>19, <1>20, <1>21, <1>22, <1>23 DEF GraphSound

-----------------------------------------------------------------------------
(* The journal of events.                                                   *)

\* The Defined event.
LEMMA DefinedSound ==
  ASSUME NEW d \in AllDefinitions, NEW s, s = initialize_state(d)
  PROVE  s.def = d /\ s \in GraphState(d) /\ GraphSound(s)
<1> DEFINE b == [last |-> NoAttempt, running |-> FALSE, retry |-> FALSE]
           l == [done |-> 0, decision |-> None, routed |-> TRUE]
<1>1. /\ s.def = d /\ s.events = 1 /\ s.terminated = None
      /\ s.visits = [n \in Nodes(d) |-> IF n = d.entry THEN 1 ELSE 0]
      /\ s.routed = [n \in Nodes(d) |-> 0]
      /\ s.crossed = [e \in d.edges |-> 0]
      /\ s.branches = [n \in Of(d, "Task") |-> b]
      /\ s.joins = [n \in Of(d, "Join") |-> None]
      /\ s.loops = [n \in Of(d, "Loop") |-> l]
  BY DEF initialize_state
<1>2. b \in Branch /\ l \in Iteration
  BY DEF Branch, Attempt, Iteration, NoAttempt
<1>3. b.last.visit = 0 /\ ~b.running /\ ~b.retry
  BY DEF NoAttempt
<1>4. s \in GraphState(d)
  <2>1. s = [def |-> s.def, events |-> s.events, visits |-> s.visits, routed |-> s.routed,
             crossed |-> s.crossed, branches |-> s.branches, joins |-> s.joins,
             loops |-> s.loops, terminated |-> s.terminated]
    BY DEF initialize_state
  <2> HIDE DEF b, l
  <2>2. /\ s.events \in Nat /\ s.visits \in [Nodes(d) -> Nat] /\ s.routed \in [Nodes(d) -> Nat]
        /\ s.crossed \in [d.edges -> Nat] /\ s.terminated \in Nodes(d) \cup {None}
    BY <1>1
  <2>3. /\ s.branches \in [Of(d, "Task") -> Branch]
        /\ s.joins \in [Of(d, "Join") -> FanInResults \cup {None}]
        /\ s.loops \in [Of(d, "Loop") -> Iteration]
    BY <1>1, <1>2
  <2> QED
    BY <1>1, <2>1, <2>2, <2>3 DEF GraphState
<1> HIDE DEF b, l
<1>5. \A n \in Nodes(d) :
         s.routed[n] = 0 /\ s.visits[n] \in {0, 1} /\ (s.visits[n] > 0 => n = d.entry)
  BY <1>1
<1>6. \A n \in Nodes(d) : s.routed[n] <= s.visits[n]
  BY <1>5
<1>7. BranchesSettled(s)
  <2> SUFFICES ASSUME NEW n \in Of(d, "Task")
               PROVE  BranchSettled(s.branches[n], s.visits[n], s.routed[n])
    BY <1>1 DEF BranchesSettled
  <2>1. s.branches[n] = b /\ s.routed[n] = 0 /\ s.visits[n] \in {0, 1}
    BY <1>1, <1>5 DEF Of
  <2> QED
    BY <1>3, <2>1 DEF BranchSettled
<1>8. JoinsDecided(s)
  BY <1>1, <1>5 DEF JoinsDecided, Of
<1>9. Arrived(s) /\ JoinEdgesTrue(s) /\ RootEdgesTrue(s) /\ Ended(s)
  BY <1>1, <1>5 DEF Arrived, JoinEdgesTrue, RootEdgesTrue, Ended
<1>10. RootsOnce(s)
  BY <1>1, <1>5 DEF RootsOnce
<1> QED
  BY <1>1, <1>4, <1>6, <1>7, <1>8, <1>9, <1>10 DEF GraphSound

\* Every event a caller can present.
LEMMA GraphStepKeeps ==
  ASSUME GraphInv, GraphNext
  PROVE  GraphInv'
<1> DEFINE d == g.def
<1>1. d \in AllDefinitions /\ g \in GraphState(d) /\ GraphSound(g)
  BY DEF GraphInv
<1>2. /\ Branches = Of(d, "Task") /\ DOMAIN g.joins = Of(d, "Join")
      /\ DOMAIN g.loops = Of(d, "Loop")
  BY <1>1, GraphFields DEF Branches
<1>3. SUFFICES g' \in GraphState(d) /\ GraphSound(g')
  <2>1. ASSUME g' \in GraphState(d) PROVE g'.def = d
    BY <2>1, GraphFields
  <2> QED
    BY <1>1, <1>3, <2>1 DEF GraphInv
<1> HIDE DEF d
<1>4. CASE StartAttempt
  <2>1. PICK ev \in StartEvents : g' \in apply_graph_event(g, ev)
    BY <1>4 DEF StartAttempt
  <2>2. PICK i \in Of(d, "Task") : \E visit, attempt : ev = AttemptStarted(i, visit, attempt)
    BY <1>2 DEF StartEvents
  <2> QED
    BY <1>1, <2>1, <2>2, StartKeeps
<1>5. CASE CompleteAttempt
  <2>1. PICK ev \in CompletionEvents : g' \in apply_graph_event(g, ev)
    BY <1>5 DEF CompleteAttempt
  <2>2. PICK x \in UNION {{b} \X Cursors(b) \X Outcomes : b \in Branches} :
               ev = AttemptCompleted(x[1], x[2].visit, x[2].attempt, x[3])
    BY DEF CompletionEvents
  <2>3. PICK b \in Branches : x \in {b} \X Cursors(b) \X Outcomes
    BY <2>2
  <2> DEFINE C == Cursors(b)
  <2> HIDE DEF C
  <2>4. x \in {b} \X C \X Outcomes
    BY <2>3 DEF C
  <2>5. x[1] = b /\ x[3] \in Outcomes
    BY <2>4
  <2>6. PICK visit, attempt : ev = AttemptCompleted(b, visit, attempt, x[3])
    BY <2>2, <2>5
  <2> QED
    BY <1>1, <1>2, <2>1, <2>5, <2>6, CompletionKeeps
<1>6. CASE ScheduleRetry
  <2>1. PICK ev \in RetryEvents : g' \in apply_graph_event(g, ev)
    BY <1>6 DEF ScheduleRetry
  <2>2. PICK i \in Of(d, "Task") : \E visit, attempt : ev = RetryScheduled(i, visit, attempt)
    BY <1>2 DEF RetryEvents
  <2> QED
    BY <1>1, <2>1, <2>2, RetryKeeps
<1>7. CASE ResolveJoin
  <2>1. PICK ev \in JoinEvents : g' \in apply_graph_event(g, ev)
    BY <1>7 DEF ResolveJoin
  <2>2. PICK n \in Of(d, "Join") : \E result : ev = JoinResolved(n, result)
    BY <1>2 DEF JoinEvents
  <2> QED
    BY <1>1, <2>1, <2>2, ResolveKeeps
<1>8. CASE CompleteIteration
  <2>1. PICK ev \in LoopEvents : g' \in apply_graph_event(g, ev)
    BY <1>8 DEF CompleteIteration
  <2>2. PICK x \in UNION {{l} \X (1..(g.def.kind[l].max + 1)) \X {"Continue", "Exit"} :
                            l \in DOMAIN g.loops} :
               ev = LoopCompleted(x[1], x[2], x[3])
    BY DEF LoopEvents
  <2>3. PICK l \in DOMAIN g.loops :
               x \in {l} \X (1..(g.def.kind[l].max + 1)) \X {"Continue", "Exit"}
    BY <2>2
  <2> DEFINE I == 1..(g.def.kind[l].max + 1)
             D == {"Continue", "Exit"}
  <2> HIDE DEF I, D
  <2>4. x \in {l} \X I \X D
    BY <2>3 DEF I, D
  <2>5. x[1] = l /\ x[3] \in D
    BY <2>4
  <2>6. PICK iteration : ev = LoopCompleted(l, iteration, x[3])
    BY <2>2, <2>5
  <2> QED
    BY <1>1, <1>2, <2>1, <2>5, <2>6, IterationKeeps DEF D
<1>9. CASE SelectEdges
  <2>1. PICK ev \in RouteEvents : g' \in apply_graph_event(g, ev)
    BY <1>9 DEF SelectEdges
  <2>2. PICK n \in Nodes(d) : \E visit, E : ev = EdgesSelected(n, visit, E)
    BY DEF RouteEvents, d
  <2> QED
    BY <1>1, <2>1, <2>2, RoutingKeeps
<1>10. CASE TerminateGraph
  <2>1. PICK ev \in EndEvents : g' \in apply_graph_event(g, ev)
    BY <1>10 DEF TerminateGraph
  <2>2. PICK n \in Nodes(d) : \E outcome : ev = Terminated(n, outcome)
    BY DEF EndEvents, d
  <2> QED
    BY <1>1, <2>1, <2>2, TerminateKeeps
<1> QED
  BY <1>4, <1>5, <1>6, <1>7, <1>8, <1>9, <1>10 DEF GraphNext

\* Every state that any journal of graph events replays to, for any definitions validate()
\* admits, satisfies the inductive invariant: the frontier is consistent with the branches
\* and joins, and every edge was crossed for what its condition says.
THEOREM GraphInvariance == GraphSpec => []GraphInv
<1>1. GraphInit => GraphInv
  BY DefinedSound DEF GraphInit, GraphInv
<1>2. GraphInv /\ [GraphNext]_g => GraphInv'
  BY GraphStepKeeps DEF GraphInv
<1> QED
  BY <1>1, <1>2, PTL DEF GraphSpec

-----------------------------------------------------------------------------
(* How a graph ends.                                                        *)

\* Nothing is active, so every visit was routed.
LEMMA QuietEnd ==
  ASSUME GraphInv
  PROVE  TerminationIsQuiet
<1> DEFINE d == g.def
<1> SUFFICES ASSUME g.terminated # None
             PROVE  /\ \A b \in Branches : ~g.branches[b].running /\ ~g.branches[b].retry
                    /\ \A b \in Branches :
                          g.visits[b] > 0 => is_terminal_for_visit(g.branches[b], g.visits[b])
                    /\ \A j \in DOMAIN g.joins : Reached(g, j) => g.joins[j] # None
  BY DEF TerminationIsQuiet
<1>1. g \in GraphState(d) /\ GraphSound(g)
  BY DEF GraphInv
<1>2. Branches = Of(d, "Task") /\ DOMAIN g.joins = Of(d, "Join")
  BY <1>1, GraphFields DEF Branches
<1>3. \A n \in Nodes(d) : g.visits[n] \in Nat /\ g.routed[n] \in Nat
  <2>1. g.visits \in [Nodes(d) -> Nat] /\ g.routed \in [Nodes(d) -> Nat]
    BY <1>1, GraphFields
  <2> QED
    BY <2>1
<1>4. \A n \in Nodes(d) : g.routed[n] = g.visits[n]
  BY <1>1, <1>3 DEF GraphSound, Ended, ActiveNodes
<1>5. \A n \in Of(d, "Task") : BranchSettled(g.branches[n], g.visits[n], g.routed[n])
  BY <1>1 DEF GraphSound, BranchesSettled
<1>6. Of(d, "Task") \subseteq Nodes(d) /\ Of(d, "Join") \subseteq Nodes(d)
  BY DEF Of
<1> HIDE DEF d
<1>7. ASSUME NEW b \in Of(d, "Task")
      PROVE  /\ ~g.branches[b].running /\ ~g.branches[b].retry
             /\ g.visits[b] > 0 => is_terminal_for_visit(g.branches[b], g.visits[b])
  <2>1. ~g.branches[b].running /\ ~g.branches[b].retry
    BY <1>3, <1>4, <1>5, <1>6 DEF BranchSettled
  <2>2. g.branches[b].last.visit = g.visits[b]
    <3>1. g.branches[b].last.visit \in Nat
      <4>1. g.branches \in [Of(d, "Task") -> Branch]
        BY <1>1, GraphFields
      <4> QED
        BY <4>1 DEF Branch, Attempt
    <3> QED
      BY <1>3, <1>4, <1>5, <1>6, <3>1 DEF BranchSettled
  <2> QED
    BY <1>4, <1>5, <1>6, <2>1, <2>2 DEF BranchSettled, is_terminal_for_visit
<1>8. ASSUME NEW j \in Of(d, "Join"), Reached(g, j)
      PROVE  g.joins[j] # None
  BY <1>1, <1>4, <1>6, <1>8 DEF GraphSound, JoinsDecided, Reached, d
<1> QED
  BY <1>2, <1>7, <1>8

\* One item: its task routes to the termination its outcome names.
LEMMA SingleItemShape ==
  ASSUME NEW item, item \notin {"success", "failure"},
         NEW d, d = derive_single_item_graph(item)
  PROVE  /\ Of(d, "Task") = {item} /\ Of(d, "Terminate") = {"success", "failure"}
         /\ d.entry = item
         /\ d.kind["success"].outcome = "Success" /\ d.kind["failure"].outcome = "Failure"
         /\ \A e \in d.edges :
              /\ e.from = item /\ e.to \in {"success", "failure"}
              /\ e.cond = OutcomeIs(item, IF e.to = "success" THEN "Success" ELSE "Failure")
<1>1. /\ d.entry = item
      /\ d.kind = [n \in {item, "success", "failure"} |->
                      CASE n = item      -> Task(LICENSED_FOLLOW_UP_TASK_MAX_ATTEMPTS)
                        [] n = "success" -> Terminate("Success")
                        [] n = "failure" -> Terminate("Failure")]
      /\ d.edges = {Edge(item, "success", "Forward", None, OutcomeIs(item, "Success")),
                    Edge(item, "failure", "Forward", None, OutcomeIs(item, "Failure"))}
  BY DEF derive_single_item_graph
<1>2. /\ Nodes(d) = {item, "success", "failure"}
      /\ d.kind[item] = Task(LICENSED_FOLLOW_UP_TASK_MAX_ATTEMPTS)
      /\ d.kind["success"] = Terminate("Success")
      /\ d.kind["failure"] = Terminate("Failure")
  BY <1>1 DEF Nodes
<1>3. /\ d.kind[item].type = "Task" /\ d.kind["success"].type = "Terminate"
      /\ d.kind["failure"].type = "Terminate"
      /\ d.kind["success"].outcome = "Success" /\ d.kind["failure"].outcome = "Failure"
  BY <1>2 DEF Task, Terminate
<1>4. Of(d, "Task") = {item} /\ Of(d, "Terminate") = {"success", "failure"}
  BY <1>2, <1>3 DEF Of
<1>5. \A e \in d.edges :
        /\ e.from = item /\ e.to \in {"success", "failure"}
        /\ e.cond = OutcomeIs(item, IF e.to = "success" THEN "Success" ELSE "Failure")
  BY <1>1 DEF Edge
<1> QED
  BY <1>1, <1>3, <1>4, <1>5

\* Several items: the join of all their tasks routes to the termination its result names.
LEMMA FanInShape ==
  ASSUME NEW B, B \cap {"fork", "join", "success", "partial", "failure"} = {},
         NEW d, d = derive_multi_item_fan_in_graph(B)
  PROVE  /\ Of(d, "Task") = B /\ Of(d, "Join") = {"join"}
         /\ Of(d, "Terminate") = {"success", "partial", "failure"}
         /\ d.entry = "fork" /\ d.kind["join"].branches = B
         /\ d.kind["success"].outcome = "Success" /\ d.kind["partial"].outcome = "Failure"
         /\ d.kind["failure"].outcome = "Failure"
         /\ \A e \in d.edges : e.to \in {"success", "partial", "failure"} =>
              e.cond = JoinIs("join", IF e.to = "success" THEN "AllSuccess"
                                      ELSE IF e.to = "partial" THEN "PartialSuccess" ELSE "Failure")
<1>1. /\ d.entry = "fork"
      /\ d.kind = [n \in B \cup {"fork", "join", "success", "partial", "failure"} |->
                   CASE n \in B       -> Task(LICENSED_FOLLOW_UP_TASK_MAX_ATTEMPTS)
                     [] n = "fork"    -> Fork
                     [] n = "join"    -> Join(B)
                     [] n = "success" -> Terminate("Success")
                     [] n \in {"partial", "failure"} -> Terminate("Failure")]
      /\ d.edges = {Edge("fork", i, "Forward", None, Always) : i \in B}
               \cup {Edge(i, "join", "JoinArrival", None, Always) : i \in B}
               \cup {Edge("join", "success", "Forward", None, JoinIs("join", "AllSuccess")),
                     Edge("join", "partial", "Forward", None, JoinIs("join", "PartialSuccess")),
                     Edge("join", "failure", "Forward", None, JoinIs("join", "Failure"))}
  BY DEF derive_multi_item_fan_in_graph
<1>2. /\ "fork" \notin B /\ "join" \notin B /\ "success" \notin B
      /\ "partial" \notin B /\ "failure" \notin B
  OBVIOUS
<1>3. Nodes(d) = B \cup {"fork", "join", "success", "partial", "failure"}
  BY <1>1 DEF Nodes
<1>4. /\ \A n \in B : d.kind[n] = Task(LICENSED_FOLLOW_UP_TASK_MAX_ATTEMPTS)
      /\ d.kind["fork"] = Fork /\ d.kind["join"] = Join(B)
  BY <1>1, <1>2
<1>5. /\ d.kind["success"] = Terminate("Success") /\ d.kind["partial"] = Terminate("Failure")
      /\ d.kind["failure"] = Terminate("Failure")
  BY <1>1, <1>2
<1>6. /\ \A n \in B : d.kind[n].type = "Task"
      /\ d.kind["fork"].type = "Fork" /\ d.kind["join"].type = "Join"
      /\ d.kind["join"].branches = B
  BY <1>4 DEF Task, Fork, Join
<1>7. /\ d.kind["success"].type = "Terminate" /\ d.kind["partial"].type = "Terminate"
      /\ d.kind["failure"].type = "Terminate"
      /\ d.kind["success"].outcome = "Success" /\ d.kind["partial"].outcome = "Failure"
      /\ d.kind["failure"].outcome = "Failure"
  BY <1>5 DEF Terminate
<1>8. /\ Of(d, "Task") = B /\ Of(d, "Join") = {"join"}
      /\ Of(d, "Terminate") = {"success", "partial", "failure"}
  BY <1>2, <1>3, <1>6, <1>7 DEF Of
<1>9. ASSUME NEW e \in d.edges, e.to \in {"success", "partial", "failure"}
      PROVE  e.cond = JoinIs("join", IF e.to = "success" THEN "AllSuccess"
                                     ELSE IF e.to = "partial" THEN "PartialSuccess" ELSE "Failure")
  <2>1. \/ \E i \in B : e = Edge("fork", i, "Forward", None, Always)
        \/ \E i \in B : e = Edge(i, "join", "JoinArrival", None, Always)
        \/ e = Edge("join", "success", "Forward", None, JoinIs("join", "AllSuccess"))
        \/ e = Edge("join", "partial", "Forward", None, JoinIs("join", "PartialSuccess"))
        \/ e = Edge("join", "failure", "Forward", None, JoinIs("join", "Failure"))
    BY <1>1
  <2> QED
    BY <1>2, <1>9, <2>1 DEF Edge
<1> QED
  BY <1>1, <1>6, <1>7, <1>8, <1>9

\* The end of a licensed graph was reached along the edge that names the batch's outcome.
LEMMA LicensedEnd ==
  ASSUME GraphInv
  PROVE  LicensedOutcomeAgrees
<1> SUFFICES ASSUME g.terminated # None,
                    NEW B \in Batches, g.def = derive_licensed_follow_up_graph(B)
             PROVE  g.def.kind[g.terminated].outcome = "Success"
                        <=> \A b \in Branches : g.branches[b].last.outcome = "Success"
  BY DEF LicensedOutcomeAgrees
<1> DEFINE d == g.def
           end == g.terminated
<1>1. g \in GraphState(d) /\ GraphSound(g)
  BY DEF GraphInv
<1>2. Branches = Of(d, "Task")
  BY <1>1, GraphFields DEF Branches
<1>3. B # {} /\ B \cap {"fork", "join", "success", "partial", "failure"} = {}
  BY GraphAssumption
<1>4. end \in Of(d, "Terminate") /\ g.visits[end] > 0
  BY <1>1 DEF GraphSound, Ended
<1>5. end \in Nodes(d)
  BY <1>4 DEF Of
<1>6. ASSUME end # d.entry
      PROVE  \E e \in d.edges : e.to = end /\ g.crossed[e] > 0
  BY <1>1, <1>4, <1>5, <1>6 DEF GraphSound, Arrived, Incoming
<1>7. CASE \E i \in B : B = {i}
  <2>1. PICK item \in B : B = {item}
    BY <1>7
  <2>2. d = derive_single_item_graph(item)
    BY <2>1 DEF derive_licensed_follow_up_graph
  <2>3. item \notin {"success", "failure"}
    BY <1>3
  <2>4. /\ Of(d, "Task") = {item} /\ Of(d, "Terminate") = {"success", "failure"}
        /\ d.entry = item
        /\ d.kind["success"].outcome = "Success" /\ d.kind["failure"].outcome = "Failure"
        /\ \A e \in d.edges :
             /\ e.from = item /\ e.to \in {"success", "failure"}
             /\ e.cond = OutcomeIs(item, IF e.to = "success" THEN "Success" ELSE "Failure")
    BY <2>2, <2>3, SingleItemShape
  <2> HIDE DEF d, end
  <2>5. PICK e \in d.edges : e.to = end /\ g.crossed[e] > 0
    BY <1>4, <1>6, <2>3, <2>4
  <2>6. /\ e.cond.on = "Outcome" /\ e.cond.node = item
        /\ e.cond.is = IF end = "success" THEN "Success" ELSE "Failure"
    <3> DEFINE r == IF end = "success" THEN "Success" ELSE "Failure"
    <3>1. e.cond = OutcomeIs(item, r)
      BY <2>4, <2>5
    <3> HIDE DEF r
    <3>2. e.cond.on = "Outcome" /\ e.cond.node = item /\ e.cond.is = r
      BY <3>1 DEF OutcomeIs
    <3> QED
      BY <3>2 DEF r
  <2>7. RootEdge(d, e)
    <3>1. Incoming(d, item) = {}
      BY <2>3, <2>4 DEF Incoming
    <3> QED
      BY <2>4, <2>6, <3>1, NoneIsNoResult DEF RootEdge
  <2>8. g.branches[item].last.outcome = e.cond.is
    BY <1>1, <2>4, <2>5, <2>7 DEF GraphSound, RootEdgesTrue, d
  <2>9. d.kind[end].outcome = "Success" <=> end = "success"
    BY <1>4, <2>4
  <2> QED
    BY <1>2, <2>4, <2>6, <2>8, <2>9 DEF d, end
<1>8. CASE ~\E i \in B : B = {i}
  <2>1. d = derive_multi_item_fan_in_graph(B)
    BY <1>8 DEF derive_licensed_follow_up_graph
  <2>2. /\ Of(d, "Task") = B /\ Of(d, "Join") = {"join"}
        /\ Of(d, "Terminate") = {"success", "partial", "failure"}
        /\ d.entry = "fork" /\ d.kind["join"].branches = B
        /\ d.kind["success"].outcome = "Success" /\ d.kind["partial"].outcome = "Failure"
        /\ d.kind["failure"].outcome = "Failure"
        /\ \A e \in d.edges : e.to \in {"success", "partial", "failure"} =>
             e.cond = JoinIs("join", IF e.to = "success" THEN "AllSuccess"
                                     ELSE IF e.to = "partial" THEN "PartialSuccess" ELSE "Failure")
    BY <1>3, <2>1, FanInShape
  <2> HIDE DEF d, end
  <2>3. PICK e \in d.edges : e.to = end /\ g.crossed[e] > 0
    BY <1>4, <1>6, <2>2
  <2>4. /\ e.cond.on = "Join" /\ e.cond.node = "join"
        /\ e.cond.is = IF end = "success" THEN "AllSuccess"
                       ELSE IF end = "partial" THEN "PartialSuccess" ELSE "Failure"
    <3> DEFINE r == IF end = "success" THEN "AllSuccess"
                    ELSE IF end = "partial" THEN "PartialSuccess" ELSE "Failure"
    <3>1. e.cond = JoinIs("join", r)
      BY <1>4, <2>2, <2>3
    <3> HIDE DEF r
    <3>2. e.cond.on = "Join" /\ e.cond.node = "join" /\ e.cond.is = r
      BY <3>1 DEF JoinIs
    <3> QED
      BY <3>2 DEF r
  <2>5. e.cond.is # None /\ (e.cond.is = "AllSuccess" <=> end = "success")
    BY <2>4, NoneIsNoResult
  <2>6. g.joins["join"] = e.cond.is
    BY <1>1, <2>3, <2>4, <2>5 DEF GraphSound, JoinEdgesTrue, d
  <2>7. derive_fan_in_result(g, "join") = e.cond.is
    BY <1>1, <2>2, <2>5, <2>6 DEF GraphSound, JoinsDecided, d
  <2>8. e.cond.is = "AllSuccess" <=> {b \in B : g.branches[b].last.outcome = "Success"} = B
    <3>1. g.def.kind["join"].branches = B
      BY <2>2 DEF d
    <3> QED
      BY <2>5, <2>7, <3>1, NoneIsNoResult DEF derive_fan_in_result
  <2>9. d.kind[end].outcome = "Success" <=> end = "success"
    BY <1>4, <2>2
  <2> QED
    BY <1>2, <2>2, <2>5, <2>8, <2>9 DEF d, end
<1> QED
  BY <1>7, <1>8

\* terminate_graph: whatever the batches and definitions are and in whichever order events
\* arrive, a graph that terminated is quiet (nothing runs, waits for a retry or was reached
\* without being routed), and the graph of a licensed batch ended in success exactly when
\* every item's last attempt succeeded.
THEOREM GraphEndsTruthfully == GraphSpec => []EndsTruthfully
<1>1. GraphInv => EndsTruthfully
  BY QuietEnd, LicensedEnd DEF EndsTruthfully
<1> QED
  BY <1>1, GraphInvariance, PTL

==============================================================================
