---------------------------- MODULE LeaseProtocol ----------------------------
(***************************************************************************)
(* Workers that share one follow-up lease.  A worker remembers every proof *)
(* it was ever granted and may present any of them at any later time: it   *)
(* may have been paused while its lease expired, or have crashed and been  *)
(* restarted from an old copy.  The journal lets one event in at a time and *)
(* the reducer of FollowUpLease decides.                                   *)
(*                                                                         *)
(* The clock is read by each caller (SystemTime::now), so an observation   *)
(* may be any time: the reducer, not the clock, orders them.               *)
(***************************************************************************)
EXTENDS FollowUpLease, FiniteSets

CONSTANTS Workers, LeaseIds, Times, Occurrences

ASSUME LeaseAssumption ==
    /\ Times \subseteq Nat \ {0}
    /\ Occurrences \in Nat \ {0}
    /\ NoProof \notin [worker : Workers, id : LeaseIds, generation : Nat]
    /\ NoReclaim \notin [predecessor : [worker : Workers, id : LeaseIds, generation : Nat],
                         expired : Nat, at : Nat,
                         successor : [worker : Workers, id : LeaseIds, generation : Nat]]

VARIABLES
    lease,       \* LeaseState, replayed from the journal
    occurrence,  \* the visit of the item the lease is for
    granted,     \* every proof a claim or a reclaim returned
    retired,     \* proofs whose lease was released, reclaimed or archived
    effects      \* <<occurrence, proof>> of every accepted effect start

vars == <<lease, occurrence, granted, retired, effects>>

Proofs == [worker : Workers, id : LeaseIds, generation : Nat]

\* The generations a caller can name: those granted so far and the next one.
Generations == 1..(Cardinality(granted) + 1)

Init ==
    /\ lease = initial
    /\ occurrence = 1
    /\ granted = {}
    /\ retired = {}
    /\ effects = {}

\* claim_with_lease derives the generation; replay meets whatever is recorded.
Claim ==
    \E w \in Workers, id \in LeaseIds, gen \in Generations, at, expires \in Times :
        LET proof == LeaseProof(w, id, gen) IN
        /\ lease' \in apply(lease, ClaimedEvent(proof, at, expires))
        /\ granted' = granted \cup {proof}
        /\ UNCHANGED <<occurrence, retired, effects>>

Heartbeat ==
    \E proof \in granted, at, expires \in Times :
        /\ lease' \in apply(lease, HeartbeatEvent(proof, at, expires))
        /\ UNCHANGED <<occurrence, granted, retired, effects>>

Release ==
    \E proof \in granted, at \in Times :
        /\ lease' \in apply(lease, BoundEvent("Released", proof, at))
        /\ retired' = retired \cup {proof}
        /\ UNCHANGED <<occurrence, granted, effects>>

\* reclaim_expired_lease takes the predecessor and its expiry from replayed state.
Reclaim ==
    \E w \in Workers, id \in LeaseIds, gen \in Generations, at, expires \in Times :
        LET proof == LeaseProof(w, id, gen) IN
        /\ lease' \in apply(lease, ReclaimedEvent(lease.proof, lease.expires, at,
                                                 proof, expires))
        /\ granted' = granted \cup {proof}
        /\ retired' = retired \cup {lease.proof}
        /\ UNCHANGED <<occurrence, effects>>

EffectStart ==
    \E proof \in granted, at \in Times :
        /\ lease' \in apply(lease, BoundEvent("EffectStarted", proof, at))
        /\ effects' = effects \cup {<<occurrence, proof>>}
        /\ UNCHANGED <<occurrence, granted, retired>>

Acknowledge ==
    \E proof \in granted, at \in Times :
        /\ lease' \in apply(lease, BoundEvent("Acknowledged", proof, at))
        /\ UNCHANGED <<occurrence, granted, retired, effects>>

\* open_next_graph_occurrence: the graph schedules another visit.
NextOccurrence ==
    /\ occurrence < Occurrences
    /\ lease' \in for_next_occurrence(lease)
    /\ occurrence' = occurrence + 1
    /\ retired' = retired \cup {lease.proof}
    /\ UNCHANGED <<granted, effects>>

Next ==
    \/ Claim \/ Heartbeat \/ Release \/ Reclaim
    \/ EffectStart \/ Acknowledge \/ NextOccurrence

Spec == Init /\ [][Next]_vars

------------------------------------------------------------------------------
(* Properties *)

Lineages == [predecessor : Proofs, expired : Nat, at : Nat, successor : Proofs]

\* The types of the lease and of what the workers and the observer remember.
LeaseTypeOK ==
    /\ lease \in [phase : {"Available", "Active", "EffectFenced", "Acknowledged"},
                  proof : Proofs \cup {NoProof}, generation : Nat, at : Nat,
                  expires : Nat, last_reclaim : Lineages \cup {NoReclaim}]
    /\ (lease.phase = "Available") <=> (lease.proof = NoProof)
    /\ occurrence \in 1..Occurrences
    /\ granted \subseteq Proofs
    /\ retired \subseteq granted
    /\ effects \subseteq (1..Occurrences) \X granted

\* lease.rs, module comment: "after it, no release or reclaim can make the work
\* executable again".  However claims, reclaims and late callers interleave, at
\* most one effect starts for each occurrence of the item.
OneEffectPerOccurrence ==
    \A x, y \in effects : x[1] = y[1] => x = y

\* A proof that was released, reclaimed or archived is never current again, so
\* the worker holding it can neither heartbeat, release, start nor acknowledge.
RetiredStaysRetired == lease.proof \notin retired

\* No two grants share a generation: a generation names one worker and one lease.
GenerationsNameOneGrant ==
    \A p, q \in granted : p.generation = q.generation => p = q

\* apply_reclaim: the retained lineage explains the takeover it records.  The
\* predecessor was retired, had expired, and no effect was ever started under it.
LineageExplainsTakeover ==
    lease.last_reclaim # NoReclaim =>
        /\ lease.last_reclaim.predecessor \in retired
        /\ lease.last_reclaim.at >= lease.last_reclaim.expired
        /\ lease.last_reclaim.successor.generation <= lease.generation
        /\ \A x \in effects : x[2] # lease.last_reclaim.predecessor

\* The current proof was granted, under the highest generation of all grants.
ProofIsNewest ==
    /\ \A p \in granted : p.generation <= lease.generation
    /\ lease.proof # NoProof => /\ lease.proof \in granted
                                /\ lease.proof.generation = lease.generation

\* An effect of this occurrence is the fenced holder's; older ones are retired.
EffectsFence ==
    \A x \in effects :
        /\ x[1] <= occurrence
        /\ x[1] = occurrence => /\ lease.phase \in {"EffectFenced", "Acknowledged"}
                                /\ x[2] = lease.proof
        /\ x[1] < occurrence => x[2] \in retired

\* lease.rs, apply: what the record of a lease says of grants, retirements, effects and
\* takeovers agrees with what happened.  This invariant is inductive.
LeaseInv ==
    /\ LeaseTypeOK
    /\ ProofIsNewest
    /\ GenerationsNameOneGrant
    /\ RetiredStaysRetired
    /\ EffectsFence
    /\ OneEffectPerOccurrence
    /\ LineageExplainsTakeover

==============================================================================
