---------------------------- MODULE FollowUpLease ----------------------------
(***************************************************************************)
(* The lease of one follow-up item, follow_up_queue/lease.rs: a reducer    *)
(* over journaled events.  apply(l, e) is the set of states the reducer    *)
(* accepts for event e: one state, or none when the event is refused.      *)
(*                                                                         *)
(* The four variants of LeaseState share one record:                       *)
(*   phase        Available, Active, EffectFenced or Acknowledged          *)
(*   proof        the worker's proof, NoProof while Available              *)
(*   generation   the generation of the last grant                         *)
(*   at           the latest observation the state represents; 0 when      *)
(*                there is none (real observations are nanoseconds since   *)
(*                the epoch, so they are positive)                         *)
(*   expires      the live expiry; 0 while Available                       *)
(*   last_reclaim the lineage of the last reclaim, NoReclaim when none     *)
(* The frozen copy an EffectFenced lease keeps of its active lease is      *)
(* evidence only: its expiry is a lower bound of the live one.             *)
(***************************************************************************)
EXTENDS Naturals

CONSTANTS NoProof, NoReclaim

\* LeaseProof: one worker, one lease identity, one generation.
LeaseProof(worker, id, generation) ==
    [worker |-> worker, id |-> id, generation |-> generation]

initial == [phase |-> "Available", proof |-> NoProof, generation |-> 0,
            at |-> 0, expires |-> 0, last_reclaim |-> NoReclaim]

\* The state an accepted event leads to, as a set: empty when it is refused.
Accept(guard, next) == IF guard THEN {next} ELSE {}

\* require_live_observation: later than the last heartbeat, before the expiry.
require_live_observation(l, at) == at > l.at /\ at < l.expires

\* A grant is the exact next generation, strictly later than all observations.
apply_claim(l, e) ==
    Accept(/\ l.phase = "Available"
           /\ e.at > l.at
           /\ e.expires > e.at
           /\ e.proof.generation = l.generation + 1,
           [l EXCEPT !.phase = "Active", !.proof = e.proof,
                     !.generation = e.proof.generation,
                     !.at = e.at, !.expires = e.expires])

\* A heartbeat of the exact holder, in time, never shortens the expiry.
apply_heartbeat(l, e) ==
    Accept(/\ l.phase \in {"Active", "EffectFenced"}
           /\ e.proof = l.proof
           /\ require_live_observation(l, e.at)
           /\ e.expires > e.at
           /\ e.expires >= l.expires,
           [l EXCEPT !.at = e.at, !.expires = e.expires])

\* Mutant of Released: the holder's proof stays behind.
Released_KeepsProof(l, at) ==
    [l EXCEPT !.phase = "Available", !.at = at, !.expires = 0]

\* Released keeps the generation and the observation: the next grant passes them.
Released(l, at) ==
    [l EXCEPT !.phase = "Available", !.proof = NoProof,
              !.at = at, !.expires = 0]

apply_release(l, e) ==
    Accept(/\ l.phase = "Active"
           /\ e.proof = l.proof
           /\ require_live_observation(l, e.at),
           Released(l, e.at))

\* Mutant of apply_reclaim: the fence is not consulted.
apply_reclaim_Fenced(l, e) ==
    Accept(/\ l.phase \in {"Active", "EffectFenced"}
           /\ e.predecessor = l.proof
           /\ e.predecessor_expires = l.expires
           /\ e.at >= l.expires
           /\ e.expires > e.at
           /\ e.proof.generation = l.proof.generation + 1
           /\ e.proof.id # l.proof.id,
           [l EXCEPT !.phase = "Active", !.proof = e.proof,
                     !.generation = e.proof.generation,
                     !.at = e.at, !.expires = e.expires,
                     !.last_reclaim = [predecessor |-> l.proof, expired |-> l.expires,
                                       at |-> e.at, successor |-> e.proof]])

\* A successor takes an expired, unfenced lease over under the next generation
\* and another lease identity; the lineage names the exact predecessor.
apply_reclaim(l, e) ==
    Accept(/\ l.phase = "Active"
           /\ e.predecessor = l.proof
           /\ e.predecessor_expires = l.expires
           /\ e.at >= l.expires
           /\ e.expires > e.at
           /\ e.proof.generation = l.proof.generation + 1
           /\ e.proof.id # l.proof.id,
           [l EXCEPT !.proof = e.proof, !.generation = e.proof.generation,
                     !.at = e.at, !.expires = e.expires,
                     !.last_reclaim = [predecessor |-> l.proof, expired |-> l.expires,
                                       at |-> e.at, successor |-> e.proof]])

\* The fence: the holder's effect starts while its lease is live.
apply_effect_start(l, e) ==
    Accept(/\ l.phase = "Active"
           /\ e.proof = l.proof
           /\ require_live_observation(l, e.at),
           [l EXCEPT !.phase = "EffectFenced", !.at = e.at])

\* The acknowledgement may come after the expiry, never before the last observation.
apply_acknowledgement(l, e) ==
    Accept(/\ l.phase = "EffectFenced"
           /\ e.proof = l.proof
           /\ e.at >= l.at,
           [l EXCEPT !.phase = "Acknowledged", !.at = e.at])

apply(l, e) ==
    CASE e.type = "Claimed"       -> apply_claim(l, e)
      [] e.type = "Heartbeat"     -> apply_heartbeat(l, e)
      [] e.type = "Released"      -> apply_release(l, e)
      [] e.type = "Reclaimed"     -> apply_reclaim(l, e)
      [] e.type = "EffectStarted" -> apply_effect_start(l, e)
      [] e.type = "Acknowledged"  -> apply_acknowledgement(l, e)

\* The lease the next visit of the same item starts from.
for_next_occurrence(l) ==
    Accept(l.phase = "Acknowledged", Released(l, l.at))

\* The events, as their constructors build them.
ClaimedEvent(proof, at, expires) ==
    [type |-> "Claimed", proof |-> proof, at |-> at, expires |-> expires]
HeartbeatEvent(proof, at, expires) ==
    [type |-> "Heartbeat", proof |-> proof, at |-> at, expires |-> expires]
ReclaimedEvent(predecessor, predecessor_expires, at, successor, expires) ==
    [type |-> "Reclaimed", predecessor |-> predecessor,
     predecessor_expires |-> predecessor_expires, at |-> at,
     proof |-> successor, expires |-> expires]
BoundEvent(type, proof, at) == [type |-> type, proof |-> proof, at |-> at]
==============================================================================
