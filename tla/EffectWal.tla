----------------------------- MODULE EffectWal -----------------------------
(***************************************************************************)
(* The effect write-ahead log (src/effect_wal.rs) of one logical ledger:   *)
(* a sequence of events and, per effect, its phase.  The log is the value  *)
(* of an authenticated snapshot store, so an operator below is one atomic  *)
(* durable write (SnapshotRegister).                                       *)
(***************************************************************************)
EXTENDS Naturals, Sequences, FiniteSets

CONSTANTS
  Effects,     \* stable effect ids of the ledger
  NoPhase,     \* an effect that is not in the log
  MaxEvents    \* JournalSpec::MAX_RECORDS

ASSUME EffectAssumption ==
  /\ MaxEvents \in Nat \ {0}
  /\ NoPhase \notin {"Planned", "Started", "Observed", "Completed"}

EffectPhase == {"Planned", "Started", "Observed", "Completed"}

\* EffectPhase::follows.
follows(phase, previous) ==
  \/ phase = "Planned" /\ previous = NoPhase
  \/ phase = "Started" /\ previous = "Planned"
  \/ phase = "Observed" /\ previous = "Started"
  \/ phase = "Completed" /\ previous = "Observed"

EmptyWal == [events |-> <<>>, phases |-> [e \in Effects |-> NoPhase]]

transition_ok(wal, effect, phase) ==
  /\ follows(phase, wal.phases[effect])
  /\ Len(wal.events) + 1 <= MaxEvents

transition(wal, effect, phase, data) ==
  [events |-> Append(wal.events, [effect_id |-> effect, phase |-> phase, data |-> data]),
   phases |-> [wal.phases EXCEPT ![effect] = phase]]

\* Replays the events: the phase an effect has before event n.
PhaseBefore(wal, effect, n) ==
  LET mine == {k \in 1..(n - 1) : wal.events[k].effect_id = effect}
  IN IF mine = {} THEN NoPhase
     ELSE wal.events[CHOOSE k \in mine : \A m \in mine : m <= k].phase

validate_effect_state(wal) ==
  /\ wal.events # <<>> /\ Len(wal.events) <= MaxEvents
  /\ \A n \in 1..Len(wal.events) :
       LET event == wal.events[n]
       IN follows(event.phase, PhaseBefore(wal, event.effect_id, n))
  /\ \A e \in Effects : wal.phases[e] = PhaseBefore(wal, e, Len(wal.events) + 1)

\* The newest event of an effect.
LatestEvent(wal, effect) ==
  LET mine == {k \in 1..Len(wal.events) : wal.events[k].effect_id = effect}
  IN wal.events[CHOOSE k \in mine : \A m \in mine : m <= k]

=============================================================================
