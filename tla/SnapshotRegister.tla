-------------------------- MODULE SnapshotRegister --------------------------
(***************************************************************************)
(* What an authenticated snapshot store promises its callers: a register   *)
(* that starts absent, is created once, and is then replaced by one write  *)
(* at a time, each with the next generation and a larger token.  A write   *)
(* is acknowledged only after it is stored, and what was acknowledged is   *)
(* never replaced by something older.  Crashes are not visible: a write    *)
(* interrupted by one has happened or has not.                             *)
(***************************************************************************)
EXTENDS Naturals

CONSTANTS Values, Tokens, Absent

VARIABLES
  stored,        \* the snapshot [generation, token, value], or Absent
  acknowledged   \* the newest generation a caller was told is stored

registerVars == <<stored, acknowledged>>

RegisterInit == stored = Absent /\ acknowledged = 0

Create(token, value) ==
  /\ stored = Absent
  /\ stored' = [generation |-> 1, token |-> token, value |-> value]
  /\ UNCHANGED acknowledged

Write(token, value) ==
  /\ stored # Absent
  /\ token > stored.token
  /\ stored' = [generation |-> stored.generation + 1, token |-> token, value |-> value]
  /\ UNCHANGED acknowledged

Acknowledge ==
  /\ stored # Absent
  /\ acknowledged' = stored.generation
  /\ UNCHANGED stored

RegisterNext ==
  \/ \E token \in Tokens, value \in Values : Create(token, value) \/ Write(token, value)
  \/ Acknowledge

RegisterSpec == RegisterInit /\ [][RegisterNext]_registerVars

=============================================================================
