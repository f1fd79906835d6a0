---------------------------- MODULE BudgetLedger ----------------------------
(***************************************************************************)
(* The rolling consumption ledger of a workspace (src/budget_ledger.rs):   *)
(* an authenticated journal of reservations, their reconciliations, pool   *)
(* consumption and rate-limit latches, and what is computed from it.       *)
(*                                                                         *)
(* Operators take the sequence of events; RunBudget holds the variables.   *)
(* A cost is a number of cents or None.  The frozen pricing contract and   *)
(* the byte bound (the same inequality as the record bound) are left out,  *)
(* and so is record_consumption, which only tests call.                    *)
(***************************************************************************)
EXTENDS Integers, Sequences, FiniteSets, Functions

CONSTANTS
  MaxRecords,   \* JournalSpec::MAX_RECORDS
  NoPool        \* absence of a quota pool

None == -1      \* Option::None of a cost

Larger(a, b) == IF a >= b THEN a ELSE b
SaturatingSub(a, b) == IF a >= b THEN a - b ELSE 0

BudgetLedgerEvent(kind, id, tokens, cost, pool, at) ==
  [kind |-> kind, id |-> id, tokens |-> tokens, cost |-> cost, pool |-> pool,
   at |-> at, until |-> 0, recovered |-> FALSE]

Entries(events, kind, id) == {i \in DOMAIN events : events[i].kind = kind /\ events[i].id = id}

\* self.reservation(id) of a recorded id: its first reservation event.
reservation(events, id) ==
  events[CHOOSE i \in Entries(events, "reservation", id) :
           \A j \in Entries(events, "reservation", id) : i <= j]

reservation_is_terminal(events, id) == Entries(events, "reconciled", id) # {}

\* The ids of unsettled_reservations.
unsettled_reservations(events) ==
  {id \in {events[i].id : i \in {j \in DOMAIN events : events[j].kind = "reservation"}} :
     ~reservation_is_terminal(events, id)}

\* Mutant of ensure_append_capacity: room for the record alone, none for the terminals.
ensure_append_capacity_RecordOnly(records, pending_after) == Len(records) + 1 <= MaxRecords

\* Room for one more record and for the terminal event of every pending reservation.
ensure_append_capacity(records, pending_after) ==
  Len(records) + 1 + pending_after <= MaxRecords

\* Mutant of TerminalAt: a settlement takes the clock as it is.
TerminalAt_Now(events, id, now) == now

\* A terminal event is never older than its reservation, whatever the clock does.
TerminalAt(events, id, now) == Larger(now, reservation(events, id).at)

-----------------------------------------------------------------------------
(* Projections.                                                             *)

\* Events that usage_in_window_excluding adds up.
Counted(events, window, now, excluded) ==
  {i \in DOMAIN events :
     /\ events[i].at >= SaturatingSub(now, window)
     /\ \/ events[i].kind \in {"reconciled", "pool_consume"}
        \/ /\ events[i].kind = "reservation"
           /\ ~reservation_is_terminal(events, events[i].id)
           /\ events[i].id \notin excluded}

usage_tokens(events, window, now, excluded) ==
  SumFunctionOnSet([i \in DOMAIN events |-> events[i].tokens],
                   Counted(events, window, now, excluded))

\* None as soon as one counted event with tokens has no cost.
usage_cost(events, window, now, excluded) ==
  LET counted == Counted(events, window, now, excluded)
  IN IF \E i \in counted : events[i].cost = None /\ events[i].tokens > 0
     THEN None
     ELSE SumFunction([i \in counted |-> Larger(events[i].cost, 0)])

any_active_rate_limit(events, now) ==
  \E i \in DOMAIN events : events[i].kind = "rate_limited" /\ events[i].until > now

-----------------------------------------------------------------------------
(* What an open accepts.                                                    *)

\* replay_events: one reservation per id, one terminal per reservation, after it and not
\* older; a recovered terminal charges exactly the reservation; one completion per id;
\* and room for the terminals that are still due.
replay_events_ok(events) ==
  /\ \A i, j \in DOMAIN events :
       i # j /\ events[i].kind = events[j].kind /\ events[i].kind # "rate_limited"
         => events[i].id # events[j].id
  /\ \A i \in DOMAIN events : events[i].kind = "reconciled" =>
       \E j \in 1..(i - 1) :
         /\ events[j].kind = "reservation" /\ events[j].id = events[i].id
         /\ events[j].at <= events[i].at
         /\ events[i].recovered =>
              /\ events[i].tokens = events[j].tokens
              /\ events[i].cost = events[j].cost
              /\ events[i].pool = events[j].pool
  /\ Len(events) + Cardinality(unsettled_reservations(events)) <= MaxRecords
=============================================================================
