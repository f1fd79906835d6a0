----------------------------- MODULE RunBudget ------------------------------
(***************************************************************************)
(* The budget of one supervised run (src/supervise_budget.rs) and the      *)
(* dispatches that draw on it (src/supervise/dispatch.rs, part2.rs), over  *)
(* the workspace's rolling ledger.                                         *)
(*                                                                         *)
(* Dispatch threads reserve an estimate, may receive a live grant on top,  *)
(* invoke a provider and settle.  Each operation of RunBudgetLedger holds  *)
(* one mutex, so it is one step; a request that can only be admitted after *)
(* a live grant is returned waits on a condition variable.  The ledger     *)
(* instance is locked while a run has it open; a crash loses the run's     *)
(* memory, and the next open charges what the run left unsettled.          *)
(*                                                                         *)
(* Left out: per-role copies of the totals, reasons and reports, and the   *)
(* evidence bindings of live dispatches.                                   *)
(***************************************************************************)
EXTENDS BudgetLedger

CONSTANTS
  Threads,        \* dispatch threads of a run
  Requests,       \* [tokens, cost]: estimates a thread may ask for
  Measurements,   \* [kind, tokens, cost]: what a provider may report
  LiveLimits,     \* configured caps on a live grant
  SoftTokens, HardTokens, SoftCost, HardCost,   \* RunBudgetLimits, 0 for None
  MaxTokens, MaxCost, Window,                   \* RollingBudgetQuota, 0 for None
  Pools,          \* configured quota pools
  Faults,         \* subset of {"append", "head"}: how persisting may fail
  MaxDuration,    \* BOOLEAN: the run has a maximum duration
  ClockSteps,     \* what one tick may add to the wall clock
  MaxReservations,\* bound: reservations of one run
  MaxTime,        \* bound: wall clock
  MaxSessions     \* bound: times the ledger is opened

Request == [tokens : Nat \ {0}, cost : Nat \cup {None}]
Measurement ==
  [kind : {"reliable", "estimated", "missing", "fake"}, tokens : Nat, cost : Nat \cup {None}]

ASSUME BudgetAssumption ==
  /\ Requests \subseteq Request /\ Measurements \subseteq Measurement
  /\ LiveLimits \subseteq Nat \ {0}
  /\ {SoftTokens, HardTokens, SoftCost, HardCost, MaxTokens, MaxCost, Window} \subseteq Nat
  /\ ClockSteps \subseteq Int /\ MaxDuration \in BOOLEAN
  /\ MaxRecords \in Nat /\ MaxReservations \in Nat /\ MaxTime \in Nat /\ MaxSessions \in Nat

VARIABLES
  journal,   \* durable records of the ledger
  events,    \* the open handle's events
  handle,    \* "closed", "recovering", "latching" (both replaying an open) or "open"
  session,   \* number of opens so far, the random session id
  st,        \* LedgerState of the run
  threads,   \* [Threads -> [pc, req, id]]
  expired,   \* the run's maximum duration has passed
  now,       \* wall clock
  overrun,   \* auxiliary: tokens charged beyond what was held, in this run
  wentBack,  \* auxiliary: the wall clock has stepped back
  stale      \* auxiliary: a run wrote on after a record it does not know it wrote

durableVars == <<journal, events, stale, handle, session>>
budgetVars == <<durableVars, st, threads, expired, now, overrun, wentBack>>

NoRequest == [tokens |-> 0, cost |-> None]
Idle == [pc |-> "idle", req |-> NoRequest, id |-> 0]

LedgerState ==
  [next_reservation_id |-> 1, active |-> {}, consumed_tokens |-> 0, consumed_cost |-> 0,
   reserved_tokens |-> 0, reserved_cost |-> 0, unknown_reserved_costs |-> 0,
   cost_complete |-> TRUE, force_stop |-> FALSE]

has_cost_ceiling == SoftCost # 0 \/ HardCost # 0
has_any_ceiling == SoftTokens # 0 \/ HardTokens # 0 \/ has_cost_ceiling
Quota == MaxTokens # 0 \/ MaxCost # 0

durable_reservation_id(id) == <<session, id>>
Active(id) == CHOOSE r \in st.active : r.id = id

\* Mutant of Held: a settlement gives back the estimate and forgets the grant.
Held_EstimateOnly(r) == r.tokens

\* What a reservation holds: its live grant once issued, else its estimate.
Held(r) == IF r.grant # 0 THEN r.grant ELSE r.tokens
LiveGrants(s) == {r \in s.active : r.grant # 0}

Settled(s) == s.consumed_tokens + s.reserved_tokens

-----------------------------------------------------------------------------
(* Admission.                                                               *)

new_dispatch_allowed(s) ==
  LET cost_known == s.cost_complete /\ s.unknown_reserved_costs = 0
  IN /\ ~s.force_stop
     /\ HardTokens # 0 => Settled(s) < HardTokens
     /\ HardCost # 0 /\ cost_known => s.consumed_cost + s.reserved_cost < HardCost
     /\ ~expired
     /\ has_cost_ceiling => cost_known

CostFits(s, req) ==
  HardCost # 0 => req.cost # None /\ s.consumed_cost + s.reserved_cost + req.cost <= HardCost

TokensFit(s, req) == HardTokens # 0 => Settled(s) + req.tokens <= HardTokens

fits(s, req) == new_dispatch_allowed(s) /\ TokensFit(s, req) /\ CostFits(s, req)

without_live_grant_extras(s) ==
  [s EXCEPT !.reserved_tokens = @ - SumFunction([r \in LiveGrants(s) |-> r.grant - r.tokens])]

\* Mutant of request_waits_for_live_grants: the caller refuses at once.
request_waits_for_live_grants_Never(req) == FALSE

request_waits_for_live_grants(req) ==
  /\ ~st.force_stop
  /\ LiveGrants(st) # {}
  /\ ~(req.cost = None /\ has_cost_ceiling)
  /\ ~fits(st, req)
  /\ fits(without_live_grant_extras(st), req)

\* The run's own active reservations count through reserved_tokens, not through the ledger.
OwnReservations == {durable_reservation_id(r.id) : r \in st.active}

rolling_admission_refusal(s, req) ==
  LET cost == usage_cost(events, Window, now, OwnReservations)
  IN /\ Quota
     /\ \/ any_active_rate_limit(events, now)
        \/ MaxCost # 0 /\ req.cost = None
        \/ /\ MaxTokens # 0
           /\ usage_tokens(events, Window, now, OwnReservations)
                + s.reserved_tokens + req.tokens > MaxTokens
        \/ /\ MaxCost # 0
           /\ cost = None \/ cost + s.reserved_cost + req.cost > MaxCost

\* Refusals of reserve_locked that latch the stop.
LatchingRefusal(req) ==
  \/ req.cost = None /\ has_cost_ceiling
  \/ ~TokensFit(st, req)
  \/ req.cost # None /\ ~CostFits(st, req)
  \/ rolling_admission_refusal(st, req)

\* add_reservation.
Reserved(req) ==
  [st EXCEPT
     !.next_reservation_id = @ + 1,
     !.active = @ \cup {[id |-> st.next_reservation_id, tokens |-> req.tokens,
                         cost |-> req.cost, grant |-> 0, limit |-> 0]},
     !.reserved_tokens = @ + req.tokens,
     !.reserved_cost = @ + Larger(req.cost, 0),
     !.unknown_reserved_costs = IF req.cost = None THEN @ + 1 ELSE @]

-----------------------------------------------------------------------------
(* Persisting.  A list of no or one event, because without a quota there is *)
(* nothing to write.                                                        *)

\* Something is written by a handle whose events lack a record of the journal.
WritesStale(list) == stale' = (stale \/ (list # <<>> /\ journal # events))

Persist(list) ==
  /\ journal' = journal \o list
  /\ events' = events \o list
  /\ WritesStale(list)

CapacityFor(list, pending_after) ==
  list # <<>> => ensure_append_capacity(journal, pending_after)

\* The record is published and the head is not: publish returns before it pushes the event,
\* so the journal holds a record that the handle's events lack.
HeadFails(list, pending_after) ==
  /\ "head" \in Faults
  /\ CapacityFor(list, pending_after)
  /\ journal' = journal \o list
  /\ WritesStale(list)

\* There is no room, or the append fails before the record is published, or after it.
PersistFails(list, pending_after) ==
  /\ list # <<>>
  /\ events' = events
  /\ \/ ~CapacityFor(list, pending_after) /\ UNCHANGED <<journal, stale>>
     \/ "append" \in Faults /\ UNCHANGED <<journal, stale>>
     \/ HeadFails(list, pending_after)

ReservationEvent(req) ==
  BudgetLedgerEvent("reservation", durable_reservation_id(st.next_reservation_id), req.tokens,
    req.cost, IF Cardinality(Pools) = 1 THEN CHOOSE p \in Pools : TRUE ELSE NoPool, now)

persist_rolling_reservation(req) == IF Quota THEN <<ReservationEvent(req)>> ELSE <<>>

Pending == Cardinality(unsettled_reservations(events))

\* persist_rolling_consumption: one terminal event, with the pool when there is one.
persist_rolling_consumption(id, tokens, cost, pool) ==
  LET durable == durable_reservation_id(id)
  IN IF Quota
     THEN <<BudgetLedgerEvent("reconciled", durable, tokens, cost, pool,
              TerminalAt(events, durable, now))>>
     ELSE IF pool # NoPool
          THEN <<BudgetLedgerEvent("pool_consume", durable, tokens, cost, pool, now)>>
          ELSE <<>>

\* admission_block_reasons: a settlement that fills the window stops the run.
admission_block_reasons(evs) ==
  LET cost == usage_cost(evs, Window, now, {})
  IN /\ Quota
     /\ \/ any_active_rate_limit(evs, now)
        \/ MaxTokens # 0 /\ usage_tokens(evs, Window, now, {}) >= MaxTokens
        \/ MaxCost # 0 /\ (cost = None \/ cost >= MaxCost)

-----------------------------------------------------------------------------
(* Operations of dispatch threads.                                          *)

Goto(t, pc, req, id) == threads' = [threads EXCEPT ![t] = [pc |-> pc, req |-> req, id |-> id]]
Ends(t) == threads' = [threads EXCEPT ![t] = Idle]
Moves(t, pc) == threads' = [threads EXCEPT ![t].pc = pc]
Mine(t) == Active(threads[t].id)

Admit(t, req) ==
  LET list == persist_rolling_reservation(req)
  IN \/ /\ CapacityFor(list, Pending + 1)
        /\ Persist(list)
        /\ st' = Reserved(req)
        /\ Goto(t, "reserved", NoRequest, st.next_reservation_id)
     \/ /\ PersistFails(list, Pending + 1)
        /\ Ends(t)
        /\ UNCHANGED st

reserve_locked(t, req) ==
  \/ /\ ~new_dispatch_allowed(st)
     /\ Goto(t, "refused", req, 0)
     /\ UNCHANGED <<journal, events, stale, st>>
  \/ /\ new_dispatch_allowed(st)
     /\ LatchingRefusal(req)
     /\ st' = [st EXCEPT !.force_stop = TRUE]
     /\ Goto(t, "refused", req, 0)
     /\ UNCHANGED <<journal, events, stale>>
  \/ /\ new_dispatch_allowed(st)
     /\ ~LatchingRefusal(req)
     /\ Admit(t, req)

\* reserve_waiting_for_live_grants, up to the first wait.
Ask(t, req) ==
  /\ handle = "open"
  /\ threads[t].pc \in {"idle", "refused"}
  /\ st.next_reservation_id <= MaxReservations
  /\ \/ /\ request_waits_for_live_grants(req)
        /\ Goto(t, "waiting", req, 0)
        /\ UNCHANGED <<journal, events, stale, st>>
     \/ /\ ~request_waits_for_live_grants(req)
        /\ reserve_locked(t, req)
  /\ UNCHANGED <<handle, session, expired, now, overrun, wentBack>>

\* A wakeup of the wait that finds nothing left to wait for.
Wake(t) ==
  /\ threads[t].pc = "waiting"
  /\ ~request_waits_for_live_grants(threads[t].req)
  /\ reserve_locked(t, threads[t].req)
  /\ UNCHANGED <<handle, session, expired, now, overrun, wentBack>>

\* The wait is cancelled or its deadline passes.
GiveUp(t) ==
  /\ threads[t].pc = "waiting"
  /\ Ends(t)
  /\ UNCHANGED <<durableVars, st, expired, now, overrun, wentBack>>

ReplaceMine(t, r) == [st EXCEPT !.active = (@ \ {Mine(t)}) \cup {r}]

configure_live_token_limit(t, limit) ==
  /\ threads[t].pc = "reserved"
  /\ HardTokens # 0
  /\ Mine(t).limit = 0
  /\ limit >= Mine(t).tokens
  /\ st' = ReplaceMine(t, [Mine(t) EXCEPT !.limit = limit])
  /\ UNCHANGED <<durableVars, threads, expired, now, overrun, wentBack>>

\* Mutant of Allowance: what others hold is not taken off the balance.
Allowance_ConsumedOnly(r) ==
  r.tokens + (HardTokens - st.consumed_tokens)
               \div (Cardinality(st.active) - Cardinality(LiveGrants(st)))

\* The uncommitted balance, divided among the reservations that have no grant yet.
Allowance(r) ==
  r.tokens + (HardTokens - Settled(st))
               \div (Cardinality(st.active) - Cardinality(LiveGrants(st)))

GrantTokens(r) == IF r.limit # 0 /\ r.limit < Allowance(r) THEN r.limit ELSE Allowance(r)

live_token_grant(t) ==
  /\ threads[t].pc = "reserved"
  /\ HardTokens # 0
  /\ Settled(st) <= HardTokens
  /\ LET r == Mine(t)
     IN st' = [ReplaceMine(t, [r EXCEPT !.grant = GrantTokens(r)])
                 EXCEPT !.reserved_tokens = @ + (GrantTokens(r) - r.tokens)]
  /\ Moves(t, "granted")
  /\ UNCHANGED <<durableVars, expired, now, overrun, wentBack>>

\* mark_invoked_for_runtime: the provider is about to be started.
Invoke(t) ==
  /\ threads[t].pc \in {"reserved", "granted"}
  /\ ~st.force_stop
  /\ Moves(t, "invoked")
  /\ UNCHANGED <<durableVars, st, expired, now, overrun, wentBack>>

\* LiveTokenGrant::exhaust, from the stream that watches the usage.
Exhaust(t) ==
  /\ threads[t].pc = "invoked"
  /\ Mine(t).grant # 0
  /\ st' = [st EXCEPT !.force_stop = TRUE]
  /\ UNCHANGED <<durableVars, threads, expired, now, overrun, wentBack>>

-----------------------------------------------------------------------------
(* Settlement.                                                              *)

\* reconciliation_charge: reliable usage as reported, anything else at least the estimate.
ChargedTokens(r, m) ==
  CASE m.kind = "reliable" -> m.tokens
    [] m.kind = "estimated" -> Larger(m.tokens, r.tokens)
    [] OTHER -> r.tokens

ChargedCost(r, m) ==
  CASE m.kind = "reliable" /\ m.cost # None -> m.cost
    [] m.kind = "estimated" -> Larger(Larger(m.cost, r.cost), 0)
    [] OTHER -> Larger(r.cost, 0)

CostComplete(r, m) ==
  \/ m.kind = "reliable" /\ m.cost # None
  \/ m.kind = "fake" /\ r.cost # None

StopsForUncertainty(m) ==
  \/ m.kind \in {"estimated", "missing"} /\ has_any_ceiling
  \/ m.kind = "reliable" /\ m.cost = None /\ has_cost_ceiling

\* remove_reservation.
Removed(r) ==
  [st EXCEPT
     !.active = @ \ {r},
     !.reserved_tokens = @ - Held(r),
     !.reserved_cost = @ - Larger(r.cost, 0),
     !.unknown_reserved_costs = IF r.cost = None THEN @ - 1 ELSE @]

\* apply_charge, and the stop when the window is full afterwards.
Charged(r, m, evs) ==
  [Removed(r) EXCEPT
     !.consumed_tokens = @ + ChargedTokens(r, m),
     !.consumed_cost = @ + ChargedCost(r, m),
     !.cost_complete = @ /\ CostComplete(r, m),
     !.force_stop = @ \/ StopsForUncertainty(m) \/ admission_block_reasons(evs)]

SettlementList(r, m, pool) ==
  persist_rolling_consumption(r.id, ChargedTokens(r, m),
    IF CostComplete(r, m) THEN ChargedCost(r, m) ELSE None, pool)

PendingAfterSettlement == IF Quota THEN Pending - 1 ELSE Pending

\* reconcile_with_pool.
reconcile(t, m, pool) ==
  LET r == Mine(t)
      list == SettlementList(r, m, pool)
  IN /\ CapacityFor(list, PendingAfterSettlement)
     /\ Persist(list)
     /\ st' = Charged(r, m, events')
     /\ overrun' = overrun + SaturatingSub(ChargedTokens(r, m), Held(r))
     /\ Ends(t)

ReleaseList(r) == persist_rolling_consumption(r.id, r.tokens, r.cost, NoPool)

\* release: the run gets its reservation back, the workspace is charged for it in full.
release(t) ==
  LET r == Mine(t)
  IN /\ CapacityFor(ReleaseList(r), PendingAfterSettlement)
     /\ Persist(ReleaseList(r))
     /\ st' = [Removed(r) EXCEPT !.force_stop = @ \/ admission_block_reasons(events')]
     /\ Ends(t)
     /\ UNCHANGED overrun

PoolsOf == IF Pools = {} THEN {NoPool} ELSE Pools

\* settle_bound_runtime of a dispatch that may have started.
Settle(t, m, pool) ==
  /\ threads[t].pc = "invoked"
  /\ \/ reconcile(t, m, pool)
     \/ /\ PersistFails(SettlementList(Mine(t), m, pool), PendingAfterSettlement)
        /\ Moves(t, "drop_invoked")
        /\ UNCHANGED <<st, overrun>>
  /\ UNCHANGED <<handle, session, expired, now, wentBack>>

\* A dispatch that was prepared and not started, or invoked and known not to have started.
SettleNotStarted(t) ==
  /\ threads[t].pc \in {"reserved", "granted", "invoked"}
  /\ \/ release(t)
     \/ /\ PersistFails(ReleaseList(Mine(t)), PendingAfterSettlement)
        /\ Moves(t, IF threads[t].pc = "invoked" THEN "drop_invoked" ELSE "drop_reserved")
        /\ UNCHANGED <<st, overrun>>
  /\ UNCHANGED <<handle, session, expired, now, wentBack>>

Missing == [kind |-> "missing", tokens |-> 0, cost |-> None]

\* Drop of DispatchBudgetReservation: one more attempt; when it fails as well the
\* reservation stays active until the process ends.
Drop(t, pool) ==
  /\ \/ threads[t].pc = "drop_invoked" /\ reconcile(t, Missing, pool)
     \/ threads[t].pc = "drop_reserved" /\ release(t)
     \/ /\ \/ /\ threads[t].pc = "drop_invoked"
              /\ PersistFails(SettlementList(Mine(t), Missing, pool), PendingAfterSettlement)
           \/ /\ threads[t].pc = "drop_reserved"
              /\ PersistFails(ReleaseList(Mine(t)), PendingAfterSettlement)
        /\ Ends(t)
        /\ UNCHANGED <<st, overrun>>
  /\ UNCHANGED <<handle, session, expired, now, wentBack>>

-----------------------------------------------------------------------------
(* The life of a run.                                                       *)

\* open_or_create, by a run or by record_bound_provider_error.
OpenLedger ==
  /\ handle = "closed"
  /\ session < MaxSessions
  /\ replay_events_ok(journal)
  /\ events' = journal
  /\ session' = session + 1
  /\ handle' \in {"recovering"} \cup (IF Quota THEN {"latching"} ELSE {})
  /\ UNCHANGED <<journal, stale, st, threads, expired, now, overrun, wentBack>>

\* recover_unsettled_reservations: the reservation is charged in full.
RecoverUnsettled(id) ==
  /\ handle \in {"recovering", "latching"}
  /\ id \in unsettled_reservations(events)
  /\ ensure_append_capacity(journal, Pending - 1)
  /\ LET r == reservation(events, id)
     IN Persist(<<[BudgetLedgerEvent("reconciled", id, r.tokens, r.cost, r.pool,
                     TerminalAt(events, id, now)) EXCEPT !.recovered = TRUE]>>)
  /\ UNCHANGED <<handle, session, st, threads, expired, now, overrun, wentBack>>

Recovered == unsettled_reservations(events) = {}

\* attach_rolling_budget.
Attach ==
  /\ handle = "recovering"
  /\ Recovered
  /\ handle' = "open"
  /\ st' = [LedgerState EXCEPT !.force_stop = admission_block_reasons(events)]
  /\ UNCHANGED <<journal, events, stale, session, threads, expired, now, overrun, wentBack>>

\* record_rate_limited, and the handle is dropped.
LatchRateLimit ==
  /\ handle = "latching"
  /\ Recovered
  /\ ensure_append_capacity(journal, Pending)
  /\ journal' = Append(journal,
       [BudgetLedgerEvent("rate_limited", <<>>, 0, None, NoPool, now)
          EXCEPT !.until = now + Window])
  /\ events' = <<>>
  /\ handle' = "closed"
  /\ UNCHANGED <<stale, session, st, threads, expired, now, overrun, wentBack>>

\* The process ends, with or without dispatches in flight.
Crash ==
  /\ handle # "closed"
  /\ handle' = "closed"
  /\ events' = <<>>
  /\ st' = LedgerState
  /\ threads' = [t \in Threads |-> Idle]
  /\ expired' = FALSE
  /\ overrun' = 0
  /\ UNCHANGED <<journal, stale, session, now, wentBack>>

Expire ==
  /\ MaxDuration /\ handle = "open" /\ ~expired
  /\ expired' = TRUE
  /\ UNCHANGED <<durableVars, st, threads, now, overrun, wentBack>>

Tick ==
  /\ \E d \in ClockSteps :
       /\ now + d \in 0..MaxTime
       /\ now' = now + d
       /\ wentBack' = (wentBack \/ d < 0)
  /\ UNCHANGED <<durableVars, st, threads, expired, overrun>>

BudgetInit ==
  /\ journal = <<>> /\ events = <<>> /\ handle = "closed" /\ session = 0
  /\ st = LedgerState
  /\ threads = [t \in Threads |-> Idle]
  /\ expired = FALSE /\ now = 0 /\ overrun = 0 /\ wentBack = FALSE /\ stale = FALSE

ThreadStep(t) ==
  \/ \E req \in Requests : Ask(t, req)
  \/ Wake(t) \/ GiveUp(t)
  \/ \E limit \in LiveLimits : configure_live_token_limit(t, limit)
  \/ live_token_grant(t)
  \/ Invoke(t) \/ Exhaust(t)
  \/ \E m \in Measurements, pool \in PoolsOf : Settle(t, m, pool)
  \/ SettleNotStarted(t)
  \/ \E pool \in PoolsOf : Drop(t, pool)

BudgetNext ==
  \/ \E t \in Threads : ThreadStep(t)
  \/ OpenLedger
  \/ \E id \in unsettled_reservations(events) : RecoverUnsettled(id)
  \/ Attach \/ LatchRateLimit \/ Crash \/ Expire \/ Tick

BudgetSpec == BudgetInit /\ [][BudgetNext]_budgetVars

-----------------------------------------------------------------------------
(* Properties.                                                              *)

\* Type invariant of the run's budget and of the ledger it writes.
BudgetTypeOK ==
  /\ handle \in {"closed", "recovering", "latching", "open"}
  /\ session \in 0..MaxSessions /\ now \in 0..MaxTime
  /\ {expired, wentBack, stale} \subseteq BOOLEAN /\ overrun \in Nat
  /\ \A t \in Threads :
       /\ threads[t].pc \in {"idle", "refused", "waiting", "reserved", "granted",
                              "invoked", "drop_invoked", "drop_reserved"}
       /\ threads[t].pc \in {"reserved", "granted", "invoked", "drop_invoked", "drop_reserved"}
            => \E r \in st.active : r.id = threads[t].id
  /\ \A r \in st.active : r.id \in 1..(st.next_reservation_id - 1) /\ r.tokens \in Nat
  /\ {st.consumed_tokens, st.reserved_tokens, st.consumed_cost, st.reserved_cost,
      st.unknown_reserved_costs} \subseteq Nat

\* The totals of LedgerState are the sums over the active reservations, whatever grants,
\* settlements, releases and failed settlements did: add_reservation and
\* remove_reservation update them incrementally and a drift would refuse work, or allow
\* it, for the rest of the run.
ReservedIsHeld ==
  /\ st.reserved_tokens = SumFunction([r \in st.active |-> Held(r)])
  /\ st.reserved_cost = SumFunction([r \in st.active |-> Larger(r.cost, 0)])
  /\ st.unknown_reserved_costs = Cardinality({r \in st.active : r.cost = None})

\* RunBudgetLedger: the state has its types and its totals agree with its reservations.
AccountsAgree == BudgetTypeOK /\ ReservedIsHeld

\* Estimates and live grants of all threads together with what was consumed never exceed
\* the hard ceiling, except by what a provider used beyond its own grant.
CommitmentBounded == HardTokens # 0 => Settled(st) <= HardTokens + overrun

\* A request the run's own ceilings refuse for good (the stop latch is set) would not have
\* fitted with every live grant cut back to its estimate either: a competing grant makes a
\* request wait, not fail.  Requests without the price a ceiling needs are refused at once,
\* and the workspace quota counts the grants of other dispatches in full.
NoFalseRefusal ==
  [][\A t \in Threads :
       threads'[t].pc = "refused" /\ threads'[t] # threads[t] /\ ~st.force_stop /\ st'.force_stop
         => LET req == threads'[t].req
            IN \/ req.cost = None /\ has_cost_ceiling
               \/ ~fits(without_live_grant_extras(st), req)
               \/ rolling_admission_refusal(st, req)]_budgetVars

SettledInWindow ==
  {i \in DOMAIN journal : /\ journal[i].kind = "reconciled"
                          /\ journal[i].at >= SaturatingSub(now, Window)}

\* What providers used beyond the reservation they ran under.
Excess ==
  SumFunction([i \in {j \in DOMAIN journal : journal[j].kind = "reconciled"} |->
                 SaturatingSub(journal[i].tokens, reservation(journal, journal[i].id).tokens)])

\* While the wall clock does not step back, the usage of any window and the reservations
\* still unsettled, over all runs and their crashes, stay within the rolling quota except
\* by what providers used beyond their reservations.
RollingWithinQuota ==
  MaxTokens # 0 /\ ~wentBack =>
    SumFunction([i \in SettledInWindow |-> journal[i].tokens])
      + SumFunction([id \in unsettled_reservations(journal) |-> reservation(journal, id).tokens])
      <= MaxTokens + Excess

\* Every unsettled reservation still has room for its terminal event: neither rate-limit
\* latches nor other runs' records can fill the journal before it is settled or recovered,
\* as long as no run writes on after a failed head publication.
CapacityForTerminals ==
  ~stale => Len(journal) + Cardinality(unsettled_reservations(journal)) <= MaxRecords

\* What the ledger wrote, a later open accepts: replay_events refuses duplicates and
\* settlements older than their reservation, and no run could start after a refusal.  This
\* includes the record of an append that failed at the head, when the run stops there.  It
\* does not hold of a run that writes on: its events lack the record, and its retry writes
\* the same id again.
LedgerReplays == ~stale => replay_events_ok(journal)

\* With a rolling quota, a provider runs only under a reservation that is in the journal
\* and unsettled: a crash at any moment leaves a record to charge.
AdmissionPersisted ==
  Quota => \A t \in Threads : threads[t].pc = "invoked" =>
             durable_reservation_id(threads[t].id) \in unsettled_reservations(journal)

\* rolling_admission_refusal over runs and crashes: providers run only under journaled
\* reservations, and what the journal holds stays within the quota.
QuotaKept == AdmissionPersisted /\ RollingWithinQuota

\* reserve_locked: neither the run's ceiling nor, until a run writes on after a failed head
\* publication, the workspace's quota is overcommitted, whatever grants, crashes and other
\* runs do.
LimitsKept == CommitmentBounded /\ (~stale => QuotaKept)

=============================================================================
