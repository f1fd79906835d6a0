-------------------------- MODULE RunBudgetProofs ---------------------------
(***************************************************************************)
(* Proofs about the budget of a run and the rolling ledger it writes       *)
(* (RunBudget), in three layers.                                           *)
(*                                                                         *)
(* Memory.  The totals of LedgerState are kept incrementally, so MemoryInv *)
(* says what they are the sums of; with it, that every dispatch under way  *)
(* has a reservation of its own and that a grant covers the estimate it    *)
(* replaces.  The ceiling then holds because a grant is a share of the     *)
(* uncommitted balance.                                                    *)
(*                                                                         *)
(* Journal.  JournalInv ties the journal to the memory: the open handle    *)
(* has read all of it, its ids come from earlier opens or from numbers     *)
(* already given out, and its unsettled reservations are exactly the run's *)
(* own.  Without that tie a settlement could write a second terminal       *)
(* event, or one for a reservation the journal does not know, and the next *)
(* open would refuse it.                                                   *)
(*                                                                         *)
(* Quota.  What is used in the window, and what is owed to unsettled       *)
(* reservations, are sums over the journal; each event changes one of      *)
(* them.  Admission compares the window with the totals in memory, so      *)
(* QuotaInv equates the tokens owed with the estimates held.               *)
(*                                                                         *)
(* A head that fails after its record was published leaves the journal one *)
(* record ahead of the handle (Ahead).  The journal still replays and      *)
(* stays as it is until the run ends, when JournalInv holds again, or the  *)
(* run writes on and is stale.  JournalInv itself, and with it the quota,  *)
(* is proved for runs whose head does not fail ("head" \notin Faults).     *)
(***************************************************************************)
EXTENDS RunBudget, SumTheorems

-----------------------------------------------------------------------------
(* The run's memory.                                                        *)

Reservation ==
  [id : Nat \ {0}, tokens : Nat \ {0}, cost : Nat \cup {None}, grant : Nat, limit : Nat]

LedgerStates ==
  [next_reservation_id : Nat \ {0}, active : SUBSET Reservation, consumed_tokens : Nat,
   consumed_cost : Nat, reserved_tokens : Nat, reserved_cost : Nat,
   unknown_reserved_costs : Nat, cost_complete : BOOLEAN, force_stop : BOOLEAN]

HoldingPc == {"reserved", "granted", "invoked", "drop_invoked", "drop_reserved"}
Pc == {"idle", "refused", "waiting"} \cup HoldingPc
ThreadState == [pc : Pc, req : Request \cup {NoRequest}, id : Nat]

Handles == {"closed", "recovering", "latching", "open"}

Types ==
  /\ handle \in Handles
  /\ session \in 0..MaxSessions /\ now \in 0..MaxTime
  /\ expired \in BOOLEAN /\ wentBack \in BOOLEAN /\ overrun \in Nat
  /\ threads \in [Threads -> ThreadState]
  /\ st \in LedgerStates /\ IsFiniteSet(st.active)

\* Ids are used once, and a grant or a configured limit covers the estimate.
ReservationsWellFormed(s) ==
  /\ \A r \in s.active : /\ r.id < s.next_reservation_id
                         /\ r.limit # 0 => r.limit >= r.tokens
                         /\ r.grant # 0 => r.grant >= r.tokens
  /\ \A r, q \in s.active : r.id = q.id => r = q

\* A dispatch under way has its reservation, which is no other dispatch's.
HoldersHold(th, s) ==
  /\ \A t \in Threads : th[t].pc \in HoldingPc =>
       \E r \in s.active : r.id = th[t].id /\ (th[t].pc = "reserved" => r.grant = 0)
  /\ \A t, u \in Threads :
       th[t].pc \in HoldingPc /\ th[u].pc \in HoldingPc /\ t # u => th[t].id # th[u].id
  /\ \A t \in Threads : th[t].pc = "waiting" => th[t].req \in Requests

\* Between runs nothing is held.
ClosedIsEmpty ==
  handle # "open" => st = LedgerState /\ \A t \in Threads : threads[t] = Idle

HeldBy(A) == SumFunction([r \in A |-> Held(r)])
CostBy(A) == SumFunction([r \in A |-> Larger(r.cost, 0)])
Unpriced(A) == {r \in A : r.cost = None}

TotalsAgree(s) ==
  /\ s.reserved_tokens = HeldBy(s.active)
  /\ s.reserved_cost = CostBy(s.active)
  /\ s.unknown_reserved_costs = Cardinality(Unpriced(s.active))

Bounded(s, o) == HardTokens # 0 => Settled(s) <= HardTokens + o

MemoryInv ==
  /\ Types /\ ReservationsWellFormed(st) /\ HoldersHold(threads, st) /\ ClosedIsEmpty
  /\ TotalsAgree(st) /\ Bounded(st, overrun)

-----------------------------------------------------------------------------
(* The journal.                                                             *)

Kinds == {"reservation", "reconciled", "pool_consume", "rate_limited"}
EventId == (Nat \X Nat) \cup {<<>>}
PoolNames == Pools \cup {NoPool}

LedgerEvent ==
  [kind : Kinds, id : EventId, tokens : Nat, cost : Nat \cup {None}, pool : PoolNames,
   at : Nat, until : Nat, recovered : BOOLEAN]

\* The open handle has seen all there is.
HandleIsCurrent ==
  /\ handle = "closed" => events = <<>>
  /\ handle # "closed" => events = journal

\* Ids of the journal come from this or an earlier open, and a number given out before.
IdsAreOld ==
  \A i \in DOMAIN journal : journal[i].kind # "rate_limited" =>
    /\ journal[i].id \in Nat \X Nat
    /\ journal[i].id[1] <= session
    /\ handle \in {"recovering", "latching"} => journal[i].id[1] < session
    /\ handle = "open" => \/ journal[i].id[1] < session
                          \/ journal[i].id[2] < st.next_reservation_id

\* With a quota the journal holds no bare pool consumption, without one nothing else.
KindsFit ==
  /\ \A i \in DOMAIN journal : Quota <=> journal[i].kind # "pool_consume"
  /\ handle = "latching" => Quota

\* What the open run holds is what its journal says is unsettled.
MemoryIsJournaled ==
  handle = "open" /\ Quota =>
    /\ unsettled_reservations(journal) = OwnReservations
    /\ \A r \in st.active :
         reservation(journal, durable_reservation_id(r.id)).tokens = r.tokens

\* Without a quota a completion is recorded at most once.
CompletionIsNew ==
  handle = "open" /\ ~Quota =>
    \A i \in DOMAIN journal, r \in st.active : journal[i].id # durable_reservation_id(r.id)

JournalInv ==
  /\ journal \in Seq(LedgerEvent)
  /\ HandleIsCurrent /\ IdsAreOld /\ KindsFit /\ MemoryIsJournaled /\ CompletionIsNew
  /\ replay_events_ok(journal)

\* The journal holds a record that the open handle's events lack, and a later open accepts it.
Ahead ==
  /\ handle = "open" /\ events # journal
  /\ journal \in Seq(LedgerEvent) /\ events \in Seq(LedgerEvent)
  /\ replay_events_ok(journal)
  /\ \A i \in DOMAIN journal :
       /\ Quota <=> journal[i].kind # "pool_consume"
       /\ journal[i].kind # "rate_limited"
            => journal[i].id \in Nat \X Nat /\ journal[i].id[1] <= session

EstimatesOf(A) == SumFunction([r \in A |-> r.tokens])
Owed(evs) == SumFunction([id \in unsettled_reservations(evs) |-> reservation(evs, id).tokens])

QuotaInv ==
  /\ RollingWithinQuota
  /\ handle = "open" /\ Quota => Owed(journal) = EstimatesOf(st.active)

-----------------------------------------------------------------------------
(* Constants and sums.                                                      *)

\* What the assumption says of each constant.
LEMMA Constants ==
  /\ HardTokens \in Nat /\ HardCost \in Nat /\ MaxTokens \in Nat /\ MaxCost \in Nat
  /\ Window \in Nat /\ MaxRecords \in Nat /\ MaxTime \in Nat /\ MaxSessions \in Nat
  /\ Requests \subseteq Request /\ Measurements \subseteq Measurement
  /\ LiveLimits \subseteq Nat \ {0} /\ ClockSteps \subseteq Int
BY BudgetAssumption

\* A sum over a set, of a function defined beyond it.
LEMMA SumRestricted ==
  ASSUME NEW S, IsFiniteSet(S), NEW f, NEW g, DOMAIN g = S, IntegerOn(f, S),
         \A x \in S : g[x] = f[x]
  PROVE  SumFunction(g) = SumFunctionOnSet(f, S)
<1>1. SumFunction(g) = SumFunctionOnSet(g, S)
  BY Zenon DEF SumFunction
<1>2. SumFunctionOnSet(f, S) = SumFunctionOnSet(g, S)
  BY SumAgree
<1> QED
  BY <1>1, <1>2

\* Adding to a sum of natural numbers.
LEMMA SumOfMore ==
  ASSUME NEW S, IsFiniteSet(S), NEW f, \A y \in S : f[y] \in Nat, NEW x, f[x] \in Nat
  PROVE  /\ SumFunctionOnSet(f, S) \in Nat
         /\ x \notin S => SumFunctionOnSet(f, S \cup {x}) = SumFunctionOnSet(f, S) + f[x]
<1>1. IntegerOn(f, S)
  BY DEF IntegerOn
<1>2. SumFunctionOnSet(f, S) \in Nat
  BY SumNatural
<1>3. x \notin S => SumFunctionOnSet(f, S \cup {x}) = SumFunctionOnSet(f, S) + f[x]
  BY <1>1, SumAdd
<1> QED
  BY <1>2, <1>3

\* Taking from one.
LEMMA SumOfLess ==
  ASSUME NEW S, IsFiniteSet(S), NEW f, \A y \in S : f[y] \in Nat, NEW x \in S
  PROVE  /\ SumFunctionOnSet(f, S \ {x}) \in Nat
         /\ SumFunctionOnSet(f, S \ {x}) = SumFunctionOnSet(f, S) - f[x]
<1> DEFINE R == S \ {x}
<1>1. IntegerOn(f, S)
  BY DEF IntegerOn
<1>2. IsFiniteSet(R) /\ \A y \in R : f[y] \in Nat
  BY FS_RemoveElement
<1>3. SumFunctionOnSet(f, R) \in Nat
  BY <1>2, SumNatural
<1>4. SumFunctionOnSet(f, S) = f[x] + SumFunctionOnSet(f, R)
  BY <1>1, SumRemove
<1> QED
  BY <1>3, <1>4

HeldTokens == [r \in Reservation |-> Held(r)]
KnownCost == [r \in Reservation |-> Larger(r.cost, 0)]
Estimated == [r \in Reservation |-> r.tokens]

\* What a reservation holds, costs and was estimated at.
LEMMA ReservationValues ==
  ASSUME NEW r \in Reservation
  PROVE  /\ HeldTokens[r] = Held(r) /\ Held(r) \in Nat
         /\ KnownCost[r] = Larger(r.cost, 0) /\ Larger(r.cost, 0) \in Nat
         /\ Estimated[r] = r.tokens /\ r.tokens \in Nat
BY DEF HeldTokens, KnownCost, Estimated, Reservation, Held, Larger, None

\* The totals as sums over a set.
LEMMA TotalsAreSums ==
  ASSUME NEW A \in SUBSET Reservation, IsFiniteSet(A)
  PROVE  /\ HeldBy(A) = SumFunctionOnSet(HeldTokens, A)
         /\ CostBy(A) = SumFunctionOnSet(KnownCost, A)
         /\ EstimatesOf(A) = SumFunctionOnSet(Estimated, A)
<1>1. /\ IntegerOn(HeldTokens, A) /\ IntegerOn(KnownCost, A) /\ IntegerOn(Estimated, A)
  BY ReservationValues DEF IntegerOn
<1>2. HeldBy(A) = SumFunctionOnSet(HeldTokens, A)
  <2> DEFINE g == [r \in A |-> Held(r)]
  <2>1. DOMAIN g = A /\ \A r \in A : g[r] = HeldTokens[r]
    BY ReservationValues
  <2> HIDE DEF g
  <2>2. SumFunction(g) = SumFunctionOnSet(HeldTokens, A)
    BY <1>1, <2>1, SumRestricted
  <2> QED
    BY <2>2 DEF HeldBy, g
<1>3. CostBy(A) = SumFunctionOnSet(KnownCost, A)
  <2> DEFINE g == [r \in A |-> Larger(r.cost, 0)]
  <2>1. DOMAIN g = A /\ \A r \in A : g[r] = KnownCost[r]
    BY ReservationValues
  <2> HIDE DEF g
  <2>2. SumFunction(g) = SumFunctionOnSet(KnownCost, A)
    BY <1>1, <2>1, SumRestricted
  <2> QED
    BY <2>2 DEF CostBy, g
<1>4. EstimatesOf(A) = SumFunctionOnSet(Estimated, A)
  <2> DEFINE g == [r \in A |-> r.tokens]
  <2>1. DOMAIN g = A /\ \A r \in A : g[r] = Estimated[r]
    BY ReservationValues
  <2> HIDE DEF g
  <2>2. SumFunction(g) = SumFunctionOnSet(Estimated, A)
    BY <1>1, <2>1, SumRestricted
  <2> QED
    BY <2>2 DEF EstimatesOf, g
<1> QED
  BY <1>2, <1>3, <1>4

\* One reservation more or less in the totals.
LEMMA TotalsChange ==
  ASSUME NEW A \in SUBSET Reservation, IsFiniteSet(A), NEW r \in Reservation
  PROVE  /\ HeldBy(A) \in Nat /\ CostBy(A) \in Nat /\ EstimatesOf(A) \in Nat
         /\ r \notin A => /\ HeldBy(A \cup {r}) = HeldBy(A) + Held(r)
                          /\ CostBy(A \cup {r}) = CostBy(A) + Larger(r.cost, 0)
                          /\ EstimatesOf(A \cup {r}) = EstimatesOf(A) + r.tokens
         /\ r \in A => /\ HeldBy(A \ {r}) = HeldBy(A) - Held(r)
                       /\ CostBy(A \ {r}) = CostBy(A) - Larger(r.cost, 0)
                       /\ EstimatesOf(A \ {r}) = EstimatesOf(A) - r.tokens
                       /\ HeldBy(A \ {r}) \in Nat /\ CostBy(A \ {r}) \in Nat
                       /\ EstimatesOf(A \ {r}) \in Nat
<1> DEFINE More == A \cup {r}
           Less == A \ {r}
<1>1. /\ More \in SUBSET Reservation /\ IsFiniteSet(More)
      /\ Less \in SUBSET Reservation /\ IsFiniteSet(Less)
  BY FS_AddElement, FS_RemoveElement
<1>2. \A q \in Reservation :
        HeldTokens[q] \in Nat /\ KnownCost[q] \in Nat /\ Estimated[q] \in Nat
  BY ReservationValues
<1>3. /\ HeldBy(A) = SumFunctionOnSet(HeldTokens, A)
      /\ CostBy(A) = SumFunctionOnSet(KnownCost, A)
      /\ EstimatesOf(A) = SumFunctionOnSet(Estimated, A)
  BY TotalsAreSums
<1>4. /\ HeldBy(More) = SumFunctionOnSet(HeldTokens, More)
      /\ CostBy(More) = SumFunctionOnSet(KnownCost, More)
      /\ EstimatesOf(More) = SumFunctionOnSet(Estimated, More)
  BY <1>1, TotalsAreSums
<1>5. /\ HeldBy(Less) = SumFunctionOnSet(HeldTokens, Less)
      /\ CostBy(Less) = SumFunctionOnSet(KnownCost, Less)
      /\ EstimatesOf(Less) = SumFunctionOnSet(Estimated, Less)
  BY <1>1, TotalsAreSums
<1>6. /\ HeldBy(A) \in Nat
      /\ r \notin A => HeldBy(More) = HeldBy(A) + Held(r)
      /\ r \in A => HeldBy(Less) = HeldBy(A) - Held(r) /\ HeldBy(Less) \in Nat
  <2>1. HeldTokens[r] \in Nat /\ \A q \in A : HeldTokens[q] \in Nat
    BY <1>2
  <2>2. SumFunctionOnSet(HeldTokens, A) \in Nat
    BY <2>1, SumOfMore
  <2>3. r \notin A => SumFunctionOnSet(HeldTokens, More) = SumFunctionOnSet(HeldTokens, A) + HeldTokens[r]
    BY <2>1, SumOfMore
  <2>4. r \in A => /\ SumFunctionOnSet(HeldTokens, Less) \in Nat
                   /\ SumFunctionOnSet(HeldTokens, Less) = SumFunctionOnSet(HeldTokens, A) - HeldTokens[r]
    BY <2>1, SumOfLess
  <2> QED
    BY <2>2, <2>3, <2>4, <1>3, <1>4, <1>5, ReservationValues
<1>7. /\ CostBy(A) \in Nat
      /\ r \notin A => CostBy(More) = CostBy(A) + Larger(r.cost, 0)
      /\ r \in A => CostBy(Less) = CostBy(A) - Larger(r.cost, 0) /\ CostBy(Less) \in Nat
  <2>1. KnownCost[r] \in Nat /\ \A q \in A : KnownCost[q] \in Nat
    BY <1>2
  <2>2. SumFunctionOnSet(KnownCost, A) \in Nat
    BY <2>1, SumOfMore
  <2>3. r \notin A => SumFunctionOnSet(KnownCost, More) = SumFunctionOnSet(KnownCost, A) + KnownCost[r]
    BY <2>1, SumOfMore
  <2>4. r \in A => /\ SumFunctionOnSet(KnownCost, Less) \in Nat
                   /\ SumFunctionOnSet(KnownCost, Less) = SumFunctionOnSet(KnownCost, A) - KnownCost[r]
    BY <2>1, SumOfLess
  <2> QED
    BY <2>2, <2>3, <2>4, <1>3, <1>4, <1>5, ReservationValues
<1>8. /\ EstimatesOf(A) \in Nat
      /\ r \notin A => EstimatesOf(More) = EstimatesOf(A) + r.tokens
      /\ r \in A => EstimatesOf(Less) = EstimatesOf(A) - r.tokens /\ EstimatesOf(Less) \in Nat
  <2>1. Estimated[r] \in Nat /\ \A q \in A : Estimated[q] \in Nat
    BY <1>2
  <2>2. SumFunctionOnSet(Estimated, A) \in Nat
    BY <2>1, SumOfMore
  <2>3. r \notin A => SumFunctionOnSet(Estimated, More) = SumFunctionOnSet(Estimated, A) + Estimated[r]
    BY <2>1, SumOfMore
  <2>4. r \in A => /\ SumFunctionOnSet(Estimated, Less) \in Nat
                   /\ SumFunctionOnSet(Estimated, Less) = SumFunctionOnSet(Estimated, A) - Estimated[r]
    BY <2>1, SumOfLess
  <2> QED
    BY <2>2, <2>3, <2>4, <1>3, <1>4, <1>5, ReservationValues
<1> QED
  BY <1>6, <1>7, <1>8

\* One reservation more or less among those without a price.
LEMMA UnpricedChange ==
  ASSUME NEW A \in SUBSET Reservation, IsFiniteSet(A), NEW r \in Reservation
  PROVE  LET n == Cardinality(Unpriced(A))
         IN /\ n \in Nat
            /\ r \notin A => Cardinality(Unpriced(A \cup {r}))
                               = IF r.cost = None THEN n + 1 ELSE n
            /\ r \in A => /\ Cardinality(Unpriced(A \ {r}))
                               = IF r.cost = None THEN n - 1 ELSE n
                          /\ Cardinality(Unpriced(A \ {r})) \in Nat
<1> DEFINE U == Unpriced(A)
<1>1. U \in SUBSET A /\ (r \in U <=> r \in A /\ r.cost = None)
  BY DEF Unpriced
<1>2. IsFiniteSet(U) /\ Cardinality(U) \in Nat
  BY <1>1, FS_Subset, FS_CardinalityType
<1>3. r \notin A => Unpriced(A \cup {r}) = IF r.cost = None THEN U \cup {r} ELSE U
  BY DEF Unpriced
<1>4. Unpriced(A \ {r}) = U \ {r}
  BY DEF Unpriced
<1>5. IsFiniteSet(U \ {r}) /\ Cardinality(U \ {r}) \in Nat
  BY <1>2, FS_RemoveElement, FS_CardinalityType
<1> HIDE DEF U
<1>6. SUFFICES
        LET n == Cardinality(U)
        IN /\ n \in Nat
           /\ r \notin A => Cardinality(Unpriced(A \cup {r})) = IF r.cost = None THEN n + 1 ELSE n
           /\ r \in A => /\ Cardinality(Unpriced(A \ {r}))
                              = IF r.cost = None THEN n - 1 ELSE n
                         /\ Cardinality(Unpriced(A \ {r})) \in Nat
  BY DEF U
<1>7. ASSUME r \notin A
      PROVE  Cardinality(Unpriced(A \cup {r}))
               = IF r.cost = None THEN Cardinality(U) + 1 ELSE Cardinality(U)
  BY <1>1, <1>2, <1>3, <1>7, FS_AddElement
<1>8. ASSUME r \in A
      PROVE  Cardinality(U \ {r}) = IF r.cost = None THEN Cardinality(U) - 1 ELSE Cardinality(U)
  BY <1>1, <1>2, <1>8, FS_RemoveElement
<1> QED
  BY <1>2, <1>4, <1>5, <1>7, <1>8

-----------------------------------------------------------------------------
(* What the operations do to the run's state.                               *)

StateOK(s) ==
  s \in LedgerStates /\ IsFiniteSet(s.active) /\ ReservationsWellFormed(s) /\ TotalsAgree(s)

\* The state of a run that holds nothing.
LEMMA FreshState ==
  /\ StateOK(LedgerState) /\ LedgerState.active = {} /\ Settled(LedgerState) = 0
  /\ LedgerState.next_reservation_id = 1
<1>1. LedgerState \in LedgerStates
  BY DEF LedgerState, LedgerStates
<1>2. LedgerState.active = {} /\ IsFiniteSet({}) /\ Unpriced({}) = {} /\ Cardinality({}) = 0
  BY FS_EmptySet DEF LedgerState, Unpriced
<1>3. HeldBy({}) = 0 /\ CostBy({}) = 0
  BY <1>2, TotalsAreSums, SumEmpty
<1> QED
  BY <1>1, <1>2, <1>3
     DEF StateOK, ReservationsWellFormed, TotalsAgree, LedgerState, Settled

NewReservation(s, req) ==
  [id |-> s.next_reservation_id, tokens |-> req.tokens, cost |-> req.cost, grant |-> 0, limit |-> 0]

\* A reservation that is made.
LEMMA ReservedState ==
  ASSUME StateOK(st), NEW req \in Request
  PROVE  LET x == Reserved(req)
             r == NewReservation(st, req)
         IN /\ StateOK(x) /\ r \in Reservation /\ r \notin st.active
            /\ x.active = st.active \cup {r}
            /\ x.next_reservation_id = st.next_reservation_id + 1
            /\ Settled(x) = Settled(st) + req.tokens
            /\ x.force_stop = st.force_stop
<1> DEFINE r == NewReservation(st, req)
           x == Reserved(req)
<1>1. st \in LedgerStates /\ IsFiniteSet(st.active) /\ ReservationsWellFormed(st) /\ TotalsAgree(st)
  BY DEF StateOK
<1>2. /\ st.next_reservation_id \in Nat \ {0} /\ st.active \in SUBSET Reservation
      /\ st.reserved_tokens \in Nat /\ st.reserved_cost \in Nat
      /\ st.unknown_reserved_costs \in Nat /\ st.consumed_tokens \in Nat
  BY <1>1 DEF LedgerStates
<1>3. /\ r \in Reservation /\ r.id = st.next_reservation_id /\ r.tokens = req.tokens
      /\ r.cost = req.cost /\ r.grant = 0 /\ r.limit = 0
  BY <1>2 DEF NewReservation, Reservation, Request
<1>4. r \notin st.active
  BY <1>1, <1>2, <1>3 DEF ReservationsWellFormed, Reservation
<1>5. Held(r) = req.tokens /\ req.tokens \in Nat /\ Larger(req.cost, 0) \in Nat
  BY <1>3 DEF Held, Request, Larger, None
<1> DEFINE A == st.active \cup {r}
           n == st.next_reservation_id + 1
           rt == st.reserved_tokens + req.tokens
           rc == st.reserved_cost + Larger(req.cost, 0)
           uc == IF req.cost = None THEN st.unknown_reserved_costs + 1
                                    ELSE st.unknown_reserved_costs
<1>6. /\ n \in Nat \ {0} /\ rt \in Nat /\ rc \in Nat /\ uc \in Nat
      /\ A \in SUBSET Reservation /\ IsFiniteSet(A)
  BY <1>1, <1>2, <1>3, <1>5, FS_AddElement
<1>7. x = [st EXCEPT !.next_reservation_id = n, !.active = A, !.reserved_tokens = rt,
                     !.reserved_cost = rc, !.unknown_reserved_costs = uc]
  BY Zenon DEF Reserved, NewReservation
<1>8. rt = HeldBy(A) /\ rc = CostBy(A) /\ uc = Cardinality(Unpriced(A))
  BY <1>1, <1>2, <1>3, <1>4, <1>5, TotalsChange, UnpricedChange DEF TotalsAgree
<1>9. ReservationsWellFormed([active |-> A, next_reservation_id |-> n])
  BY <1>1, <1>2, <1>3 DEF ReservationsWellFormed, Reservation
<1> HIDE DEF r, x, A, n, rt, rc, uc
<1>10. /\ x \in LedgerStates /\ x.active = A /\ x.next_reservation_id = n
       /\ x.reserved_tokens = rt /\ x.reserved_cost = rc /\ x.unknown_reserved_costs = uc
       /\ x.consumed_tokens = st.consumed_tokens /\ x.force_stop = st.force_stop
  BY <1>1, <1>6, <1>7 DEF LedgerStates
<1>11. StateOK(x)
  BY <1>6, <1>8, <1>9, <1>10 DEF StateOK, ReservationsWellFormed, TotalsAgree
<1>12. Settled(x) = Settled(st) + req.tokens
  BY <1>2, <1>5, <1>10 DEF Settled, rt
<1> QED
  BY <1>3, <1>4, <1>10, <1>11, <1>12 DEF x, r, A, n

\* A reservation that is taken away.
LEMMA RemovedState ==
  ASSUME StateOK(st), NEW r \in st.active
  PROVE  LET x == Removed(r)
         IN /\ StateOK(x)
            /\ x.active = st.active \ {r}
            /\ x.next_reservation_id = st.next_reservation_id
            /\ Held(r) \in Nat /\ Settled(x) = Settled(st) - Held(r)
            /\ x.force_stop = st.force_stop
<1> DEFINE x == Removed(r)
<1>1. st \in LedgerStates /\ IsFiniteSet(st.active) /\ ReservationsWellFormed(st) /\ TotalsAgree(st)
  BY DEF StateOK
<1>2. /\ st.next_reservation_id \in Nat \ {0} /\ st.active \in SUBSET Reservation
      /\ st.reserved_tokens \in Nat /\ st.reserved_cost \in Nat
      /\ st.unknown_reserved_costs \in Nat /\ st.consumed_tokens \in Nat
  BY <1>1 DEF LedgerStates
<1>3. r \in Reservation /\ Held(r) \in Nat /\ Larger(r.cost, 0) \in Nat
  BY <1>2, ReservationValues
<1> DEFINE A == st.active \ {r}
           rt == st.reserved_tokens - Held(r)
           rc == st.reserved_cost - Larger(r.cost, 0)
           uc == IF r.cost = None THEN st.unknown_reserved_costs - 1
                                  ELSE st.unknown_reserved_costs
<1>4. A \in SUBSET Reservation /\ IsFiniteSet(A)
  BY <1>1, <1>2, FS_RemoveElement
<1>5. /\ rt = HeldBy(A) /\ rc = CostBy(A) /\ uc = Cardinality(Unpriced(A))
      /\ rt \in Nat /\ rc \in Nat /\ uc \in Nat
  <2>1. /\ HeldBy(A) = HeldBy(st.active) - Held(r) /\ HeldBy(A) \in Nat
        /\ CostBy(A) = CostBy(st.active) - Larger(r.cost, 0) /\ CostBy(A) \in Nat
    BY <1>1, <1>2, <1>3, TotalsChange
  <2>2. LET n == Cardinality(Unpriced(st.active))
        IN /\ Cardinality(Unpriced(A)) = IF r.cost = None THEN n - 1 ELSE n
           /\ Cardinality(Unpriced(A)) \in Nat
    BY <1>1, <1>2, <1>3, UnpricedChange
  <2> QED
    BY <1>1, <2>1, <2>2 DEF TotalsAgree
<1>6. x = [st EXCEPT !.active = A, !.reserved_tokens = rt,
                     !.reserved_cost = rc, !.unknown_reserved_costs = uc]
  BY Zenon DEF Removed
<1>7. A \subseteq st.active
  OBVIOUS
<1>8. SUFFICES /\ StateOK(x) /\ x.active = A
               /\ x.next_reservation_id = st.next_reservation_id
               /\ Settled(x) = Settled(st) - Held(r)
               /\ x.force_stop = st.force_stop
  BY <1>3
<1> HIDE DEF x, A, rt, rc, uc
<1>10. /\ x \in LedgerStates /\ x.active = A /\ x.next_reservation_id = st.next_reservation_id
       /\ x.reserved_tokens = rt /\ x.reserved_cost = rc /\ x.unknown_reserved_costs = uc
       /\ x.consumed_tokens = st.consumed_tokens /\ x.force_stop = st.force_stop
  BY <1>1, <1>4, <1>5, <1>6 DEF LedgerStates
<1>11. StateOK(x)
  BY <1>1, <1>4, <1>5, <1>7, <1>10 DEF StateOK, ReservationsWellFormed, TotalsAgree
<1>12. Settled(x) = Settled(st) - Held(r)
  BY <1>2, <1>3, <1>10 DEF Settled, rt
<1> QED
  BY <1>10, <1>11, <1>12

\* A stop that is latched.
LEMMA StoppedState ==
  ASSUME NEW s, StateOK(s), NEW b \in BOOLEAN
  PROVE  LET x == [s EXCEPT !.force_stop = b]
         IN /\ StateOK(x) /\ x.active = s.active /\ Settled(x) = Settled(s)
            /\ x.next_reservation_id = s.next_reservation_id
<1> DEFINE x == [s EXCEPT !.force_stop = b]
<1>1. s \in LedgerStates /\ IsFiniteSet(s.active) /\ ReservationsWellFormed(s) /\ TotalsAgree(s)
  BY DEF StateOK
<1>2. /\ x \in LedgerStates /\ x.active = s.active
      /\ x.next_reservation_id = s.next_reservation_id
      /\ x.reserved_tokens = s.reserved_tokens /\ x.reserved_cost = s.reserved_cost
      /\ x.unknown_reserved_costs = s.unknown_reserved_costs
      /\ x.consumed_tokens = s.consumed_tokens
  BY <1>1 DEF LedgerStates
<1> HIDE DEF x
<1>3. StateOK(x) /\ Settled(x) = Settled(s)
  BY <1>1, <1>2 DEF StateOK, ReservationsWellFormed, TotalsAgree, Settled
<1> QED
  BY <1>2, <1>3 DEF x

\* A charge.
LEMMA ChargedState ==
  ASSUME NEW s, StateOK(s), NEW a \in Nat, NEW x \in LedgerStates,
         x.active = s.active, x.next_reservation_id = s.next_reservation_id,
         x.reserved_tokens = s.reserved_tokens, x.reserved_cost = s.reserved_cost,
         x.unknown_reserved_costs = s.unknown_reserved_costs,
         x.consumed_tokens = s.consumed_tokens + a
  PROVE  StateOK(x) /\ Settled(x) = Settled(s) + a
<1>1. StateOK(x)
  BY DEF StateOK, ReservationsWellFormed, TotalsAgree
<1>2. s.consumed_tokens \in Nat /\ s.reserved_tokens \in Nat
  BY DEF StateOK, LedgerStates
<1> QED
  BY <1>1, <1>2 DEF Settled

\* A reservation that is replaced by one with the same id, estimate and price.
LEMMA ReplacedState ==
  ASSUME NEW s, StateOK(s), NEW r \in s.active, NEW q \in Reservation,
         q.id = r.id, q.tokens = r.tokens, q.cost = r.cost,
         q.limit # 0 => q.limit >= q.tokens, q.grant # 0 => q.grant >= q.tokens,
         NEW x \in LedgerStates, x.active = (s.active \ {r}) \cup {q},
         x.next_reservation_id = s.next_reservation_id,
         x.reserved_tokens = s.reserved_tokens + (Held(q) - Held(r)),
         x.reserved_cost = s.reserved_cost,
         x.unknown_reserved_costs = s.unknown_reserved_costs
  PROVE  StateOK(x)
<1> DEFINE R == s.active \ {r}
<1>1. s \in LedgerStates /\ IsFiniteSet(s.active) /\ ReservationsWellFormed(s) /\ TotalsAgree(s)
  BY DEF StateOK
<1>2. /\ s.active \in SUBSET Reservation /\ r \in Reservation
      /\ s.reserved_tokens \in Nat /\ s.reserved_cost \in Nat /\ s.unknown_reserved_costs \in Nat
  BY <1>1 DEF LedgerStates
<1>3. R \in SUBSET Reservation /\ IsFiniteSet(R)
  BY <1>1, <1>2, FS_RemoveElement
<1>4. q \notin R
  BY <1>1 DEF ReservationsWellFormed
<1>5. IsFiniteSet(R \cup {q})
  BY <1>3, FS_AddElement
<1>6. /\ HeldBy(R) = HeldBy(s.active) - Held(r) /\ HeldBy(R) \in Nat
      /\ CostBy(R) = CostBy(s.active) - Larger(r.cost, 0) /\ CostBy(R) \in Nat
  BY <1>1, <1>2, TotalsChange
<1>7. /\ HeldBy(R \cup {q}) = HeldBy(R) + Held(q)
      /\ CostBy(R \cup {q}) = CostBy(R) + Larger(q.cost, 0)
  BY <1>3, <1>4, TotalsChange
<1>8. /\ Held(r) \in Nat /\ Held(q) \in Nat /\ Larger(r.cost, 0) \in Nat
      /\ HeldBy(s.active) \in Nat /\ CostBy(s.active) \in Nat
  BY <1>1, <1>2, ReservationValues DEF TotalsAgree
<1>9. /\ s.reserved_tokens + (Held(q) - Held(r)) = HeldBy(R \cup {q})
      /\ s.reserved_cost = CostBy(R \cup {q})
  BY <1>1, <1>2, <1>6, <1>7, <1>8 DEF TotalsAgree
<1>10. s.unknown_reserved_costs = Cardinality(Unpriced(R \cup {q}))
  <2> DEFINE n == Cardinality(Unpriced(s.active))
             k == Cardinality(Unpriced(R))
  <2>1. k = (IF r.cost = None THEN n - 1 ELSE n) /\ k \in Nat /\ n \in Nat
    BY <1>1, <1>2, UnpricedChange
  <2>2. Cardinality(Unpriced(R \cup {q})) = IF q.cost = None THEN k + 1 ELSE k
    BY <1>3, <1>4, UnpricedChange
  <2>3. s.unknown_reserved_costs = n
    BY <1>1 DEF TotalsAgree
  <2> HIDE DEF n, k
  <2> QED
    BY <2>1, <2>2, <2>3
<1>11. ReservationsWellFormed(x)
  BY <1>1, <1>2 DEF ReservationsWellFormed, Reservation
<1>12. TotalsAgree(x)
  BY <1>9, <1>10 DEF TotalsAgree
<1> QED
  BY <1>5, <1>11, <1>12 DEF StateOK

\* A share of a balance is no more than the balance.
LEMMA ShareFits ==
  ASSUME NEW a \in Nat, NEW n \in Nat \ {0}
  PROVE  a \div n \in Nat /\ a \div n <= a
<1>1. a \div n \in Nat /\ a = n * (a \div n) + (a % n) /\ a % n \in Nat
  OBVIOUS
<1> DEFINE d == a \div n
<1>2. ASSUME NEW e \in Nat PROVE n * e >= e
  BY <1>2
<1>3. n * d >= d
  BY <1>1, <1>2
<1>4. n * d \in Nat
  BY <1>1
<1> QED
  BY <1>1, <1>3, <1>4

\* A live grant lies between the estimate and the estimate and the uncommitted balance.
LEMMA GrantFits ==
  ASSUME StateOK(st), NEW r \in st.active, r.grant = 0, Settled(st) <= HardTokens
  PROVE  /\ GrantTokens(r) \in Nat \ {0} /\ GrantTokens(r) >= r.tokens
         /\ GrantTokens(r) <= r.tokens + (HardTokens - Settled(st))
<1> DEFINE G == LiveGrants(st)
           n == Cardinality(st.active) - Cardinality(G)
           a == HardTokens - Settled(st)
<1>1. st \in LedgerStates /\ IsFiniteSet(st.active) /\ ReservationsWellFormed(st)
  BY DEF StateOK
<1>2. /\ st.active \in SUBSET Reservation /\ r \in Reservation
      /\ st.consumed_tokens \in Nat /\ st.reserved_tokens \in Nat
  BY <1>1 DEF LedgerStates
<1>3. G \in SUBSET (st.active \ {r}) /\ IsFiniteSet(st.active \ {r})
  BY <1>1, FS_RemoveElement DEF LiveGrants
<1>4. /\ Cardinality(G) <= Cardinality(st.active \ {r}) /\ Cardinality(G) \in Nat
      /\ Cardinality(st.active \ {r}) = Cardinality(st.active) - 1
      /\ Cardinality(st.active) \in Nat
  BY <1>1, <1>3, FS_Subset, FS_RemoveElement, FS_CardinalityType
<1>5. n \in Nat \ {0}
  BY <1>4
<1>6. a \in Nat
  BY <1>2, Constants DEF Settled
<1>7. r.tokens \in Nat \ {0} /\ r.limit \in Nat /\ (r.limit # 0 => r.limit >= r.tokens)
  BY <1>1, <1>2 DEF Reservation, ReservationsWellFormed
<1> DEFINE d == a \div n
<1>8. Allowance(r) = r.tokens + d
  BY DEF Allowance
<1> HIDE DEF n, a
<1>9. d \in Nat /\ d <= a
  BY <1>5, <1>6, ShareFits
<1> HIDE DEF d
<1>10. SUFFICES /\ GrantTokens(r) \in Nat \ {0} /\ GrantTokens(r) >= r.tokens
                /\ GrantTokens(r) <= r.tokens + a
  BY DEF a
<1> QED
  BY <1>6, <1>7, <1>8, <1>9 DEF GrantTokens

-----------------------------------------------------------------------------
(* Threads and what they hold.                                              *)

\* The reservation of a dispatch under way.
LEMMA MineIsActive ==
  ASSUME MemoryInv, NEW t \in Threads, threads[t].pc \in HoldingPc
  PROVE  /\ Mine(t) \in st.active /\ Mine(t) \in Reservation /\ Mine(t).id = threads[t].id
         /\ threads[t].pc = "reserved" => Mine(t).grant = 0
<1>1. PICK r \in st.active : r.id = threads[t].id /\ (threads[t].pc = "reserved" => r.grant = 0)
  BY DEF MemoryInv, HoldersHold
<1>2. Mine(t) \in st.active /\ Mine(t).id = threads[t].id
  BY <1>1 DEF Mine, Active
<1>3. Mine(t) = r
  BY <1>1, <1>2 DEF MemoryInv, ReservationsWellFormed
<1>4. Mine(t) \in Reservation
  BY <1>2 DEF MemoryInv, Types, LedgerStates
<1> QED
  BY <1>1, <1>2, <1>3, <1>4

\* A dispatch is under way only while the run is open.
LEMMA OpenWhileBusy ==
  ASSUME MemoryInv, NEW t \in Threads, threads[t].pc # "idle"
  PROVE  handle = "open"
BY DEF MemoryInv, ClosedIsEmpty, Idle

\* A thread that lets go of its reservation, or of nothing.
LEMMA HoldersEnd ==
  ASSUME NEW th \in [Threads -> ThreadState], NEW s, NEW x, HoldersHold(th, s),
         NEW t \in Threads, NEW v \in ThreadState, v.pc \notin HoldingPc,
         v.pc = "waiting" => v.req \in Requests,
         \A r \in s.active : r \in x.active \/ (th[t].pc \in HoldingPc /\ r.id = th[t].id)
  PROVE  /\ [th EXCEPT ![t] = v] \in [Threads -> ThreadState]
         /\ HoldersHold([th EXCEPT ![t] = v], x)
<1> DEFINE w == [th EXCEPT ![t] = v]
<1>1. w \in [Threads -> ThreadState] /\ w[t] = v /\ \A u \in Threads \ {t} : w[u] = th[u]
  OBVIOUS
<1> HIDE DEF w
<1>2. ASSUME NEW u \in Threads, w[u].pc \in HoldingPc
      PROVE  \E r \in x.active : r.id = w[u].id /\ (w[u].pc = "reserved" => r.grant = 0)
  <2>1. u # t /\ w[u] = th[u]
    BY <1>1, <1>2
  <2>2. PICK r \in s.active : r.id = th[u].id /\ (th[u].pc = "reserved" => r.grant = 0)
    BY <1>2, <2>1 DEF HoldersHold
  <2>3. r \in x.active
    BY <1>2, <2>1, <2>2 DEF HoldersHold
  <2> QED
    BY <2>1, <2>2, <2>3
<1>3. HoldersHold(w, x)
  BY <1>1, <1>2 DEF HoldersHold
<1> QED
  BY <1>1, <1>3 DEF w

\* A thread that receives a new reservation.
LEMMA HoldersBegin ==
  ASSUME NEW th \in [Threads -> ThreadState], NEW s, NEW x, HoldersHold(th, s),
         NEW t \in Threads, NEW v \in ThreadState, v.pc = "reserved",
         NEW r, r.id = v.id, r.grant = 0, x.active = s.active \cup {r},
         \A q \in s.active : q.id # v.id
  PROVE  /\ [th EXCEPT ![t] = v] \in [Threads -> ThreadState]
         /\ HoldersHold([th EXCEPT ![t] = v], x)
<1> DEFINE w == [th EXCEPT ![t] = v]
<1>1. w \in [Threads -> ThreadState] /\ w[t] = v /\ \A u \in Threads \ {t} : w[u] = th[u]
  OBVIOUS
<1> HIDE DEF w
<1>2. ASSUME NEW u \in Threads, w[u].pc \in HoldingPc
      PROVE  \E q \in x.active : q.id = w[u].id /\ (w[u].pc = "reserved" => q.grant = 0)
  BY <1>1, <1>2 DEF HoldersHold
<1>3. ASSUME NEW u \in Threads \ {t}, w[u].pc \in HoldingPc
      PROVE  w[u].id # v.id
  BY <1>1, <1>3 DEF HoldersHold
<1>4. HoldersHold(w, x)
  BY <1>1, <1>2, <1>3 DEF HoldersHold
<1> QED
  BY <1>1, <1>4 DEF w

\* A thread that goes on with its reservation.
LEMMA HoldersMove ==
  ASSUME NEW th \in [Threads -> ThreadState], NEW s, NEW x, HoldersHold(th, s),
         NEW t \in Threads, th[t].pc \in HoldingPc, NEW p \in HoldingPc,
         \A r \in s.active : \E q \in x.active :
           q.id = r.id /\ (q = r \/ (r.id = th[t].id /\ (p = "reserved" => q.grant = 0)))
  PROVE  /\ [th EXCEPT ![t].pc = p] \in [Threads -> ThreadState]
         /\ (p = "reserved" => th[t].pc = "reserved") => HoldersHold([th EXCEPT ![t].pc = p], x)
<1> DEFINE w == [th EXCEPT ![t].pc = p]
<1>1. th[t] \in ThreadState /\ p \in Pc
  BY DEF Pc
<1>2. [th[t] EXCEPT !.pc = p] \in ThreadState /\ [th[t] EXCEPT !.pc = p].pc = p
      /\ [th[t] EXCEPT !.pc = p].id = th[t].id
  BY <1>1 DEF ThreadState
<1>3. w = [th EXCEPT ![t] = [th[t] EXCEPT !.pc = p]]
  BY Zenon
<1>4. /\ w \in [Threads -> ThreadState] /\ w[t].pc = p /\ w[t].id = th[t].id
      /\ \A u \in Threads \ {t} : w[u] = th[u]
  BY <1>2, <1>3
<1> HIDE DEF w
<1>5. SUFFICES ASSUME p = "reserved" => th[t].pc = "reserved" PROVE HoldersHold(w, x)
  BY <1>4 DEF w
<1>6. ASSUME NEW u \in Threads, w[u].pc \in HoldingPc
      PROVE  \E q \in x.active : q.id = w[u].id /\ (w[u].pc = "reserved" => q.grant = 0)
  <2>1. th[u].pc \in HoldingPc /\ w[u].id = th[u].id
    BY <1>4, <1>6
  <2>2. PICK r \in s.active : r.id = th[u].id /\ (th[u].pc = "reserved" => r.grant = 0)
    BY <2>1 DEF HoldersHold
  <2>3. PICK q \in x.active :
          q.id = r.id /\ (q = r \/ (r.id = th[t].id /\ (p = "reserved" => q.grant = 0)))
    BY <2>2
  <2>4. r.id = th[t].id => u = t
    <3>1. \A a, b \in Threads :
            th[a].pc \in HoldingPc /\ th[b].pc \in HoldingPc /\ a # b => th[a].id # th[b].id
      BY Zenon DEF HoldersHold
    <3> QED
      BY <2>1, <2>2, <3>1
  <2>5. w[u].pc = "reserved" => q.grant = 0
    <3>1. CASE u = t
      BY <1>4, <1>5, <2>2, <2>3, <3>1
    <3>2. CASE u # t
      BY <1>4, <2>2, <2>3, <2>4, <3>2
    <3> QED
      BY <3>1, <3>2
  <2> QED
    BY <2>1, <2>2, <2>3, <2>5
<1>7. \A u \in Threads : /\ w[u].pc \in HoldingPc => th[u].pc \in HoldingPc
                         /\ w[u].id = th[u].id
                         /\ w[u].pc = "waiting" => w[u] = th[u]
  BY <1>4 DEF HoldingPc
<1> QED
  BY <1>6, <1>7 DEF HoldersHold

\* What an operation of a dispatch thread must leave for the invariant to hold.
LEMMA DispatchKeeps ==
  ASSUME MemoryInv, handle = "open", UNCHANGED <<handle, session, expired, now, wentBack>>,
         StateOK(st'), Bounded(st', overrun'), overrun' \in Nat,
         threads' \in [Threads -> ThreadState], HoldersHold(threads', st')
  PROVE  MemoryInv'
<1>1. Types'
  BY DEF MemoryInv, Types, StateOK
<1>2. ReservationsWellFormed(st)' /\ TotalsAgree(st)'
  BY DEF StateOK, ReservationsWellFormed, TotalsAgree
<1>3. ClosedIsEmpty'
  BY DEF ClosedIsEmpty
<1> QED
  BY <1>1, <1>2, <1>3 DEF MemoryInv

-----------------------------------------------------------------------------
(* Every step keeps the run's memory consistent.                            *)

\* The parts of the invariant the lemmas above ask for.
LEMMA MemoryParts ==
  ASSUME MemoryInv
  PROVE  /\ StateOK(st) /\ Bounded(st, overrun) /\ overrun \in Nat
         /\ threads \in [Threads -> ThreadState] /\ HoldersHold(threads, st)
         /\ Settled(st) \in Nat /\ st.force_stop \in BOOLEAN
BY DEF MemoryInv, Types, StateOK, LedgerStates, Settled

\* Thread states the operations write.
LEMMA ThreadStates ==
  ASSUME NEW req \in Requests, NEW n \in Nat
  PROVE  /\ Idle \in ThreadState /\ Idle.pc = "idle"
         /\ [pc |-> "refused", req |-> req, id |-> 0] \in ThreadState
         /\ [pc |-> "waiting", req |-> req, id |-> 0] \in ThreadState
         /\ [pc |-> "reserved", req |-> NoRequest, id |-> n] \in ThreadState
         /\ {"idle", "refused", "waiting"} \cap HoldingPc = {}
BY Constants DEF ThreadState, Idle, Pc, HoldingPc

\* A refused or admitted request.
LEMMA ReserveKeeps ==
  ASSUME MemoryInv, handle = "open", NEW t \in Threads, NEW req \in Requests,
         threads[t].pc \notin HoldingPc, reserve_locked(t, req),
         UNCHANGED <<handle, session, expired, now, overrun, wentBack>>
  PROVE  MemoryInv'
<1>0. /\ StateOK(st) /\ Bounded(st, overrun) /\ overrun \in Nat
      /\ threads \in [Threads -> ThreadState] /\ HoldersHold(threads, st)
      /\ Settled(st) \in Nat /\ req \in Request
  BY MemoryParts, Constants
<1> DEFINE refused == [pc |-> "refused", req |-> req, id |-> 0]
<1>a. /\ refused \in ThreadState /\ refused.pc \notin HoldingPc /\ refused.pc # "waiting"
      /\ Idle \in ThreadState /\ Idle.pc \notin HoldingPc /\ Idle.pc # "waiting"
  BY ThreadStates DEF HoldingPc
<1>1. CASE Goto(t, "refused", req, 0) /\ UNCHANGED st
  <2>1. threads' = [threads EXCEPT ![t] = refused]
    BY <1>1 DEF Goto
  <2> HIDE DEF refused
  <2>2. threads' \in [Threads -> ThreadState] /\ HoldersHold(threads', st)
    BY <1>0, <1>a, <2>1, HoldersEnd
  <2> QED
    BY <1>0, <1>1, <2>2, DispatchKeeps
<1>2. CASE Goto(t, "refused", req, 0) /\ st' = [st EXCEPT !.force_stop = TRUE]
  <2>1. threads' = [threads EXCEPT ![t] = refused]
    BY <1>2 DEF Goto
  <2> HIDE DEF refused
  <2>2. StateOK(st') /\ st'.active = st.active /\ Settled(st') = Settled(st)
    BY <1>0, <1>2, StoppedState
  <2>3. threads' \in [Threads -> ThreadState] /\ HoldersHold(threads', st')
    BY <1>0, <1>a, <2>1, <2>2, HoldersEnd
  <2>4. Bounded(st', overrun')
    BY <1>0, <2>2 DEF Bounded
  <2> QED
    BY <1>0, <2>2, <2>3, <2>4, DispatchKeeps
<1>3. CASE /\ st' = Reserved(req) /\ TokensFit(st, req)
           /\ Goto(t, "reserved", NoRequest, st.next_reservation_id)
  <2> DEFINE r == NewReservation(st, req)
             v == [pc |-> "reserved", req |-> NoRequest, id |-> st.next_reservation_id]
  <2>1. threads' = [threads EXCEPT ![t] = v]
    BY <1>3 DEF Goto
  <2>2. /\ StateOK(st') /\ st'.active = st.active \cup {r}
        /\ Settled(st') = Settled(st) + req.tokens
    BY <1>0, <1>3, ReservedState
  <2>3. /\ r.id = st.next_reservation_id /\ r.grant = 0 /\ st.next_reservation_id \in Nat
        /\ \A q \in st.active : q.id # st.next_reservation_id
    BY <1>0 DEF NewReservation, StateOK, LedgerStates, ReservationsWellFormed, Reservation
  <2>4. v \in ThreadState /\ v.pc = "reserved" /\ v.id = st.next_reservation_id
    BY <2>3, ThreadStates
  <2> HIDE DEF v, r
  <2>5. threads' \in [Threads -> ThreadState] /\ HoldersHold(threads', st')
    BY <1>0, <2>1, <2>2, <2>3, <2>4, HoldersBegin
  <2>6. Bounded(st', overrun')
    BY <1>0, <1>3, <2>2, Constants DEF Bounded, TokensFit, Request
  <2> QED
    BY <1>0, <2>2, <2>5, <2>6, DispatchKeeps
<1>4. CASE Ends(t) /\ UNCHANGED st
  <2>1. threads' = [threads EXCEPT ![t] = Idle]
    BY <1>4 DEF Ends
  <2>2. threads' \in [Threads -> ThreadState] /\ HoldersHold(threads', st)
    BY <1>0, <1>a, <2>1, HoldersEnd
  <2> QED
    BY <1>0, <1>4, <2>2, DispatchKeeps
<1> QED
  BY <1>1, <1>2, <1>3, <1>4 DEF reserve_locked, Admit, LatchingRefusal

\* reserve_waiting_for_live_grants.
LEMMA AskKeeps ==
  ASSUME MemoryInv, NEW t \in Threads, NEW req \in Requests, Ask(t, req)
  PROVE  MemoryInv'
<1>0. /\ StateOK(st) /\ Bounded(st, overrun) /\ overrun \in Nat
      /\ threads \in [Threads -> ThreadState] /\ HoldersHold(threads, st)
  BY MemoryParts
<1>1. /\ handle = "open" /\ threads[t].pc \notin HoldingPc
      /\ UNCHANGED <<handle, session, expired, now, overrun, wentBack>>
  BY DEF Ask, HoldingPc
<1>2. CASE reserve_locked(t, req)
  BY <1>1, <1>2, ReserveKeeps
<1>3. CASE Goto(t, "waiting", req, 0) /\ UNCHANGED st
  <2> DEFINE v == [pc |-> "waiting", req |-> req, id |-> 0]
  <2>1. threads' = [threads EXCEPT ![t] = v]
    BY <1>3 DEF Goto
  <2>2. v \in ThreadState /\ v.pc \notin HoldingPc /\ v.req \in Requests
    BY ThreadStates DEF HoldingPc
  <2> HIDE DEF v
  <2>3. threads' \in [Threads -> ThreadState] /\ HoldersHold(threads', st)
    BY <1>0, <2>1, <2>2, HoldersEnd
  <2> QED
    BY <1>0, <1>1, <1>3, <2>3, DispatchKeeps
<1> QED
  BY <1>2, <1>3 DEF Ask

\* The end of a wait.
LEMMA WaitKeeps ==
  ASSUME MemoryInv, NEW t \in Threads, Wake(t) \/ GiveUp(t)
  PROVE  MemoryInv'
<1>0. /\ StateOK(st) /\ Bounded(st, overrun) /\ overrun \in Nat
      /\ threads \in [Threads -> ThreadState] /\ HoldersHold(threads, st)
  BY MemoryParts
<1>1. /\ threads[t].pc = "waiting" /\ threads[t].pc \notin HoldingPc
      /\ UNCHANGED <<handle, session, expired, now, overrun, wentBack>>
  BY DEF Wake, GiveUp, HoldingPc, durableVars
<1>2. handle = "open" /\ threads[t].req \in Requests
  BY <1>0, <1>1, OpenWhileBusy DEF HoldersHold
<1>3. CASE Wake(t)
  <2>1. reserve_locked(t, threads[t].req)
    BY <1>3 DEF Wake
  <2> QED
    BY <1>1, <1>2, <2>1, ReserveKeeps
<1>4. CASE GiveUp(t)
  <2>1. threads' = [threads EXCEPT ![t] = Idle] /\ UNCHANGED st
    BY <1>4 DEF GiveUp, Ends
  <2>2. Idle \in ThreadState /\ Idle.pc \notin HoldingPc /\ Idle.pc # "waiting"
    BY ThreadStates, <1>2 DEF HoldingPc
  <2>3. threads' \in [Threads -> ThreadState] /\ HoldersHold(threads', st)
    BY <1>0, <2>1, <2>2, HoldersEnd
  <2> QED
    BY <1>0, <1>1, <1>2, <2>1, <2>3, DispatchKeeps
<1> QED
  BY <1>3, <1>4

\* A live limit is configured.
LEMMA ConfigureKeeps ==
  ASSUME MemoryInv, NEW t \in Threads, NEW limit \in LiveLimits,
         configure_live_token_limit(t, limit)
  PROVE  MemoryInv'
<1> DEFINE r == Mine(t)
           q == [r EXCEPT !.limit = limit]
           A == (st.active \ {r}) \cup {q}
<1>0. /\ StateOK(st) /\ Bounded(st, overrun) /\ overrun \in Nat /\ Settled(st) \in Nat
      /\ threads \in [Threads -> ThreadState] /\ HoldersHold(threads, st)
  BY MemoryParts
<1>1. /\ threads[t].pc = "reserved" /\ threads[t].pc \in HoldingPc /\ handle = "open"
      /\ limit >= r.tokens /\ st' = [st EXCEPT !.active = A]
      /\ UNCHANGED <<handle, session, threads, expired, now, overrun, wentBack>>
  BY OpenWhileBusy DEF configure_live_token_limit, ReplaceMine, HoldingPc, durableVars
<1>2. r \in st.active /\ r \in Reservation /\ r.id = threads[t].id /\ r.grant = 0
  BY <1>1, MineIsActive
<1>3. /\ q \in Reservation /\ q.id = r.id /\ q.tokens = r.tokens /\ q.cost = r.cost
      /\ q.grant = r.grant /\ q.limit = limit
  BY <1>2, Constants DEF Reservation
<1>4. Held(q) = Held(r) /\ Held(r) \in Nat
  BY <1>2, <1>3, ReservationValues DEF Held
<1> HIDE DEF q
<1>5. A \in SUBSET Reservation
  BY <1>0, <1>3 DEF StateOK, LedgerStates
<1> HIDE DEF A
<1>6. /\ st' \in LedgerStates /\ st'.active = A
      /\ st'.next_reservation_id = st.next_reservation_id
      /\ st'.reserved_tokens = st.reserved_tokens /\ st'.reserved_cost = st.reserved_cost
      /\ st'.unknown_reserved_costs = st.unknown_reserved_costs
      /\ st'.consumed_tokens = st.consumed_tokens /\ st.reserved_tokens \in Nat
  BY <1>0, <1>1, <1>5 DEF StateOK, LedgerStates
<1>7. st'.reserved_tokens = st.reserved_tokens + (Held(q) - Held(r))
  BY <1>4, <1>6
<1>8. StateOK(st')
  <2> HIDE DEF r
  <2> QED
    BY <1>0, <1>1, <1>2, <1>3, <1>6, <1>7, ReplacedState DEF A
<1>9. Settled(st') = Settled(st) /\ Bounded(st', overrun')
  BY <1>0, <1>1, <1>6 DEF Settled, Bounded
<1>10. HoldersHold(threads, st')
  <2> HIDE DEF r
  <2>1. \A p \in st.active : \E o \in st'.active : o.id = p.id /\ (p.grant = 0 => o.grant = 0)
    BY <1>2, <1>3, <1>6 DEF A
  <2> QED
    BY <1>0, <2>1 DEF HoldersHold
<1> QED
  BY <1>0, <1>1, <1>8, <1>9, <1>10, DispatchKeeps

\* A live grant is issued.
LEMMA GrantKeeps ==
  ASSUME MemoryInv, NEW t \in Threads, live_token_grant(t)
  PROVE  MemoryInv'
<1> DEFINE r == Mine(t)
           g == GrantTokens(r)
           q == [r EXCEPT !.grant = g]
           A == (st.active \ {r}) \cup {q}
           rt == st.reserved_tokens + (g - r.tokens)
<1>0. /\ StateOK(st) /\ Bounded(st, overrun) /\ overrun \in Nat /\ Settled(st) \in Nat
      /\ threads \in [Threads -> ThreadState] /\ HoldersHold(threads, st)
  BY MemoryParts
<1>1. /\ threads[t].pc = "reserved" /\ threads[t].pc \in HoldingPc /\ handle = "open"
      /\ Settled(st) <= HardTokens /\ threads' = [threads EXCEPT ![t].pc = "granted"]
      /\ UNCHANGED <<handle, session, expired, now, overrun, wentBack>>
  BY OpenWhileBusy DEF live_token_grant, Moves, HoldingPc, durableVars
<1>2. r \in st.active /\ r \in Reservation /\ r.id = threads[t].id /\ r.grant = 0
  BY <1>1, MineIsActive
<1>3. g \in Nat \ {0} /\ g >= r.tokens /\ g <= r.tokens + (HardTokens - Settled(st))
  BY <1>0, <1>1, <1>2, GrantFits
<1>a. st' = [[st EXCEPT !.active = A] EXCEPT !.reserved_tokens = @ + (g - r.tokens)]
  BY DEF live_token_grant, ReplaceMine
<1> HIDE DEF g
<1>4. /\ q \in Reservation /\ q.id = r.id /\ q.tokens = r.tokens /\ q.cost = r.cost
      /\ q.grant = g /\ q.limit = r.limit
  BY <1>2, <1>3 DEF Reservation
<1>5. Held(q) = g /\ Held(r) = r.tokens /\ r.tokens \in Nat /\ (r.limit # 0 => r.limit >= r.tokens)
  BY <1>0, <1>2, <1>3, <1>4, ReservationValues DEF Held, StateOK, ReservationsWellFormed
<1> HIDE DEF q
<1>6. A \in SUBSET Reservation /\ st.reserved_tokens \in Nat /\ st.consumed_tokens \in Nat
  BY <1>0, <1>4 DEF StateOK, LedgerStates
<1>7. rt \in Nat
  BY <1>3, <1>5, <1>6
<1>8. st' = [st EXCEPT !.active = A, !.reserved_tokens = rt]
  <2> HIDE DEF A
  <2>1. [st EXCEPT !.active = A].reserved_tokens = st.reserved_tokens
    BY <1>0, <1>6 DEF StateOK, LedgerStates
  <2> QED
    BY <1>a, <2>1
<1> HIDE DEF A, rt
<1>9. /\ st' \in LedgerStates /\ st'.active = A
      /\ st'.next_reservation_id = st.next_reservation_id
      /\ st'.reserved_tokens = rt /\ st'.reserved_cost = st.reserved_cost
      /\ st'.unknown_reserved_costs = st.unknown_reserved_costs
      /\ st'.consumed_tokens = st.consumed_tokens
  BY <1>0, <1>6, <1>7, <1>8 DEF StateOK, LedgerStates
<1>10. StateOK(st')
  <2>1. st'.reserved_tokens = st.reserved_tokens + (Held(q) - Held(r))
    BY <1>5, <1>9 DEF rt
  <2> HIDE DEF r
  <2> QED
    BY <1>0, <1>2, <1>3, <1>4, <1>5, <1>9, <2>1, ReplacedState DEF A
<1>11. Bounded(st', overrun')
  BY <1>0, <1>1, <1>3, <1>5, <1>6, <1>9, Constants DEF Bounded, Settled, rt
<1>12. threads' \in [Threads -> ThreadState] /\ HoldersHold(threads', st')
  <2>1. "granted" \in HoldingPc
    BY DEF HoldingPc
  <2>2. \A p \in st.active : \E o \in st'.active :
          o.id = p.id /\ (o = p \/ (p.id = threads[t].id /\ ("granted" = "reserved" => o.grant = 0)))
    <3> HIDE DEF r
    <3> QED
      BY <1>2, <1>4, <1>9 DEF A
  <2> QED
    BY <1>0, <1>1, <2>1, <2>2, HoldersMove
<1> QED
  BY <1>0, <1>1, <1>10, <1>11, <1>12, DispatchKeeps

\* The provider is started, or its stream runs into the grant.
LEMMA InvokeKeeps ==
  ASSUME MemoryInv, NEW t \in Threads, Invoke(t) \/ Exhaust(t)
  PROVE  MemoryInv'
<1>0. /\ StateOK(st) /\ Bounded(st, overrun) /\ overrun \in Nat /\ Settled(st) \in Nat
      /\ threads \in [Threads -> ThreadState] /\ HoldersHold(threads, st)
  BY MemoryParts
<1>1. /\ threads[t].pc \in HoldingPc /\ handle = "open"
      /\ UNCHANGED <<handle, session, expired, now, overrun, wentBack>>
  BY OpenWhileBusy DEF Invoke, Exhaust, HoldingPc, durableVars
<1>2. CASE Invoke(t)
  <2>1. threads' = [threads EXCEPT ![t].pc = "invoked"] /\ UNCHANGED st /\ "invoked" \in HoldingPc
    BY <1>2 DEF Invoke, Moves, HoldingPc
  <2>2. threads' \in [Threads -> ThreadState] /\ HoldersHold(threads', st)
    BY <1>0, <1>1, <2>1, HoldersMove
  <2> QED
    BY <1>0, <1>1, <2>1, <2>2, DispatchKeeps
<1>3. CASE Exhaust(t)
  <2>1. st' = [st EXCEPT !.force_stop = TRUE] /\ UNCHANGED threads
    BY <1>3 DEF Exhaust
  <2>2. StateOK(st') /\ st'.active = st.active /\ Settled(st') = Settled(st)
    BY <1>0, <2>1, StoppedState
  <2>3. Bounded(st', overrun') /\ HoldersHold(threads, st')
    BY <1>0, <1>1, <2>2 DEF Bounded, HoldersHold
  <2> QED
    BY <1>0, <1>1, <2>1, <2>2, <2>3, DispatchKeeps
<1> QED
  BY <1>2, <1>3

\* What a settlement charges.
LEMMA ChargeTypes ==
  ASSUME NEW r \in Reservation, NEW m \in Measurement
  PROVE  ChargedTokens(r, m) \in Nat /\ ChargedCost(r, m) \in Nat
<1>1. /\ r.tokens \in Nat /\ m.tokens \in Nat /\ r.cost \in Nat \cup {-1} /\ m.cost \in Nat \cup {-1}
      /\ m.kind \in {"reliable", "estimated", "missing", "fake"}
  BY DEF Reservation, Measurement, None
<1>2. CASE m.kind = "reliable"
  BY <1>1, <1>2 DEF ChargedTokens, ChargedCost, Larger, None
<1>3. CASE m.kind = "estimated"
  BY <1>1, <1>3 DEF ChargedTokens, ChargedCost, Larger, None
<1>4. CASE m.kind \notin {"reliable", "estimated"}
  BY <1>1, <1>4 DEF ChargedTokens, ChargedCost, Larger, None
<1> QED
  BY <1>2, <1>3, <1>4

\* A dispatch that is settled.
LEMMA ReconcileKeeps ==
  ASSUME MemoryInv, NEW t \in Threads, threads[t].pc \in HoldingPc,
         NEW m \in Measurement, NEW pool, reconcile(t, m, pool),
         UNCHANGED <<handle, session, expired, now, wentBack>>
  PROVE  MemoryInv'
<1> DEFINE r == Mine(t)
           s == Removed(r)
           a == ChargedTokens(r, m)
           c == ChargedCost(r, m)
           ct == s.consumed_tokens + a
           cc == s.consumed_cost + c
           k == s.cost_complete /\ CostComplete(r, m)
           b == s.force_stop \/ StopsForUncertainty(m) \/ admission_block_reasons(events')
<1>0. /\ StateOK(st) /\ Bounded(st, overrun) /\ overrun \in Nat /\ Settled(st) \in Nat
      /\ threads \in [Threads -> ThreadState] /\ HoldersHold(threads, st)
  BY MemoryParts
<1>1. handle = "open"
  BY OpenWhileBusy DEF HoldingPc
<1>2. r \in st.active /\ r \in Reservation /\ r.id = threads[t].id
  BY MineIsActive
<1>3. /\ st' = Charged(r, m, events') /\ overrun' = overrun + SaturatingSub(a, Held(r))
      /\ threads' = [threads EXCEPT ![t] = Idle]
  BY DEF reconcile, Ends
<1>4. st' = [s EXCEPT !.consumed_tokens = ct, !.consumed_cost = cc,
                      !.cost_complete = k, !.force_stop = b]
  BY <1>3, Zenon DEF Charged
<1>5. a \in Nat /\ c \in Nat /\ k \in BOOLEAN /\ b \in BOOLEAN
  BY <1>2, ChargeTypes
<1> HIDE DEF r, a, c, k, b
<1>6. /\ StateOK(s) /\ s.active = st.active \ {r} /\ Held(r) \in Nat
      /\ Settled(s) = Settled(st) - Held(r)
  BY <1>0, <1>2, RemovedState
<1> HIDE DEF s
<1>a. ct \in Nat /\ cc \in Nat
  BY <1>5, <1>6 DEF StateOK, LedgerStates
<1>7. StateOK(st') /\ st'.active = s.active /\ Settled(st') = Settled(s) + a
  <2> HIDE DEF ct, cc
  <2>1. /\ st' \in LedgerStates /\ st'.active = s.active
        /\ st'.next_reservation_id = s.next_reservation_id
        /\ st'.reserved_tokens = s.reserved_tokens /\ st'.reserved_cost = s.reserved_cost
        /\ st'.unknown_reserved_costs = s.unknown_reserved_costs
        /\ st'.consumed_tokens = ct
    BY <1>4, <1>5, <1>6, <1>a DEF StateOK, LedgerStates
  <2> QED
    BY <1>5, <1>6, <2>1, ChargedState DEF ct
<1>8. overrun' \in Nat /\ Bounded(st', overrun')
  BY <1>0, <1>3, <1>5, <1>6, <1>7, Constants DEF Bounded, SaturatingSub
<1>9. Idle \in ThreadState /\ Idle.pc \notin HoldingPc /\ Idle.pc # "waiting"
  BY DEF ThreadState, Idle, HoldingPc, Pc
<1>10. threads' \in [Threads -> ThreadState] /\ HoldersHold(threads', st')
  BY <1>0, <1>2, <1>3, <1>6, <1>7, <1>9, HoldersEnd
<1> QED
  BY <1>1, <1>7, <1>8, <1>10, DispatchKeeps

\* A dispatch that gives its reservation back.
LEMMA ReleaseKeeps ==
  ASSUME MemoryInv, NEW t \in Threads, threads[t].pc \in HoldingPc, release(t),
         UNCHANGED <<handle, session, expired, now, wentBack>>
  PROVE  MemoryInv'
<1> DEFINE r == Mine(t)
           s == Removed(r)
           b == s.force_stop \/ admission_block_reasons(events')
<1>0. /\ StateOK(st) /\ Bounded(st, overrun) /\ overrun \in Nat /\ Settled(st) \in Nat
      /\ threads \in [Threads -> ThreadState] /\ HoldersHold(threads, st)
  BY MemoryParts
<1>1. handle = "open"
  BY OpenWhileBusy DEF HoldingPc
<1>2. r \in st.active /\ r \in Reservation /\ r.id = threads[t].id
  BY MineIsActive
<1>3. /\ st' = [s EXCEPT !.force_stop = b] /\ UNCHANGED overrun
      /\ threads' = [threads EXCEPT ![t] = Idle]
  BY Zenon DEF release, Ends
<1>5. b \in BOOLEAN
  OBVIOUS
<1> HIDE DEF r, b
<1>6. /\ StateOK(s) /\ s.active = st.active \ {r} /\ Held(r) \in Nat
      /\ Settled(s) = Settled(st) - Held(r)
  BY <1>0, <1>2, RemovedState
<1> HIDE DEF s
<1>7. StateOK(st') /\ st'.active = s.active /\ Settled(st') = Settled(s)
  BY <1>3, <1>5, <1>6, StoppedState
<1>8. overrun' \in Nat /\ Bounded(st', overrun')
  BY <1>0, <1>3, <1>6, <1>7, Constants DEF Bounded
<1>9. Idle \in ThreadState /\ Idle.pc \notin HoldingPc /\ Idle.pc # "waiting"
  BY DEF ThreadState, Idle, HoldingPc, Pc
<1>10. threads' \in [Threads -> ThreadState] /\ HoldersHold(threads', st')
  BY <1>0, <1>2, <1>3, <1>6, <1>7, <1>9, HoldersEnd
<1> QED
  BY <1>1, <1>7, <1>8, <1>10, DispatchKeeps

\* A settlement that could not be recorded: the thread goes on to its drop, or ends and
\* leaves the reservation active.
LEMMA UnsettledKeeps ==
  ASSUME MemoryInv, NEW t \in Threads, threads[t].pc \in HoldingPc,
         UNCHANGED <<handle, session, expired, now, wentBack, st, overrun>>,
         Ends(t) \/ Moves(t, "drop_invoked") \/ Moves(t, "drop_reserved")
  PROVE  MemoryInv'
<1>0. /\ StateOK(st) /\ Bounded(st, overrun) /\ overrun \in Nat
      /\ threads \in [Threads -> ThreadState] /\ HoldersHold(threads, st)
  BY MemoryParts
<1>1. handle = "open"
  BY OpenWhileBusy DEF HoldingPc
<1>2. threads' \in [Threads -> ThreadState] /\ HoldersHold(threads', st)
  <2>1. CASE Ends(t)
    <3>1. Idle \in ThreadState /\ Idle.pc \notin HoldingPc /\ Idle.pc # "waiting"
      BY DEF ThreadState, Idle, HoldingPc, Pc
    <3> QED
      BY <1>0, <2>1, <3>1, HoldersEnd DEF Ends
  <2>2. ASSUME NEW p \in {"drop_invoked", "drop_reserved"}, Moves(t, p)
        PROVE  threads' \in [Threads -> ThreadState] /\ HoldersHold(threads', st)
    <3>1. p \in HoldingPc /\ p # "reserved" /\ threads' = [threads EXCEPT ![t].pc = p]
      BY <2>2 DEF HoldingPc, Moves
    <3> QED
      BY <1>0, <3>1, HoldersMove
  <2> QED
    BY <2>1, <2>2
<1> QED
  BY <1>0, <1>1, <1>2, DispatchKeeps

\* The three ends of a dispatch.
LEMMA SettleKeeps ==
  ASSUME MemoryInv, NEW t \in Threads,
         \/ \E m \in Measurements, pool \in PoolsOf : Settle(t, m, pool)
         \/ SettleNotStarted(t)
         \/ \E pool \in PoolsOf : Drop(t, pool)
  PROVE  MemoryInv'
<1>1. ASSUME NEW m \in Measurements, NEW pool \in PoolsOf, Settle(t, m, pool) PROVE MemoryInv'
  <2>1. /\ threads[t].pc \in HoldingPc /\ m \in Measurement
        /\ UNCHANGED <<handle, session, expired, now, wentBack>>
    BY <1>1, Constants DEF Settle, HoldingPc
  <2>2. reconcile(t, m, pool) \/ (Moves(t, "drop_invoked") /\ UNCHANGED <<st, overrun>>)
    BY <1>1 DEF Settle
  <2> QED
    BY <2>1, <2>2, ReconcileKeeps, UnsettledKeeps
<1>2. ASSUME SettleNotStarted(t) PROVE MemoryInv'
  <2>1. threads[t].pc \in HoldingPc /\ UNCHANGED <<handle, session, expired, now, wentBack>>
    BY <1>2 DEF SettleNotStarted, HoldingPc
  <2>2. \/ release(t)
        \/ /\ Moves(t, "drop_invoked") \/ Moves(t, "drop_reserved")
           /\ UNCHANGED <<st, overrun>>
    BY <1>2 DEF SettleNotStarted
  <2> QED
    BY <2>1, <2>2, ReleaseKeeps, UnsettledKeeps
<1>3. ASSUME NEW pool \in PoolsOf, Drop(t, pool) PROVE MemoryInv'
  <2>1. /\ threads[t].pc \in HoldingPc /\ Missing \in Measurement
        /\ UNCHANGED <<handle, session, expired, now, wentBack>>
    BY <1>3 DEF Drop, HoldingPc, Missing, Measurement
  <2>2. \/ reconcile(t, Missing, pool) \/ release(t)
        \/ Ends(t) /\ UNCHANGED <<st, overrun>>
    BY <1>3 DEF Drop
  <2> QED
    BY <2>1, <2>2, ReconcileKeeps, ReleaseKeeps, UnsettledKeeps
<1> QED
  BY <1>1, <1>2, <1>3

\* Opening, recovering, attaching, ending and the passing of time.
LEMMA LifeKeeps ==
  ASSUME MemoryInv,
         \/ OpenLedger \/ Attach \/ LatchRateLimit \/ Crash \/ Expire \/ Tick
         \/ \E id \in unsettled_reservations(events) : RecoverUnsettled(id)
  PROVE  MemoryInv'
<1>0. /\ StateOK(st) /\ Bounded(st, overrun) /\ overrun \in Nat /\ Settled(st) \in Nat
      /\ threads \in [Threads -> ThreadState] /\ HoldersHold(threads, st) /\ ClosedIsEmpty
      /\ handle \in Handles /\ session \in 0..MaxSessions /\ now \in 0..MaxTime
      /\ expired \in BOOLEAN /\ wentBack \in BOOLEAN
  BY MemoryParts DEF MemoryInv, Types
<1>a. ASSUME UNCHANGED <<threads, st, overrun>>, ClosedIsEmpty', handle' \in Handles,
             session' \in 0..MaxSessions, now' \in 0..MaxTime, expired' \in BOOLEAN,
             wentBack' \in BOOLEAN
      PROVE  MemoryInv'
  BY <1>a DEF MemoryInv, Types
<1>1. CASE OpenLedger
  <2>1. /\ handle = "closed" /\ handle' \in {"recovering", "latching"} /\ session' = session + 1
        /\ session < MaxSessions
        /\ UNCHANGED <<st, threads, expired, now, overrun, wentBack>>
    BY <1>1 DEF OpenLedger
  <2>2. session' \in 0..MaxSessions /\ handle' \in Handles
    BY <1>0, <2>1, Constants DEF Handles
  <2>3. ClosedIsEmpty'
    BY <1>0, <2>1 DEF ClosedIsEmpty
  <2> QED
    BY <1>0, <1>a, <2>1, <2>2, <2>3
<1>2. CASE \E id \in unsettled_reservations(events) : RecoverUnsettled(id)
  <2>1. UNCHANGED <<handle, session, st, threads, expired, now, overrun, wentBack>>
    BY <1>2 DEF RecoverUnsettled
  <2> QED
    BY <1>0, <1>a, <2>1 DEF ClosedIsEmpty
<1>3. CASE Attach
  <2> DEFINE b == admission_block_reasons(events)
  <2>1. /\ handle = "recovering" /\ handle' = "open" /\ st' = [LedgerState EXCEPT !.force_stop = b]
        /\ UNCHANGED <<session, threads, expired, now, overrun, wentBack>>
    BY <1>3 DEF Attach
  <2>2. b \in BOOLEAN
    BY DEF admission_block_reasons
  <2> HIDE DEF b
  <2>3. StateOK(st') /\ st'.active = {} /\ Settled(st') = 0
    BY <2>1, <2>2, FreshState, StoppedState
  <2>4. st = LedgerState /\ \A t \in Threads : threads[t] = Idle
    BY <1>0, <2>1 DEF ClosedIsEmpty
  <2>5. HoldersHold(threads, st') /\ Bounded(st', overrun')
    BY <1>0, <2>1, <2>3, <2>4, Constants DEF HoldersHold, Bounded, Idle, HoldingPc
  <2>6. Types'
    BY <1>0, <2>1, <2>3 DEF Types, StateOK, Handles
  <2>7. ReservationsWellFormed(st)' /\ TotalsAgree(st)' /\ ClosedIsEmpty'
    BY <2>1, <2>3 DEF StateOK, ReservationsWellFormed, TotalsAgree, ClosedIsEmpty
  <2> QED
    BY <2>1, <2>5, <2>6, <2>7 DEF MemoryInv
<1>4. CASE LatchRateLimit
  <2>1. /\ handle = "latching" /\ handle' = "closed"
        /\ UNCHANGED <<session, st, threads, expired, now, overrun, wentBack>>
    BY <1>4 DEF LatchRateLimit
  <2>2. ClosedIsEmpty' /\ handle' \in Handles
    BY <1>0, <2>1 DEF ClosedIsEmpty, Handles
  <2> QED
    BY <1>0, <1>a, <2>1, <2>2
<1>5. CASE Crash
  <2>1. /\ handle' = "closed" /\ st' = LedgerState /\ threads' = [t \in Threads |-> Idle]
        /\ expired' = FALSE /\ overrun' = 0 /\ UNCHANGED <<session, now, wentBack>>
    BY <1>5 DEF Crash
  <2>2. StateOK(st') /\ st'.active = {} /\ Settled(st') = 0
    BY <2>1, FreshState
  <2>3. threads' \in [Threads -> ThreadState] /\ \A t \in Threads : threads'[t] = Idle
    BY <2>1 DEF ThreadState, Idle, Pc
  <2>4. HoldersHold(threads', st') /\ Bounded(st', overrun')
    BY <2>1, <2>2, <2>3, Constants DEF HoldersHold, Bounded, Idle, HoldingPc
  <2>5. Types'
    BY <1>0, <2>1, <2>2, <2>3 DEF Types, StateOK, Handles
  <2>6. ReservationsWellFormed(st)' /\ TotalsAgree(st)' /\ ClosedIsEmpty'
    BY <2>1, <2>2, <2>3 DEF StateOK, ReservationsWellFormed, TotalsAgree, ClosedIsEmpty
  <2> QED
    BY <2>4, <2>5, <2>6 DEF MemoryInv
<1>6. CASE Expire
  BY <1>0, <1>a, <1>6 DEF Expire, durableVars, ClosedIsEmpty
<1>7. CASE Tick
  <2>1. PICK d \in ClockSteps :
          now + d \in 0..MaxTime /\ now' = now + d /\ wentBack' = (wentBack \/ d < 0)
    BY <1>7 DEF Tick
  <2>2. UNCHANGED <<handle, session, st, threads, expired, overrun>>
    BY <1>7 DEF Tick, durableVars
  <2>3. wentBack' \in BOOLEAN
    BY <2>1
  <2> QED
    BY <1>0, <1>a, <2>1, <2>2, <2>3 DEF ClosedIsEmpty
<1> QED
  BY <1>1, <1>2, <1>3, <1>4, <1>5, <1>6, <1>7

\* The run's memory stays consistent.
THEOREM BudgetMemory == BudgetSpec => []MemoryInv
<1>1. BudgetInit => MemoryInv
  <2> SUFFICES ASSUME BudgetInit PROVE MemoryInv
    OBVIOUS
  <2>1. /\ handle = "closed" /\ session = 0 /\ st = LedgerState /\ expired = FALSE
        /\ now = 0 /\ overrun = 0 /\ wentBack = FALSE /\ threads = [t \in Threads |-> Idle]
    BY DEF BudgetInit
  <2>2. StateOK(st) /\ st.active = {} /\ Settled(st) = 0
    BY <2>1, FreshState
  <2>3. threads \in [Threads -> ThreadState] /\ \A t \in Threads : threads[t] = Idle
    BY <2>1 DEF ThreadState, Idle, Pc
  <2>4. HoldersHold(threads, st) /\ Bounded(st, overrun)
    BY <2>1, <2>2, <2>3, Constants DEF HoldersHold, Bounded, Idle, HoldingPc
  <2>5. Types
    <3>1. session \in 0..MaxSessions /\ now \in 0..MaxTime /\ overrun \in Nat
      BY <2>1, Constants
    <3>2. handle \in Handles /\ expired \in BOOLEAN /\ wentBack \in BOOLEAN
      BY <2>1 DEF Handles
    <3> QED
      BY <2>2, <2>3, <3>1, <3>2 DEF Types, StateOK
  <2>6. ReservationsWellFormed(st) /\ TotalsAgree(st) /\ ClosedIsEmpty
    BY <2>1, <2>2, <2>3 DEF StateOK, ClosedIsEmpty
  <2> QED
    BY <2>4, <2>5, <2>6 DEF MemoryInv
<1>2. MemoryInv /\ [BudgetNext]_budgetVars => MemoryInv'
  <2> SUFFICES ASSUME MemoryInv, [BudgetNext]_budgetVars PROVE MemoryInv'
    OBVIOUS
  <2>1. CASE UNCHANGED budgetVars
    BY <2>1 DEF budgetVars, durableVars, MemoryInv, Types, ClosedIsEmpty
  <2>2. ASSUME NEW t \in Threads, ThreadStep(t) PROVE MemoryInv'
    BY <2>2, AskKeeps, WaitKeeps, ConfigureKeeps, GrantKeeps, InvokeKeeps, SettleKeeps
       DEF ThreadStep
  <2> QED
    BY <2>1, <2>2, LifeKeeps DEF BudgetNext
<1> QED
  BY <1>1, <1>2, PTL DEF BudgetSpec

\* Once a run wrote on after a record it does not know of, the journal may be anything.
LEMMA StaleStays ==
  ASSUME stale \in BOOLEAN, [BudgetNext]_budgetVars
  PROVE  stale' \in BOOLEAN /\ (stale => stale')
<1>1. ASSUME NEW list, NEW n, PersistFails(list, n) PROVE stale' \in BOOLEAN /\ (stale => stale')
  <2>1. stale' = stale \/ WritesStale(list)
    BY <1>1, Zenon DEF PersistFails, HeadFails
  <2> QED
    BY <2>1 DEF WritesStale
<1>2. ASSUME NEW list, Persist(list) PROVE stale' \in BOOLEAN /\ (stale => stale')
  BY <1>2 DEF Persist, WritesStale
<1>3. ASSUME NEW t, NEW req, reserve_locked(t, req) PROVE stale' \in BOOLEAN /\ (stale => stale')
  BY <1>1, <1>2, <1>3 DEF reserve_locked, Admit
<1>4. ASSUME NEW t \in Threads, ThreadStep(t) PROVE stale' \in BOOLEAN /\ (stale => stale')
  BY <1>1, <1>2, <1>3, <1>4
     DEF ThreadStep, Ask, Wake, GiveUp, configure_live_token_limit, live_token_grant, Invoke,
         Exhaust, Settle, SettleNotStarted, Drop, reconcile, release, durableVars
<1>5. CASE UNCHANGED stale
  BY <1>5
<1> QED
  BY <1>2, <1>4, <1>5
     DEF BudgetNext, OpenLedger, RecoverUnsettled, Attach, LatchRateLimit, Crash, Expire, Tick,
         durableVars, budgetVars

LEMMA BudgetStaleIsBoolean == BudgetSpec => [](stale \in BOOLEAN)
<1>1. BudgetInit => stale \in BOOLEAN
  BY DEF BudgetInit
<1>2. stale \in BOOLEAN /\ [BudgetNext]_budgetVars => (stale \in BOOLEAN)'
  BY StaleStays
<1> QED
  BY <1>1, <1>2, PTL DEF BudgetSpec

\* AccountsAgree: the run's totals are the sums over its active reservations and every
\* dispatch under way finds its reservation, for any number of threads and any ceilings.
THEOREM BudgetAccountsAgree == BudgetSpec => []AccountsAgree
<1>1. MemoryInv /\ stale \in BOOLEAN => AccountsAgree
  <2> SUFFICES ASSUME MemoryInv, stale \in BOOLEAN PROVE AccountsAgree
    OBVIOUS
  <2>1. /\ Types /\ ReservationsWellFormed(st) /\ HoldersHold(threads, st) /\ TotalsAgree(st)
    BY DEF MemoryInv
  <2>2. ReservedIsHeld
    BY <2>1, Zenon DEF ReservedIsHeld, TotalsAgree, HeldBy, CostBy, Unpriced
  <2>3. ASSUME NEW t \in Threads
        PROVE  /\ threads[t].pc \in {"idle", "refused", "waiting", "reserved", "granted",
                                      "invoked", "drop_invoked", "drop_reserved"}
               /\ threads[t].pc \in {"reserved", "granted", "invoked", "drop_invoked",
                                      "drop_reserved"}
                    => \E r \in st.active : r.id = threads[t].id
    <3>1. threads[t].pc \in Pc
      BY <2>1, <2>3 DEF Types, ThreadState
    <3>2. threads[t].pc \in HoldingPc => \E r \in st.active : r.id = threads[t].id
      BY <2>1, <2>3 DEF HoldersHold
    <3> QED
      BY <3>1, <3>2 DEF Pc, HoldingPc
  <2>4. \A r \in st.active : r.id \in 1..(st.next_reservation_id - 1) /\ r.tokens \in Nat
    BY <2>1 DEF Types, LedgerStates, Reservation, ReservationsWellFormed
  <2>5. {st.consumed_tokens, st.reserved_tokens, st.consumed_cost, st.reserved_cost,
         st.unknown_reserved_costs} \subseteq Nat
    BY <2>1 DEF Types, LedgerStates
  <2>6. /\ handle \in {"closed", "recovering", "latching", "open"}
        /\ session \in 0..MaxSessions /\ now \in 0..MaxTime
        /\ {expired, wentBack, stale} \subseteq BOOLEAN /\ overrun \in Nat
    BY <2>1 DEF Types, Handles
  <2> QED
    BY <2>2, <2>3, <2>4, <2>5, <2>6 DEF AccountsAgree, BudgetTypeOK
<1> QED
  BY <1>1, BudgetMemory, BudgetStaleIsBoolean, PTL

\* CommitmentBounded: estimates, live grants and consumption of all threads stay within the
\* hard ceiling, except by what providers used beyond what they held.
THEOREM BudgetCommitmentBounded == BudgetSpec => []CommitmentBounded
<1>1. MemoryInv => CommitmentBounded
  BY DEF MemoryInv, CommitmentBounded, Bounded
<1> QED
  BY <1>1, BudgetMemory, PTL

\* Without live grants there is nothing to cut back.
LEMMA NoExtras ==
  ASSUME MemoryInv, LiveGrants(st) = {}
  PROVE  without_live_grant_extras(st) = st
<1> DEFINE f == [r \in LiveGrants(st) |-> r.grant - r.tokens]
<1>1. SumFunction(f) = 0
  <2>1. DOMAIN f = {}
    OBVIOUS
  <2> HIDE DEF f
  <2> QED
    BY <2>1, SumEmpty, Zenon DEF SumFunction
<1>2. st \in LedgerStates /\ st.reserved_tokens \in Nat
  BY DEF MemoryInv, Types, LedgerStates
<1>3. without_live_grant_extras(st) = [st EXCEPT !.reserved_tokens = @ - SumFunction(f)]
  BY Zenon DEF without_live_grant_extras
<1> HIDE DEF f
<1>4. st.reserved_tokens - SumFunction(f) = st.reserved_tokens
  BY <1>1, <1>2
<1> QED
  BY <1>2, <1>3, <1>4 DEF LedgerStates

\* A refusal that latches the stop comes from reserve_locked, for the thread that asked.
LEMMA LatchingRefusals ==
  ASSUME MemoryInv, BudgetNext, NEW t \in Threads, threads'[t].pc = "refused",
         threads'[t] # threads[t], ~st.force_stop, st'.force_stop
  PROVE  /\ LatchingRefusal(threads'[t].req)
         /\ ~request_waits_for_live_grants(threads'[t].req)
<1>0. threads \in [Threads -> ThreadState]
  BY MemoryParts
<1>a. ASSUME NEW u \in Threads, NEW v, threads' = [threads EXCEPT ![u] = v] PROVE u = t /\ v = threads'[t]
  BY <1>0, <1>a
<1>b. ASSUME NEW u \in Threads, Ends(u) PROVE FALSE
  BY <1>a, <1>b DEF Ends, Idle
<1>c. ASSUME NEW u \in Threads, NEW p, p # "refused", Moves(u, p) PROVE FALSE
  <2>1. threads' = [threads EXCEPT ![u] = [threads[u] EXCEPT !.pc = p]]
    BY <1>c, Zenon DEF Moves
  <2>2. u = t /\ [threads[u] EXCEPT !.pc = p] = threads'[t]
    BY <1>a, <2>1
  <2>3. threads[u] \in ThreadState
    BY <1>0
  <2> QED
    BY <1>c, <2>2, <2>3 DEF ThreadState
<1>d. ASSUME NEW u \in Threads, NEW req, NEW p, NEW n, Goto(u, p, req, n)
      PROVE  u = t /\ p = "refused" /\ threads'[t].req = req
  BY <1>a, <1>d DEF Goto
<1>e. ASSUME NEW u \in Threads, NEW req, reserve_locked(u, req)
      PROVE  threads'[t].req = req /\ LatchingRefusal(req)
  <2>1. ~UNCHANGED st
    OBVIOUS
  <2> QED
    BY <1>b, <1>d, <1>e, <2>1 DEF reserve_locked, Admit
<1>1. ASSUME NEW u \in Threads, ThreadStep(u)
      PROVE  /\ LatchingRefusal(threads'[t].req)
             /\ ~request_waits_for_live_grants(threads'[t].req)
  <2>1. CASE \E req \in Requests : Ask(u, req)
    BY <1>d, <1>e, <2>1 DEF Ask
  <2>2. CASE Wake(u)
    <3>1. reserve_locked(u, threads[u].req) /\ ~request_waits_for_live_grants(threads[u].req)
      BY <2>2 DEF Wake
    <3> QED
      BY <1>e, <3>1
  <2>3. CASE GiveUp(u)
    BY <1>b, <2>3 DEF GiveUp
  <2>4. CASE \E limit \in LiveLimits : configure_live_token_limit(u, limit)
    BY <2>4 DEF configure_live_token_limit
  <2>5. CASE live_token_grant(u)
    BY <1>c, <2>5 DEF live_token_grant
  <2>6. CASE Invoke(u)
    BY <1>c, <2>6 DEF Invoke
  <2>7. CASE Exhaust(u)
    BY <2>7 DEF Exhaust
  <2>8. CASE \E m \in Measurements, pool \in PoolsOf : Settle(u, m, pool)
    BY <1>b, <1>c, <2>8 DEF Settle, reconcile
  <2>9. CASE SettleNotStarted(u)
    BY <1>b, <1>c, <2>9 DEF SettleNotStarted, release
  <2>10. CASE \E pool \in PoolsOf : Drop(u, pool)
    BY <1>b, <2>10 DEF Drop, reconcile, release
  <2> QED
    BY <1>1, <2>1, <2>2, <2>3, <2>4, <2>5, <2>6, <2>7, <2>8, <2>9, <2>10 DEF ThreadStep
<1>2. CASE OpenLedger \/ Attach \/ LatchRateLimit \/ Expire \/ Tick
  BY <1>2 DEF OpenLedger, Attach, LatchRateLimit, Expire, Tick
<1>3. CASE \E id \in unsettled_reservations(events) : RecoverUnsettled(id)
  BY <1>3 DEF RecoverUnsettled
<1>4. CASE Crash
  BY <1>4 DEF Crash, Idle
<1> QED
  BY <1>1, <1>2, <1>3, <1>4 DEF BudgetNext

\* NoFalseRefusal: a request the run's own ceilings refuse for good would not have fitted
\* with every live grant cut back to its estimate either.
THEOREM BudgetNoFalseRefusal == BudgetSpec => NoFalseRefusal
<1> DEFINE Just(t) ==
      threads'[t].pc = "refused" /\ threads'[t] # threads[t] /\ ~st.force_stop /\ st'.force_stop
        => LET req == threads'[t].req
           IN \/ req.cost = None /\ has_cost_ceiling
              \/ ~fits(without_live_grant_extras(st), req)
              \/ rolling_admission_refusal(st, req)
<1>1. ASSUME MemoryInv, BudgetNext, NEW t \in Threads PROVE Just(t)
  <2> SUFFICES ASSUME threads'[t].pc = "refused", threads'[t] # threads[t],
                      ~st.force_stop, st'.force_stop
               PROVE  LET req == threads'[t].req
                      IN \/ req.cost = None /\ has_cost_ceiling
                         \/ ~fits(without_live_grant_extras(st), req)
                         \/ rolling_admission_refusal(st, req)
    OBVIOUS
  <2> DEFINE req == threads'[t].req
  <2>1. LatchingRefusal(req) /\ ~request_waits_for_live_grants(req)
    BY <1>1, LatchingRefusals
  <2>2. \/ req.cost = None /\ has_cost_ceiling
        \/ rolling_admission_refusal(st, req)
        \/ ~fits(st, req)
    BY <2>1 DEF LatchingRefusal, fits
  <2>3. CASE ~fits(st, req)
    <3>1. CASE LiveGrants(st) = {}
      BY <1>1, <2>3, <3>1, NoExtras
    <3>2. CASE LiveGrants(st) # {}
      BY <2>1, <2>3, <3>2 DEF request_waits_for_live_grants
    <3> QED
      BY <3>1, <3>2
  <2> QED
    BY <2>2, <2>3
<1>2. MemoryInv /\ [BudgetNext]_budgetVars => [\A t \in Threads : Just(t)]_budgetVars
  BY <1>1
<1> QED
  BY <1>2, BudgetMemory, PTL DEF BudgetSpec, NoFalseRefusal

-----------------------------------------------------------------------------
(* Journals that grow by one event.                                         *)

Grown(s, x, e) ==
  /\ s \in Seq(LedgerEvent) /\ x \in Seq(LedgerEvent) /\ e \in LedgerEvent
  /\ Len(x) = Len(s) + 1 /\ x[Len(s) + 1] = e
  /\ \A i \in 1..Len(s) : x[i] = s[i]

\* An append.
LEMMA AppendGrows ==
  ASSUME NEW s \in Seq(LedgerEvent), NEW e \in LedgerEvent
  PROVE  Grown(s, s \o <<e>>, e) /\ Grown(s, Append(s, e), e)
<1> DEFINE x == s \o <<e>>
           y == Append(s, e)
<1>1. Len(s) \in Nat
  OBVIOUS
<1>2. x \in Seq(LedgerEvent) /\ Len(x) = Len(s) + 1 /\ x[Len(s) + 1] = e
  OBVIOUS
<1>3. \A i \in 1..Len(s) : x[i] = s[i]
  OBVIOUS
<1>4. y \in Seq(LedgerEvent) /\ Len(y) = Len(s) + 1 /\ y[Len(s) + 1] = e
  OBVIOUS
<1>5. \A i \in 1..Len(s) : y[i] = s[i]
  OBVIOUS
<1> QED
  BY <1>2, <1>3, <1>4, <1>5 DEF Grown

\* Indices and events of a grown journal.
LEMMA GrownIndices ==
  ASSUME NEW s, NEW x, NEW e, Grown(s, x, e)
  PROVE  /\ Len(s) \in Nat /\ DOMAIN s = 1..Len(s) /\ DOMAIN x = 1..(Len(s) + 1)
         /\ Len(s) + 1 \in DOMAIN x /\ Len(s) + 1 \notin DOMAIN s /\ DOMAIN s \subseteq DOMAIN x
         /\ \A i \in DOMAIN x : i \in DOMAIN s \/ i = Len(s) + 1
         /\ \A i \in DOMAIN s : x[i] = s[i] /\ s[i] \in LedgerEvent
BY DEF Grown

\* What becomes terminal.
LEMMA TerminalGrows ==
  ASSUME NEW s, NEW x, NEW e, Grown(s, x, e), NEW id
  PROVE  reservation_is_terminal(x, id)
           <=> reservation_is_terminal(s, id) \/ (e.kind = "reconciled" /\ e.id = id)
<1>1. x[Len(s) + 1] = e
  BY DEF Grown
<1> QED
  BY <1>1, GrownIndices DEF reservation_is_terminal, Entries

\* What becomes unsettled or settled.
LEMMA UnsettledGrows ==
  ASSUME NEW s, NEW x, NEW e, Grown(s, x, e)
  PROVE  /\ e.kind = "reservation" /\ ~reservation_is_terminal(s, e.id)
              => unsettled_reservations(x) = unsettled_reservations(s) \cup {e.id}
         /\ e.kind = "reconciled"
              => unsettled_reservations(x) = unsettled_reservations(s) \ {e.id}
         /\ e.kind \notin {"reservation", "reconciled"}
              => unsettled_reservations(x) = unsettled_reservations(s)
<1> DEFINE R(q) == {i \in DOMAIN q : q[i].kind = "reservation"}
           n == Len(s) + 1
<1>1. /\ x[n] = e /\ n \in DOMAIN x /\ DOMAIN s \subseteq DOMAIN x
      /\ \A i \in DOMAIN x : i \in DOMAIN s \/ i = n
      /\ \A i \in DOMAIN s : x[i] = s[i]
  BY GrownIndices DEF Grown
<1>2. \A id : id \in unsettled_reservations(s)
        <=> (\E i \in DOMAIN s : s[i].kind = "reservation" /\ s[i].id = id)
              /\ ~reservation_is_terminal(s, id)
  BY DEF unsettled_reservations
<1>3. \A id : id \in unsettled_reservations(x)
        <=> (\E i \in DOMAIN x : x[i].kind = "reservation" /\ x[i].id = id)
              /\ ~reservation_is_terminal(x, id)
  BY DEF unsettled_reservations
<1> HIDE DEF n
<1>4. \A id : (\E i \in DOMAIN x : x[i].kind = "reservation" /\ x[i].id = id)
        <=> \/ \E i \in DOMAIN s : s[i].kind = "reservation" /\ s[i].id = id
            \/ e.kind = "reservation" /\ e.id = id
  BY <1>1
<1>5. \A id : reservation_is_terminal(x, id)
        <=> reservation_is_terminal(s, id) \/ (e.kind = "reconciled" /\ e.id = id)
  BY TerminalGrows
<1>6. \A id : id \in unsettled_reservations(x)
        <=> /\ \/ \E i \in DOMAIN s : s[i].kind = "reservation" /\ s[i].id = id
               \/ e.kind = "reservation" /\ e.id = id
            /\ ~reservation_is_terminal(s, id) /\ ~(e.kind = "reconciled" /\ e.id = id)
  BY <1>3, <1>4, <1>5
<1>7. CASE e.kind = "reservation"
  BY <1>2, <1>6, <1>7
<1>8. CASE e.kind = "reconciled"
  BY <1>2, <1>6, <1>8
<1>9. CASE e.kind \notin {"reservation", "reconciled"}
  BY <1>2, <1>6, <1>9
<1> QED
  BY <1>7, <1>8, <1>9

\* The reservations of a journal are finitely many.
LEMMA UnsettledFinite ==
  ASSUME NEW s \in Seq(LedgerEvent)
  PROVE  /\ IsFiniteSet(unsettled_reservations(s))
         /\ Cardinality(unsettled_reservations(s)) \in Nat
<1> DEFINE R == {i \in DOMAIN s : s[i].kind = "reservation"}
           T == {s[i].id : i \in R}
           f == [i \in R |-> s[i].id]
<1>1. DOMAIN s = 1..Len(s) /\ Len(s) \in Nat
  OBVIOUS
<1>2. IsFiniteSet(1..Len(s)) /\ R \in SUBSET (1..Len(s))
  BY <1>1, FS_Interval
<1>3. IsFiniteSet(R)
  BY <1>2, FS_Subset
<1>4. f \in Surjection(R, T)
  BY DEF Surjection
<1>5. unsettled_reservations(s) \in SUBSET T
  BY DEF unsettled_reservations
<1> HIDE DEF R, T, f
<1>6. IsFiniteSet(T)
  BY <1>3, <1>4, FS_Surjection
<1> QED
  BY <1>5, <1>6, FS_Subset, FS_CardinalityType

OneReservationPerId(s) ==
  \A i, j \in DOMAIN s :
    i # j /\ s[i].kind = s[j].kind /\ s[i].kind # "rate_limited" => s[i].id # s[j].id

\* The reservation of an id is the event that made it.
LEMMA ReservationAt ==
  ASSUME NEW s, OneReservationPerId(s), NEW k \in DOMAIN s, k \in Int, s[k].kind = "reservation"
  PROVE  reservation(s, s[k].id) = s[k]
<1> DEFINE E == Entries(s, "reservation", s[k].id)
<1>1. E = {k}
  BY DEF Entries, OneReservationPerId
<1>2. (CHOOSE i \in E : \A j \in E : i <= j) = k
  BY <1>1
<1> QED
  BY <1>2 DEF reservation

\* A grown journal has the reservations it had.
LEMMA ReservationStays ==
  ASSUME NEW s, NEW x, NEW e, Grown(s, x, e), OneReservationPerId(s), OneReservationPerId(x),
         NEW id, Entries(s, "reservation", id) # {}
  PROVE  reservation(x, id) = reservation(s, id)
<1>1. PICK k \in DOMAIN s : s[k].kind = "reservation" /\ s[k].id = id
  BY DEF Entries
<1>2. k \in Int /\ k \in DOMAIN x /\ x[k] = s[k]
  BY <1>1, GrownIndices
<1> QED
  BY <1>1, <1>2, ReservationAt

\* An unsettled reservation is one event, and it is not terminal.
LEMMA UnsettledIs ==
  ASSUME NEW s \in Seq(LedgerEvent), OneReservationPerId(s),
         NEW id \in unsettled_reservations(s)
  PROVE  /\ ~reservation_is_terminal(s, id) /\ Entries(s, "reservation", id) # {}
         /\ reservation(s, id) \in LedgerEvent
         /\ \E k \in DOMAIN s : /\ k \in Int /\ s[k] = reservation(s, id)
                                /\ s[k].kind = "reservation" /\ s[k].id = id
<1>1. PICK k \in DOMAIN s : s[k].kind = "reservation" /\ s[k].id = id
  BY DEF unsettled_reservations
<1>2. k \in Int /\ s[k] \in LedgerEvent
  BY <1>1
<1>3. reservation(s, id) = s[k]
  BY <1>1, <1>2, ReservationAt
<1>4. ~reservation_is_terminal(s, id)
  BY DEF unsettled_reservations
<1> QED
  BY <1>1, <1>2, <1>3, <1>4 DEF Entries

\* What an appended event must satisfy for a later open to accept the journal.
LEMMA ReplayGrows ==
  ASSUME NEW s, NEW x, NEW e, Grown(s, x, e), replay_events_ok(s),
         e.kind # "rate_limited" => \A i \in DOMAIN s : s[i].kind = e.kind => s[i].id # e.id,
         e.kind = "reconciled" => \E j \in DOMAIN s :
           /\ s[j].kind = "reservation" /\ s[j].id = e.id /\ s[j].at <= e.at
           /\ e.recovered => s[j].tokens = e.tokens /\ s[j].cost = e.cost /\ s[j].pool = e.pool,
         Len(x) + Cardinality(unsettled_reservations(x)) <= MaxRecords
  PROVE  replay_events_ok(x)
<1> DEFINE n == Len(s) + 1
<1>1. /\ x[n] = e /\ n \in DOMAIN x /\ n \notin DOMAIN s /\ DOMAIN s \subseteq DOMAIN x
      /\ \A i \in DOMAIN x : i \in DOMAIN s \/ i = n
      /\ \A i \in DOMAIN s : x[i] = s[i]
      /\ Len(s) \in Nat /\ DOMAIN s = 1..Len(s)
  BY GrownIndices DEF Grown
<1>2. /\ \A i, j \in DOMAIN s :
           i # j /\ s[i].kind = s[j].kind /\ s[i].kind # "rate_limited" => s[i].id # s[j].id
      /\ \A i \in DOMAIN s : s[i].kind = "reconciled" =>
           \E j \in 1..(i - 1) :
             /\ s[j].kind = "reservation" /\ s[j].id = s[i].id
             /\ s[j].at <= s[i].at
             /\ s[i].recovered =>
                  /\ s[i].tokens = s[j].tokens
                  /\ s[i].cost = s[j].cost
                  /\ s[i].pool = s[j].pool
  BY DEF replay_events_ok
<1>3. ASSUME NEW i \in DOMAIN x, NEW j \in DOMAIN x, i # j, x[i].kind = x[j].kind,
             x[i].kind # "rate_limited"
      PROVE  x[i].id # x[j].id
  <2>1. CASE i \in DOMAIN s /\ j \in DOMAIN s
    BY <1>1, <1>2, <1>3, <2>1
  <2>2. CASE i = n \/ j = n
    BY <1>1, <1>3, <2>2
  <2> QED
    BY <1>1, <2>1, <2>2
<1>4. ASSUME NEW i \in DOMAIN x, x[i].kind = "reconciled"
      PROVE  \E j \in 1..(i - 1) :
               /\ x[j].kind = "reservation" /\ x[j].id = x[i].id
               /\ x[j].at <= x[i].at
               /\ x[i].recovered =>
                    /\ x[i].tokens = x[j].tokens
                    /\ x[i].cost = x[j].cost
                    /\ x[i].pool = x[j].pool
  <2>1. CASE i \in DOMAIN s
    <3>1. PICK j \in 1..(i - 1) :
             /\ s[j].kind = "reservation" /\ s[j].id = s[i].id
             /\ s[j].at <= s[i].at
             /\ s[i].recovered =>
                  /\ s[i].tokens = s[j].tokens
                  /\ s[i].cost = s[j].cost
                  /\ s[i].pool = s[j].pool
      BY <1>1, <1>2, <1>4, <2>1
    <3>2. j \in DOMAIN s
      BY <1>1, <2>1
    <3> QED
      BY <1>1, <2>1, <3>1, <3>2
  <2>2. CASE i = n
    <3>1. PICK j \in DOMAIN s :
           /\ s[j].kind = "reservation" /\ s[j].id = e.id /\ s[j].at <= e.at
           /\ e.recovered => s[j].tokens = e.tokens /\ s[j].cost = e.cost /\ s[j].pool = e.pool
      BY <1>1, <1>4, <2>2
    <3>2. j \in 1..(i - 1) /\ x[j] = s[j] /\ x[i] = e
      BY <1>1, <2>2
    <3> QED
      BY <3>1, <3>2
  <2> QED
    BY <1>1, <2>1, <2>2
<1> QED
  BY <1>3, <1>4 DEF replay_events_ok

\* How many reservations are pending after an append.
LEMMA PendingGrows ==
  ASSUME NEW s, NEW x, NEW e, Grown(s, x, e)
  PROVE  LET n == Cardinality(unsettled_reservations(s))
             k == Cardinality(unsettled_reservations(x))
         IN /\ n \in Nat /\ k \in Nat
            /\ (e.kind = "reservation" /\ ~reservation_is_terminal(s, e.id)) => k <= n + 1
            /\ (e.kind = "reconciled" /\ e.id \in unsettled_reservations(s)) => k = n - 1
            /\ e.kind \notin {"reservation", "reconciled"} => k = n
<1> DEFINE U == unsettled_reservations(s)
           V == unsettled_reservations(x)
<1>1. IsFiniteSet(U) /\ Cardinality(U) \in Nat /\ IsFiniteSet(V) /\ Cardinality(V) \in Nat
  BY UnsettledFinite DEF Grown
<1>2. /\ e.kind = "reservation" /\ ~reservation_is_terminal(s, e.id) => V = U \cup {e.id}
      /\ e.kind = "reconciled" => V = U \ {e.id}
      /\ e.kind \notin {"reservation", "reconciled"} => V = U
  BY UnsettledGrows
<1> HIDE DEF U, V
<1>3. /\ Cardinality(U \cup {e.id}) = IF e.id \in U THEN Cardinality(U) ELSE Cardinality(U) + 1
      /\ Cardinality(U \ {e.id}) = IF e.id \in U THEN Cardinality(U) - 1 ELSE Cardinality(U)
  BY <1>1, FS_AddElement, FS_RemoveElement
<1>4. /\ (e.kind = "reservation" /\ ~reservation_is_terminal(s, e.id))
            => Cardinality(V) <= Cardinality(U) + 1
      /\ (e.kind = "reconciled" /\ e.id \in U) => Cardinality(V) = Cardinality(U) - 1
      /\ e.kind \notin {"reservation", "reconciled"} => Cardinality(V) = Cardinality(U)
  BY <1>1, <1>2, <1>3
<1> QED
  BY <1>1, <1>4 DEF U, V

-----------------------------------------------------------------------------
(* What the steps of dispatch threads do to the ledger.                     *)

\* The same ids and estimates are held.
SameHoldings ==
  /\ st'.next_reservation_id = st.next_reservation_id
  /\ \A r \in st.active : \E q \in st'.active : q.id = r.id /\ q.tokens = r.tokens
  /\ \A q \in st'.active : \E r \in st.active : q.id = r.id /\ q.tokens = r.tokens
  /\ EstimatesOf(st'.active) = EstimatesOf(st.active)

Quiet == journal' = journal /\ events' = events /\ SameHoldings

Admits ==
  \E req \in Requests :
    /\ ~LatchingRefusal(req)
    /\ CapacityFor(persist_rolling_reservation(req), Pending + 1)
    /\ Persist(persist_rolling_reservation(req))
    /\ st'.active = st.active \cup {NewReservation(st, req)}
    /\ st'.next_reservation_id = st.next_reservation_id + 1

Settles ==
  \E r \in st.active, tokens \in Nat, cost \in Nat \cup {None}, pool \in PoolNames :
    /\ CapacityFor(persist_rolling_consumption(r.id, tokens, cost, pool), PendingAfterSettlement)
    /\ Persist(persist_rolling_consumption(r.id, tokens, cost, pool))
    /\ st'.active = st.active \ {r}
    /\ st'.next_reservation_id = st.next_reservation_id

\* The record of an admission or of a settlement is published and its head is not.
HeadAdmits ==
  /\ "head" \in Faults /\ events' = events /\ UNCHANGED st
  /\ \E req \in Requests :
       /\ persist_rolling_reservation(req) # <<>>
       /\ CapacityFor(persist_rolling_reservation(req), Pending + 1)
       /\ journal' = journal \o persist_rolling_reservation(req)

HeadSettles ==
  /\ "head" \in Faults /\ events' = events /\ UNCHANGED st
  /\ \E r \in st.active, tokens \in Nat, cost \in Nat \cup {None}, pool \in PoolNames :
       LET list == persist_rolling_consumption(r.id, tokens, cost, pool)
       IN /\ list # <<>> /\ CapacityFor(list, PendingAfterSettlement)
          /\ journal' = journal \o list

\* Nothing is held differently when only the stop changes.
LEMMA StopHoldsSame ==
  ASSUME MemoryInv, NEW b, UNCHANGED st \/ st' = [st EXCEPT !.force_stop = b]
  PROVE  SameHoldings
<1>1. st'.active = st.active /\ st'.next_reservation_id = st.next_reservation_id
  BY DEF MemoryInv, Types, LedgerStates
<1> QED
  BY <1>1 DEF SameHoldings

\* A failed append leaves the handle's events as they were, and the journal too unless it is
\* the head that failed.
LEMMA FailureEffect ==
  ASSUME NEW list, NEW n, PersistFails(list, n)
  PROVE  /\ events' = events
         /\ \/ journal' = journal
            \/ /\ "head" \in Faults /\ list # <<>> /\ CapacityFor(list, n)
               /\ journal' = journal \o list
BY DEF PersistFails, HeadFails

\* A thread that asks is admitted or changes nothing it holds.
LEMMA ReserveEffect ==
  ASSUME MemoryInv, NEW t \in Threads, NEW req \in Requests, reserve_locked(t, req)
  PROVE  Quiet \/ Admits \/ HeadAdmits
<1>1. CASE UNCHANGED <<journal, events>> /\ (UNCHANGED st \/ st' = [st EXCEPT !.force_stop = TRUE])
  BY <1>1, StopHoldsSame DEF Quiet
<1>2. CASE PersistFails(persist_rolling_reservation(req), Pending + 1) /\ UNCHANGED st
  BY <1>2, FailureEffect, StopHoldsSame DEF Quiet, HeadAdmits
<1>3. CASE /\ ~LatchingRefusal(req)
           /\ CapacityFor(persist_rolling_reservation(req), Pending + 1)
           /\ Persist(persist_rolling_reservation(req)) /\ st' = Reserved(req)
  <2>1. StateOK(st) /\ req \in Request
    BY MemoryParts, Constants
  <2>2. /\ st'.active = st.active \cup {NewReservation(st, req)}
        /\ st'.next_reservation_id = st.next_reservation_id + 1
    BY <1>3, <2>1, ReservedState
  <2> QED
    BY <1>3, <2>2 DEF Admits
<1> QED
  BY <1>1, <1>2, <1>3 DEF reserve_locked, Admit

\* A reservation replaced by one with its id and estimate.
LEMMA ReplaceHoldsSame ==
  ASSUME MemoryInv, NEW r \in st.active, NEW q \in Reservation, q.id = r.id, q.tokens = r.tokens,
         st'.active = (st.active \ {r}) \cup {q},
         st'.next_reservation_id = st.next_reservation_id
  PROVE  SameHoldings
<1> DEFINE R == st.active \ {r}
<1>1. st.active \in SUBSET Reservation /\ IsFiniteSet(st.active) /\ r \in Reservation
  BY DEF MemoryInv, Types, LedgerStates
<1>2. R \in SUBSET Reservation /\ IsFiniteSet(R) /\ q \notin R
  BY <1>1, FS_RemoveElement DEF MemoryInv, ReservationsWellFormed
<1>3. EstimatesOf(R) = EstimatesOf(st.active) - r.tokens /\ EstimatesOf(st.active) \in Nat
  BY <1>1, TotalsChange
<1>4. EstimatesOf(R \cup {q}) = EstimatesOf(R) + q.tokens
  BY <1>2, TotalsChange
<1>5. r.tokens \in Nat
  BY <1>1 DEF Reservation
<1>6. EstimatesOf(st'.active) = EstimatesOf(st.active)
  BY <1>3, <1>4, <1>5
<1> QED
  BY <1>6 DEF SameHoldings

\* Limits, grants and stops hold nothing differently.
LEMMA GrantIsQuiet ==
  ASSUME MemoryInv, NEW t \in Threads,
         \/ \E limit \in LiveLimits : configure_live_token_limit(t, limit)
         \/ live_token_grant(t) \/ Invoke(t) \/ Exhaust(t) \/ GiveUp(t)
  PROVE  Quiet
<1>0. st \in LedgerStates
  BY DEF MemoryInv, Types
<1>1. UNCHANGED <<journal, events>>
  BY DEF configure_live_token_limit, live_token_grant, Invoke, Exhaust, GiveUp, durableVars
<1>2. CASE Invoke(t) \/ Exhaust(t) \/ GiveUp(t)
  BY <1>1, <1>2, StopHoldsSame DEF Invoke, Exhaust, GiveUp, Quiet
<1> DEFINE r == Mine(t)
<1>3. ASSUME NEW limit \in LiveLimits, configure_live_token_limit(t, limit) PROVE Quiet
  <2> DEFINE q == [r EXCEPT !.limit = limit]
             A == (st.active \ {r}) \cup {q}
  <2>1. threads[t].pc \in HoldingPc /\ st' = [st EXCEPT !.active = A]
    BY <1>3 DEF configure_live_token_limit, ReplaceMine, HoldingPc
  <2>2. r \in st.active /\ r \in Reservation
    BY <2>1, MineIsActive
  <2>3. q \in Reservation /\ q.id = r.id /\ q.tokens = r.tokens
    BY <2>2, Constants DEF Reservation
  <2> HIDE DEF q
  <2>4. A \in SUBSET Reservation
    BY <1>0, <2>3 DEF LedgerStates
  <2>5. st'.active = A /\ st'.next_reservation_id = st.next_reservation_id
    <3> HIDE DEF A
    <3> QED
      BY <1>0, <2>1 DEF LedgerStates
  <2> HIDE DEF r
  <2> QED
    BY <1>1, <2>2, <2>3, <2>5, ReplaceHoldsSame DEF Quiet
<1>4. ASSUME live_token_grant(t) PROVE Quiet
  <2> DEFINE g == GrantTokens(r)
             q == [r EXCEPT !.grant = g]
             A == (st.active \ {r}) \cup {q}
  <2>1. /\ threads[t].pc = "reserved" /\ threads[t].pc \in HoldingPc /\ Settled(st) <= HardTokens
        /\ st' = [[st EXCEPT !.active = A] EXCEPT !.reserved_tokens = @ + (g - r.tokens)]
    BY <1>4 DEF live_token_grant, ReplaceMine, HoldingPc
  <2>2. r \in st.active /\ r \in Reservation /\ r.grant = 0 /\ StateOK(st)
    BY <2>1, MineIsActive, MemoryParts
  <2>3. g \in Nat
    BY <2>1, <2>2, GrantFits
  <2> HIDE DEF g
  <2>4. q \in Reservation /\ q.id = r.id /\ q.tokens = r.tokens
    BY <2>2, <2>3 DEF Reservation
  <2> HIDE DEF q
  <2>5. st'.active = A /\ st'.next_reservation_id = st.next_reservation_id
    <3> HIDE DEF A
    <3> QED
      BY <1>0, <2>1 DEF LedgerStates
  <2> HIDE DEF r
  <2> QED
    BY <1>1, <2>2, <2>4, <2>5, ReplaceHoldsSame DEF Quiet
<1> QED
  BY <1>2, <1>3, <1>4

\* A settlement, a release or a failed attempt at one.
LEMMA SettleEffect ==
  ASSUME MemoryInv, NEW t \in Threads,
         \/ \E m \in Measurements, pool \in PoolsOf : Settle(t, m, pool)
         \/ SettleNotStarted(t)
         \/ \E pool \in PoolsOf : Drop(t, pool)
  PROVE  Quiet \/ Settles \/ HeadSettles
<1> DEFINE r == Mine(t)
<1>0. StateOK(st)
  BY MemoryParts
<1>1. threads[t].pc \in HoldingPc
  BY DEF Settle, SettleNotStarted, Drop, HoldingPc
<1>2. r \in st.active /\ r \in Reservation
  BY <1>1, MineIsActive
<1>3. ASSUME NEW x, x = Removed(r)
      PROVE  /\ x \in LedgerStates /\ x.active = st.active \ {r}
             /\ x.next_reservation_id = st.next_reservation_id
  <2> HIDE DEF r
  <2> QED
    BY <1>0, <1>2, <1>3, RemovedState DEF StateOK
<1>4. PoolsOf \subseteq PoolNames /\ NoPool \in PoolNames
  BY DEF PoolsOf, PoolNames
<1>5. ASSUME NEW m \in Measurement, NEW pool \in PoolsOf, reconcile(t, m, pool) PROVE Settles
  <2> DEFINE a == ChargedTokens(r, m)
             c == IF CostComplete(r, m) THEN ChargedCost(r, m) ELSE None
             x == Removed(r)
  <2>1. a \in Nat /\ c \in Nat \cup {None}
    BY <1>2, ChargeTypes
  <2>2. /\ CapacityFor(persist_rolling_consumption(r.id, a, c, pool), PendingAfterSettlement)
        /\ Persist(persist_rolling_consumption(r.id, a, c, pool))
        /\ st' = Charged(r, m, events')
    BY <1>5 DEF reconcile, SettlementList
  <2>3. /\ x \in LedgerStates /\ x.active = st.active \ {r}
        /\ x.next_reservation_id = st.next_reservation_id
    BY <1>3
  <2>4. st' = [x EXCEPT
                 !.consumed_tokens = @ + ChargedTokens(r, m),
                 !.consumed_cost = @ + ChargedCost(r, m),
                 !.cost_complete = @ /\ CostComplete(r, m),
                 !.force_stop = @ \/ StopsForUncertainty(m) \/ admission_block_reasons(events')]
    BY <2>2, Zenon DEF Charged
  <2> HIDE DEF x
  <2>5. st'.active = x.active /\ st'.next_reservation_id = x.next_reservation_id
    BY <2>3, <2>4 DEF LedgerStates
  <2> HIDE DEF a, c, r
  <2> QED
    BY <1>2, <1>4, <2>1, <2>2, <2>3, <2>5 DEF Settles
<1>6. ASSUME release(t) PROVE Settles
  <2> DEFINE x == Removed(r)
  <2>1. r.tokens \in Nat /\ r.cost \in Nat \cup {None}
    BY <1>2 DEF Reservation
  <2>2. /\ CapacityFor(persist_rolling_consumption(r.id, r.tokens, r.cost, NoPool),
                       PendingAfterSettlement)
        /\ Persist(persist_rolling_consumption(r.id, r.tokens, r.cost, NoPool))
        /\ st' = [x EXCEPT !.force_stop = @ \/ admission_block_reasons(events')]
    BY <1>6 DEF release, ReleaseList
  <2>3. /\ x \in LedgerStates /\ x.active = st.active \ {r}
        /\ x.next_reservation_id = st.next_reservation_id
    BY <1>3
  <2> HIDE DEF x
  <2>5. st'.active = x.active /\ st'.next_reservation_id = x.next_reservation_id
    BY <2>2, <2>3 DEF LedgerStates
  <2> HIDE DEF r
  <2> QED
    BY <1>2, <1>4, <2>1, <2>2, <2>3, <2>5 DEF Settles
<1>7. ASSUME NEW tokens \in Nat, NEW cost \in Nat \cup {None}, NEW pool \in PoolNames,
             PersistFails(persist_rolling_consumption(r.id, tokens, cost, pool),
                          PendingAfterSettlement),
             UNCHANGED st
      PROVE  Quiet \/ HeadSettles
  <2> DEFINE list == persist_rolling_consumption(r.id, tokens, cost, pool)
  <2>1. /\ events' = events
        /\ \/ journal' = journal
           \/ /\ "head" \in Faults /\ list # <<>> /\ CapacityFor(list, PendingAfterSettlement)
              /\ journal' = journal \o list
    <3> HIDE DEF list
    <3>1. PersistFails(list, PendingAfterSettlement)
      BY <1>7 DEF list
    <3> QED
      BY <3>1, FailureEffect
  <2>2. CASE journal' = journal
    BY <1>7, <2>1, <2>2, StopHoldsSame DEF Quiet
  <2>3. CASE journal' # journal
    <3> HIDE DEF r
    <3> QED
      BY <1>2, <1>7, <2>1, <2>3 DEF HeadSettles
  <2> QED
    BY <2>2, <2>3
<1>8. ASSUME NEW m \in Measurement, NEW pool \in PoolsOf,
             PersistFails(SettlementList(r, m, pool), PendingAfterSettlement), UNCHANGED st
      PROVE  Quiet \/ HeadSettles
  <2> DEFINE a == ChargedTokens(r, m)
             c == IF CostComplete(r, m) THEN ChargedCost(r, m) ELSE None
  <2>1. a \in Nat /\ c \in Nat \cup {None}
    BY <1>2, ChargeTypes
  <2>2. PersistFails(persist_rolling_consumption(r.id, a, c, pool), PendingAfterSettlement)
    BY <1>8 DEF SettlementList
  <2> HIDE DEF a, c
  <2> QED
    BY <1>4, <1>7, <1>8, <2>1, <2>2
<1>9. ASSUME PersistFails(ReleaseList(r), PendingAfterSettlement), UNCHANGED st
      PROVE  Quiet \/ HeadSettles
  <2>1. r.tokens \in Nat /\ r.cost \in Nat \cup {None}
    BY <1>2 DEF Reservation
  <2>2. PersistFails(persist_rolling_consumption(r.id, r.tokens, r.cost, NoPool),
                     PendingAfterSettlement)
    BY <1>9 DEF ReleaseList
  <2> QED
    BY <1>4, <1>7, <1>9, <2>1, <2>2
<1>10. CASE \E m \in Measurements, pool \in PoolsOf : Settle(t, m, pool)
  BY <1>5, <1>8, <1>10, Constants DEF Settle
<1>11. CASE SettleNotStarted(t)
  BY <1>6, <1>9, <1>11 DEF SettleNotStarted
<1>12. CASE \E pool \in PoolsOf : Drop(t, pool)
  <2>1. Missing \in Measurement
    BY DEF Missing, Measurement
  <2> QED
    BY <1>5, <1>6, <1>8, <1>9, <1>12, <2>1 DEF Drop
<1> QED
  BY <1>10, <1>11, <1>12

\* Every step of a dispatch thread is one of the five.
LEMMA ThreadEffect ==
  ASSUME MemoryInv, NEW t \in Threads, ThreadStep(t)
  PROVE  /\ handle = "open" /\ UNCHANGED <<handle, session, now, wentBack>>
         /\ Quiet \/ Admits \/ Settles \/ HeadAdmits \/ HeadSettles
<1>1. handle = "open"
  BY OpenWhileBusy
     DEF ThreadStep, Ask, Wake, GiveUp, configure_live_token_limit, live_token_grant, Invoke,
         Exhaust, Settle, SettleNotStarted, Drop
<1>2. UNCHANGED <<handle, session, now, wentBack>>
  BY DEF ThreadStep, Ask, Wake, GiveUp, configure_live_token_limit, live_token_grant, Invoke,
         Exhaust, Settle, SettleNotStarted, Drop, durableVars
<1>3. CASE \E req \in Requests : Ask(t, req)
  <2>1. PICK req \in Requests : Ask(t, req)
    BY <1>3
  <2>2. reserve_locked(t, req) \/ UNCHANGED <<journal, events, st>>
    BY <2>1 DEF Ask
  <2> QED
    BY <1>1, <1>2, <2>2, ReserveEffect, StopHoldsSame DEF Quiet
<1>4. CASE Wake(t)
  <2>1. reserve_locked(t, threads[t].req) /\ threads[t].req \in Requests
    BY <1>4 DEF Wake, MemoryInv, HoldersHold
  <2> QED
    BY <1>1, <1>2, <2>1, ReserveEffect
<1> QED
  BY <1>1, <1>2, <1>3, <1>4, GrantIsQuiet, SettleEffect DEF ThreadStep

-----------------------------------------------------------------------------
(* Every step keeps a journal that a later open accepts.                    *)

\* The parts of replay_events_ok the proofs use.
LEMMA ReplayParts ==
  ASSUME NEW s \in Seq(LedgerEvent), replay_events_ok(s)
  PROVE  /\ OneReservationPerId(s)
         /\ Len(s) + Cardinality(unsettled_reservations(s)) <= MaxRecords
         /\ Len(s) \in Nat /\ Cardinality(unsettled_reservations(s)) \in Nat
<1>1. Cardinality(unsettled_reservations(s)) \in Nat /\ Len(s) \in Nat
  BY UnsettledFinite
<1> QED
  BY <1>1 DEF replay_events_ok, OneReservationPerId

\* The journal after a reservation whose id is new.
LEMMA ReservationAppended ==
  ASSUME NEW s, NEW x, NEW e, Grown(s, x, e), replay_events_ok(s), e.kind = "reservation",
         \A i \in DOMAIN s : s[i].kind # "rate_limited" => s[i].id # e.id,
         Len(s) + 1 + (Cardinality(unsettled_reservations(s)) + 1) <= MaxRecords
  PROVE  /\ replay_events_ok(x) /\ OneReservationPerId(x)
         /\ unsettled_reservations(x) = unsettled_reservations(s) \cup {e.id}
         /\ e.id \notin unsettled_reservations(s)
         /\ reservation(x, e.id) = e
         /\ \A id \in unsettled_reservations(s) : reservation(x, id) = reservation(s, id)
<1>1. s \in Seq(LedgerEvent) /\ x \in Seq(LedgerEvent) /\ Len(x) = Len(s) + 1 /\ x[Len(s) + 1] = e
  BY DEF Grown
<1>2. ~reservation_is_terminal(s, e.id) /\ e.id \notin unsettled_reservations(s)
  BY DEF reservation_is_terminal, Entries, unsettled_reservations
<1>3. unsettled_reservations(x) = unsettled_reservations(s) \cup {e.id}
  BY <1>2, UnsettledGrows
<1>4. Len(x) + Cardinality(unsettled_reservations(x)) <= MaxRecords
  BY <1>1, <1>2, PendingGrows, ReplayParts, Constants
<1>5. replay_events_ok(x)
  BY <1>4, ReplayGrows
<1>6. OneReservationPerId(s) /\ OneReservationPerId(x)
  BY <1>1, <1>5, ReplayParts
<1>7. Len(s) + 1 \in DOMAIN x /\ Len(s) + 1 \in Int
  BY GrownIndices
<1>8. reservation(x, e.id) = e
  BY <1>1, <1>6, <1>7, ReservationAt
<1>9. \A id \in unsettled_reservations(s) : reservation(x, id) = reservation(s, id)
  BY <1>1, <1>6, UnsettledIs, ReservationStays
<1> QED
  BY <1>2, <1>3, <1>5, <1>6, <1>8, <1>9

\* The journal after the terminal event of an unsettled reservation.
LEMMA TerminalAppended ==
  ASSUME NEW s, NEW x, NEW e, Grown(s, x, e), replay_events_ok(s), e.kind = "reconciled",
         e.id \in unsettled_reservations(s), reservation(s, e.id).at <= e.at,
         e.recovered => LET r == reservation(s, e.id)
                        IN r.tokens = e.tokens /\ r.cost = e.cost /\ r.pool = e.pool
  PROVE  /\ replay_events_ok(x) /\ OneReservationPerId(x)
         /\ unsettled_reservations(x) = unsettled_reservations(s) \ {e.id}
         /\ \A id : Entries(s, "reservation", id) # {} => reservation(x, id) = reservation(s, id)
<1>1. s \in Seq(LedgerEvent) /\ x \in Seq(LedgerEvent) /\ Len(x) = Len(s) + 1
  BY DEF Grown
<1>2. /\ OneReservationPerId(s) /\ Len(s) \in Nat
      /\ Len(s) + Cardinality(unsettled_reservations(s)) <= MaxRecords
      /\ Cardinality(unsettled_reservations(s)) \in Nat
  BY <1>1, ReplayParts
<1>3. PICK k \in DOMAIN s : s[k] = reservation(s, e.id) /\ s[k].kind = "reservation" /\ s[k].id = e.id
  BY <1>1, <1>2, UnsettledIs
<1>4. \A i \in DOMAIN s : s[i].kind = e.kind => s[i].id # e.id
  <2>1. ~reservation_is_terminal(s, e.id)
    BY <1>1, <1>2, UnsettledIs
  <2> QED
    BY <2>1 DEF reservation_is_terminal, Entries
<1>5. Len(x) + Cardinality(unsettled_reservations(x)) <= MaxRecords
  <2>1. Cardinality(unsettled_reservations(x)) = Cardinality(unsettled_reservations(s)) - 1
    BY PendingGrows
  <2> QED
    BY <1>1, <1>2, <2>1, Constants
<1>6. replay_events_ok(x)
  <2>1. \E j \in DOMAIN s :
           /\ s[j].kind = "reservation" /\ s[j].id = e.id /\ s[j].at <= e.at
           /\ e.recovered => s[j].tokens = e.tokens /\ s[j].cost = e.cost /\ s[j].pool = e.pool
    BY <1>3
  <2> QED
    BY <1>4, <1>5, <2>1, ReplayGrows
<1>7. OneReservationPerId(x)
  BY <1>1, <1>6, ReplayParts
<1>8. unsettled_reservations(x) = unsettled_reservations(s) \ {e.id}
  BY UnsettledGrows
<1>9. ASSUME NEW id, Entries(s, "reservation", id) # {}
      PROVE  reservation(x, id) = reservation(s, id)
  BY <1>2, <1>7, <1>9, ReservationStays
<1> QED
  BY <1>6, <1>7, <1>8, <1>9

\* The journal after any other event.
LEMMA OtherAppended ==
  ASSUME NEW s, NEW x, NEW e, Grown(s, x, e), replay_events_ok(s),
         e.kind \in {"pool_consume", "rate_limited"},
         e.kind = "pool_consume" =>
           \A i \in DOMAIN s : s[i].kind = "pool_consume" => s[i].id # e.id,
         Len(s) + 1 + Cardinality(unsettled_reservations(s)) <= MaxRecords
  PROVE  /\ replay_events_ok(x) /\ OneReservationPerId(x)
         /\ unsettled_reservations(x) = unsettled_reservations(s)
         /\ \A id : Entries(s, "reservation", id) # {} => reservation(x, id) = reservation(s, id)
<1>1. s \in Seq(LedgerEvent) /\ x \in Seq(LedgerEvent) /\ Len(x) = Len(s) + 1
  BY DEF Grown
<1>2. unsettled_reservations(x) = unsettled_reservations(s)
  BY UnsettledGrows
<1>3. replay_events_ok(x)
  BY <1>1, <1>2, ReplayGrows
<1>4. OneReservationPerId(s) /\ OneReservationPerId(x)
  BY <1>1, <1>3, ReplayParts
<1>5. ASSUME NEW id, Entries(s, "reservation", id) # {}
      PROVE  reservation(x, id) = reservation(s, id)
  BY <1>4, <1>5, ReservationStays
<1> QED
  BY <1>2, <1>3, <1>4, <1>5

\* What the invariants say of an open run.
LEMMA OpenParts ==
  ASSUME MemoryInv, JournalInv, handle = "open"
  PROVE  /\ events = journal /\ journal \in Seq(LedgerEvent) /\ replay_events_ok(journal)
         /\ OneReservationPerId(journal) /\ session \in Nat /\ now \in Nat
         /\ st.next_reservation_id \in Nat \ {0}
         /\ \A r \in st.active : r.id \in Nat /\ r.id < st.next_reservation_id
         /\ \A r \in st.active : r.tokens \in Nat \ {0}
         /\ \A r, q \in st.active : r.id = q.id => r = q
         /\ Quota => unsettled_reservations(journal) = OwnReservations
<1>1. events = journal /\ journal \in Seq(LedgerEvent) /\ replay_events_ok(journal)
  BY DEF JournalInv, HandleIsCurrent
<1>2. OneReservationPerId(journal)
  BY <1>1, ReplayParts
<1>3. session \in Nat /\ now \in Nat /\ st \in LedgerStates /\ ReservationsWellFormed(st)
  BY Constants DEF MemoryInv, Types
<1>4. /\ st.next_reservation_id \in Nat \ {0}
      /\ \A r \in st.active : r.id \in Nat /\ r.id < st.next_reservation_id
      /\ \A r \in st.active : r.tokens \in Nat \ {0}
      /\ \A r, q \in st.active : r.id = q.id => r = q
  BY <1>3 DEF LedgerStates, Reservation, ReservationsWellFormed
<1>5. Quota => unsettled_reservations(journal) = OwnReservations
  BY DEF JournalInv, MemoryIsJournaled
<1> QED
  BY <1>1, <1>2, <1>3, <1>4, <1>5

\* No journaled id is the next one.
LEMMA NextIdIsNew ==
  ASSUME MemoryInv, JournalInv, handle = "open", NEW i \in DOMAIN journal,
         journal[i].kind # "rate_limited"
  PROVE  journal[i].id # <<session, st.next_reservation_id>>
<1>1. /\ journal[i].id \in Nat \X Nat
      /\ journal[i].id[1] < session \/ journal[i].id[2] < st.next_reservation_id
  BY DEF JournalInv, IdsAreOld
<1>2. session \in Nat /\ st.next_reservation_id \in Nat
  BY OpenParts
<1> QED
  BY <1>1, <1>2

\* A step that holds the same keeps the journal's invariant.
LEMMA QuietKeeps ==
  ASSUME MemoryInv, JournalInv, handle = "open", UNCHANGED <<handle, session>>, Quiet
  PROVE  JournalInv'
<1>1. journal' = journal /\ events' = events /\ SameHoldings
  BY DEF Quiet
<1>2. HandleIsCurrent' /\ KindsFit' /\ (journal \in Seq(LedgerEvent))'
  BY <1>1 DEF JournalInv, HandleIsCurrent, KindsFit
<1>3. IdsAreOld'
  BY <1>1 DEF JournalInv, IdsAreOld, SameHoldings
<1>4. OwnReservations' = OwnReservations
  BY <1>1 DEF OwnReservations, durable_reservation_id, SameHoldings
<1>5. MemoryIsJournaled'
  BY <1>1, <1>4 DEF JournalInv, MemoryIsJournaled, durable_reservation_id, SameHoldings
<1>6. CompletionIsNew'
  BY <1>1 DEF JournalInv, CompletionIsNew, durable_reservation_id, SameHoldings
<1>7. replay_events_ok(journal)'
  BY <1>1 DEF JournalInv
<1> QED
  BY <1>2, <1>3, <1>5, <1>6, <1>7 DEF JournalInv

\* What admission writes.
LEMMA AdmitAppends ==
  ASSUME MemoryInv, JournalInv, handle = "open", NEW req \in Requests, Quota,
         CapacityFor(persist_rolling_reservation(req), Pending + 1),
         journal' = journal \o persist_rolling_reservation(req)
  PROVE  \E e \in LedgerEvent :
           /\ Grown(journal, journal', e)
           /\ e.kind = "reservation" /\ e.id = <<session, st.next_reservation_id>>
           /\ e.tokens = req.tokens
           /\ Len(journal) + 1 + (Cardinality(unsettled_reservations(journal)) + 1) <= MaxRecords
<1> DEFINE pool == IF Cardinality(Pools) = 1 THEN CHOOSE p \in Pools : TRUE ELSE NoPool
           id == <<session, st.next_reservation_id>>
           e == BudgetLedgerEvent("reservation", id, req.tokens, req.cost, pool, now)
<1>0. /\ events = journal /\ journal \in Seq(LedgerEvent) /\ session \in Nat /\ now \in Nat
      /\ st.next_reservation_id \in Nat
  BY OpenParts
<1>1. pool \in PoolNames
  <2>1. CASE Pools = {}
    BY <2>1, FS_EmptySet DEF PoolNames
  <2>2. CASE Pools # {}
    BY <2>2 DEF PoolNames
  <2> QED
    BY <2>1, <2>2
<1>2. persist_rolling_reservation(req) = <<e>>
  BY DEF persist_rolling_reservation, ReservationEvent, durable_reservation_id
<1>3. id \in EventId /\ req.tokens \in Nat /\ req.cost \in Nat \cup {None}
  BY <1>0, Constants DEF EventId, Request
<1>4. "reservation" \in Kinds
  BY DEF Kinds
<1> HIDE DEF pool, id
<1>5. e \in LedgerEvent /\ e.kind = "reservation" /\ e.id = id /\ e.tokens = req.tokens
  BY <1>0, <1>1, <1>3, <1>4 DEF BudgetLedgerEvent, LedgerEvent
<1> HIDE DEF e
<1>6. journal' = journal \o <<e>>
  BY <1>0, <1>2
<1>7. Grown(journal, journal', e)
  BY <1>0, <1>5, <1>6, AppendGrows
<1>8. <<e>> # <<>>
  OBVIOUS
<1>9. Len(journal) + 1 + (Cardinality(unsettled_reservations(journal)) + 1) <= MaxRecords
  <2>1. ensure_append_capacity(journal, Pending + 1)
    BY <1>2, <1>8 DEF CapacityFor
  <2> QED
    BY <1>0, <2>1 DEF ensure_append_capacity, Pending
<1> QED
  BY <1>5, <1>6, <1>7, <1>9 DEF id

\* An admission keeps the journal's invariant.
LEMMA AdmitKeeps ==
  ASSUME MemoryInv, JournalInv, handle = "open", UNCHANGED <<handle, session>>, Admits
  PROVE  JournalInv'
<1>0. /\ events = journal /\ journal \in Seq(LedgerEvent) /\ replay_events_ok(journal)
      /\ session \in Nat /\ st.next_reservation_id \in Nat
      /\ \A r \in st.active : r.id \in Nat /\ r.id < st.next_reservation_id
      /\ Quota => unsettled_reservations(journal) = OwnReservations
  BY OpenParts
<1>1. PICK req \in Requests :
        /\ CapacityFor(persist_rolling_reservation(req), Pending + 1)
        /\ Persist(persist_rolling_reservation(req))
        /\ st'.active = st.active \cup {NewReservation(st, req)}
        /\ st'.next_reservation_id = st.next_reservation_id + 1
  BY DEF Admits
<1> DEFINE r == NewReservation(st, req)
           id == <<session, st.next_reservation_id>>
<1>2. r.id = st.next_reservation_id /\ r.tokens = req.tokens
  BY DEF NewReservation
<1> HIDE DEF r
<1>3. handle' = "open" /\ session' = session
  OBVIOUS
<1>4. OwnReservations' = OwnReservations \cup {id}
  BY <1>1, <1>2, <1>3 DEF OwnReservations, durable_reservation_id, r
<1>5. CASE Quota
  <2>0. journal' = journal \o persist_rolling_reservation(req) /\ events' = journal'
    BY <1>0, <1>1 DEF Persist
  <2>1. PICK e \in LedgerEvent :
           /\ Grown(journal, journal', e)
           /\ e.kind = "reservation" /\ e.id = id /\ e.tokens = req.tokens
           /\ Len(journal) + 1 + (Cardinality(unsettled_reservations(journal)) + 1) <= MaxRecords
    BY <1>1, <1>5, <2>0, AdmitAppends
  <2>2. \A i \in DOMAIN journal : journal[i].kind # "rate_limited" => journal[i].id # e.id
    BY <2>1, NextIdIsNew
  <2>3. /\ replay_events_ok(journal')
        /\ unsettled_reservations(journal') = unsettled_reservations(journal) \cup {e.id}
        /\ reservation(journal', e.id) = e
        /\ \A d \in unsettled_reservations(journal) : reservation(journal', d) = reservation(journal, d)
    BY <1>0, <2>1, <2>2, ReservationAppended
  <2>4. /\ journal' \in Seq(LedgerEvent) /\ journal'[Len(journal) + 1] = e
        /\ \A i \in DOMAIN journal' : i \in DOMAIN journal \/ i = Len(journal) + 1
        /\ \A i \in DOMAIN journal : journal'[i] = journal[i]
    BY <2>1, GrownIndices DEF Grown
  <2>5. HandleIsCurrent'
    BY <1>3, <2>0 DEF HandleIsCurrent
  <2>6. KindsFit'
    BY <1>3, <1>5, <2>1, <2>4 DEF JournalInv, KindsFit
  <2>7. IdsAreOld'
    <3> SUFFICES ASSUME NEW i \in DOMAIN journal', journal'[i].kind # "rate_limited"
                 PROVE  /\ journal'[i].id \in Nat \X Nat
                        /\ journal'[i].id[1] <= session
                        /\ journal'[i].id[1] < session \/ journal'[i].id[2] < st.next_reservation_id + 1
      BY <1>1, <1>3 DEF IdsAreOld
    <3>1. CASE i = Len(journal) + 1
      <4>1. journal'[i].id = <<session, st.next_reservation_id>>
        BY <2>1, <2>4, <3>1
      <4> QED
        BY <1>0, <4>1
    <3>2. CASE i \in DOMAIN journal
      <4>1. /\ journal[i].id \in Nat \X Nat /\ journal[i].id[1] <= session
            /\ journal[i].id[1] < session \/ journal[i].id[2] < st.next_reservation_id
            /\ journal'[i] = journal[i]
        BY <2>4, <3>2 DEF JournalInv, IdsAreOld
      <4> QED
        BY <1>0, <4>1
    <3> QED
      BY <2>4, <3>1, <3>2
  <2>8. MemoryIsJournaled'
    <3>1. unsettled_reservations(journal') = OwnReservations'
      BY <1>0, <1>4, <1>5, <2>1, <2>3
    <3>2. ASSUME NEW q \in st'.active
          PROVE  reservation(journal', <<session, q.id>>).tokens = q.tokens
      <4>1. CASE q = r
        BY <1>2, <2>1, <2>3, <4>1
      <4>2. CASE q \in st.active
        <5>1. <<session, q.id>> \in unsettled_reservations(journal)
          BY <1>0, <1>5, <4>2 DEF OwnReservations, durable_reservation_id
        <5>2. reservation(journal, <<session, q.id>>).tokens = q.tokens
          BY <1>5, <4>2 DEF JournalInv, MemoryIsJournaled, durable_reservation_id
        <5> QED
          BY <2>3, <5>1, <5>2
      <4> QED
        BY <1>1, <4>1, <4>2 DEF r
    <3> QED
      BY <1>3, <3>1, <3>2 DEF MemoryIsJournaled, durable_reservation_id
  <2>9. CompletionIsNew'
    BY <1>5 DEF CompletionIsNew, Quota
  <2> QED
    BY <2>3, <2>4, <2>5, <2>6, <2>7, <2>8, <2>9 DEF JournalInv
<1>6. CASE ~Quota
  <2>1. journal' = journal /\ events' = events
    BY <1>0, <1>1, <1>6 DEF persist_rolling_reservation, Persist
  <2>2. HandleIsCurrent' /\ KindsFit'
    BY <1>3, <2>1 DEF JournalInv, HandleIsCurrent, KindsFit
  <2>3. IdsAreOld'
    BY <1>0, <1>1, <1>3, <2>1 DEF JournalInv, IdsAreOld
  <2>4. MemoryIsJournaled'
    BY <1>6 DEF MemoryIsJournaled, Quota
  <2>5. CompletionIsNew'
    <3> SUFFICES ASSUME NEW i \in DOMAIN journal, NEW q \in st'.active
                 PROVE  journal[i].id # <<session, q.id>>
      BY <1>3, <2>1 DEF CompletionIsNew, durable_reservation_id
    <3>1. CASE q = r
      <4>1. journal[i].kind # "rate_limited"
        BY <1>6 DEF JournalInv, KindsFit
      <4> QED
        BY <1>2, <3>1, <4>1, NextIdIsNew
    <3>2. CASE q \in st.active
      BY <1>6, <3>2 DEF JournalInv, CompletionIsNew, durable_reservation_id
    <3> QED
      BY <1>1, <3>1, <3>2 DEF r
  <2> QED
    BY <1>0, <2>1, <2>2, <2>3, <2>4, <2>5 DEF JournalInv
<1> QED
  BY <1>5, <1>6

\* A terminal event is dated no earlier than now and than its reservation.
LEMMA TerminalDate ==
  ASSUME NEW s \in Seq(LedgerEvent), OneReservationPerId(s), NEW id \in unsettled_reservations(s),
         NEW n \in Nat
  PROVE  /\ TerminalAt(s, id, n) \in Nat /\ TerminalAt(s, id, n) >= n
         /\ reservation(s, id).at <= TerminalAt(s, id, n)
<1>1. reservation(s, id).at \in Nat
  BY UnsettledIs DEF LedgerEvent
<1> QED
  BY <1>1 DEF TerminalAt, Larger

\* What a settlement writes when there is a quota.
LEMMA SettleAppends ==
  ASSUME MemoryInv, JournalInv, handle = "open", Quota, NEW r \in st.active, NEW tokens \in Nat,
         NEW cost \in Nat \cup {None}, NEW pool \in PoolNames,
         journal' = journal \o persist_rolling_consumption(r.id, tokens, cost, pool)
  PROVE  \E e \in LedgerEvent :
           /\ Grown(journal, journal', e)
           /\ e.kind = "reconciled" /\ e.id = <<session, r.id>> /\ e.tokens = tokens
           /\ e.id \in unsettled_reservations(journal) /\ ~e.recovered
           /\ reservation(journal, e.id).at <= e.at /\ now <= e.at
<1> DEFINE id == <<session, r.id>>
           at == TerminalAt(journal, id, now)
           e == BudgetLedgerEvent("reconciled", id, tokens, cost, pool, at)
<1>0. /\ events = journal /\ journal \in Seq(LedgerEvent) /\ OneReservationPerId(journal)
      /\ session \in Nat /\ now \in Nat /\ r.id \in Nat
      /\ unsettled_reservations(journal) = OwnReservations
  BY OpenParts
<1>1. id \in unsettled_reservations(journal) /\ id \in EventId
  BY <1>0 DEF OwnReservations, durable_reservation_id, EventId
<1>2. at \in Nat /\ at >= now /\ reservation(journal, id).at <= at
  BY <1>0, <1>1, TerminalDate
<1>3. persist_rolling_consumption(r.id, tokens, cost, pool) = <<e>>
  BY <1>0 DEF persist_rolling_consumption, durable_reservation_id
<1> HIDE DEF id, at
<1>4. /\ e \in LedgerEvent /\ e.kind = "reconciled" /\ e.id = id /\ e.tokens = tokens /\ e.at = at
      /\ ~e.recovered
  BY <1>0, <1>1, <1>2 DEF BudgetLedgerEvent, LedgerEvent, Kinds
<1> HIDE DEF e
<1>5. journal' = journal \o <<e>>
  BY <1>0, <1>3
<1>6. Grown(journal, journal', e)
  BY <1>0, <1>4, <1>5, AppendGrows
<1> QED
  BY <1>0, <1>1, <1>2, <1>4, <1>5, <1>6 DEF id

\* What it writes without one.
LEMMA CompletionAppends ==
  ASSUME MemoryInv, JournalInv, handle = "open", ~Quota, NEW r \in st.active, NEW tokens \in Nat,
         NEW cost \in Nat \cup {None}, NEW pool \in PoolNames,
         CapacityFor(persist_rolling_consumption(r.id, tokens, cost, pool), PendingAfterSettlement),
         journal' = journal \o persist_rolling_consumption(r.id, tokens, cost, pool)
  PROVE  \/ journal' = journal
         \/ \E e \in LedgerEvent :
              /\ Grown(journal, journal', e)
              /\ e.kind = "pool_consume" /\ e.id = <<session, r.id>>
              /\ Len(journal) + 1 + Cardinality(unsettled_reservations(journal)) <= MaxRecords
<1> DEFINE id == <<session, r.id>>
           e == BudgetLedgerEvent("pool_consume", id, tokens, cost, pool, now)
<1>0. /\ events = journal /\ journal \in Seq(LedgerEvent) /\ session \in Nat /\ now \in Nat
      /\ r.id \in Nat
  BY OpenParts
<1>1. CASE pool = NoPool
  BY <1>0, <1>1 DEF persist_rolling_consumption
<1>2. CASE pool # NoPool
  <2>1. persist_rolling_consumption(r.id, tokens, cost, pool) = <<e>>
    BY <1>2 DEF persist_rolling_consumption, durable_reservation_id
  <2>2. id \in EventId
    BY <1>0 DEF EventId
  <2> HIDE DEF id
  <2>3. e \in LedgerEvent /\ e.kind = "pool_consume" /\ e.id = id
    BY <1>0, <2>2 DEF BudgetLedgerEvent, LedgerEvent, Kinds
  <2> HIDE DEF e
  <2>4. journal' = journal \o <<e>> /\ <<e>> # <<>>
    BY <1>0, <2>1
  <2>5. Grown(journal, journal', e)
    BY <1>0, <2>3, <2>4, AppendGrows
  <2>6. ensure_append_capacity(journal, PendingAfterSettlement)
    BY <2>1, <2>4 DEF CapacityFor
  <2>7. Len(journal) + 1 + Cardinality(unsettled_reservations(journal)) <= MaxRecords
    BY <1>0, <2>6 DEF ensure_append_capacity, PendingAfterSettlement, Pending
  <2> QED
    BY <2>3, <2>4, <2>5, <2>7 DEF id
<1> QED
  BY <1>1, <1>2

\* An event whose id was given out before keeps ids old, and one of its kind keeps kinds.
LEMMA IdsStayOld ==
  ASSUME JournalInv, NEW e, Grown(journal, journal', e), UNCHANGED session,
         e.kind # "rate_limited" =>
           /\ e.id \in Nat \X Nat /\ e.id[1] <= session
           /\ handle' \in {"recovering", "latching"} => e.id[1] < session
           /\ handle' = "open" => e.id[1] < session \/ e.id[2] < st.next_reservation_id,
         UNCHANGED handle \/ handle' = "closed",
         st'.next_reservation_id = st.next_reservation_id,
         Quota <=> e.kind # "pool_consume"
  PROVE  IdsAreOld' /\ KindsFit' /\ journal' \in Seq(LedgerEvent)
<1>1. /\ journal' \in Seq(LedgerEvent) /\ journal'[Len(journal) + 1] = e
      /\ \A i \in DOMAIN journal' : i \in DOMAIN journal \/ i = Len(journal) + 1
      /\ \A i \in DOMAIN journal : journal'[i] = journal[i]
  BY GrownIndices DEF Grown
<1>2. KindsFit'
  BY <1>1 DEF JournalInv, KindsFit, Quota
<1>3. ASSUME NEW i \in DOMAIN journal', journal'[i].kind # "rate_limited"
      PROVE  /\ journal'[i].id \in Nat \X Nat
             /\ journal'[i].id[1] <= session
             /\ handle' \in {"recovering", "latching"} => journal'[i].id[1] < session
             /\ handle' = "open" => \/ journal'[i].id[1] < session
                                    \/ journal'[i].id[2] < st.next_reservation_id
  <2>1. CASE i \in DOMAIN journal
    BY <1>1, <1>3, <2>1 DEF JournalInv, IdsAreOld
  <2>2. CASE i = Len(journal) + 1
    BY <1>1, <1>3, <2>2
  <2> QED
    BY <1>1, <2>1, <2>2
<1>4. IdsAreOld'
  BY <1>3 DEF IdsAreOld
<1> QED
  BY <1>1, <1>2, <1>4

\* A settlement keeps the journal's invariant.
LEMMA SettlesKeep ==
  ASSUME MemoryInv, JournalInv, handle = "open", UNCHANGED <<handle, session>>, Settles
  PROVE  JournalInv'
<1>0. /\ events = journal /\ journal \in Seq(LedgerEvent) /\ replay_events_ok(journal)
      /\ session \in Nat /\ st.next_reservation_id \in Nat /\ OneReservationPerId(journal)
      /\ \A r \in st.active : r.id \in Nat /\ r.id < st.next_reservation_id
      /\ \A r, q \in st.active : r.id = q.id => r = q
      /\ Quota => unsettled_reservations(journal) = OwnReservations
  BY OpenParts
<1>1. PICK r \in st.active, tokens \in Nat, cost \in Nat \cup {None}, pool \in PoolNames :
        /\ CapacityFor(persist_rolling_consumption(r.id, tokens, cost, pool), PendingAfterSettlement)
        /\ Persist(persist_rolling_consumption(r.id, tokens, cost, pool))
        /\ st'.active = st.active \ {r}
        /\ st'.next_reservation_id = st.next_reservation_id
  BY DEF Settles
<1> DEFINE id == <<session, r.id>>
<1>2. /\ id \in Nat \X Nat /\ id[1] <= session /\ id[2] < st.next_reservation_id
  BY <1>0
<1>7. /\ journal' = journal \o persist_rolling_consumption(r.id, tokens, cost, pool)
      /\ events' = journal'
  BY <1>0, <1>1 DEF Persist
<1>3. handle' = "open" /\ session' = session
  OBVIOUS
<1>4. OwnReservations' = OwnReservations \ {id}
  BY <1>0, <1>1, <1>3 DEF OwnReservations, durable_reservation_id
<1>5. CASE Quota
  <2>1. PICK e \in LedgerEvent :
           /\ Grown(journal, journal', e)
           /\ e.kind = "reconciled" /\ e.id = id
           /\ e.id \in unsettled_reservations(journal) /\ ~e.recovered
           /\ reservation(journal, e.id).at <= e.at
    BY <1>1, <1>5, <1>7, SettleAppends
  <2>2. /\ replay_events_ok(journal')
        /\ unsettled_reservations(journal') = unsettled_reservations(journal) \ {e.id}
        /\ \A d : Entries(journal, "reservation", d) # {}
                    => reservation(journal', d) = reservation(journal, d)
    BY <1>0, <2>1, TerminalAppended
  <2>3. IdsAreOld' /\ KindsFit' /\ journal' \in Seq(LedgerEvent)
    BY <1>1, <1>2, <1>3, <1>5, <2>1, IdsStayOld
  <2>4. HandleIsCurrent'
    BY <1>3, <1>7 DEF HandleIsCurrent
  <2>5. MemoryIsJournaled'
    <3>1. unsettled_reservations(journal') = OwnReservations'
      BY <1>0, <1>4, <1>5, <2>1, <2>2
    <3>2. ASSUME NEW q \in st'.active
          PROVE  reservation(journal', <<session, q.id>>).tokens = q.tokens
      <4>1. q \in st.active
        BY <1>1
      <4>2. <<session, q.id>> \in unsettled_reservations(journal)
        BY <1>0, <1>5, <4>1 DEF OwnReservations, durable_reservation_id
      <4>3. Entries(journal, "reservation", <<session, q.id>>) # {}
        BY <1>0, <4>2, UnsettledIs
      <4>4. reservation(journal, <<session, q.id>>).tokens = q.tokens
        BY <1>5, <4>1 DEF JournalInv, MemoryIsJournaled, durable_reservation_id
      <4> QED
        BY <2>2, <4>3, <4>4
    <3> QED
      BY <1>3, <3>1, <3>2 DEF MemoryIsJournaled, durable_reservation_id
  <2>6. CompletionIsNew'
    BY <1>5 DEF CompletionIsNew, Quota
  <2> QED
    BY <2>2, <2>3, <2>4, <2>5, <2>6 DEF JournalInv
<1>6. CASE ~Quota
  <2>1. MemoryIsJournaled'
    BY <1>6 DEF MemoryIsJournaled, Quota
  <2>2. CASE journal' = journal
    <3>1. HandleIsCurrent' /\ KindsFit' /\ IdsAreOld'
      BY <1>1, <1>3, <1>7, <2>2 DEF JournalInv, HandleIsCurrent, KindsFit, IdsAreOld
    <3>2. CompletionIsNew'
      BY <1>1, <1>3, <2>2 DEF JournalInv, CompletionIsNew, durable_reservation_id
    <3> QED
      BY <1>0, <2>1, <2>2, <3>1, <3>2 DEF JournalInv
  <2>3. CASE journal' # journal
    <3>1. PICK e \in LedgerEvent :
              /\ Grown(journal, journal', e)
              /\ e.kind = "pool_consume" /\ e.id = id
              /\ Len(journal) + 1 + Cardinality(unsettled_reservations(journal)) <= MaxRecords
      BY <1>1, <1>6, <1>7, <2>3, CompletionAppends
    <3>2. \A i \in DOMAIN journal, q \in st.active : journal[i].id # <<session, q.id>>
      BY <1>6 DEF JournalInv, CompletionIsNew, durable_reservation_id
    <3>3. replay_events_ok(journal')
      BY <1>0, <3>1, <3>2, OtherAppended
    <3>4. IdsAreOld' /\ KindsFit' /\ journal' \in Seq(LedgerEvent)
      BY <1>1, <1>2, <1>3, <1>6, <3>1, IdsStayOld
    <3>5. HandleIsCurrent'
      BY <1>3, <1>7 DEF HandleIsCurrent
    <3>6. CompletionIsNew'
      <4> SUFFICES ASSUME NEW i \in DOMAIN journal', NEW q \in st'.active
                   PROVE  journal'[i].id # <<session, q.id>>
        BY <1>3 DEF CompletionIsNew, durable_reservation_id
      <4>1. q \in st.active /\ q.id # r.id /\ q.id \in Nat /\ r.id \in Nat
        BY <1>0, <1>1
      <4>2. CASE i \in DOMAIN journal
        BY <3>1, <3>2, <4>1, <4>2, GrownIndices
      <4>3. CASE i = Len(journal) + 1
        <5>1. journal'[i].id = id
          BY <3>1, <4>3 DEF Grown
        <5> QED
          BY <1>0, <4>1, <5>1
      <4> QED
        BY <3>1, <4>2, <4>3, GrownIndices
    <3> QED
      BY <2>1, <3>3, <3>4, <3>5, <3>6 DEF JournalInv
  <2> QED
    BY <2>2, <2>3
<1> QED
  BY <1>5, <1>6

\* What recovery writes.
LEMMA RecoverAppends ==
  ASSUME MemoryInv, JournalInv, NEW id \in unsettled_reservations(events), RecoverUnsettled(id)
  PROVE  /\ handle \in {"recovering", "latching"} /\ events = journal
         /\ \E e \in LedgerEvent :
              /\ Grown(journal, journal', e) /\ events' = journal'
              /\ e.kind = "reconciled" /\ e.id = id /\ id \in unsettled_reservations(journal)
              /\ LET r == reservation(journal, id)
                 IN r.tokens = e.tokens /\ r.cost = e.cost /\ r.pool = e.pool /\ r.at <= e.at
              /\ now <= e.at
<1> DEFINE r == reservation(journal, id)
           at == TerminalAt(journal, id, now)
           e == [BudgetLedgerEvent("reconciled", id, r.tokens, r.cost, r.pool, at)
                   EXCEPT !.recovered = TRUE]
<1>0. /\ handle \in {"recovering", "latching"} /\ events = journal /\ journal \in Seq(LedgerEvent)
      /\ OneReservationPerId(journal) /\ now \in Nat
  BY ReplayParts, Constants DEF RecoverUnsettled, JournalInv, HandleIsCurrent, MemoryInv, Types
<1>1. id \in unsettled_reservations(journal) /\ r \in LedgerEvent
  BY <1>0, UnsettledIs
<1>2. id \in EventId
  <2>1. PICK k \in DOMAIN journal : journal[k].id = id
    BY <1>1 DEF unsettled_reservations
  <2>2. journal[k] \in LedgerEvent
    BY <1>0, <2>1
  <2> QED
    BY <2>1, <2>2 DEF LedgerEvent
<1>3. at \in Nat /\ at >= now /\ r.at <= at
  BY <1>0, <1>1, TerminalDate
<1>4. journal' = journal \o <<e>> /\ events' = journal'
  BY <1>0 DEF RecoverUnsettled, Persist
<1> HIDE DEF r, at
<1>5. /\ e \in LedgerEvent /\ e.kind = "reconciled" /\ e.id = id /\ e.tokens = r.tokens
      /\ e.cost = r.cost /\ e.pool = r.pool /\ e.at = at
  BY <1>1, <1>2, <1>3 DEF BudgetLedgerEvent, LedgerEvent, Kinds
<1> HIDE DEF e
<1>6. Grown(journal, journal', e)
  BY <1>0, <1>4, <1>5, AppendGrows
<1> QED
  BY <1>0, <1>1, <1>3, <1>4, <1>5, <1>6 DEF r

\* Recovery keeps the journal's invariant.
LEMMA RecoverKeeps ==
  ASSUME MemoryInv, JournalInv, NEW id \in unsettled_reservations(events), RecoverUnsettled(id)
  PROVE  JournalInv'
<1>0. /\ UNCHANGED <<handle, session, st>> /\ journal \in Seq(LedgerEvent)
      /\ replay_events_ok(journal) /\ OneReservationPerId(journal)
  BY ReplayParts DEF RecoverUnsettled, JournalInv
<1>1. handle \in {"recovering", "latching"} /\ handle' = handle
  BY <1>0, RecoverAppends
<1>2. PICK e \in LedgerEvent :
        /\ Grown(journal, journal', e) /\ events' = journal'
        /\ e.kind = "reconciled" /\ e.id = id /\ id \in unsettled_reservations(journal)
        /\ LET r == reservation(journal, id)
           IN r.tokens = e.tokens /\ r.cost = e.cost /\ r.pool = e.pool /\ r.at <= e.at
  BY RecoverAppends
<1>3. replay_events_ok(journal')
  BY <1>0, <1>2, TerminalAppended
<1>4. PICK k \in DOMAIN journal : journal[k].kind = "reservation" /\ journal[k].id = id
  BY <1>0, <1>2, UnsettledIs
<1>5. /\ Quota /\ id \in Nat \X Nat /\ id[1] <= session /\ id[1] < session
  BY <1>1, <1>4 DEF JournalInv, IdsAreOld, KindsFit
<1>6. IdsAreOld' /\ KindsFit' /\ journal' \in Seq(LedgerEvent)
  BY <1>0, <1>1, <1>2, <1>5, IdsStayOld
<1>7. HandleIsCurrent' /\ MemoryIsJournaled' /\ CompletionIsNew'
  BY <1>1, <1>2 DEF HandleIsCurrent, MemoryIsJournaled, CompletionIsNew
<1> QED
  BY <1>3, <1>6, <1>7 DEF JournalInv

\* What a rate limit writes.
LEMMA LatchAppends ==
  ASSUME MemoryInv, JournalInv, LatchRateLimit
  PROVE  /\ handle = "latching" /\ events = journal
         /\ \E e \in LedgerEvent :
              /\ Grown(journal, journal', e) /\ e.kind = "rate_limited"
              /\ Len(journal) + 1 + Cardinality(unsettled_reservations(journal)) <= MaxRecords
<1> DEFINE e == [BudgetLedgerEvent("rate_limited", <<>>, 0, None, NoPool, now)
                   EXCEPT !.until = now + Window]
<1>0. /\ handle = "latching" /\ events = journal /\ journal \in Seq(LedgerEvent) /\ now \in Nat
  BY Constants DEF LatchRateLimit, JournalInv, HandleIsCurrent, MemoryInv, Types
<1>1. now + Window \in Nat
  BY <1>0, Constants
<1>2. e \in LedgerEvent /\ e.kind = "rate_limited"
  BY <1>0, <1>1 DEF BudgetLedgerEvent, LedgerEvent, Kinds, EventId, PoolNames
<1>3. journal' = Append(journal, e) /\ ensure_append_capacity(journal, Pending)
  BY DEF LatchRateLimit
<1> HIDE DEF e
<1>4. Grown(journal, journal', e)
  BY <1>0, <1>2, <1>3, AppendGrows
<1>5. Len(journal) + 1 + Cardinality(unsettled_reservations(journal)) <= MaxRecords
  BY <1>0, <1>3 DEF ensure_append_capacity, Pending
<1> QED
  BY <1>0, <1>2, <1>4, <1>5

\* Opening, attaching, rate limits, the end of a run and the passing of time.
LEMMA LifeKeepsJournal ==
  ASSUME MemoryInv, JournalInv,
         OpenLedger \/ Attach \/ LatchRateLimit \/ Crash \/ Expire \/ Tick
  PROVE  JournalInv'
<1>0. /\ journal \in Seq(LedgerEvent) /\ replay_events_ok(journal) /\ session \in Nat
  BY Constants DEF JournalInv, MemoryInv, Types
<1>1. CASE OpenLedger
  <2>1. /\ handle = "closed" /\ handle' \in {"recovering", "latching"} /\ events' = journal
        /\ session' = session + 1 /\ journal' = journal /\ (handle' = "latching" => Quota)
    BY <1>1 DEF OpenLedger
  <2>2. HandleIsCurrent' /\ MemoryIsJournaled' /\ CompletionIsNew'
    BY <2>1 DEF HandleIsCurrent, MemoryIsJournaled, CompletionIsNew
  <2>3. KindsFit'
    BY <2>1 DEF JournalInv, KindsFit, Quota
  <2>4. IdsAreOld'
    <3> SUFFICES ASSUME NEW i \in DOMAIN journal, journal[i].kind # "rate_limited"
                 PROVE  journal[i].id \in Nat \X Nat /\ journal[i].id[1] < session + 1
      BY <1>0, <2>1 DEF IdsAreOld
    <3>1. journal[i].id \in Nat \X Nat /\ journal[i].id[1] <= session
      BY DEF JournalInv, IdsAreOld
    <3> QED
      BY <1>0, <3>1
  <2> QED
    BY <1>0, <2>1, <2>2, <2>3, <2>4 DEF JournalInv
<1>2. CASE Attach
  <2>1. /\ handle = "recovering" /\ handle' = "open" /\ UNCHANGED <<journal, events, session>>
        /\ unsettled_reservations(events) = {} /\ events = journal
        /\ st' = [LedgerState EXCEPT !.force_stop = admission_block_reasons(events)]
    BY <1>2 DEF Attach, Recovered, JournalInv, HandleIsCurrent
  <2>2. st'.active = {}
    BY <2>1 DEF LedgerState
  <2>3. HandleIsCurrent' /\ KindsFit'
    BY <2>1 DEF JournalInv, HandleIsCurrent, KindsFit
  <2>4. IdsAreOld'
    BY <2>1 DEF JournalInv, IdsAreOld
  <2>5. OwnReservations' = {}
    BY <2>2 DEF OwnReservations
  <2>6. MemoryIsJournaled' /\ CompletionIsNew'
    BY <2>1, <2>2, <2>5 DEF MemoryIsJournaled, CompletionIsNew
  <2> QED
    BY <1>0, <2>1, <2>3, <2>4, <2>6 DEF JournalInv
<1>3. CASE LatchRateLimit
  <2>1. /\ handle = "latching" /\ handle' = "closed" /\ events' = <<>> /\ UNCHANGED <<session, st>>
    BY <1>3 DEF LatchRateLimit
  <2>2. PICK e \in LedgerEvent :
              /\ Grown(journal, journal', e) /\ e.kind = "rate_limited"
              /\ Len(journal) + 1 + Cardinality(unsettled_reservations(journal)) <= MaxRecords
    BY <1>3, LatchAppends
  <2>3. replay_events_ok(journal')
    BY <1>0, <2>2, OtherAppended
  <2>4. Quota
    BY <2>1 DEF JournalInv, KindsFit
  <2>5. IdsAreOld' /\ KindsFit' /\ journal' \in Seq(LedgerEvent)
    BY <2>1, <2>2, <2>4, IdsStayOld
  <2>6. HandleIsCurrent' /\ MemoryIsJournaled' /\ CompletionIsNew'
    BY <2>1 DEF HandleIsCurrent, MemoryIsJournaled, CompletionIsNew
  <2> QED
    BY <2>3, <2>5, <2>6 DEF JournalInv
<1>4. CASE Crash
  <2>1. handle' = "closed" /\ events' = <<>> /\ UNCHANGED <<journal, session>>
    BY <1>4 DEF Crash
  <2>2. HandleIsCurrent' /\ MemoryIsJournaled' /\ CompletionIsNew'
    BY <2>1 DEF HandleIsCurrent, MemoryIsJournaled, CompletionIsNew
  <2>3. IdsAreOld' /\ KindsFit'
    BY <2>1 DEF JournalInv, IdsAreOld, KindsFit
  <2> QED
    BY <1>0, <2>1, <2>2, <2>3 DEF JournalInv
<1>5. CASE Expire \/ Tick
  <2>1. UNCHANGED <<journal, events, handle, session, st>>
    BY <1>5 DEF Expire, Tick, durableVars
  <2> QED
    BY <2>1 DEF JournalInv, HandleIsCurrent, IdsAreOld, KindsFit, MemoryIsJournaled,
                CompletionIsNew, OwnReservations, durable_reservation_id
<1> QED
  BY <1>1, <1>2, <1>3, <1>4, <1>5

\* The empty journal agrees with a run that has not begun.
LEMMA EmptyJournal == BudgetInit => JournalInv
<1> SUFFICES ASSUME BudgetInit PROVE JournalInv
  OBVIOUS
<1>1. journal = <<>> /\ events = <<>> /\ handle = "closed"
  BY DEF BudgetInit
<1>2. journal \in Seq(LedgerEvent) /\ DOMAIN journal = {} /\ Len(journal) = 0
  BY <1>1
<1>3. unsettled_reservations(journal) = {}
  BY <1>2 DEF unsettled_reservations
<1>4. Cardinality(unsettled_reservations(journal)) = 0
  BY <1>3, FS_EmptySet
<1>5. replay_events_ok(journal)
  BY <1>2, <1>4, Constants DEF replay_events_ok
<1>6. HandleIsCurrent /\ IdsAreOld /\ KindsFit /\ MemoryIsJournaled /\ CompletionIsNew
  BY <1>1, <1>2 DEF HandleIsCurrent, IdsAreOld, KindsFit, MemoryIsJournaled, CompletionIsNew
<1> QED
  BY <1>2, <1>5, <1>6 DEF JournalInv

\* The journal agrees with the memory, run after run, and later opens accept it.
THEOREM BudgetJournal ==
  ASSUME "head" \notin Faults
  PROVE  BudgetSpec => [](MemoryInv /\ JournalInv)
<1>1. BudgetInit => JournalInv
  BY EmptyJournal
<1>2. MemoryInv /\ JournalInv /\ [BudgetNext]_budgetVars => JournalInv'
  <2> SUFFICES ASSUME MemoryInv, JournalInv, [BudgetNext]_budgetVars PROVE JournalInv'
    OBVIOUS
  <2>1. CASE UNCHANGED budgetVars
    BY <2>1 DEF budgetVars, durableVars, JournalInv, HandleIsCurrent, IdsAreOld, KindsFit,
                MemoryIsJournaled, CompletionIsNew, OwnReservations, durable_reservation_id
  <2>2. ASSUME NEW t \in Threads, ThreadStep(t) PROVE JournalInv'
    <3>1. /\ handle = "open" /\ UNCHANGED <<handle, session>>
          /\ Quiet \/ Admits \/ Settles
      BY <2>2, ThreadEffect DEF HeadAdmits, HeadSettles
    <3> QED
      BY <3>1, QuietKeeps, AdmitKeeps, SettlesKeep
  <2> QED
    BY <2>1, <2>2, RecoverKeeps, LifeKeepsJournal DEF BudgetNext
<1> QED
  BY <1>1, <1>2, BudgetMemory, PTL DEF BudgetSpec

-----------------------------------------------------------------------------
(* A head that fails after its record.                                      *)

\* The journal is ahead by an event that replays.
LEMMA GetsAhead ==
  ASSUME MemoryInv, JournalInv, handle = "open", UNCHANGED <<handle, session, events>>,
         NEW e \in LedgerEvent, Grown(journal, journal', e), replay_events_ok(journal'),
         e.kind # "rate_limited", e.id \in Nat \X Nat, e.id[1] <= session,
         Quota <=> e.kind # "pool_consume"
  PROVE  Ahead'
<1>1. events = journal
  BY OpenParts
<1>2. /\ journal \in Seq(LedgerEvent) /\ journal' \in Seq(LedgerEvent)
      /\ journal'[Len(journal) + 1] = e /\ Len(journal') = Len(journal) + 1
      /\ \A i \in DOMAIN journal' : i \in DOMAIN journal \/ i = Len(journal) + 1
      /\ \A i \in DOMAIN journal : journal'[i] = journal[i]
  BY GrownIndices DEF Grown
<1>3. events' # journal' /\ events' \in Seq(LedgerEvent)
  BY <1>1, <1>2
<1>4. ASSUME NEW i \in DOMAIN journal'
      PROVE  /\ Quota <=> journal'[i].kind # "pool_consume"
             /\ journal'[i].kind # "rate_limited"
                  => journal'[i].id \in Nat \X Nat /\ journal'[i].id[1] <= session
  <2>1. CASE i \in DOMAIN journal
    BY <1>2, <2>1 DEF JournalInv, IdsAreOld, KindsFit
  <2>2. CASE i = Len(journal) + 1
    BY <1>2, <2>2
  <2> QED
    BY <1>2, <2>1, <2>2
<1> QED
  BY <1>2, <1>3, <1>4 DEF Ahead, Quota

\* The reservation of a refused admission is journaled.
LEMMA HeadAdmitsAhead ==
  ASSUME MemoryInv, JournalInv, handle = "open", UNCHANGED <<handle, session>>, HeadAdmits
  PROVE  Ahead'
<1>0. journal \in Seq(LedgerEvent) /\ replay_events_ok(journal) /\ session \in Nat
      /\ st.next_reservation_id \in Nat
  BY OpenParts
<1>1. PICK req \in Requests :
        /\ persist_rolling_reservation(req) # <<>>
        /\ CapacityFor(persist_rolling_reservation(req), Pending + 1)
        /\ journal' = journal \o persist_rolling_reservation(req)
  BY DEF HeadAdmits
<1>2. Quota /\ events' = events
  BY <1>1 DEF persist_rolling_reservation, HeadAdmits
<1>3. PICK e \in LedgerEvent :
        /\ Grown(journal, journal', e) /\ e.kind = "reservation"
        /\ e.id = <<session, st.next_reservation_id>>
        /\ Len(journal) + 1 + (Cardinality(unsettled_reservations(journal)) + 1) <= MaxRecords
  BY <1>1, <1>2, AdmitAppends
<1>4. \A i \in DOMAIN journal : journal[i].kind # "rate_limited" => journal[i].id # e.id
  BY <1>3, NextIdIsNew
<1>5. replay_events_ok(journal')
  BY <1>0, <1>3, <1>4, ReservationAppended
<1>6. e.id \in Nat \X Nat /\ e.id[1] <= session
  BY <1>0, <1>3
<1> QED
  BY <1>2, <1>3, <1>5, <1>6, GetsAhead

\* The terminal event of a reservation the run still holds is journaled.
LEMMA HeadSettlesAhead ==
  ASSUME MemoryInv, JournalInv, handle = "open", UNCHANGED <<handle, session>>, HeadSettles
  PROVE  Ahead'
<1>0. /\ journal \in Seq(LedgerEvent) /\ replay_events_ok(journal) /\ session \in Nat
      /\ \A r \in st.active : r.id \in Nat
  BY OpenParts
<1>1. PICK r \in st.active, tokens \in Nat, cost \in Nat \cup {None}, pool \in PoolNames :
        /\ persist_rolling_consumption(r.id, tokens, cost, pool) # <<>>
        /\ CapacityFor(persist_rolling_consumption(r.id, tokens, cost, pool),
                       PendingAfterSettlement)
        /\ journal' = journal \o persist_rolling_consumption(r.id, tokens, cost, pool)
  BY DEF HeadSettles
<1>2. events' = events /\ <<session, r.id>> \in Nat \X Nat /\ <<session, r.id>>[1] <= session
  BY <1>0 DEF HeadSettles
<1>3. CASE Quota
  <2>1. PICK e \in LedgerEvent :
          /\ Grown(journal, journal', e) /\ e.kind = "reconciled" /\ e.id = <<session, r.id>>
          /\ e.id \in unsettled_reservations(journal) /\ ~e.recovered
          /\ reservation(journal, e.id).at <= e.at
    BY <1>1, <1>3, SettleAppends
  <2>2. replay_events_ok(journal')
    BY <1>0, <2>1, TerminalAppended
  <2> QED
    BY <1>2, <1>3, <2>1, <2>2, GetsAhead
<1>4. CASE ~Quota
  <2>1. PICK e \in LedgerEvent :
          /\ Grown(journal, journal', e) /\ e.kind = "pool_consume" /\ e.id = <<session, r.id>>
          /\ Len(journal) + 1 + Cardinality(unsettled_reservations(journal)) <= MaxRecords
    <3>1. journal' # journal
      <4>1. PICK x : persist_rolling_consumption(r.id, tokens, cost, pool) = <<x>>
        BY <1>1, <1>4 DEF persist_rolling_consumption
      <4>2. pool # NoPool
        BY <1>1, <1>4 DEF persist_rolling_consumption
      <4> DEFINE e == BudgetLedgerEvent("pool_consume", <<session, r.id>>, tokens, cost, pool, now)
      <4>3. persist_rolling_consumption(r.id, tokens, cost, pool) = <<e>>
        BY <1>4, <4>2 DEF persist_rolling_consumption, durable_reservation_id
      <4>4. e \in LedgerEvent
        BY <1>2, OpenParts DEF BudgetLedgerEvent, LedgerEvent, Kinds, EventId
      <4> HIDE DEF e
      <4>5. Len(journal') = Len(journal) + 1
        BY <1>0, <1>1, <4>3, <4>4
      <4> QED
        BY <1>0, <4>5
    <3> QED
      BY <1>1, <1>4, <3>1, CompletionAppends
  <2>2. \A i \in DOMAIN journal : journal[i].id # <<session, r.id>>
    BY <1>4 DEF JournalInv, CompletionIsNew, durable_reservation_id
  <2>3. replay_events_ok(journal')
    BY <1>0, <2>1, <2>2, OtherAppended
  <2> QED
    BY <1>2, <1>4, <2>1, <2>3, GetsAhead
<1> QED
  BY <1>3, <1>4

\* A run whose journal is ahead of its events writes nothing, or is stale.
LEMMA AheadIsQuiet ==
  ASSUME MemoryInv, Ahead, stale \in BOOLEAN, NEW t \in Threads, ThreadStep(t)
  PROVE  stale' \/ (journal' = journal /\ events' = events)
<1>0. journal \in Seq(LedgerEvent) /\ events \in Seq(LedgerEvent) /\ events # journal
  BY DEF Ahead
<1>1. ASSUME NEW list, Persist(list) PROVE stale' \/ (journal' = journal /\ events' = events)
  <2>1. CASE list = <<>>
    BY <1>0, <1>1, <2>1 DEF Persist
  <2>2. CASE list # <<>>
    BY <1>0, <1>1, <2>2 DEF Persist, WritesStale
  <2> QED
    BY <2>1, <2>2
<1>2. ASSUME NEW list, NEW n, PersistFails(list, n)
      PROVE  stale' \/ (journal' = journal /\ events' = events)
  <2>1. events' = events /\ (journal' = journal \/ WritesStale(list)) /\ list # <<>>
    BY <1>2, Zenon DEF PersistFails, HeadFails
  <2> QED
    BY <1>0, <2>1 DEF WritesStale
<1>3. ASSUME NEW req, reserve_locked(t, req)
      PROVE  stale' \/ (journal' = journal /\ events' = events)
  BY <1>1, <1>2, <1>3 DEF reserve_locked, Admit
<1> QED
  BY <1>1, <1>2, <1>3
     DEF ThreadStep, Ask, Wake, GiveUp, configure_live_token_limit, live_token_grant, Invoke,
         Exhaust, Settle, SettleNotStarted, Drop, reconcile, release, durableVars

\* The end of such a run leaves a journal that the next open reads as a whole.
LEMMA AheadLife ==
  ASSUME MemoryInv, Ahead,
         \/ OpenLedger \/ Attach \/ LatchRateLimit \/ Crash \/ Expire \/ Tick
         \/ \E id \in unsettled_reservations(events) : RecoverUnsettled(id)
  PROVE  JournalInv' \/ Ahead'
<1>1. handle = "open" /\ (Crash \/ Expire \/ Tick)
  BY DEF Ahead, OpenLedger, Attach, LatchRateLimit, RecoverUnsettled
<1>2. CASE Crash
  <2>1. handle' = "closed" /\ events' = <<>> /\ UNCHANGED <<journal, session>>
    BY <1>2 DEF Crash
  <2>2. HandleIsCurrent' /\ MemoryIsJournaled' /\ CompletionIsNew'
    BY <2>1 DEF HandleIsCurrent, MemoryIsJournaled, CompletionIsNew
  <2>3. IdsAreOld' /\ KindsFit'
    BY <2>1 DEF Ahead, IdsAreOld, KindsFit, Quota
  <2> QED
    BY <2>1, <2>2, <2>3 DEF Ahead, JournalInv
<1>3. CASE Expire \/ Tick
  <2>1. UNCHANGED <<journal, events, handle, session>>
    BY <1>3 DEF Expire, Tick, durableVars
  <2> QED
    BY <2>1 DEF Ahead, Quota
<1> QED
  BY <1>1, <1>2, <1>3

\* With failing heads as well, the journal agrees with the memory, or is ahead of it, until
\* a run writes on.
LEMMA BudgetJournalUntilStale ==
  BudgetSpec => [](MemoryInv /\ stale \in BOOLEAN /\ (stale \/ JournalInv \/ Ahead))
<1>1. BudgetInit => JournalInv
  BY EmptyJournal
<1>2. /\ MemoryInv /\ stale \in BOOLEAN /\ (stale \/ JournalInv \/ Ahead)
      /\ [BudgetNext]_budgetVars
      => (stale \/ JournalInv \/ Ahead)'
  <2> SUFFICES ASSUME MemoryInv, stale \in BOOLEAN, JournalInv \/ Ahead, [BudgetNext]_budgetVars
               PROVE  (stale \/ JournalInv \/ Ahead)'
    BY StaleStays
  <2>1. CASE UNCHANGED budgetVars
    BY <2>1 DEF budgetVars, durableVars, JournalInv, HandleIsCurrent, IdsAreOld, KindsFit,
                MemoryIsJournaled, CompletionIsNew, OwnReservations, durable_reservation_id,
                Ahead, Quota
  <2>2. ASSUME NEW t \in Threads, ThreadStep(t) PROVE (stale \/ JournalInv \/ Ahead)'
    <3>1. /\ handle = "open" /\ UNCHANGED <<handle, session>>
          /\ Quiet \/ Admits \/ Settles \/ HeadAdmits \/ HeadSettles
      BY <2>2, ThreadEffect
    <3>2. CASE JournalInv
      BY <3>1, <3>2, QuietKeeps, AdmitKeeps, SettlesKeep, HeadAdmitsAhead, HeadSettlesAhead
    <3>3. CASE Ahead
      <4>1. CASE journal' = journal /\ events' = events
        BY <3>1, <3>3, <4>1 DEF Ahead, Quota
      <4> QED
        BY <2>2, <3>3, <4>1, AheadIsQuiet
    <3> QED
      BY <3>2, <3>3
  <2> QED
    BY <2>1, <2>2, RecoverKeeps, LifeKeepsJournal, AheadLife DEF BudgetNext
<1> QED
  BY <1>1, <1>2, BudgetMemory, BudgetStaleIsBoolean, PTL DEF BudgetSpec

\* LedgerReplays: what the runs write, a later open accepts.  Appends may fail before or after
\* their record is published; a run that writes on after the latter is excepted.
THEOREM BudgetLedgerReplays == BudgetSpec => []LedgerReplays
<1>1. stale \/ JournalInv \/ Ahead => LedgerReplays
  BY DEF JournalInv, Ahead, LedgerReplays
<1> QED
  BY <1>1, BudgetJournalUntilStale, PTL

\* CapacityForTerminals: every unsettled reservation keeps room for its terminal event,
\* whatever other runs, rate-limit latches and failing appends leave in the journal.
THEOREM BudgetCapacityForTerminals == BudgetSpec => []CapacityForTerminals
<1>1. stale \/ JournalInv \/ Ahead => CapacityForTerminals
  BY DEF JournalInv, Ahead, replay_events_ok, CapacityForTerminals
<1> QED
  BY <1>1, BudgetJournalUntilStale, PTL

\* AdmissionPersisted: a provider runs only under a reservation that is journaled and
\* unsettled.
LEMMA JournaledWhileInvoked == MemoryInv /\ JournalInv => AdmissionPersisted
<1> SUFFICES ASSUME MemoryInv, JournalInv, Quota, NEW t \in Threads, threads[t].pc = "invoked"
             PROVE  durable_reservation_id(threads[t].id) \in unsettled_reservations(journal)
  BY DEF AdmissionPersisted
<1>1. handle = "open" /\ threads[t].pc \in HoldingPc
  BY OpenWhileBusy DEF HoldingPc
<1>2. Mine(t) \in st.active /\ Mine(t).id = threads[t].id
  BY <1>1, MineIsActive
<1>3. unsettled_reservations(journal) = OwnReservations
  BY <1>1, OpenParts
<1> QED
  BY <1>2, <1>3 DEF OwnReservations

-----------------------------------------------------------------------------
(* What the window holds.                                                   *)

WindowOf(s, n) ==
  {i \in DOMAIN s : s[i].kind = "reconciled" /\ s[i].at >= SaturatingSub(n, Window)}
UsedIn(s, n) == SumFunction([i \in WindowOf(s, n) |-> s[i].tokens])

Reconciled(s) == {i \in DOMAIN s : s[i].kind = "reconciled"}
ExcessOf(s) ==
  SumFunction([i \in Reconciled(s) |->
                 SaturatingSub(s[i].tokens, reservation(s, s[i].id).tokens)])

Fits(s, n) == UsedIn(s, n) + Owed(s) <= MaxTokens + ExcessOf(s)

\* RollingWithinQuota in these terms.
LEMMA QuotaAsSums == RollingWithinQuota <=> (MaxTokens # 0 /\ ~wentBack => Fits(journal, now))
BY Zenon DEF RollingWithinQuota, Fits, UsedIn, WindowOf, SettledInWindow, Owed, ExcessOf, Reconciled,
             Excess

\* The same of the next state.
LEMMA QuotaAsSumsNext ==
  RollingWithinQuota' <=> (MaxTokens # 0 /\ ~wentBack' => Fits(journal', now'))
BY Zenon DEF RollingWithinQuota, Fits, UsedIn, WindowOf, SettledInWindow, Owed, ExcessOf, Reconciled,
             Excess

TokensOf(s) == [i \in DOMAIN s |-> s[i].tokens]

\* The usage of a window as a sum over its events.
LEMMA UsedIsSum ==
  ASSUME NEW s \in Seq(LedgerEvent), NEW n
  PROVE  /\ UsedIn(s, n) = SumFunctionOnSet(TokensOf(s), WindowOf(s, n))
         /\ IsFiniteSet(WindowOf(s, n)) /\ UsedIn(s, n) \in Nat
         /\ \A i \in DOMAIN s : TokensOf(s)[i] \in Nat
<1> DEFINE W == WindowOf(s, n)
           g == [i \in W |-> s[i].tokens]
<1>1. DOMAIN s = 1..Len(s) /\ Len(s) \in Nat /\ \A i \in DOMAIN s : s[i] \in LedgerEvent
  OBVIOUS
<1>2. \A i \in DOMAIN s : TokensOf(s)[i] = s[i].tokens /\ s[i].tokens \in Nat
  BY <1>1 DEF TokensOf, LedgerEvent
<1>3. W \in SUBSET (1..Len(s)) /\ IsFiniteSet(1..Len(s))
  BY <1>1, FS_Interval DEF WindowOf
<1>4. IsFiniteSet(W) /\ \A i \in W : TokensOf(s)[i] \in Nat
  BY <1>1, <1>2, <1>3, FS_Subset
<1>5. DOMAIN g = W /\ \A i \in W : g[i] = TokensOf(s)[i]
  BY <1>1, <1>2, <1>3
<1>6. UsedIn(s, n) = SumFunction(g)
  BY Zenon DEF UsedIn
<1> HIDE DEF g, W
<1>7. IntegerOn(TokensOf(s), W)
  BY <1>4 DEF IntegerOn
<1>8. SumFunction(g) = SumFunctionOnSet(TokensOf(s), W)
  BY <1>4, <1>5, <1>7, SumRestricted
<1>9. SumFunctionOnSet(TokensOf(s), W) \in Nat
  BY <1>4, SumNatural
<1> QED
  BY <1>2, <1>4, <1>6, <1>8, <1>9 DEF W

\* The usage after an append.
LEMMA UsedGrows ==
  ASSUME NEW s, NEW x, NEW e, Grown(s, x, e), NEW n \in Nat
  PROVE  /\ e.kind # "reconciled" => UsedIn(x, n) = UsedIn(s, n)
         /\ e.kind = "reconciled" /\ e.at >= n => UsedIn(x, n) = UsedIn(s, n) + e.tokens
<1> DEFINE N == Len(s) + 1
           f == TokensOf(x)
<1>1. /\ x[N] = e /\ N \in DOMAIN x /\ N \notin DOMAIN s /\ DOMAIN s \subseteq DOMAIN x
      /\ \A i \in DOMAIN x : i \in DOMAIN s \/ i = N
      /\ \A i \in DOMAIN s : x[i] = s[i]
      /\ s \in Seq(LedgerEvent) /\ x \in Seq(LedgerEvent) /\ e \in LedgerEvent
  BY GrownIndices DEF Grown
<1>2. /\ UsedIn(s, n) = SumFunctionOnSet(TokensOf(s), WindowOf(s, n))
      /\ UsedIn(x, n) = SumFunctionOnSet(f, WindowOf(x, n))
      /\ IsFiniteSet(WindowOf(s, n)) /\ \A i \in DOMAIN x : f[i] \in Nat
      /\ \A i \in DOMAIN s : TokensOf(s)[i] \in Nat
  BY <1>1, UsedIsSum
<1>3. WindowOf(s, n) \subseteq DOMAIN s
  BY DEF WindowOf
<1>4. SumFunctionOnSet(TokensOf(s), WindowOf(s, n)) = SumFunctionOnSet(f, WindowOf(s, n))
  <2>1. \A i \in WindowOf(s, n) : TokensOf(s)[i] = f[i] /\ TokensOf(s)[i] \in Int
    BY <1>1, <1>2, <1>3 DEF TokensOf
  <2> QED
    BY <1>2, <2>1, SumAgree DEF IntegerOn
<1>5. f[N] = e.tokens
  BY <1>1 DEF TokensOf
<1>6. e.at \in Nat /\ e.at >= n => e.at >= SaturatingSub(n, Window)
  BY Constants DEF SaturatingSub
<1>7. e.at \in Nat
  BY <1>1 DEF LedgerEvent
<1> HIDE DEF N
<1>8. e.kind # "reconciled" => WindowOf(x, n) = WindowOf(s, n)
  BY <1>1 DEF WindowOf
<1>9. e.kind = "reconciled" /\ e.at >= n => WindowOf(x, n) = WindowOf(s, n) \cup {N}
  BY <1>1, <1>6, <1>7 DEF WindowOf
<1>10. SumFunctionOnSet(f, WindowOf(s, n) \cup {N}) = SumFunctionOnSet(f, WindowOf(s, n)) + f[N]
  <2>1. N \notin WindowOf(s, n) /\ f[N] \in Nat /\ \A i \in WindowOf(s, n) : f[i] \in Nat
    BY <1>1, <1>2, <1>3
  <2> HIDE DEF f
  <2> QED
    BY <1>2, <2>1, SumOfMore
<1> QED
  BY <1>2, <1>4, <1>5, <1>8, <1>9, <1>10

\* Time that passes only shrinks the window.
LEMMA UsedShrinks ==
  ASSUME NEW s \in Seq(LedgerEvent), NEW n \in Nat, NEW k \in Nat, n <= k
  PROVE  UsedIn(s, k) <= UsedIn(s, n)
<1>1. WindowOf(s, k) \in SUBSET WindowOf(s, n)
  <2>1. SaturatingSub(n, Window) <= SaturatingSub(k, Window) /\ SaturatingSub(n, Window) \in Nat
        /\ SaturatingSub(k, Window) \in Nat
    BY Constants DEF SaturatingSub
  <2>2. \A i \in DOMAIN s : s[i] \in LedgerEvent
    OBVIOUS
  <2>3. \A i \in DOMAIN s : s[i].at \in Nat
    BY <2>2 DEF LedgerEvent
  <2> QED
    BY <2>1, <2>3 DEF WindowOf
<1>2. /\ UsedIn(s, n) = SumFunctionOnSet(TokensOf(s), WindowOf(s, n))
      /\ UsedIn(s, k) = SumFunctionOnSet(TokensOf(s), WindowOf(s, k))
      /\ IsFiniteSet(WindowOf(s, n)) /\ \A i \in DOMAIN s : TokensOf(s)[i] \in Nat
  BY UsedIsSum
<1>3. \A i \in WindowOf(s, n) : TokensOf(s)[i] \in Nat
  BY <1>2 DEF WindowOf
<1> QED
  BY <1>1, <1>2, <1>3, SumSubset

Beyond(s) ==
  [i \in DOMAIN s |-> SaturatingSub(s[i].tokens, reservation(s, s[i].id).tokens)]

\* A settled event has its reservation.
LEMMA SettledHasReservation ==
  ASSUME NEW s \in Seq(LedgerEvent), replay_events_ok(s), NEW i \in Reconciled(s)
  PROVE  /\ Entries(s, "reservation", s[i].id) # {}
         /\ reservation(s, s[i].id).tokens \in Nat /\ s[i].tokens \in Nat /\ i \in DOMAIN s
<1>1. i \in DOMAIN s /\ s[i].kind = "reconciled" /\ DOMAIN s = 1..Len(s) /\ Len(s) \in Nat
  BY DEF Reconciled
<1>2. PICK j \in 1..(i - 1) : s[j].kind = "reservation" /\ s[j].id = s[i].id
  BY <1>1 DEF replay_events_ok
<1>3. j \in DOMAIN s /\ j \in Int
  BY <1>1
<1>4. s[j] \in LedgerEvent /\ s[i] \in LedgerEvent
  BY <1>1, <1>3
<1>5. reservation(s, s[i].id) = s[j]
  BY <1>2, <1>3, ReservationAt, ReplayParts
<1> QED
  BY <1>1, <1>2, <1>3, <1>4, <1>5 DEF Entries, LedgerEvent

\* The excess as a sum over the settled events.
LEMMA ExcessIsSum ==
  ASSUME NEW s \in Seq(LedgerEvent), replay_events_ok(s)
  PROVE  /\ ExcessOf(s) = SumFunctionOnSet(Beyond(s), Reconciled(s))
         /\ IsFiniteSet(Reconciled(s)) /\ ExcessOf(s) \in Nat
         /\ \A i \in Reconciled(s) : Beyond(s)[i] \in Nat
<1> DEFINE W == Reconciled(s)
           g == [i \in W |-> SaturatingSub(s[i].tokens, reservation(s, s[i].id).tokens)]
<1>1. DOMAIN s = 1..Len(s) /\ Len(s) \in Nat
  OBVIOUS
<1>2. W \in SUBSET (1..Len(s)) /\ IsFiniteSet(1..Len(s))
  BY <1>1, FS_Interval DEF Reconciled
<1>3. IsFiniteSet(W)
  BY <1>2, FS_Subset
<1>4. \A i \in W : g[i] = Beyond(s)[i] /\ Beyond(s)[i] \in Nat
  BY SettledHasReservation DEF Beyond, SaturatingSub
<1>5. ExcessOf(s) = SumFunction(g) /\ DOMAIN g = W
  BY Zenon DEF ExcessOf
<1> HIDE DEF g, W
<1>6. IntegerOn(Beyond(s), W)
  BY <1>4 DEF IntegerOn
<1>7. SumFunction(g) = SumFunctionOnSet(Beyond(s), W)
  BY <1>3, <1>4, <1>5, <1>6, SumRestricted
<1>8. SumFunctionOnSet(Beyond(s), W) \in Nat
  BY <1>3, <1>4, SumNatural
<1> QED
  BY <1>3, <1>4, <1>5, <1>7, <1>8 DEF W

\* The excess after an append.
LEMMA ExcessGrows ==
  ASSUME NEW s, NEW x, NEW e, Grown(s, x, e), replay_events_ok(s), replay_events_ok(x)
  PROVE  /\ e.kind # "reconciled" => ExcessOf(x) = ExcessOf(s)
         /\ e.kind = "reconciled" =>
              ExcessOf(x) = ExcessOf(s) + SaturatingSub(e.tokens, reservation(x, e.id).tokens)
<1> DEFINE N == Len(s) + 1
           f == Beyond(x)
<1>1. /\ x[N] = e /\ N \in DOMAIN x /\ N \notin DOMAIN s /\ DOMAIN s \subseteq DOMAIN x
      /\ \A i \in DOMAIN x : i \in DOMAIN s \/ i = N
      /\ \A i \in DOMAIN s : x[i] = s[i]
      /\ s \in Seq(LedgerEvent) /\ x \in Seq(LedgerEvent) /\ e \in LedgerEvent
  BY GrownIndices DEF Grown
<1>2. /\ ExcessOf(s) = SumFunctionOnSet(Beyond(s), Reconciled(s))
      /\ ExcessOf(x) = SumFunctionOnSet(f, Reconciled(x))
      /\ IsFiniteSet(Reconciled(s))
      /\ \A i \in Reconciled(s) : Beyond(s)[i] \in Nat
      /\ \A i \in Reconciled(x) : f[i] \in Nat
  BY <1>1, ExcessIsSum
<1>3. Reconciled(s) \subseteq DOMAIN s /\ Reconciled(s) \subseteq Reconciled(x)
  BY <1>1 DEF Reconciled
<1>4. SumFunctionOnSet(Beyond(s), Reconciled(s)) = SumFunctionOnSet(f, Reconciled(s))
  <2>1. ASSUME NEW i \in Reconciled(s) PROVE Beyond(s)[i] = f[i]
    <3>1. Entries(s, "reservation", s[i].id) # {} /\ i \in DOMAIN s /\ i \in DOMAIN x /\ x[i] = s[i]
      BY <1>1, SettledHasReservation
    <3>2. reservation(x, s[i].id) = reservation(s, s[i].id)
      BY <1>1, <3>1, ReservationStays, ReplayParts
    <3> QED
      BY <3>1, <3>2 DEF Beyond
  <2>2. IntegerOn(Beyond(s), Reconciled(s))
    BY <1>2 DEF IntegerOn
  <2> HIDE DEF f
  <2> QED
    BY <1>2, <2>1, <2>2, SumAgree
<1>5. f[N] = SaturatingSub(e.tokens, reservation(x, e.id).tokens)
  BY <1>1 DEF Beyond
<1> HIDE DEF N
<1>6. e.kind # "reconciled" => Reconciled(x) = Reconciled(s)
  BY <1>1 DEF Reconciled
<1>7. e.kind = "reconciled" => Reconciled(x) = Reconciled(s) \cup {N}
  BY <1>1 DEF Reconciled
<1>8. e.kind = "reconciled" =>
        SumFunctionOnSet(f, Reconciled(s) \cup {N}) = SumFunctionOnSet(f, Reconciled(s)) + f[N]
  <2> SUFFICES ASSUME e.kind = "reconciled"
               PROVE  SumFunctionOnSet(f, Reconciled(s) \cup {N})
                        = SumFunctionOnSet(f, Reconciled(s)) + f[N]
    OBVIOUS
  <2>1. N \notin Reconciled(s) /\ f[N] \in Nat /\ \A i \in Reconciled(s) : f[i] \in Nat
    BY <1>1, <1>2, <1>3, <1>7
  <2> HIDE DEF f
  <2> QED
    BY <1>2, <2>1, SumOfMore
<1> QED
  BY <1>2, <1>4, <1>5, <1>6, <1>7, <1>8

OwedFor(s) == [id \in EventId |-> reservation(s, id).tokens]

\* What is owed as a sum over the unsettled reservations.
LEMMA OwedIsSum ==
  ASSUME NEW s \in Seq(LedgerEvent), replay_events_ok(s)
  PROVE  /\ Owed(s) = SumFunctionOnSet(OwedFor(s), unsettled_reservations(s))
         /\ IsFiniteSet(unsettled_reservations(s)) /\ Owed(s) \in Nat
         /\ unsettled_reservations(s) \subseteq EventId
         /\ \A id \in unsettled_reservations(s) :
              OwedFor(s)[id] = reservation(s, id).tokens /\ OwedFor(s)[id] \in Nat
<1> DEFINE U == unsettled_reservations(s)
           g == [id \in U |-> reservation(s, id).tokens]
<1>1. OneReservationPerId(s) /\ IsFiniteSet(U)
  BY ReplayParts, UnsettledFinite
<1>2. ASSUME NEW id \in U PROVE id \in EventId /\ reservation(s, id).tokens \in Nat
  <2>1. PICK k \in DOMAIN s : s[k] = reservation(s, id) /\ s[k].id = id
    BY <1>1, UnsettledIs
  <2>2. s[k] \in LedgerEvent
    OBVIOUS
  <2>3. s[k].id \in EventId /\ s[k].tokens \in Nat
    BY <2>2 DEF LedgerEvent
  <2> QED
    BY <2>1, <2>3
<1>3. \A id \in U : OwedFor(s)[id] = reservation(s, id).tokens /\ OwedFor(s)[id] \in Nat
  BY <1>2 DEF OwedFor
<1>4. Owed(s) = SumFunction(g) /\ DOMAIN g = U /\ \A id \in U : g[id] = reservation(s, id).tokens
  BY Zenon DEF Owed
<1> HIDE DEF g, U
<1>5. IntegerOn(OwedFor(s), U)
  BY <1>3 DEF IntegerOn
<1>6. SumFunction(g) = SumFunctionOnSet(OwedFor(s), U)
  BY <1>1, <1>3, <1>4, <1>5, SumRestricted
<1>7. SumFunctionOnSet(OwedFor(s), U) \in Nat
  BY <1>1, <1>3, SumNatural
<1> QED
  BY <1>1, <1>2, <1>3, <1>4, <1>6, <1>7 DEF U

\* Sums over the same reservations of two journals agree.
LEMMA OwedAgrees ==
  ASSUME NEW s \in Seq(LedgerEvent), NEW x \in Seq(LedgerEvent), replay_events_ok(s),
         NEW U \in SUBSET unsettled_reservations(s),
         \A id \in U : reservation(x, id) = reservation(s, id)
  PROVE  SumFunctionOnSet(OwedFor(x), U) = SumFunctionOnSet(OwedFor(s), U)
<1>1. /\ IsFiniteSet(U)
      /\ \A id \in U : id \in EventId /\ OwedFor(s)[id] \in Nat
  BY OwedIsSum, FS_Subset
<1>2. \A id \in U : OwedFor(x)[id] = OwedFor(s)[id]
  BY <1>1 DEF OwedFor
<1>3. IntegerOn(OwedFor(s), U)
  BY <1>1 DEF IntegerOn
<1> QED
  BY <1>1, <1>2, <1>3, SumAgree

\* One reservation more is owed.
LEMMA OwedMore ==
  ASSUME NEW s \in Seq(LedgerEvent), NEW x \in Seq(LedgerEvent), NEW e \in LedgerEvent,
         replay_events_ok(s), replay_events_ok(x), e.id \notin unsettled_reservations(s),
         unsettled_reservations(x) = unsettled_reservations(s) \cup {e.id},
         reservation(x, e.id) = e,
         \A id \in unsettled_reservations(s) : reservation(x, id) = reservation(s, id)
  PROVE  Owed(x) = Owed(s) + e.tokens
<1> DEFINE U == unsettled_reservations(s)
           f == OwedFor(x)
<1>1. /\ Owed(x) = SumFunctionOnSet(f, U \cup {e.id})
      /\ \A id \in U \cup {e.id} : f[id] = reservation(x, id).tokens /\ f[id] \in Nat
  BY OwedIsSum
<1>2. Owed(s) = SumFunctionOnSet(OwedFor(s), U) /\ IsFiniteSet(U)
  BY OwedIsSum
<1>3. SumFunctionOnSet(f, U) = SumFunctionOnSet(OwedFor(s), U)
  BY OwedAgrees
<1>4. f[e.id] = e.tokens /\ f[e.id] \in Nat /\ \A id \in U : f[id] \in Nat
  BY <1>1
<1> HIDE DEF U, f
<1>5. e.id \notin U
  BY DEF U
<1>6. SumFunctionOnSet(f, U \cup {e.id}) = SumFunctionOnSet(f, U) + f[e.id]
  BY <1>2, <1>4, <1>5, SumOfMore
<1> QED
  BY <1>1, <1>2, <1>3, <1>4, <1>6

\* One reservation less is owed.
LEMMA OwedLess ==
  ASSUME NEW s \in Seq(LedgerEvent), NEW x \in Seq(LedgerEvent), replay_events_ok(s),
         replay_events_ok(x), NEW d \in unsettled_reservations(s),
         unsettled_reservations(x) = unsettled_reservations(s) \ {d},
         \A id \in unsettled_reservations(s) : reservation(x, id) = reservation(s, id)
  PROVE  /\ Owed(x) = Owed(s) - reservation(s, d).tokens
         /\ reservation(s, d).tokens \in Nat
<1> DEFINE U == unsettled_reservations(s)
           f == OwedFor(s)
<1>1. /\ Owed(s) = SumFunctionOnSet(f, U) /\ IsFiniteSet(U)
      /\ \A id \in U : f[id] = reservation(s, id).tokens /\ f[id] \in Nat
  BY OwedIsSum
<1>2. Owed(x) = SumFunctionOnSet(OwedFor(x), U \ {d})
  BY OwedIsSum
<1>3. SumFunctionOnSet(OwedFor(x), U \ {d}) = SumFunctionOnSet(f, U \ {d})
  BY OwedAgrees
<1>4. f[d] = reservation(s, d).tokens /\ f[d] \in Nat /\ \A id \in U : f[id] \in Nat
  BY <1>1
<1>5. d \in U
  OBVIOUS
<1> HIDE DEF U, f
<1>6. SumFunctionOnSet(f, U \ {d}) = SumFunctionOnSet(f, U) - f[d]
  BY <1>1, <1>4, <1>5, SumOfLess
<1> QED
  BY <1>1, <1>2, <1>3, <1>4, <1>6

\* What is owed does not change with the other events.
LEMMA OwedSame ==
  ASSUME NEW s \in Seq(LedgerEvent), NEW x \in Seq(LedgerEvent), replay_events_ok(s),
         replay_events_ok(x), unsettled_reservations(x) = unsettled_reservations(s),
         \A id \in unsettled_reservations(s) : reservation(x, id) = reservation(s, id)
  PROVE  Owed(x) = Owed(s)
<1>1. Owed(s) = SumFunctionOnSet(OwedFor(s), unsettled_reservations(s))
  BY OwedIsSum
<1>2. Owed(x) = SumFunctionOnSet(OwedFor(x), unsettled_reservations(s))
  BY OwedIsSum
<1>3. SumFunctionOnSet(OwedFor(x), unsettled_reservations(s))
        = SumFunctionOnSet(OwedFor(s), unsettled_reservations(s))
  BY OwedAgrees
<1> QED
  BY <1>1, <1>2, <1>3

-----------------------------------------------------------------------------
(* Every step keeps the quota.                                              *)

\* The arithmetic of a settlement.
LEMMA SettlingFits ==
  ASSUME NEW u \in Nat, NEW o \in Nat, NEW x \in Nat, NEW t \in Nat, NEW r \in Nat,
         NEW m \in Nat, u + o <= m + x
  PROVE  (u + t) + (o - r) <= m + (x + SaturatingSub(t, r))
BY DEF SaturatingSub

\* A terminal event moves its reservation into the window, and what it used beyond the
\* reservation into the excess.
LEMMA TerminalFits ==
  ASSUME NEW s, NEW x, NEW e, Grown(s, x, e), replay_events_ok(s), NEW n \in Nat,
         e.kind = "reconciled", e.id \in unsettled_reservations(s),
         reservation(s, e.id).at <= e.at, n <= e.at,
         e.recovered => LET r == reservation(s, e.id)
                        IN r.tokens = e.tokens /\ r.cost = e.cost /\ r.pool = e.pool
  PROVE  /\ Fits(s, n) => Fits(x, n)
         /\ Owed(x) = Owed(s) - reservation(s, e.id).tokens /\ Owed(s) \in Nat
         /\ reservation(s, e.id).tokens \in Nat
<1>1. /\ s \in Seq(LedgerEvent) /\ x \in Seq(LedgerEvent) /\ e.tokens \in Nat /\ e.at \in Nat
  BY DEF Grown, LedgerEvent
<1>2. /\ replay_events_ok(x)
      /\ unsettled_reservations(x) = unsettled_reservations(s) \ {e.id}
      /\ \A id : Entries(s, "reservation", id) # {} => reservation(x, id) = reservation(s, id)
  BY TerminalAppended
<1>3. \A id \in unsettled_reservations(s) : reservation(x, id) = reservation(s, id)
  BY <1>1, <1>2, UnsettledIs, ReplayParts
<1>4. Owed(x) = Owed(s) - reservation(s, e.id).tokens /\ reservation(s, e.id).tokens \in Nat
  BY <1>1, <1>2, <1>3, OwedLess
<1>5. UsedIn(x, n) = UsedIn(s, n) + e.tokens
  BY <1>1, UsedGrows
<1>6. ExcessOf(x) = ExcessOf(s) + SaturatingSub(e.tokens, reservation(s, e.id).tokens)
  BY <1>2, <1>3, ExcessGrows
<1>7. UsedIn(s, n) \in Nat /\ Owed(s) \in Nat /\ ExcessOf(s) \in Nat
  BY <1>1, UsedIsSum, OwedIsSum, ExcessIsSum
<1>8. Fits(s, n) => Fits(x, n)
  <2> DEFINE a == SaturatingSub(e.tokens, reservation(s, e.id).tokens)
             rt == reservation(s, e.id).tokens
             u == UsedIn(s, n)
             o == Owed(s)
             y == ExcessOf(s)
  <2> SUFFICES ASSUME u + o <= MaxTokens + y
               PROVE  UsedIn(x, n) + Owed(x) <= MaxTokens + ExcessOf(x)
    BY DEF Fits
  <2>1. u \in Nat /\ o \in Nat /\ y \in Nat /\ rt \in Nat /\ e.tokens \in Nat /\ MaxTokens \in Nat
    BY <1>1, <1>4, <1>7, Constants
  <2>2. UsedIn(x, n) = u + e.tokens /\ Owed(x) = o - rt /\ ExcessOf(x) = y + a
    BY <1>4, <1>5, <1>6
  <2>3. a = SaturatingSub(e.tokens, rt)
    OBVIOUS
  <2> HIDE DEF a, rt, u, o, y
  <2>4. (u + e.tokens) + (o - rt) <= MaxTokens + (y + a)
    BY <2>1, <2>3, SettlingFits
  <2> QED
    BY <2>2, <2>4
<1> QED
  BY <1>4, <1>7, <1>8

\* Estimates are no more than what is held.
LEMMA EstimatesAreHeld ==
  ASSUME MemoryInv
  PROVE  /\ EstimatesOf(st.active) <= st.reserved_tokens
         /\ EstimatesOf(st.active) \in Nat /\ st.reserved_tokens \in Nat
<1>1. /\ st.active \in SUBSET Reservation /\ IsFiniteSet(st.active) /\ st.reserved_tokens \in Nat
      /\ ReservationsWellFormed(st) /\ st.reserved_tokens = HeldBy(st.active)
  BY DEF MemoryInv, Types, LedgerStates, TotalsAgree
<1>2. /\ HeldBy(st.active) = SumFunctionOnSet(HeldTokens, st.active)
      /\ EstimatesOf(st.active) = SumFunctionOnSet(Estimated, st.active)
  BY <1>1, TotalsAreSums
<1>3. \A r \in st.active : /\ Estimated[r] \in Nat /\ HeldTokens[r] \in Nat
                           /\ Estimated[r] <= HeldTokens[r]
  BY <1>1, ReservationValues DEF Held, ReservationsWellFormed
<1>4. IntegerOn(Estimated, st.active) /\ IntegerOn(HeldTokens, st.active)
  BY <1>3 DEF IntegerOn
<1>5. SumFunctionOnSet(Estimated, st.active) <= SumFunctionOnSet(HeldTokens, st.active)
  BY <1>1, <1>3, <1>4, SumMonotone
<1>6. SumFunctionOnSet(Estimated, st.active) \in Nat
  BY <1>1, <1>3, SumNatural
<1> QED
  BY <1>1, <1>2, <1>5, <1>6

\* The usage an open run computes is the usage of the window: its own reservations are
\* excluded, and there are no others.
LEMMA UsageIsUsed ==
  ASSUME MemoryInv, JournalInv, handle = "open", Quota
  PROVE  usage_tokens(events, Window, now, OwnReservations) = UsedIn(journal, now)
<1>1. /\ events = journal /\ journal \in Seq(LedgerEvent)
      /\ unsettled_reservations(journal) = OwnReservations
  BY OpenParts
<1>2. \A i \in DOMAIN journal : journal[i].kind # "pool_consume"
  BY DEF JournalInv, KindsFit
<1>3. \A i \in DOMAIN journal :
        journal[i].kind = "reservation" /\ ~reservation_is_terminal(journal, journal[i].id)
          => journal[i].id \in OwnReservations
  BY <1>1 DEF unsettled_reservations
<1>4. Counted(journal, Window, now, OwnReservations) = WindowOf(journal, now)
  BY <1>2, <1>3 DEF Counted, WindowOf
<1>5. usage_tokens(events, Window, now, OwnReservations)
        = SumFunctionOnSet(TokensOf(journal), WindowOf(journal, now))
  BY <1>1, <1>4, Zenon DEF usage_tokens, TokensOf
<1> QED
  BY <1>1, <1>5, UsedIsSum

\* An admission leaves what is used and owed within the quota.
LEMMA AdmitFits ==
  ASSUME MemoryInv, JournalInv, QuotaInv, handle = "open",
         UNCHANGED <<handle, session, now, wentBack>>, Admits, JournalInv'
  PROVE  QuotaInv'
<1>0. /\ events = journal /\ journal \in Seq(LedgerEvent) /\ replay_events_ok(journal)
      /\ now \in Nat /\ StateOK(st)
  BY OpenParts, MemoryParts
<1>1. PICK req \in Requests :
        /\ ~LatchingRefusal(req)
        /\ CapacityFor(persist_rolling_reservation(req), Pending + 1)
        /\ Persist(persist_rolling_reservation(req))
        /\ st'.active = st.active \cup {NewReservation(st, req)}
  BY DEF Admits
<1> DEFINE r == NewReservation(st, req)
<1>2. r \in Reservation /\ r \notin st.active /\ r.tokens = req.tokens /\ req.tokens \in Nat
  BY <1>0, ReservedState, Constants DEF NewReservation, Request
<1>3. EstimatesOf(st'.active) = EstimatesOf(st.active) + req.tokens
  <2>1. st.active \in SUBSET Reservation /\ IsFiniteSet(st.active)
    BY <1>0 DEF StateOK, LedgerStates
  <2> HIDE DEF r
  <2>2. EstimatesOf(st.active \cup {r}) = EstimatesOf(st.active) + r.tokens
    BY <1>2, <2>1, TotalsChange
  <2> QED
    BY <1>1, <1>2, <2>2 DEF r
<1>4. CASE ~Quota
  BY <1>4 DEF QuotaInv, RollingWithinQuota, Quota
<1>5. CASE Quota
  <2>1. PICK e \in LedgerEvent :
           /\ Grown(journal, journal', e) /\ e.kind = "reservation"
           /\ e.id = <<session, st.next_reservation_id>> /\ e.tokens = req.tokens
           /\ Len(journal) + 1 + (Cardinality(unsettled_reservations(journal)) + 1) <= MaxRecords
    BY <1>1, <1>5, AdmitAppends DEF Persist
  <2>2. \A i \in DOMAIN journal : journal[i].kind # "rate_limited" => journal[i].id # e.id
    BY <2>1, NextIdIsNew
  <2>3. /\ replay_events_ok(journal') /\ e.id \notin unsettled_reservations(journal)
        /\ unsettled_reservations(journal') = unsettled_reservations(journal) \cup {e.id}
        /\ reservation(journal', e.id) = e
        /\ \A d \in unsettled_reservations(journal) : reservation(journal', d) = reservation(journal, d)
    BY <1>0, <2>1, <2>2, ReservationAppended
  <2>4. journal' \in Seq(LedgerEvent)
    BY <2>1 DEF Grown
  <2>5. Owed(journal') = Owed(journal) + req.tokens
    BY <1>0, <2>1, <2>3, <2>4, OwedMore
  <2>6. UsedIn(journal', now) = UsedIn(journal, now) /\ ExcessOf(journal') = ExcessOf(journal)
    BY <1>0, <2>1, <2>3, UsedGrows, ExcessGrows
  <2>7. /\ UsedIn(journal, now) \in Nat /\ Owed(journal) \in Nat /\ ExcessOf(journal) \in Nat
    BY <1>0, UsedIsSum, OwedIsSum, ExcessIsSum
  <2>8. Owed(journal) = EstimatesOf(st.active)
    BY <1>5 DEF QuotaInv
  <2>9. MaxTokens # 0 => Fits(journal', now)
    <3> SUFFICES ASSUME MaxTokens # 0 PROVE Fits(journal', now)
      OBVIOUS
    <3>1. ~(usage_tokens(events, Window, now, OwnReservations)
              + st.reserved_tokens + req.tokens > MaxTokens)
      BY <1>1, <1>5 DEF LatchingRefusal, rolling_admission_refusal
    <3>2. ~(UsedIn(journal, now) + st.reserved_tokens + req.tokens > MaxTokens)
      BY <1>5, <3>1, UsageIsUsed
    <3>3. Owed(journal) <= st.reserved_tokens /\ st.reserved_tokens \in Nat
      BY <2>8, EstimatesAreHeld
    <3> QED
      BY <1>2, <2>5, <2>6, <2>7, <3>2, <3>3, Constants DEF Fits
  <2>10. RollingWithinQuota'
    <3>1. MaxTokens # 0 /\ ~wentBack' => Fits(journal', now')
      BY <2>9
    <3> QED
      BY <3>1, QuotaAsSumsNext
  <2>11. Owed(journal)' = EstimatesOf(st.active)'
    BY <1>3, <2>5, <2>8
  <2> QED
    BY <2>10, <2>11 DEF QuotaInv
<1> QED
  BY <1>4, <1>5

\* A settlement keeps the quota.
LEMMA SettlesFit ==
  ASSUME MemoryInv, JournalInv, QuotaInv, handle = "open",
         UNCHANGED <<handle, session, now, wentBack>>, Settles
  PROVE  QuotaInv'
<1>0. /\ journal \in Seq(LedgerEvent) /\ replay_events_ok(journal) /\ now \in Nat /\ session \in Nat
      /\ st.active \in SUBSET Reservation /\ IsFiniteSet(st.active)
  BY OpenParts DEF MemoryInv, Types, LedgerStates
<1>1. PICK r \in st.active, tokens \in Nat, cost \in Nat \cup {None}, pool \in PoolNames :
        /\ Persist(persist_rolling_consumption(r.id, tokens, cost, pool))
        /\ st'.active = st.active \ {r}
  BY DEF Settles
<1>2. CASE ~Quota
  BY <1>2 DEF QuotaInv, RollingWithinQuota, Quota
<1>3. CASE Quota
  <2>1. PICK e \in LedgerEvent :
           /\ Grown(journal, journal', e) /\ e.kind = "reconciled" /\ e.id = <<session, r.id>>
           /\ e.id \in unsettled_reservations(journal) /\ ~e.recovered
           /\ reservation(journal, e.id).at <= e.at /\ now <= e.at
    BY <1>1, <1>3, SettleAppends DEF Persist
  <2>2. /\ Fits(journal, now) => Fits(journal', now)
        /\ Owed(journal') = Owed(journal) - reservation(journal, e.id).tokens
    BY <1>0, <2>1, TerminalFits
  <2>3. reservation(journal, e.id).tokens = r.tokens
    BY <1>3, <2>1 DEF JournalInv, MemoryIsJournaled, durable_reservation_id
  <2>4. EstimatesOf(st.active \ {r}) = EstimatesOf(st.active) - r.tokens
    BY <1>0, TotalsChange
  <2>5. Owed(journal) = EstimatesOf(st.active)
    BY <1>3 DEF QuotaInv
  <2>6. Owed(journal)' = EstimatesOf(st.active)'
    BY <1>1, <2>2, <2>3, <2>4, <2>5
  <2>7. MaxTokens # 0 /\ ~wentBack => Fits(journal, now)
    BY QuotaAsSums DEF QuotaInv
  <2>8. RollingWithinQuota'
    BY <2>2, <2>7, QuotaAsSumsNext
  <2> QED
    BY <2>6, <2>8 DEF QuotaInv
<1> QED
  BY <1>2, <1>3

\* A step that holds and writes the same keeps it.
LEMMA QuietFits ==
  ASSUME QuotaInv, UNCHANGED <<journal, handle, now, wentBack>>,
         EstimatesOf(st'.active) = EstimatesOf(st.active) \/ handle # "open"
  PROVE  QuotaInv'
<1>1. MaxTokens # 0 /\ ~wentBack => Fits(journal, now)
  BY QuotaAsSums DEF QuotaInv
<1>2. RollingWithinQuota'
  BY <1>1, QuotaAsSumsNext
<1> QED
  BY <1>2 DEF QuotaInv

\* So does recovery.
LEMMA RecoverFits ==
  ASSUME MemoryInv, JournalInv, QuotaInv, NEW id \in unsettled_reservations(events),
         RecoverUnsettled(id)
  PROVE  QuotaInv'
<1>0. /\ journal \in Seq(LedgerEvent) /\ replay_events_ok(journal) /\ now \in Nat
      /\ UNCHANGED <<handle, now, wentBack>>
  BY Constants DEF JournalInv, MemoryInv, Types, RecoverUnsettled
<1>1. PICK e \in LedgerEvent :
        /\ Grown(journal, journal', e) /\ e.kind = "reconciled" /\ e.id = id
        /\ id \in unsettled_reservations(journal)
        /\ LET r == reservation(journal, id)
           IN r.tokens = e.tokens /\ r.cost = e.cost /\ r.pool = e.pool /\ r.at <= e.at
        /\ now <= e.at
  BY RecoverAppends
<1>2. handle # "open"
  BY RecoverAppends
<1>3. Fits(journal, now) => Fits(journal', now)
  BY <1>0, <1>1, TerminalFits
<1>4. MaxTokens # 0 /\ ~wentBack => Fits(journal, now)
  BY QuotaAsSums DEF QuotaInv
<1>5. RollingWithinQuota'
  BY <1>0, <1>3, <1>4, QuotaAsSumsNext
<1> QED
  BY <1>0, <1>2, <1>5 DEF QuotaInv

\* Opening, attaching, rate limits, the end of a run and the passing of time.
LEMMA LifeFits ==
  ASSUME MemoryInv, JournalInv, QuotaInv,
         OpenLedger \/ Attach \/ LatchRateLimit \/ Crash \/ Expire \/ Tick
  PROVE  QuotaInv'
<1>0. /\ journal \in Seq(LedgerEvent) /\ replay_events_ok(journal) /\ now \in Nat
      /\ wentBack \in BOOLEAN
  BY Constants DEF JournalInv, MemoryInv, Types
<1>1. MaxTokens # 0 /\ ~wentBack => Fits(journal, now)
  BY QuotaAsSums DEF QuotaInv
<1>2. CASE OpenLedger \/ Crash
  <2>1. UNCHANGED <<journal, now, wentBack>> /\ handle' # "open"
    BY <1>2 DEF OpenLedger, Crash
  <2>2. RollingWithinQuota'
    BY <1>1, <2>1, QuotaAsSumsNext
  <2> QED
    BY <2>1, <2>2 DEF QuotaInv
<1>3. CASE Expire
  BY <1>3, QuietFits DEF Expire, durableVars
<1>4. CASE Attach
  <2>1. /\ UNCHANGED <<journal, now, wentBack>> /\ unsettled_reservations(journal) = {}
        /\ st' = [LedgerState EXCEPT !.force_stop = admission_block_reasons(events)]
    BY <1>4 DEF Attach, Recovered, JournalInv, HandleIsCurrent
  <2>2. RollingWithinQuota'
    BY <1>1, <2>1, QuotaAsSumsNext
  <2>3. st'.active = {}
    BY <2>1 DEF LedgerState
  <2>4. Owed(journal) = 0
    BY <1>0, <2>1, OwedIsSum, SumEmpty
  <2>5. EstimatesOf({}) = 0
    BY TotalsAreSums, SumEmpty, FS_EmptySet
  <2>6. Owed(journal)' = EstimatesOf(st.active)'
    BY <2>1, <2>3, <2>4, <2>5
  <2> QED
    BY <2>2, <2>6 DEF QuotaInv
<1>5. CASE LatchRateLimit
  <2>1. UNCHANGED <<now, wentBack>> /\ handle' = "closed"
    BY <1>5 DEF LatchRateLimit
  <2>2. PICK e \in LedgerEvent :
              /\ Grown(journal, journal', e) /\ e.kind = "rate_limited"
              /\ Len(journal) + 1 + Cardinality(unsettled_reservations(journal)) <= MaxRecords
    BY <1>5, LatchAppends
  <2>3. /\ replay_events_ok(journal')
        /\ unsettled_reservations(journal') = unsettled_reservations(journal)
        /\ \A id : Entries(journal, "reservation", id) # {}
                     => reservation(journal', id) = reservation(journal, id)
    BY <1>0, <2>2, OtherAppended
  <2>4. \A id \in unsettled_reservations(journal) : reservation(journal', id) = reservation(journal, id)
    BY <1>0, <2>3, UnsettledIs, ReplayParts
  <2>5. journal' \in Seq(LedgerEvent)
    BY <2>2 DEF Grown
  <2>6. Owed(journal') = Owed(journal)
    BY <1>0, <2>3, <2>4, <2>5, OwedSame
  <2>7. UsedIn(journal', now) = UsedIn(journal, now) /\ ExcessOf(journal') = ExcessOf(journal)
    BY <1>0, <2>2, <2>3, UsedGrows, ExcessGrows
  <2>8. Fits(journal, now) => Fits(journal', now)
    BY <2>6, <2>7 DEF Fits
  <2>9. RollingWithinQuota'
    BY <1>1, <2>1, <2>8, QuotaAsSumsNext
  <2> QED
    BY <2>1, <2>9 DEF QuotaInv
<1>6. CASE Tick
  <2>0. PICK d \in ClockSteps : /\ now + d \in 0..MaxTime /\ now' = now + d
                               /\ wentBack' = (wentBack \/ d < 0)
    BY <1>6 DEF Tick
  <2>1. /\ UNCHANGED <<journal, handle, session, st>> /\ now' \in Nat
        /\ ~wentBack' => ~wentBack /\ now <= now'
    <3>1. d \in Int /\ now' \in Nat
      BY <2>0, Constants
    <3>2. ~wentBack' => ~wentBack /\ ~(d < 0)
      BY <2>0
    <3>3. ~(d < 0) => now <= now'
      BY <1>0, <2>0, <3>1
    <3> QED
      BY <1>6, <3>1, <3>2, <3>3 DEF Tick, durableVars
  <2>2. MaxTokens # 0 /\ ~wentBack' => Fits(journal', now')
    <3> SUFFICES ASSUME MaxTokens # 0, ~wentBack' PROVE Fits(journal, now')
      BY <2>1
    <3>1. Fits(journal, now)
      BY <1>1, <2>1
    <3>2. UsedIn(journal, now') <= UsedIn(journal, now)
      BY <1>0, <2>1, UsedShrinks
    <3>3. /\ UsedIn(journal, now) \in Nat /\ UsedIn(journal, now') \in Nat /\ Owed(journal) \in Nat
          /\ ExcessOf(journal) \in Nat
      BY <1>0, UsedIsSum, OwedIsSum, ExcessIsSum
    <3> QED
      BY <3>1, <3>2, <3>3, Constants DEF Fits
  <2>3. RollingWithinQuota'
    BY <2>2, QuotaAsSumsNext
  <2> QED
    BY <2>1, <2>3 DEF QuotaInv
<1> QED
  BY <1>2, <1>3, <1>4, <1>5, <1>6

\* What the journal holds and what the run holds agree, and stay within the quota.
THEOREM BudgetQuota ==
  ASSUME "head" \notin Faults
  PROVE  BudgetSpec => [](MemoryInv /\ JournalInv /\ QuotaInv)
<1>1. BudgetInit => QuotaInv
  <2> SUFFICES ASSUME BudgetInit PROVE QuotaInv
    OBVIOUS
  <2>1. journal = <<>> /\ handle = "closed"
    BY DEF BudgetInit
  <2>2. /\ journal \in Seq(LedgerEvent) /\ DOMAIN journal = {} /\ Len(journal) = 0
    BY <2>1
  <2>3. unsettled_reservations(journal) = {}
    BY <2>2 DEF unsettled_reservations
  <2>4. Cardinality(unsettled_reservations(journal)) = 0
    BY <2>3, FS_EmptySet
  <2>5. replay_events_ok(journal)
    BY <2>2, <2>4, Constants DEF replay_events_ok
  <2>6. WindowOf(journal, now) = {} /\ Reconciled(journal) = {}
    BY <2>2 DEF WindowOf, Reconciled
  <2>7. UsedIn(journal, now) = 0
    BY <2>2, <2>6, UsedIsSum, SumEmpty
  <2>8. Owed(journal) = 0 /\ ExcessOf(journal) = 0
    BY <2>2, <2>3, <2>5, <2>6, OwedIsSum, ExcessIsSum, SumEmpty
  <2>9. Fits(journal, now)
    BY <2>7, <2>8, Constants DEF Fits
  <2> QED
    BY <2>1, <2>9, QuotaAsSums DEF QuotaInv
<1>2. MemoryInv /\ JournalInv /\ QuotaInv /\ JournalInv' /\ [BudgetNext]_budgetVars => QuotaInv'
  <2> SUFFICES ASSUME MemoryInv, JournalInv, QuotaInv, JournalInv', [BudgetNext]_budgetVars
               PROVE  QuotaInv'
    OBVIOUS
  <2>1. CASE UNCHANGED budgetVars
    BY <2>1, QuietFits DEF budgetVars, durableVars
  <2>2. ASSUME NEW t \in Threads, ThreadStep(t) PROVE QuotaInv'
    <3>1. /\ handle = "open" /\ UNCHANGED <<handle, session, now, wentBack>>
          /\ Quiet \/ Admits \/ Settles
      BY <2>2, ThreadEffect DEF HeadAdmits, HeadSettles
    <3>2. CASE Quiet
      BY <3>1, <3>2, QuietFits DEF Quiet, SameHoldings
    <3> QED
      BY <3>1, <3>2, AdmitFits, SettlesFit
  <2> QED
    BY <2>1, <2>2, RecoverFits, LifeFits DEF BudgetNext
<1> QED
  BY <1>1, <1>2, BudgetJournal, PTL DEF BudgetSpec

\* LimitsKept: neither the run's ceiling nor the workspace's quota is overcommitted,
\* whatever grants, crashes, clocks and other runs do, if an append that fails leaves no
\* record behind.
THEOREM BudgetLimitsKept ==
  ASSUME "head" \notin Faults
  PROVE  BudgetSpec => []LimitsKept
<1>1. MemoryInv /\ JournalInv /\ QuotaInv => LimitsKept
  BY JournaledWhileInvoked
     DEF LimitsKept, QuotaKept, QuotaInv, MemoryInv, Bounded, CommitmentBounded
<1> QED
  BY <1>1, BudgetQuota, PTL
=============================================================================
