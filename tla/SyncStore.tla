----------------------------- MODULE SyncStore -----------------------------
(***************************************************************************)
(* The durable claim store (src/sync_store.rs) with local coordination.    *)
(*                                                                         *)
(* Every update opens and validates the authenticated state under the      *)
(* repository lock, rebuilds a SyncCoordinator from it, runs one operation *)
(* and commits the result, or commits nothing when the operation or a      *)
(* pre-commit validation fails.  One update is therefore one step; that a  *)
(* commit is atomic under crashes is the subject of AuthenticatedSnapshot. *)
(* The durable state is the coordinator's state (inner) with, per live     *)
(* claim, its liveness row and its run owner, and the history of           *)
(* supersessions.  The wall clock is read by each operation and may move   *)
(* backwards.  A collector or agent run can hold the lock across steps     *)
(* (ExistingClaimsGuard) and heartbeat its claims under it.                *)
(*                                                                         *)
(* claim ids are canonical in the token, so a token stands for its id; the *)
(* path count and checksum of a supersession are represented by the paths. *)
(***************************************************************************)
EXTENDS SyncCoordinator, FiniteSets, FiniteSetsExt

CONSTANTS
  Owners,        \* (run id, process identity) pairs
  Timings,       \* valid ClaimTimings: [interval, stale]
  MaxNow,        \* bound: the clock takes values 0..MaxNow
  None,          \* Option::None
  LegacyStates,  \* coordinators a legacy claims.json may hold at migration
  MaxSyncClaims, MaxSyncPaths, MaxSupersessionRecords, MaxLineageDepth

ASSUME TimingsAssumption ==
  /\ Timings # {}
  /\ \A t \in Timings : /\ t.interval \in Nat /\ t.stale \in Nat
                        /\ 0 < t.interval /\ t.interval < t.stale
ASSUME NoneAssumption == None \notin Nat
ASSUME BoundsAssumption ==
  {MaxNow, MaxSyncClaims, MaxSyncPaths, MaxSupersessionRecords, MaxLineageDepth} \subseteq Nat

VARIABLES
  run_owners,     \* rows [token, owner]
  liveness,       \* rows [token, created, heartbeat, interval, stale, eligible, supersedes]
  supersessions,  \* rows [prior_token, prior_agent, successor_token, successor_agent, paths, at]
  now,            \* the wall clock, in the store's unit
  guard,          \* requests of the ExistingClaimsGuard that holds the lock, or None
  granted         \* auxiliary: every PathClaim ever committed for a client

storeVars == <<inner, run_owners, liveness, supersessions, now, guard, granted>>
durable == <<inner, run_owners, liveness, supersessions>>

Times == 0..MaxNow

AuthenticatedClaimRunOwner == [token : Tokens, owner : Owners]

AuthenticatedClaimLiveness ==
  [token : Tokens, created : Times, heartbeat : Times,
   interval : {t.interval : t \in Timings}, stale : {t.stale : t \in Timings},
   eligible : Times \cup {None}, supersedes : Tokens \cup {None}]

AuthenticatedClaimSupersession ==
  [prior_token : Tokens, prior_agent : Agents, successor_token : Tokens,
   successor_agent : Agents, paths : SUBSET Paths, at : Times]

ActiveTokens(c) == {x.token : x \in all_claims(c)}

-----------------------------------------------------------------------------
(* Liveness of a claim as the store reports it.                             *)

Row(token) == {l \in liveness : l.token = token}

\* claim_liveness_report for a claim whose rows are given, at the current time.
claim_liveness_report(rows) ==
  IF rows = {} THEN "Unknown"
  ELSE LET l == CHOOSE x \in rows : TRUE
           age == now - l.heartbeat
       IN IF now < l.heartbeat \/ (l.eligible # None /\ now < l.eligible) THEN "Unknown"
          ELSE IF l.eligible # None THEN "TakeoverEligible"
          ELSE IF age >= l.stale THEN "Stale"
          ELSE IF age >= l.interval THEN "HeartbeatDue" ELSE "Fresh"

ensure_supersession_time_not_future == \A s \in supersessions : s.at <= now

\* Mutant of ensure_unambiguous_liveness: supersession times are not compared.
ensure_unambiguous_liveness_RowsOnly ==
  \A token \in ActiveTokens(inner) : claim_liveness_report(Row(token)) # "Unknown"

ensure_unambiguous_liveness ==
  /\ ensure_supersession_time_not_future
  /\ \A token \in ActiveTokens(inner) : claim_liveness_report(Row(token)) # "Unknown"

DefaultTiming == CHOOSE t \in Timings : TRUE

new_claim_liveness(token, timing, supersedes) ==
  [token |-> token, created |-> now, heartbeat |-> now, interval |-> timing.interval,
   stale |-> timing.stale, eligible |-> None, supersedes |-> supersedes]

\* The number of takeovers behind a token; predecessors have smaller tokens.
supersession_lineage_depth(ss) ==
  LET depth[t \in Tokens] ==
        IF \E s \in ss : s.successor_token = t
          THEN 1 + depth[(CHOOSE s \in ss : s.successor_token = t).prior_token]
          ELSE 0
  IN depth

-----------------------------------------------------------------------------
(* Validation of a state, when it is opened and before it is committed.     *)

PathCount(rows) == MapThenSumSet(LAMBDA x : Cardinality(x.paths), rows)

validate_sync_snapshot(c) ==
  /\ Cardinality(all_claims(c)) <= MaxSyncClaims
  /\ PathCount(all_claims(c)) <= MaxSyncPaths
  /\ \A token \in ActiveTokens(c) : token < c.next_token

validate_claim_run_owners(c, owners) ==
  \A x \in owners : /\ x.token \in ActiveTokens(c)
                    /\ \A y \in owners : x.token = y.token => x = y

\* One row per live token; an eligible row was stale when it became eligible; no
\* predecessor is live; a lineage keeps its scope and its owners and moves forward in
\* time; a live successor's row agrees with its lineage.
validate_claim_liveness(c, rows, ss) ==
  LET depth == supersession_lineage_depth(ss)
  IN /\ Cardinality(ss) <= MaxSupersessionRecords
     /\ \A l \in rows :
          /\ l.token \in ActiveTokens(c)
          /\ \A m \in rows : l.token = m.token => l = m
          /\ l.created <= l.heartbeat
          /\ l.eligible # None => l.eligible >= l.heartbeat + l.stale
     /\ \A s \in ss :
          /\ s.prior_token < s.successor_token
          /\ s.successor_token < c.next_token
          /\ s.prior_token \notin ActiveTokens(c)
          /\ \A r \in ss \ {s} : /\ r.prior_token # s.prior_token
                                 /\ r.successor_token # s.successor_token
          /\ \A r \in ss : r.successor_token = s.prior_token =>
               r.at <= s.at /\ r.successor_agent = s.prior_agent /\ r.paths = s.paths
          /\ depth[s.successor_token] <= MaxLineageDepth
          /\ s.successor_token \in ActiveTokens(c)
               => \E l \in rows : l.token = s.successor_token
     /\ \A l \in rows :
          LET lineage == {s \in ss : s.successor_token = l.token}
          IN IF lineage = {} THEN l.supersedes = None
             ELSE \E s \in lineage, claim \in all_claims(c) :
                    /\ l.supersedes = s.prior_token
                    /\ claim.token = l.token
                    /\ claim.agent_id = s.successor_agent
                    /\ claim.paths = s.paths
                    /\ l.created = s.at

\* An active Worker belongs to the same run and process as its parent.
SubordinateRunsMatch(c, owners) ==
  \A b \in c.subordinate_bindings :
    b.child_token \in ActiveTokens(c) =>
      \E parent, child \in owners :
        /\ parent.token = b.parent_token
        /\ child.token = b.child_token
        /\ parent.owner = child.owner

\* The whole history of reservations counts, not only the active ones.
ReservationsBounded(c) ==
  /\ Cardinality(c.subordinate_bindings) <= MaxSyncClaims
  /\ PathCount(c.subordinate_bindings) <= MaxSyncPaths

coordinator_from_authenticated_ok(c, owners) ==
  /\ validate_sync_snapshot(c)
  /\ ReservationsBounded(c)
  /\ SubordinateRunsMatch(c, owners)
  /\ from_snapshot_with_subordinates_ok(c)

\* open_authenticated_store accepts the durable state.
validate_authenticated_store ==
  /\ coordinator_from_authenticated_ok(inner, run_owners)
  /\ validate_claim_run_owners(inner, run_owners)
  /\ validate_claim_liveness(inner, liveness, supersessions)

\* A store adopted from a legacy file passed the same validation before it was used.
ASSUME LegacyAssumption ==
  \A c \in LegacyStates :
    /\ c \in Inner
    /\ c.subordinate_claims = {} /\ c.subordinate_bindings = {}
    /\ coordinator_from_authenticated_ok(c, {})

-----------------------------------------------------------------------------
(* Updates.                                                                 *)

\* The coordinator that an update rebuilds from the durable state.
Loaded == from_snapshot(inner)

\* Mutant of Opened: an update does not wait for the guard to release the lock.
Opened_IgnoresGuard == validate_authenticated_store

\* with_locked_update before the operation: the lock is free, the state opens.
Opened == guard = None /\ validate_authenticated_store

\* with_locked_update after the operation: rows of dead tokens are dropped, the
\* result is validated (but not reloaded), then committed.
CommitUpdate(c, owners, rows, ss) ==
  LET active == ActiveTokens(c)
      keptOwners == {o \in owners : o.token \in active}
      keptRows == {l \in rows : l.token \in active}
  IN /\ validate_sync_snapshot(c)
     /\ validate_claim_run_owners(c, keptOwners)
     /\ validate_claim_liveness(c, keptRows, ss)
     /\ inner' = c
     /\ run_owners' = keptOwners
     /\ liveness' = keptRows
     /\ supersessions' = ss
     /\ UNCHANGED <<now, guard>>

\* claim_paths, claim_paths_for_run: owner is None for an unattributed claim.  A
\* conflict fails the update, so the token the coordinator took is not consumed.
StoreClaimPaths(agent, ps, timing, owner) ==
  LET token == Loaded.next_token
  IN /\ IsNormalized(ps)
     /\ TokenAvailable(Loaded)
     /\ insert_claim_ok(Loaded, ps)
     /\ Opened
     /\ ensure_unambiguous_liveness
     /\ CommitUpdate(claim_paths(Loaded, agent, ps),
          run_owners \cup IF owner = None THEN {} ELSE {[token |-> token, owner |-> owner]},
          liveness \cup {new_claim_liveness(token, timing, None)},
          supersessions)
     /\ granted' = granted \cup {[token |-> token, agent_id |-> agent, paths |-> ps]}

\* Mutant of RunOwnsParent: any run may subdivide the claim.
RunOwnsParent_Unchecked(owner, parent) == owner \in Owners

RunOwnsParent(owner, parent) == [token |-> parent.token, owner |-> owner] \in run_owners

\* claim_subordinate_paths_for_run by the run and process that own the parent.
StoreClaimSubordinate(owner, parent, worker, ps, digest) ==
  LET token == Loaded.next_token
  IN /\ RunOwnsParent(owner, parent)
     /\ Cardinality(inner.subordinate_bindings) < MaxSyncClaims
     /\ claim_subordinate_paths_ok(Loaded, parent, worker, ps, digest)
     /\ Opened
     /\ ensure_unambiguous_liveness
     /\ CommitUpdate(claim_subordinate_paths(Loaded, parent, worker, ps, digest),
          run_owners \cup {[token |-> token, owner |-> owner]},
          liveness \cup {new_claim_liveness(token, DefaultTiming, None)},
          supersessions)
     /\ granted' = granted \cup {[token |-> token, agent_id |-> worker, paths |-> ps]}

\* release: the token alone is the authority.
StoreRelease(token) ==
  /\ release_ok(Loaded, token)
  /\ Opened
  /\ CommitUpdate(release(Loaded, token), run_owners, liveness, supersessions)
  /\ UNCHANGED granted

StoreReleaseByAgent(agent) ==
  /\ Opened
  /\ release_by_agent_ok(Loaded, agent)
  /\ CommitUpdate(release_by_agent(Loaded, agent), run_owners, liveness, supersessions)
  /\ UNCHANGED granted

\* A heartbeat neither revives an eligible claim nor moves its time back.
HeartbeatAllowed(l) == l.eligible = None /\ l.heartbeat <= now

\* heartbeat_at: timing is None to keep the row's own; a claim without a row (adopted
\* from legacy state) gets one.
Heartbeat(token, agent, timing) ==
  /\ \E claim \in all_claims(inner) : claim.token = token /\ claim.agent_id = agent
  /\ \A l \in Row(token) : HeartbeatAllowed(l)
  /\ Opened
  /\ ensure_supersession_time_not_future
  /\ LET used == IF timing = None THEN DefaultTiming ELSE timing
         beaten == {[l EXCEPT !.heartbeat = now,
                              !.interval = IF timing = None THEN @ ELSE timing.interval,
                              !.stale = IF timing = None THEN @ ELSE timing.stale]
                      : l \in Row(token)}
         rows == IF beaten = {} THEN {new_claim_liveness(token, used, None)} ELSE beaten
     IN CommitUpdate(Loaded, run_owners, (liveness \ Row(token)) \cup rows, supersessions)
  /\ UNCHANGED granted

\* Mutant of SweptRows: a claim must be silent for longer than its stale period.
SweptRows_Strict == {l \in liveness : l.eligible = None /\ now - l.heartbeat > l.stale}

\* The claims a sweep reports as Stale.
SweptRows == {l \in liveness : l.eligible = None /\ now - l.heartbeat >= l.stale}

\* sweep_stale_at: every stale claim becomes takeover-eligible, for good.
SweepStale ==
  /\ Opened
  /\ ensure_unambiguous_liveness
  /\ CommitUpdate(Loaded, run_owners,
       (liveness \ SweptRows) \cup {[l EXCEPT !.eligible = now] : l \in SweptRows}, supersessions)
  /\ UNCHANGED granted

\* Mutant of TakeoverAllowed: a claim that is only stale can be taken.
TakeoverAllowed_Stale(token) == claim_liveness_report(Row(token)) \in {"TakeoverEligible", "Stale"}

TakeoverAllowed(token) == claim_liveness_report(Row(token)) = "TakeoverEligible"

\* takeover_at: release of the predecessor and claim of the same paths in one update.
Takeover(prior, agent, timing) ==
  LET without == release(Loaded, prior.token)
      token == without.next_token
      own == CHOOSE l \in Row(prior.token) : TRUE
      used == IF timing = None THEN own ELSE timing
  IN /\ TakeoverAllowed(prior.token)
     /\ Opened
     /\ ensure_unambiguous_liveness
     /\ Cardinality(supersessions) < MaxSupersessionRecords
     /\ supersession_lineage_depth(supersessions)[prior.token] < MaxLineageDepth
     /\ release_ok(Loaded, prior.token)
     /\ TokenAvailable(without)
     /\ insert_claim_ok(without, prior.paths)
     /\ CommitUpdate(claim_paths(without, agent, prior.paths), run_owners,
          liveness \cup {new_claim_liveness(token, used, prior.token)},
          supersessions \cup
            {[prior_token |-> prior.token, prior_agent |-> prior.agent_id,
              successor_token |-> token, successor_agent |-> agent,
              paths |-> prior.paths, at |-> now]})
     /\ granted' = granted \cup {[token |-> token, agent_id |-> agent, paths |-> prior.paths]}

-----------------------------------------------------------------------------
(* The existing-claims guard: verified once, then held with the lock.       *)

\* verify_existing_claim_requests for one request.
ExactlyLive(request) ==
  /\ request \in all_claims(inner)
  /\ claim_liveness_report(Row(request.token)) \in {"Fresh", "HeartbeatDue"}

LockExistingClaims(requests) ==
  /\ requests # {}
  /\ \A request \in requests : ExactlyLive(request)
  /\ Opened
  /\ ensure_supersession_time_not_future
  /\ guard' = requests
  /\ UNCHANGED <<durable, now, granted>>

\* persist_exact_owner_heartbeat_locked: all requested rows or none.
GuardHeartbeat ==
  LET tokens == {request.token : request \in guard}
      mine == {l \in liveness : l.token \in tokens}
  IN /\ guard # None
     /\ \A l \in mine : HeartbeatAllowed(l)
     /\ liveness' = (liveness \ mine) \cup {[l EXCEPT !.heartbeat = now] : l \in mine}
     /\ UNCHANGED <<inner, run_owners, supersessions, now, guard, granted>>

DropGuard ==
  /\ guard # None
  /\ guard' = None
  /\ UNCHANGED <<durable, now, granted>>

-----------------------------------------------------------------------------
(* The clock: SystemTime::now is not monotonic.                             *)

Tick ==
  /\ now < MaxNow
  /\ now' = now + 1
  /\ UNCHANGED <<durable, guard, granted>>

ClockStepsBack ==
  /\ now' \in 0..(now - 1)
  /\ UNCHANGED <<durable, guard, granted>>

\* ensure_authenticated_initialized: an empty store or an adopted legacy one, whose
\* claims have no liveness row.
StoreInit ==
  /\ inner \in {EmptyInner} \cup LegacyStates
  /\ run_owners = {}
  /\ liveness = {}
  /\ supersessions = {}
  /\ now = 0
  /\ guard = None
  /\ granted = all_claims(inner)

ClientNext ==
  \/ \E agent \in Agents, ps \in SUBSET Paths, timing \in Timings, owner \in Owners \cup {None} :
       StoreClaimPaths(agent, ps, timing, owner)
  \/ \E owner \in Owners, parent \in inner.claims, worker \in Agents, ps \in SUBSET Paths,
        digest \in Digests :
       StoreClaimSubordinate(owner, parent, worker, ps, digest)
  \/ \E claim \in granted : StoreRelease(claim.token)
  \/ \E agent \in Agents : StoreReleaseByAgent(agent)
  \/ \E claim \in granted, timing \in Timings \cup {None} :
       Heartbeat(claim.token, claim.agent_id, timing)
  \/ SweepStale
  \/ \E prior \in all_claims(inner), agent \in Agents, timing \in Timings \cup {None} :
       Takeover(prior, agent, timing)
  \/ \E requests \in SUBSET granted : LockExistingClaims(requests)
  \/ GuardHeartbeat
  \/ DropGuard

StoreNext == ClientNext \/ Tick \/ ClockStepsBack

StoreSpec == StoreInit /\ [][StoreNext]_storeVars

\* The store under a clock that never steps back.
ForwardSpec == StoreInit /\ [][ClientNext \/ Tick]_storeVars

\* The clock goes on, the holder of a guard ends, and an operator retries maco sync sweep
\* often enough to meet a free lock (the lock is a try-lock, hence strong fairness); no
\* client is obliged to do anything.
SweptSpec ==
  /\ StoreSpec
  /\ WF_storeVars(Tick)
  /\ WF_storeVars(DropGuard)
  /\ SF_storeVars(SweepStale)

-----------------------------------------------------------------------------
(* Properties.                                                              *)

\* The store's rows have the types of AuthenticatedClaimsState.
StoreTypeOK ==
  /\ TypeOK
  /\ run_owners \subseteq AuthenticatedClaimRunOwner
  /\ liveness \subseteq AuthenticatedClaimLiveness
  /\ supersessions \subseteq AuthenticatedClaimSupersession
  /\ now \in Times
  /\ guard \in (SUBSET PathClaim) \cup {None}
  /\ granted \subseteq PathClaim

\* from_snapshot, claim_paths, takeover: a token names one claim for ever, across every
\* reload of the store, so a late release or heartbeat by token never hits somebody
\* else's claim.
TokensNameOneClaim == \A x, y \in granted : x.token = y.token => x = y

\* takeover_at: the predecessor was silent for its whole stale period, was marked
\* eligible by a sweep, and the clock is not behind that mark.
HandoffByTakeover(from, to) ==
  \E s \in supersessions' \ supersessions :
    /\ s.prior_agent = from
    /\ s.successor_agent = to
    /\ \E l \in Row(s.prior_token) :
         /\ l.eligible # None
         /\ l.eligible >= l.heartbeat + l.stale
         /\ now >= l.eligible

\* The right to write a path moves from one agent to another in one update only along a
\* subordinate binding or by a takeover of a claim that a sweep found stale; whatever
\* the clock does.
HandoffsAreLegal ==
  [][\A a, b \in Agents, p \in Paths :
       (a # b /\ can_write(inner, a, p) /\ can_write(inner', b, p))
         => HandoffAlongBinding(a, b, p) \/ HandoffByTakeover(a, b)]_storeVars

\* sweep_stale_at, heartbeat_at: once a claim is takeover-eligible its owner cannot win
\* it back; its row never changes again until the claim ends.
EligibilityIsFinal ==
  [][\A l \in liveness :
       (l.eligible # None /\ l.token \in ActiveTokens(inner')) => l \in liveness']_storeVars

\* heartbeat_at, sweep_stale_at, takeover_at, claim_subordinate_paths_for_run: a path changes
\* hands only legally, and the mark that allows a takeover is not taken back under it.
OwnershipMovesLegally == HandoffsAreLegal /\ EligibilityIsFinal

\* takeover_at, ensure_supersession_time_not_future: takeovers are recorded in the order
\* of their times even when the clock steps back between them.
SupersessionsFollowClock ==
  \A r, s \in supersessions : r.successor_token < s.successor_token => r.at <= s.at

\* AuthenticatedClaimsState: the rows keep their types, takeovers their order, and a token
\* its claim, through every commit and reload.
StoreConsistent == StoreTypeOK /\ SupersessionsFollowClock /\ TokensNameOneClaim

\* claim_subordinate_paths_for_run: subdivision keeps write exclusion and containment
\* through every commit and reload.
SubdivisionSafe == WriteExclusion /\ SubordinatesContained

\* lock_existing_authenticated_claims: from the verification until the guard is dropped,
\* every guarded claim stays live under its owner and cannot become eligible.
GuardedClaimsStay ==
  guard # None =>
    \A request \in guard :
      /\ request \in all_claims(inner)
      /\ \A l \in Row(request.token) : l.eligible = None

\* An agent is an active Worker and at the same time owns a top-level claim.
DoubleRole(agent) ==
  /\ \E child \in inner.subordinate_claims : child.agent_id = agent
  /\ \E claim \in inner.claims : claim.agent_id = agent

\* with_locked_update validates less than open_authenticated_store: the only committed
\* states that cannot be opened again are those where a Worker also owns a top-level
\* claim, or where the reservation history has outgrown its path budget.
OpensUnlessDoubleRole ==
  \/ validate_authenticated_store
  \/ \E agent \in Agents : DoubleRole(agent)
  \/ ~(PathCount(inner.subordinate_bindings) <= MaxSyncPaths)

\* docs/MUTATION_REVERSIBILITY.md, claim-acquire: the record of an acquired claim can be
\* released.  Every live claim is in a store that opens.
ClaimAcquireReversible == all_claims(inner) # {} => validate_authenticated_store

ClockSettles == <>[][~ClockStepsBack]_storeVars

Overdue(l) == l.eligible = None /\ l.heartbeat + l.stale <= now

\* sweep_stale: once the clock stops stepping back, again and again no claim whose owner
\* stayed silent for its stale period lacks the mark that makes it eligible for takeover.
SilentClaimEventuallyEligible ==
  ClockSettles => []<>(\A l \in liveness : ~Overdue(l))
=============================================================================
