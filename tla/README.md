# TLA+ models of the Multi-Agent Coding Orchestrator

MACO runs several coding agents against one Git repository: every agent works in a worktree
of its own, reserves the paths it will edit, draws on a budget, and its results are reviewed,
merged, published and followed up. What has to be right whatever happens is the bookkeeping
underneath: who may write a path, what may start next to what, what is durable after a crash,
what was spent, and how often an effect with consequences outside was started. These modules
model that bookkeeping, TLC checks it on small instances and TLAPS proves the most important
parts for every instance.

Paths below are relative to the repository root, so `src/sync.rs` is the claim coordinator.

## 1. Inventory

| Part | State | Operations | What makes it correct |
|---|---|---|---|
| Path-claim coordinator, `src/sync.rs` | `Inner`: next token, top-level claims by path, subordinate claims, reservations ever made | `claim_paths`, `claim_subordinate_paths`, `release`, `release_by_agent`, reload, `can_write` | no two agents may write overlapping paths; a Worker's claim lies in a live parent; a reservation is spent once |
| Durable claim store, `src/sync_store.rs` | the coordinator, run owners, liveness rows, supersession history, in one authenticated snapshot | claim, subdivide, release, heartbeat, sweep, takeover, guard over existing claims | ownership moves only by a legal takeover or a binding, also when the clock steps back; a guarded claim stays; what is committed can be opened; a dead owner's claim becomes available |
| Snapshot store, `src/authenticated_snapshot.rs`, and journal, `src/state_journal.rs` | locator, intents, journals of numbered records with a head, two locks | `create`, `commit`, `rollover`, `open_instance` with its recoveries | a register with atomic writes under crashes; recovery accepts what a crash left, but for two windows |
| Effect log, `src/effect_wal.rs`, and external effects, `src/publication.rs` | events and a phase per effect; objects on a forge | plan, start, observe, complete; reconciliation | an effect is asked for at most once; all successful calls agree |
| Budgets, `src/budget_ledger.rs`, `src/supervise_budget.rs` | a workspace ledger of reservations and terminals; totals, reservations and live grants of a run | reserve, wait, grant, settle, release, drop, recover, rate limits | no ceiling or quota is overcommitted; totals are what is held; every reservation can be settled and every ledger replayed |
| Follow-up leases, `src/follow_up_queue/lease.rs` | available, held, retained or terminal lease with its lineage | claim, heartbeat, release, reclaim, effect start, acknowledge | one started effect per occurrence of an item, whoever presents which old proof |
| Follow-up graph, `src/follow_up_queue/graph.rs`, `src/supervise/follow_up_graph.rs` | branches, visits, attempts, selected edges | nine kinds of event, validation of definitions and states | an admitted definition never outgrows its event bound; it ends, and truthfully |
| Follow-up queue and cascade, `src/follow_up_queue.rs`, `src/supervise/follow_up_cascade.rs` and `follow_up_lease.rs` | items with phase, lease and branch in one journal; launched runs | enqueue, claim, mark, launch, heartbeat, reconcile, acknowledge | no item is launched past an unresolved one or without its durable marker; a verdict is the authentic report of the planned run; the batch gets resolved |
| Supervise, `src/supervise/scheduler.rs`, `assignment_execution.rs`, `gate_health.rs`, `part2.rs`, `src/swarm_health.rs` | pending and active assignments, threads, outcomes, breaker, budget | admit, spawn, claim, narrow, reserve, invoke, settle, retry, audit, drain, abort, close | what runs together does not overlap; children follow successful parents; no admission past an invisible reservation; uncontained work keeps its claim; the report is true; the run ends |
| Remote coordination, messaging, decisions, agent lifecycle, steering, live claims, orchestrator, merge, review | | | not modelled, section 7 |

Interaction. A supervise run claims paths in the claim store and reserves tokens in the run
budget for every dispatch, both from its assignment threads; the store runs one coordinator
operation inside one snapshot commit under the repository lock; the run budget appends to the
workspace ledger; the effect log is another client of the snapshot store; a finished run hands
generated follow-ups to the cascade, which launches further runs under leases. The hard
behaviours are threads that complete in any order, processes that share a store through a
try-lock, crashes between two durable steps, a wall clock that is not monotonic, late
heartbeats and old proofs against takeovers, waits for budget that another thread holds, and
services that lose, delay or perform requests without answering. `PROJECT.json` lists each
hazard at its line with the properties that would catch it.

## 2. Modules

| Module | Models | Notes |
|---|---|---|
| `RepoPaths` | path algebra of `sync.rs` | a path is its sequence of components |
| `PathNormalization` | `normalize_claim_paths`, `normalize_repo_path`, `collapse_covered_paths` | the two loops, one turn per step, against loop-free definitions |
| `SyncCoordinator` | `SyncCoordinator` | operations are operators on `Inner`, and actions of a specification of their own |
| `SyncStore` | `SyncStore` without remote coordination | extends `SyncCoordinator` and runs its operators on the reloaded state |
| `StateJournal`, `AuthenticatedSnapshot` | journal and one logical snapshot store | one action per durable step, several processes, crash anywhere |
| `SnapshotRegister` | the abstract register that the snapshot store implements | the reason one update of a client may be one step |
| `EffectWal`, `ExternalEffect` | effect log, exactly-once execution | the service and its users are external actions |
| `BudgetLedger`, `RunBudget` | the workspace ledger; the budget of a run and its dispatches | `RunBudget` extends `BudgetLedger` |
| `FollowUpLease`, `LeaseProtocol` | the lease reducer; workers that present any event with any proof | |
| `FollowUpGraph`, `LicensedGraph`, `FollowUpGraphRun` | the graph reducer and its validation; lowering of a batch and its control events; a journal of graph events | |
| `FollowUpQueue`, `FollowUpCascade` | the queue's records; the cascade over invocations and crashes | extends `FollowUpLease` and `LicensedGraph` |
| `SwarmHealth` | the circuit breaker | operators |
| `AssignmentAttempt` | retries, gate corrections and decisions of one assignment | operators on a thread record |
| `AssignmentScheduler` | the scheduler loops composed with threads, claims, breaker and budget | |
| `SyncProofs`, `SnapshotProofs`, `ExternalEffectProofs`, `RunBudgetProofs`, `FollowUpReducerProofs`, `FollowUpCascadeProofs`, `AssignmentSchedulerProofs` | theorems | section 5 |
| `SumTheorems` | lemmas on sums over finite sets | used by the proofs of the budget and the scheduler |

`MC*` modules hold the small constants; `PROJECT.json` maps every definition that stands for
code to its lines. Operators keep the names of the functions they translate; `x_ok` is the
success condition of operation `x`. A definition whose comment begins with "Mutant of" is a
plausible bug in the definition it names and is used by no specification.

### SyncCoordinator

`inner` is the struct `Inner`. The map from paths to claim entries is represented by its
grouped view (`group_claims`), one record per token. All operations hold one mutex, hence one
step each. `claim_paths` takes its token before it looks for a conflict, so a conflict burns a
token (`BurnToken`). `release` removes a subordinate claim or, if there is none, a top-level
one. The reload operators translate `from_snapshot` and `from_snapshot_with_subordinates`.

### SyncStore

An update opens and validates the durable state (`Opened`), rebuilds the coordinator
(`Loaded`), runs one operation and commits (`CommitUpdate`). A failed operation commits
nothing, so a conflict burns no token here. `CommitUpdate` validates exactly what
`with_locked_update` validates before the commit; what an open validates in addition
(`coordinator_from_authenticated`) is not part of it. `now` is read by each operation and may
step back. `guard` is the lock held across steps by `lock_existing_authenticated_claims`;
while it is set no update can open the store. `granted` is auxiliary: clients keep the tokens
they were given and may use them at any later time.

### AuthenticatedSnapshot

The disk is `journals`, `locator`, the two intents and `lock_file`; `store_lock` and
`root_lock` are freed when their process ends. A MAC is represented by what it authenticates:
the directory and the sequence of records up to that one. `phase[p]` is the point of the code
where process p stands between two durable steps; recovery has one phase, because the code
re-reads the disk and what it does next is determined by what it finds. `Crash` also stands
for an error return: each caller of `commit` and `rollover` propagates the error and drops the
handle. Metadata replacement is atomic (`replace_atomic` after `fsync`).

Two crash points are not recovered from, and the model refuses there as the code does. A record
is published by a hard link, so until its temporary is removed it has two links (`LinkedTail`);
`load_and_recover` reads every record with a check for a single link
(`src/state_journal.rs:517`, `src/safe_state.rs:3149`) before it would recover temporaries (541).
An abandoned candidate is renamed to a deletion name before it is audited and deleted
(`src/safe_state/part2.rs:998`, `residue`); the inventory knows no such name and the audit refuses
a file with a second link. `RefuseOpen`, `BootstrapRefused` and `GiveUpInitialization` are the
error returns.

### ExternalEffect

A call holds the log's store lock from open to return, so there is one `session`. Service
steps are concurrent: a request is applied late or lost, a user copies a marker or deletes an
object, the source of the request changes. `Abort` is a crash, an error, or any of the
refusals that ask for manual reconciliation. `verify` compares the receipt with the object on
the service.

### BudgetLedger and RunBudget

The ledger is its sequence of events; `replay_events_ok` is what an open demands of it. Each
method of `RunBudgetLedger` holds one mutex and is one action, persisting included. A request
that fits only after a live grant is returned waits (`Ask`, `Wake`, `GiveUp`). `Settle`, `Drop`
and `SettleNotStarted` are the three ends of a dispatch. `Faults` says how persisting fails:
`append` before the record is durable, `head` after it. `publish` returns that error before it
pushes the event, so `journal`, what is durable, is ahead of `events`, what the handle knows.
`stale` is auxiliary: a handle that misses a record has written. A crash loses the run's memory;
the next `OpenLedger` reads the journal and charges what was left unsettled.

### FollowUpLease, LeaseProtocol

`apply` is the reducer: it maps a lease and an event to the next lease or refuses. In
`LeaseProtocol` every worker remembers each proof it was ever granted and may present it at
any later time with any observation. Lease identities are chosen by callers, two workers may
choose the same one, and only the generation is the reducer's.

### FollowUpGraph, LicensedGraph, FollowUpGraphRun

A definition is its nodes' kinds and its edges; `validate_definition` is the conjunction of
the code's checks, cycle and reachability analysis included. Each event has an operator that
gives the states the handler accepts; `apply_graph_event` keeps those that also pass
`validate_state`, as the code does. `FollowUpGraphRun` lets a caller present any event of any
shape. `LicensedGraph` lowers a batch of items and derives the control events the queue
appends on its own.

### FollowUpQueue, FollowUpCascade

A queue is what its journal replays to, and one record changes phase, lease and branch
together. The cascade's invocation is a program counter between two records or launches; it
may crash at each. Subordinate runs are known by what `supervisor_status` and their final
report say, three-valued: succeeded, failed, unreadable. Proofs of the one logical worker are
`<<item, generation>>`. `Faults` are crashes, clock steps, refusals during preparation,
unreadable statuses, a foreign report under the expected run id, and a run an operator resumes.

### AssignmentAttempt, AssignmentScheduler

A thread record holds the local state of `execute_supervisor_assignment` with the outcome it
builds. A gate denial is its reason and the paths it names, since `denial_id` hashes the two.
`decide_child_attempt` and `decide_parent_auditor_gate` are by cases of what an attempt showed.

`AssignmentScheduler` has two loops as the code does: a plan of width one runs inline
(`SerialAdmit`, `SerialComplete`), others admit, wait for the handshake, and drain completions
from the queue in the order the threads ended. Between two waits a loop's step is one action,
but for admission: `AdmitNext` reads the budget and chooses (`scheduler.rs:2054-2133`), `StartNext`
writes the checkpoint and spawns (2135-2300), and threads run in between.
A thread takes its claim, on refusal looks at the store a second time (another run may have
released in between) and narrows its scope, prepares, reserves, notifies the scheduler,
launches and settles. `Close` releases what was retained once the report is planned; a release
that fails there ends the run with an error and without its report (7887). The budget part is the one ceiling and the live grants of `RunBudget`;
the claim store is the set of claimed paths of `SyncStore`. Faults, at most `MaxFaults`: a
thread cannot be spawned, dies before it executes, ends with an error or panic, a checkpoint
or a release fails, a wait expires, a dispatch reports no usage.

## 3. Runs

| Run | Instance | States | Shows |
|---|---|---|---|
| `coordinator` | 3 agents, directory, 2 files, 1 outside path, 5 tokens; all pairs of raw paths of at most 3 components over 2 names, `..`, `.`, `/`, and requests of at most 3 nested or invalid paths | 35 k | write exclusion, containment, single use of reservations; walk and collapse compute exactly their loop-free definitions, refusals included |
| `store_takeover` | 2 agents, nested paths, a legacy claim, times 0..4, clock steps back, chains of 2 takeovers | 121 k | a store consistent across reloads with tokens that name one claim, guarded claims stay, handoffs are legal and eligibility final, a silent claim becomes eligible |
| `store_workers` | 2 runs, 3 agents, forward clock, history of 3 | 177 k | containment and exclusion through reloads; which committed states do not open |
| `store_double_role` | as `store_workers`, clock free | | violation, section 6 |
| `snapshot` | 2 processes, journals of 2 records, 2 rollovers, 3 initialization attempts | 245 k | `RecoveryIsSound` (refuses in the two windows only, an open handle is current), refinement of `SnapshotRegister`, recovery and initialization finish outside the windows |
| `external_effect` | 2 effects, 2 payloads, 7 events, 2 objects | 1.1 M | asked at most once, no duplicates, agreement |
| `budget` | 2 threads, estimates 1 (priced) and 3, ceiling 4, quota 5, grants of 2, ledger of 5 records, 2 sessions, clock both ways, appends and head publications that fail | 1.3 M | `LimitsKept`, totals agree with what is held, room for every terminal and a ledger that replays until a stale handle writes, no false refusal |
| `lease_protocol` | 2 workers, 2 identities, 2 occurrences | 17 k | the inductive invariant of section 5, one effect per occurrence |
| `graph` | licensed batches of 1 to 3 items, a loop with retries, a definition that gets stuck, one whose loop overtakes a forked branch | 1.1 k | the event bound covers every history, the reducer accepts what it produced but for an overrun, ends are truthful, all but the last two definitions terminate |
| `cascade` | 2 items, any number of invocations, 2 faults | 723 k | a verdict is earned, phase, lease and branch agree, nothing overtakes, launches are fenced, repeated invocations resolve the batch |
| `schedule` | 6 plans of 2 or 3 assignments, width 1 or 2, 1 retry, 1 correction, ceiling 6, estimate 2, grants up to 4, 1 fault of 7 kinds, 1 foreign claim, breaker thresholds 1 to 3 over a window of 4 | 427 k | see below |
| `schedule_drain` | 3 roots of width 3, ceiling of two and a half estimates, no faults | | violation, section 6 |

The properties of `schedule`: `DispatchIsSafe` (active assignments do not overlap; what was
started has successful ancestors without claims), `NoInvisibleReservation`,
`AuthorityAccounted` (an uncontained assignment keeps its claim to the end; any other claim left
is explained), `ReportIsTrue` (success is earned, every assignment without an outcome is
explained), `CancelledForCause` (the causes of a cancellation, a fatal budget or gate error of an
assignment among them), `RetriesAreBounded`, `NothingAfterStop` (after an abort or an open breaker
nothing starts; after a budget stop nothing is chosen or reserved, and only the assignment chosen
before is still spawned), `ScheduleEnds`.

`coordinator` composes two programs that share no state: a request of raw paths is normalised,
and the coordinator runs in the behaviours whose request is empty. `budget` cuts a behaviour off
where a handle that misses a record of its journal writes (`KnowsItsJournal`): from there on the
code's ledger can be one that no open accepts (section 6) and the ledger properties say nothing.

Why the bounds are enough. Exclusion is about pairs of claims and a Worker's is about three
agents, so three agents and a tree with nesting, siblings and a stranger contain every
relation between two scopes; five tokens let a claim be taken, subdivided twice and taken
again. A takeover chain of two is the shortest whose middle claim is both successor and
predecessor; times up to 4 with a stale period of 2 let the second takeover happen and the
clock step behind the first. Two records per journal and two rollovers give each position an
intent can have relative to the locator, and the crash can fall after every step. Two objects
suffice for a duplicate and for an ambiguous lookup. In `budget` two threads compete, one
estimate fits beside a grant and the other only without it, and a ledger of five records is
full after two reservations with their terminals. In `cascade` two faults let a second one hit
the recovery from the first, and two items are what overtaking needs. In `schedule` width two
with three assignments has one that runs, one that is admitted and one that waits; the ceiling
is met by two estimates and a grant; one retry and one correction give all mixtures of the two
allowances; one fault lets every handler run while others are active. The proofs of section 5
remove the bounds for what they cover.

Symmetry is used in safety runs only, over agents, effects, payloads and threads, none of
which those specifications distinguish.

`CHECK_DEADLOCK FALSE` appears where the system may stop: a normalisation, a graph, a lease, a
schedule or a cascade ends, and bounded clocks, sessions and tokens are used up.

## 4. Fairness

- `SweptSpec`: time passes; the holder of a guard ends; the operator repeats `maco sync sweep`.
  The repository lock is a try-lock, so strong fairness of `SweepStale` is assumed: the operator
  retries and the lock is free again and again. No client is obliged to do anything. The property
  is conditional on the clock no longer stepping back.
- `FairSnapshotSpec`: a process that can take a step takes one. Liveness is conditional on
  crashes ending; eight crashes at the wrong place exhaust the retry bound, as the code intends.
  It is also conditional on no crash having hit one of the two windows (`Wedged`), from which the
  code does not recover.
- `FairGraphSpec`: an event that can be appended eventually is. The definitions in
  `Stranding`, which validation admits although they get stuck, are exempt by name.
- `FollowUpCascade!FairSpec`: an invocation that can proceed does, the operator invokes again,
  a resumed run ends. A batch stops at an item that is held, which needs an operator.
- `AssignmentScheduler!FairSpec`: the scheduler and the threads are scheduled; a turn ends, as
  every dispatch has a timeout.
- No fairness is assumed of the forge: a request that is lost after the durable start needs
  manual reconciliation by design.

## 5. Proofs

Assumptions are the named `ASSUME`s of the modules: paths are non-empty sequences of
segments; bounds and times are numbers, positive where the code validates that; a heartbeat
interval is shorter than its stale period (`TimingsAssumption`); a legacy state to adopt was
validated and has no Workers, which its format cannot express (`LegacyAssumption`); requests,
measurements and plans have the types of the code, a plan's parents come before their children
and a live limit is at least the estimate (`BudgetAssumption`, `SchedulerAssumption`); a batch is
a sequence of items whose names are none of the control nodes of its graph
(`CascadeAssumption`; `licensed_node_id` gives tasks and control nodes distinct suffixes); `None` is no state of the
queue or its graph (`AbsentStates`); definitions are ones `validate` admits, and the tasks of a
batch are none of its control nodes (`GraphAssumption`); a raw path is a sequence of segments
and of the three markers, which are distinct (`RawPathsAssumption`); a snapshot store may keep at
least one physical instance, which opening validates (`src/authenticated_snapshot.rs:1339`,
`BoundsAssumption`); `None`,
`NoPhase`, `NoProof` and `NoReclaim` are none of the values they stand beside. Sets of agents,
paths, digests, effects, payloads, workers, identities, threads and plans are arbitrary, infinite
ones included, and no proof uses a bound on time, faults, sessions or records except where it
is a bound of the code.

`BudgetLimitsKept` alone needs more, and says so as a hypothesis of its own:
`"head" \notin Faults`. It relates the quota to the totals in memory, and after a failed head
publication the two differ for as long as the run lasts. The theorems about the journal,
`BudgetLedgerReplays` and `BudgetCapacityForTerminals`, have no hypothesis; what they say ends
where `stale` begins, at the first write of a handle that misses a record (section 6).

`SyncProofs`, in three layers
- Paths: `NormalizationIsExact`. The two loops of `normalize_claim_paths` compute what the
  loop-free definitions say, for requests of any number of paths of any length. `NormInv`
  says what the walk of a path has made of the components so far: each component of the result
  is one that was pushed at that depth and not popped since (`Walked`, `Kept`), and at most one
  survives at a depth (`SurvivorUnique`). The second loop keeps the uncovered ones of the paths
  it has seen, whatever the order in which it sees them (`CollapseTurn`).
- Coordinator: `CoordinatorTypeCorrect`, `CoordinatorClaimsExclusive`, `CoordinatorSubordinatesContained`,
  `CoordinatorWriteExclusion`, `CoordinatorReservationConsumedOnce`, and the action property
  `CoordinatorHandoffs`.
- `WriteExclusion` is not inductive. Its strengthening `CoordInv` says in addition that live
  tokens are below `next_token` and name one claim; that top-level claims are disjoint; that each
  subordinate claim has a live parent, covering it and owned by another agent, through a
  binding of that pair; and that subordinate claims are pairwise disjoint. `can_write` then
  gives authority either to the one subordinate claim that meets the path or, when none does,
  to the one top-level claim that covers it. One lemma per operation; the path algebra is
  needed only through five lemmas on prefixes and overlap.
- Store: `StoreInvariance`, `StoreStaysConsistent`, `StoreGuardedClaimsStay`, `StoreSubdivisionSafe`,
  `StoreOpensUnlessDoubleRole`, and the action property `StoreOwnershipMovesLegally`.
- `StoreInv` is `CoordInv` of the durable state and what the store adds: the rows of run
  owners, liveness and supersessions name claims that exist or existed, Workers run under the
  run of their parent, tokens once granted stay below the next one and name one claim. Each
  update runs one or two coordinator operations on the reloaded state, so the lemmas of
  the coordinator carry over once reloading is shown to keep `CoordInv`. The clock is
  any number at each step: takeovers stay ordered because a takeover refuses a time before the
  last one, not because the clock is monotonic.

`SnapshotProofs`
- `SnapshotInvariance`, `SnapshotRecoveryIsSound` and the refinement
  `SnapshotImplementsRegister`, for any number of processes, instances and crashes.
- `RecoveryIsSound` says of every state in which an open, a retried initialization or an
  inspection is about to read the disk that the reads succeed, unless a record has a second link
  or a directory is under its deletion name.
- `SnapshotInv` has four parts: types; who holds which lock; `Disk`, the combinations of locator,
  journals, intents and retained anchor that a crash can leave, one for each durable step; and
  `Place`, what the program counter of the holder says about the disk in front of it.
  `RecoveryIsSound` alone is not inductive, because what recovery finds was left by a process
  that is gone: `Disk` has to remember for it.
- In the refinement the stored snapshot changes in two places only: the first locator is the
  register's `Create`, the record that publishes a commit or a rollover is its `Write`. A step that
  hands an open store to a process is `Acknowledge`; everything else, recovery included, is a
  stutter. The rollover's old instance counts until the new record is there, which is what makes
  an interrupted rollover invisible.

`ExternalEffectProofs`
- `EffectAskedAtMostOnce`, `EffectStartedBeforeAsked`, `EffectCreatesNoDuplicates`,
  `EffectResultsAgree`.
- The strengthening ties a call's position to the log: before the start the log says Planned
  and nothing was sent, before the request it says Started and nothing was sent. A call that
  finds Started goes to reconciliation, from where no step sends. A travelling request is the
  only one of its effect and has no object yet, so the object it becomes is the first. For the
  agreement, what a call holds in hand is what the log records once it says Completed.

`RunBudgetProofs`, in three layers
- Memory: `BudgetMemory`, `BudgetAccountsAgree`, `BudgetCommitmentBounded` and the action
  property `BudgetNoFalseRefusal`. `MemoryInv` says which sums the incremental totals are, that
  every dispatch under way has a reservation of its own and that a grant covers its estimate.
  A grant is a share of the uncommitted balance, so the ceiling holds.
- Journal: `BudgetJournalUntilStale`, `BudgetLedgerReplays`, `BudgetCapacityForTerminals`.
  `JournalInv` ties the journal to the memory: the open handle has read all of it, ids come from
  earlier opens or from numbers already given out, and its unsettled reservations are exactly the
  run's own. Without that tie a settlement could write a second terminal, or one for a
  reservation nobody made, which the next open would refuse. A head publication that fails moves
  to `Ahead`: the journal replays and has its room, but the handle lacks a record. `Ahead` ends
  with the run, whose successor reads the journal, or with a write, which is `stale`.
  `BudgetJournal` is `JournalInv` throughout, for runs without head failures.
- Quota, without head failures: `BudgetQuota`, `BudgetLimitsKept`. Use in the window and what is
  owed to unsettled reservations are sums over the journal, and each event moves one summand.
  Admission compares the window with totals in memory, hence `QuotaInv` equates what the
  journal owes with what the run holds.

`AssignmentSchedulerProofs`
- `SchedulerInvariance` and one theorem per safety property of the `schedule` run:
  `DispatchIsSafe`, `NoInvisibleReservation`, `AuthorityAccounted`, `ReportIsTrue`,
  `CancelledForCause`, `RetriesAreBounded`, and the action property `NothingAfterStop`.
- `SchedulerInvariance` is `IndInv` and `Chosen`. The latter carries over the gap between choice
  and start what the choice had made sure of: the assignment is pending and ready, overlaps
  nothing active, and the breaker is not open.
- None is inductive: an assignment is known to its thread record, to the loop's sets and
  outcomes, to the claims, to the budget and to the queue, and a property about two of them
  depends on the others. `IndInv` says for each phase of a thread which claim and reservation it
  has, for each set of the loop which phases it holds, which totals are which sums, what a
  program counter of the loop implies and what explains each stop and cancellation. A thread's
  step is a `ThreadMove` and keeps the invariant whatever the loop does; the loop's steps only
  resolve assignments, except for `Spawn`.

`FollowUpReducerProofs`, the two reducers of the queue
- Lease: `LeaseInvariance` proves `LeaseInv`; `LeaseTypes`, `EffectFence`, `RetirementIsFinal`,
  `GenerationsAreUnique` and `TakeoversAreExplained` are its parts.
- One effect per occurrence rests on generations: the proof a lease carries is the newest ever
  granted (`ProofIsNewest`), a generation names one grant, a retired proof never matches again,
  and an effect is recorded only with the current proof, after which no reclaim is accepted.
  One lemma per event says what acceptance means, one that the event keeps the invariant.
- Graph: `GraphInvariance`, `GraphEndsTruthfully`, for batches of any size and any definitions
  `validate` admits, with whatever events callers present.
- A termination node says nothing about branches, so `EndsTruthfully` needs the way there. In
  `GraphInv` every node but the entry was reached along a crossed edge (`Arrived`); an edge
  crossed for a join's result, or for the outcome of a task without predecessors, still says
  what is so (`JoinEdgesTrue`, `RootEdgesTrue`). That needs a routed
  visit of a branch to be final, with nothing running or waiting behind it (`BranchesSettled`), and
  a join's result to be the one its branches still give (`JoinsDecided`; `validate_state` enforces it).
  The shapes `derive_licensed_follow_up_graph` produces then give the batch's outcome.

`FollowUpCascadeProofs`
- `CascadeInvariance`, and one theorem per safety property of the `cascade` run:
  `CascadeStoryAgrees`, `CascadeNoOvertaking`, `CascadeLaunchIsFenced`,
  `CascadeVerdictIsEarned`. They hold for a batch of any size, any sequence of invocations and
  every set of faults.
- `CascadeInv` is `Fresh` before the journal exists (nothing was launched), and `Standing` from
  then on: the queue is staging its batch, waits for its graph, or is `Bound` to it. `Bound` says
  that the graph is in a state its reducer leaves behind (`GraphOK`: the parts of
  `validate_state` in use, the fork either unrouted or with every task reached, success reached
  only over successful branches), that phase, lease and branch of every item tell one story
  (`Story`), and that whatever stands before an item ever claimed is acknowledged (`InOrder`).
  `Fences` and `Authentic` tie the runs to the journal, and `Placed` says what each program
  counter has made sure of: at `select` every item not left to do is resolved, in a dispatch so
  is every item before the current one.
- `NoOvertaking` needs `InOrder`, and `InOrder` needs `Placed`: a claim is journalled several
  steps after the check that nothing earlier is unresolved, and only the program counter
  remembers the check. A crash loses that memory and nothing else, since the next invocation
  goes through `claims` and `reconcile` before it selects.
- The lemmas go bottom up: order of the items, the licensed graph, graph and lease events, the
  journal's composite records (each moves one item, by a named change of its phase, lease and
  branch), one lemma per action. The lemmas of the control events
  say what routing the fork, a task or the join, and terminating, leave unchanged.

`SumTheorems` proves what the two accounts need of `SumFunctionOnSet`: the sum of a finite set
does not depend on the order in which the fold takes the elements, so adding, removing or
changing one element changes it by that element. Its induction is on subsets and needs no
operator parameter.

Only model checked:
- all liveness (`SilentClaimEventuallyEligible`, `RecoveryCompletes`, ends of graphs, cascades
  and schedules): fairness and `ENABLED` are outside what the proof system's backends do;
- `AdmittedGraphsFit`. Its event bound is a sum over the nodes of an arbitrary definition, weighed
  against a history, which is induction over data. Its other half says that the second check
  refuses nothing the handlers accept but an `Overruns`: not every definition `validate` admits
  excludes those (section 6), and one that does not is part of the run.

## 6. Where code and documents disagree

`store_double_role` is a run. `docs/MUTATION_REVERSIBILITY.md` calls `claim-acquire` reversible
because the record "can be released". `with_locked_update` commits before it validates the
state as an open does: an agent that is an active Worker may take a top-level claim, and the
committed state is one that `coordinator_from_authenticated` refuses, so nobody can open the
store, `release` neither.

`schedule_drain` is a run. `README.md:2046-2047` says "A hard ceiling still halts new dispatch and
drains already-started assignments", and the report of a run the budget stopped says that it
"drained already-started work" (`scheduler.rs:7702`). A dispatch that holds its reservation, but is
not yet invoked when another thread's request is refused, fails with an error
(`src/supervise/part2.rs:230`), which the scheduler treats as an abort: it cancels turns that run
(`scheduler.rs:2341`). `BudgetStopDrains` states the promise. `CancelledForCause`, which holds, lists
`budget` among the causes for that reason.

The following have no run of their own; where a property is named it states what the code does
and holds because of it.

- Reservations ever made are bounded by number at admission (`src/sync_store.rs:2069`) and by
  paths on open (692): a subdivision that crosses the path bound is committed and the store is
  closed for good. `OpensUnlessDoubleRole` shows that this and the one above are the only two.
- A crash between the hard link of a record and the removal of its temporary leaves a record that
  no open reads (`src/state_journal.rs:517`, `src/safe_state.rs:3149`), although line 541 and
  `remove_published_hardlink_residue` (1336) are there to recover it; a crash between the rename of
  an abandoned candidate and its deletion (`src/safe_state/part2.rs:998`) leaves a root whose
  inventory is refused. `README.md:813-815` says of a prepared rollover that a crash "either
  recovers forward from the bound candidate or leaves the old locator authoritative": it also
  may leave neither. `RecoveryIsSound` shows that these two windows are the only ones.
- A failed publication of the journal's head leaves a ledger record durable while the handle
  misses it: `publish` returns before it pushes the event (`src/budget_ledger.rs:1066`). The
  handle stays open, and a retry of the same settlement writes a second record with the same id
  that no later open accepts; the comment at 722 says "Repeating the exact completion is a no-op",
  and the journal's own test expects a retry after such a failure
  (`head_write_failure_then_retry_rewrites_dirty_head_instead_of_wedging`, `src/state_journal.rs:1561`).
  `LedgerReplays` holds up to that write; without its `~stale` TLC finds the ledger.
- A request refused by the workspace quota latches the stop although a live grant would be
  returned (`src/supervise_budget.rs:1604`; the comment at 948 promises the wait), and in-flight
  reservations are written to the workspace ledger (1715; `README.md:2123` says they are not).
- A batch of 60 to 64 items is admitted (`src/follow_up_queue.rs:486`) and committed, and needs
  more than the 64 nodes a graph may have (`src/follow_up_queue/graph.rs:376`;
  `docs/issue-22-step2-safety.md:27`).
- A failure that reconciliation finds does not keep the same invocation from launching a sibling
  (`src/supervise/follow_up_cascade.rs:297`; the same document, lines 56-57). It never reports
  success (`VerdictIsEarned`).
- A refusal between claim and marker leaves the item claimed until the lease expires
  (`follow_up_cascade.rs:1046`; lines 34-36 of the document).
- The cascade refuses to resume a complete queue, so a crash after the last acknowledgement
  leaves a batch whose success nobody reports.
- A denial of another kind while a correction is active is an error (`src/supervise.rs:4825`), so
  a correction that fails differently aborts the run and its unrelated roots, against
  `README.md:4115`. `CancelledForCause` lists it as `gate`.
- In the concurrent loop a parked parent with pending children and nothing active cancels and
  fails the run (`scheduler.rs:2304`) when the parking is the last thing that happened before
  the drain; `README.md:3851` says the children are suppressed.
- `claim_conflict_details` reports for each claim only the first requested path it overlaps, so
  a narrowed scope may be refused again for the next one (`primary_integrity.rs:1121`).
- The comment at `scheduler.rs:2059` says the handshake already bound the active child's grant;
  the notification (`assignment_execution.rs:3362`) precedes the grant (4129).
- `validate` admits graph definitions that can never terminate; the licensed ones always do.
  It also admits a fork in a loop's body of which one branch returns to the loop and the other
  ends in the body. When the first is quicker, routing the fork again gives the other branch a
  second visit before its first was attempted, which `src/follow_up_queue/graph.rs:1380` refuses:
  an edge selection its own handler accepts is lost. `MCOverrun` is such a definition and
  `AdmittedGraphsFit` exempts the event it loses (`Overruns`); no licensed batch is lowered to one.

## 7. Not modelled

Within modelled parts: remote coordination (`self.remote`), megafile telemetry and reports of
the claim store, the two steps of adopting its legacy file; sizes in bytes; several logical
stores that share the quota of one namespace; metadata temporaries, which are deleted unread;
the checkpoint journal's retry of a dirty head; queue records without a graph, which current
code writes for no new queue; release before dispatch and further occurrences in the cascade
(both are in `LeaseProtocol`); nesting of dispatches under one grant; per-role totals and
pricing provenance; budget degradation, model selection, nested workers of managed parents,
evidence-only re-audits and held-out validation of an assignment; the half-open breaker, which
supervise never reaches; the order in which semantic Block mode lets assignments prepare (the
handshake already lets one prepare at a time); contents of reports.

Assumed: atomic replace, durability after `fsync`, locks freed on exit (`src/safe_state.rs`,
`src/state_auth.rs`); MACs are identified with what they authenticate and nobody else writes
the state directory.

Whole components: remote claim coordination, messaging, decisions, agent lifecycle and
steering, semantic intents, the outer orchestrator, merge and review flows, migration, and
accounts have protocol state and no module yet. Provider and process I/O, command line,
scoring, secrets handling and presentation, which are most of the repository's lines, have no
protocol state that these models would tell apart. `PROJECT.json` gives the reason for each.

## 8. Plan

1. Done: coordinator, normalisation, claim store, journal and snapshot store with its
   register, effects; budgets; leases, graph, queue and cascade of follow-ups; the assignment
   scheduler with attempts and breaker; theorems of section 5.
2. Theorems to prove next: the event bound of licensed graphs (`WithinWorstCase` for the two
   shapes a batch is lowered to), from which `DriverNeverRefused` would follow.
3. Further modules: `RemoteCoordination` over `SyncStore` and `ExternalEffect`; messaging;
   adoption of legacy state and state migration as crash models; the checkpoint journal as
   another client of `StateJournal`.
