----------------------- MODULE AuthenticatedSnapshot -----------------------
(***************************************************************************)
(* One logical snapshot store (src/authenticated_snapshot.rs) on journals  *)
(* (StateJournal): creation with a signed intent and bounded retries,      *)
(* commit, rollover to a compacted journal, and the recovery an open runs. *)
(*                                                                         *)
(* An action is one durable step, taken by a process that holds the locks  *)
(* the code holds there, and a process may crash between any two of them   *)
(* (an error the callers propagate drops the handle too, so it is the same *)
(* step).  Recovery re-reads the disk, so the next recovery step is        *)
(* determined by what the disk holds.  Metadata files are replaced         *)
(* atomically; a candidate directory is renamed and then deleted.  Nobody  *)
(* forges or replays files: MACs stand for what they authenticate.         *)
(***************************************************************************)
EXTENDS StateJournal, FiniteSets

CONSTANTS
  Procs,                 \* processes that use the store
  Values,                \* values a caller stores
  Instances,             \* physical journal ids; a new one is not in use anywhere
  None,
  MaxToken,              \* bound: tokens a caller passes are in 1..MaxToken
  MaxAttempts,           \* initialization attempts (8)
  MaxRetained,           \* retained instances (128)
  MaxPhysicalInstances   \* SnapshotSpec::MAX_PHYSICAL_INSTANCES

ASSUME BoundsAssumption ==
  /\ MaxAttempts \in Nat \ {0}
  /\ MaxRetained \in Nat /\ MaxToken \in Nat
  /\ MaxPhysicalInstances \in Nat \ {0}
  /\ IsFiniteSet(Instances) /\ Cardinality(Instances) > MaxPhysicalInstances

VARIABLES
  journals,         \* directory of each instance, None when it does not exist
  locator,          \* the signed locator file, or None
  init_intent,      \* [attempt, physical_id], or None
  rollover_intent,  \* [phase, previous_..., candidate, expected, next_mac], or None
  lock_file,        \* whether the stable store lock file exists
  residue,          \* a directory under its deletion name: "none", "plain", or "linked"
  store_lock, root_lock,  \* their holders, or None
  phase,            \* where each process is
  session,          \* the holder's memory: [op, target, pending, current], or None
  acknowledged      \* auxiliary: newest generation returned to a caller

disk == <<journals, locator, init_intent, rollover_intent, lock_file, residue>>
snapshotVars == <<disk, store_lock, root_lock, phase, session, acknowledged>>

-----------------------------------------------------------------------------
(* What the files and the holder's memory hold.                             *)

Tokens == 1..MaxToken
Snapshot == [generation : Nat, token : Tokens, value : Values]

Journal == [records : Seq(Snapshot), head : Nat, record_temp : Nat]
Mac == Instances \X Seq(Snapshot)

RetainedAnchor ==
  [identity : Instances, start_generation : Nat, end_generation : Nat,
   terminal_token : Nat, terminal_mac : Mac]
SnapshotLocator ==
  [active_identity : Instances, active_start_generation : Nat, generation : Nat,
   token : Nat, prior_token : Nat, terminal_mac : Mac, retained : Seq(RetainedAnchor)]
InitIntent == [attempt : 1..MaxAttempts, physical_id : Instances]
RolloverIntent ==
  [phase : {"Prepared", "Ready"}, previous_identity : Instances,
   previous_start_generation : Nat, previous_generation : Nat, previous_token : Nat,
   previous_terminal_mac : Mac, candidate_run_id : Instances,
   expected_snapshot : Snapshot, next_terminal_mac : Mac \union {None}]
Session ==
  [op : {"none", "create", "commit", "rollover"}, target : Instances,
   pending : Snapshot \union {None}, current : Snapshot \union {None}]

\* Nothing is None but what is absent.
ASSUME NoneAssumption ==
  /\ None \notin Procs /\ None \notin Snapshot /\ None \notin Journal /\ None \notin Mac
  /\ None \notin SnapshotLocator /\ None \notin InitIntent
  /\ None \notin RolloverIntent /\ None \notin Session

Exists(i) == journals[i] # None
Records(i) == journals[i].records
Retained(l) == {l.retained[k].identity : k \in 1..Len(l.retained)}

-----------------------------------------------------------------------------
(* Validation of the signed files against each other and the directories.   *)

validate_locator(l) ==
  LET anchors == l.retained
      Start(k) == IF k = 1 THEN 1 ELSE anchors[k - 1].end_generation + 1
      PriorToken(k) == IF k = 1 THEN 0 ELSE anchors[k - 1].terminal_token
  IN /\ l.active_start_generation <= l.generation
     /\ l.generation - l.active_start_generation < MaxRecords
     /\ l.prior_token < l.token
     /\ Len(anchors) <= MaxRetained
     /\ \A k \in 1..Len(anchors) :
          /\ anchors[k].start_generation = Start(k)
          /\ anchors[k].end_generation >= anchors[k].start_generation
          /\ anchors[k].terminal_token > PriorToken(k)
          /\ anchors[k].identity # l.active_identity
     /\ l.active_start_generation = Start(Len(anchors) + 1)
     /\ l.prior_token = PriorToken(Len(anchors) + 1)

locator_matches_rollover_previous(l, intent) ==
  /\ l.active_identity = intent.previous_identity
  /\ l.active_start_generation = intent.previous_start_generation
  /\ l.generation = intent.previous_generation
  /\ l.token = intent.previous_token
  /\ l.terminal_mac = intent.previous_terminal_mac

locator_matches_rollover_next(l, intent) ==
  /\ intent.phase = "Ready"
  /\ l.active_identity = intent.candidate_run_id
  /\ l.active_start_generation = intent.previous_generation + 1
  /\ l.generation = intent.previous_generation + 1
  /\ l.terminal_mac = intent.next_terminal_mac

\* The ids the signed files own: anchors, and the candidates of pending intents.
Anchored ==
  (IF locator = None THEN {} ELSE Retained(locator) \union {locator.active_identity})
    \union (IF rollover_intent # None /\ rollover_intent.phase = "Ready"
              THEN {rollover_intent.candidate_run_id} ELSE {})
Pending ==
  (IF init_intent = None THEN {} ELSE {init_intent.physical_id})
    \union (IF rollover_intent # None /\ rollover_intent.phase = "Prepared"
              THEN {rollover_intent.candidate_run_id} ELSE {})

\* The directories are those the signed files name, and the signed files agree.
InventoryAnchored ==
  LET observed == {i \in Instances : Exists(i)}
  IN /\ observed = Anchored \union {i \in Pending : Exists(i)}
     /\ Cardinality(Anchored \union Pending) <= MaxPhysicalInstances
     /\ init_intent # None /\ locator # None
          => init_intent.physical_id = locator.active_identity
     /\ rollover_intent # None
          => /\ locator # None
             /\ \/ locator_matches_rollover_previous(locator, rollover_intent)
                \/ locator_matches_rollover_next(locator, rollover_intent)

\* A directory under its deletion name is not a canonical one: the whole root is refused.
verify_root_inventory == residue = "none" /\ InventoryAnchored

verify_retained_instances(l) ==
  \A k \in 1..Len(l.retained) :
    LET anchor == l.retained[k]
        rs == Records(anchor.identity)
    IN /\ Len(rs) = anchor.end_generation - anchor.start_generation + 1
       /\ \A n \in 1..Len(rs) :
            /\ rs[n].generation = anchor.start_generation + n - 1
            /\ rs[n].token > IF n > 1 THEN rs[n - 1].token
                             ELSE IF k > 1 THEN l.retained[k - 1].terminal_token ELSE 0
       /\ terminal_mac(anchor.identity, journals[anchor.identity]) = anchor.terminal_mac
       /\ rs[Len(rs)].token = anchor.terminal_token

MonotonicFrom(l, rs) ==
  /\ rs # <<>>
  /\ \A n \in 1..Len(rs) :
       /\ rs[n].generation = l.active_start_generation + n - 1
       /\ rs[n].token > IF n = 1 THEN l.prior_token ELSE rs[n - 1].token

LocatorExact(l) ==
  LET rs == Records(l.active_identity)
  IN /\ rs[Len(rs)].generation = l.generation
     /\ rs[Len(rs)].token = l.token
     /\ terminal_mac(l.active_identity, journals[l.active_identity]) = l.terminal_mac

\* The one-record crash window: the record the locator names is followed by one more.
LocatorOneBehind(l) ==
  LET rs == Records(l.active_identity)
      index == l.generation - l.active_start_generation + 1
  IN /\ rs[Len(rs)].generation = l.generation + 1
     /\ mac(l.active_identity, journals[l.active_identity], index) = l.terminal_mac

from_journal_ok(l) ==
  /\ MonotonicFrom(l, Records(l.active_identity))
  /\ LocatorExact(l) \/ LocatorOneBehind(l)

validate_rollover_candidate(intent) ==
  /\ Records(intent.candidate_run_id) = <<intent.expected_snapshot>>
  /\ intent.expected_snapshot.generation = intent.previous_generation + 1
  /\ intent.expected_snapshot.token > intent.previous_token

-----------------------------------------------------------------------------
(* Sessions: a process that holds the store lock.                           *)

Unused == Instances \ ({i \in Instances : Exists(i)} \union Anchored \union Pending)
random_identifier == CHOOSE i \in Unused : TRUE

Holds(p, where) == phase[p] = where /\ store_lock = p
Goto(p, where) == phase' = [phase EXCEPT ![p] = where]

Opens(p, current) ==
  /\ Goto(p, "open")
  /\ session' = [op |-> "none", target |-> locator.active_identity,
                 pending |-> None, current |-> current]
  /\ acknowledged' = current.generation

SnapshotInit ==
  /\ journals = [i \in Instances |-> None]
  /\ locator = None /\ init_intent = None /\ rollover_intent = None
  /\ lock_file = FALSE /\ residue = "none" /\ store_lock = None /\ root_lock = None
  /\ phase = [p \in Procs |-> "idle"]
  /\ session = None
  /\ acknowledged = 0

-----------------------------------------------------------------------------
(* create: bootstrap under the root lock, then the store lock, then the     *)
(* journal, the locator and the removal of the intent.                      *)

BootstrapAllowed(p) ==
  /\ phase[p] = "idle" /\ root_lock = None
  /\ verify_root_inventory
  /\ locator = None

\* No stable lock yet: publish an intent unless one is there already.
WriteFirstIntent(p) ==
  /\ BootstrapAllowed(p)
  /\ ~lock_file
  /\ init_intent' = IF init_intent # None THEN init_intent
                    ELSE [attempt |-> 1, physical_id |-> random_identifier]
  /\ root_lock' = p
  /\ Goto(p, "bootstrap")
  /\ UNCHANGED <<journals, locator, rollover_intent, lock_file, residue,
                 store_lock, session, acknowledged>>

ReserveStoreLock(p) ==
  /\ phase[p] = "bootstrap"
  /\ lock_file' = TRUE
  /\ root_lock' = None
  /\ Goto(p, "fresh")
  /\ UNCHANGED <<journals, locator, init_intent, rollover_intent, residue,
                 store_lock, session, acknowledged>>

\* The stable lock exists: somebody started the initialization before.
RejoinInitialization(p) ==
  /\ BootstrapAllowed(p)
  /\ lock_file
  /\ Goto(p, "retry")
  /\ UNCHANGED <<disk, store_lock, root_lock, session, acknowledged>>

\* The inventory is refused: the call returns before it changes anything.
BootstrapRefused(p) ==
  /\ phase[p] = "idle" /\ root_lock = None
  /\ ~verify_root_inventory
  /\ UNCHANGED snapshotVars

ContinuingFreshBootstrap(p) ==
  /\ phase[p] = "fresh"
  /\ ~Exists(init_intent.physical_id)
  /\ init_intent.attempt = 1

\* Mutant of InitializationLocked: only the process that made the lock file goes on.
InitializationLocked_OwnBootstrap(p) ==
  /\ phase[p] = "fresh"
  /\ store_lock = None /\ root_lock = None
  /\ locator = None
  /\ init_intent # None

InitializationLocked(p) ==
  /\ phase[p] \in {"fresh", "retry"}
  /\ store_lock = None /\ root_lock = None
  /\ verify_root_inventory
  /\ locator = None
  /\ init_intent # None

\* The intent is written again unchanged.
ContinueInitialization(p) ==
  /\ InitializationLocked(p)
  /\ ContinuingFreshBootstrap(p)
  /\ store_lock' = p
  /\ Goto(p, "intent")
  /\ UNCHANGED <<disk, root_lock, session, acknowledged>>

\* remove_direct_child_tree: the directory is first renamed to its deletion name.
Quarantined(i) ==
  IF ~Exists(i) THEN "none" ELSE IF LinkedTail(journals[i]) THEN "linked" ELSE "plain"

RemoveAbandonedCandidate(p) ==
  /\ InitializationLocked(p)
  /\ ~ContinuingFreshBootstrap(p)
  /\ store_lock' = p /\ root_lock' = p
  /\ residue' = Quarantined(init_intent.physical_id)
  /\ journals' = [journals EXCEPT ![init_intent.physical_id] = None]
  /\ Goto(p, "abandoned")
  /\ UNCHANGED <<locator, init_intent, rollover_intent, lock_file, session, acknowledged>>

\* ... then audited, which refuses a file with a second link, and deleted.
DeleteQuarantined(p) ==
  /\ residue = "plain"
  /\ residue' = "none"
  /\ \/ Holds(p, "abandoned") /\ UNCHANGED phase
     \/ Holds(p, "discarding") /\ Goto(p, "recover")
  /\ UNCHANGED <<journals, locator, init_intent, rollover_intent, lock_file,
                 store_lock, root_lock, session, acknowledged>>

WriteRetryIntent(p) ==
  /\ Holds(p, "abandoned") /\ residue = "none"
  /\ init_intent.attempt < MaxAttempts
  /\ init_intent' = [attempt |-> init_intent.attempt + 1, physical_id |-> random_identifier]
  /\ root_lock' = None
  /\ Goto(p, "intent")
  /\ UNCHANGED <<journals, locator, rollover_intent, lock_file, residue,
                 store_lock, session, acknowledged>>

\* The early returns: the candidate is not deleted, no attempt is left, the store lock is
\* taken, the inventory is refused, or the store exists.
GiveUpInitialization(p) ==
  /\ \/ /\ Holds(p, "abandoned")
        /\ residue = "linked" \/ (residue = "none" /\ init_intent.attempt >= MaxAttempts)
     \/ /\ phase[p] \in {"fresh", "retry"}
        /\ \/ store_lock # None \/ locator # None
           \/ root_lock = None /\ ~verify_root_inventory
  /\ store_lock' = IF store_lock = p THEN None ELSE store_lock
  /\ root_lock' = IF root_lock = p THEN None ELSE root_lock
  /\ Goto(p, "idle")
  /\ UNCHANGED <<disk, session, acknowledged>>

\* AuthenticatedStateJournal::create for the id the intent names.
CreateInitialJournal(p, token, value) ==
  /\ Holds(p, "intent")
  /\ root_lock = None
  /\ journals' = [journals EXCEPT ![init_intent.physical_id] = create_journal]
  /\ session' = [op |-> "create", target |-> init_intent.physical_id, current |-> None,
                 pending |-> [generation |-> 1, token |-> token, value |-> value]]
  /\ Goto(p, "append")
  /\ UNCHANGED <<locator, init_intent, rollover_intent, lock_file, residue,
                 store_lock, root_lock, acknowledged>>

-----------------------------------------------------------------------------
(* The journal append every operation goes through; steps in disk order.    *)

Target == journals[session.target]
Sequence == IF session.op = "commit"
              THEN session.pending.generation - locator.active_start_generation + 1 ELSE 1

Appending(p) == Holds(p, "append")
SetJournal(i, j) == journals' = [journals EXCEPT ![i] = j]
OnlyJournals == UNCHANGED <<locator, init_intent, rollover_intent, lock_file, residue,
                            store_lock, root_lock, phase, session, acknowledged>>

StageRecord(p) ==
  /\ Appending(p)
  /\ Len(Target.records) < Sequence /\ Target.record_temp = 0
  /\ append_ok(Target)
  /\ SetJournal(session.target, stage_record(Target))
  /\ OnlyJournals

PublishRecord(p) ==
  /\ Appending(p)
  /\ Len(Target.records) < Sequence /\ Target.record_temp # 0
  /\ SetJournal(session.target, publish_no_replace(Target, session.pending))
  /\ OnlyJournals

RemoveRecordTemp(p) ==
  /\ Appending(p)
  /\ Len(Target.records) = Sequence /\ Target.record_temp # 0
  /\ SetJournal(session.target, remove_record_temp(Target))
  /\ OnlyJournals

PublishHead(p) ==
  /\ Appending(p)
  /\ Len(Target.records) = Sequence /\ Target.record_temp = 0 /\ Target.head # Sequence
  /\ SetJournal(session.target, publish_head(Target))
  /\ OnlyJournals

Appended(p, op) ==
  /\ Appending(p) /\ session.op = op
  /\ Len(Target.records) = Sequence /\ HeadExact(Target)
  /\ root_lock = None

WriteInitialLocator(p) ==
  /\ Appended(p, "create")
  /\ locator' = [active_identity |-> session.target, active_start_generation |-> 1,
                 generation |-> 1, token |-> session.pending.token, prior_token |-> 0,
                 terminal_mac |-> terminal_mac(session.target, Target), retained |-> <<>>]
  /\ root_lock' = p
  /\ Goto(p, "created")
  /\ UNCHANGED <<journals, init_intent, rollover_intent, lock_file, residue,
                 store_lock, session, acknowledged>>

RemoveInitIntent(p) ==
  /\ Holds(p, "created")
  /\ init_intent' = None
  /\ root_lock' = None
  /\ Opens(p, session.pending)
  /\ UNCHANGED <<journals, locator, rollover_intent, lock_file, residue, store_lock>>

-----------------------------------------------------------------------------
(* commit: append, then advance the locator.                                *)

BeginCommit(p, token, value) ==
  /\ Holds(p, "open")
  /\ token > session.current.token
  /\ append_ok(Target)
  /\ session' = [session EXCEPT !.op = "commit",
                   !.pending = [generation |-> session.current.generation + 1,
                                token |-> token, value |-> value]]
  /\ Goto(p, "append")
  /\ UNCHANGED <<disk, store_lock, root_lock, acknowledged>>

\* The locator names the journal's tail.
Advanced(l) ==
  LET j == journals[l.active_identity]
      tail == j.records[Len(j.records)]
  IN [l EXCEPT !.generation = tail.generation, !.token = tail.token,
               !.terminal_mac = terminal_mac(l.active_identity, j)]

AdvanceLocator(p) ==
  /\ Appended(p, "commit")
  /\ locator' = Advanced(locator)
  /\ Opens(p, session.pending)
  /\ UNCHANGED <<journals, init_intent, rollover_intent, lock_file, residue, store_lock, root_lock>>

-----------------------------------------------------------------------------
(* rollover: prepared intent, candidate journal, ready intent, locator       *)
(* switch, removal of the intent.                                            *)

PrepareRollover(p, token, value) ==
  /\ Holds(p, "open") /\ root_lock = None
  /\ token > session.current.token
  /\ Len(locator.retained) < MaxRetained
  /\ verify_root_inventory
  /\ Cardinality(Anchored \union Pending) < MaxPhysicalInstances
  /\ LET candidate == random_identifier
         next == [generation |-> session.current.generation + 1,
                  token |-> token, value |-> value]
     IN /\ rollover_intent' =
             [phase |-> "Prepared", previous_identity |-> locator.active_identity,
              previous_start_generation |-> locator.active_start_generation,
              previous_generation |-> session.current.generation,
              previous_token |-> session.current.token,
              previous_terminal_mac |-> locator.terminal_mac,
              candidate_run_id |-> candidate, expected_snapshot |-> next,
              next_terminal_mac |-> None]
        /\ session' = [session EXCEPT !.op = "rollover", !.target = candidate, !.pending = next]
  /\ Goto(p, "prepared")
  /\ UNCHANGED <<journals, locator, init_intent, lock_file, residue,
                 store_lock, root_lock, acknowledged>>

CreateCandidate(p) ==
  /\ Holds(p, "prepared")
  /\ root_lock = None
  /\ SetJournal(session.target, create_journal)
  /\ Goto(p, "append")
  /\ UNCHANGED <<locator, init_intent, rollover_intent, lock_file, residue,
                 store_lock, root_lock, session, acknowledged>>

\* The candidate's only record is durable: bind its tail.
Ready(intent) ==
  [intent EXCEPT !.phase = "Ready",
     !.next_terminal_mac = terminal_mac(intent.candidate_run_id, journals[intent.candidate_run_id])]

\* The locator after the switch, with an anchor for the journal it leaves behind.
Switched(l, intent) ==
  LET candidate == intent.candidate_run_id
      first == Records(candidate)[1]
  IN [active_identity |-> candidate, active_start_generation |-> first.generation,
      generation |-> first.generation, token |-> first.token, prior_token |-> l.token,
      terminal_mac |-> terminal_mac(candidate, journals[candidate]),
      retained |-> Append(l.retained,
        [identity |-> l.active_identity, start_generation |-> l.active_start_generation,
         end_generation |-> l.generation, terminal_token |-> l.token,
         terminal_mac |-> l.terminal_mac])]

WriteReadyIntent(p) ==
  /\ Appended(p, "rollover")
  /\ rollover_intent' = Ready(rollover_intent)
  /\ Goto(p, "ready")
  /\ UNCHANGED <<journals, locator, init_intent, lock_file, residue,
                 store_lock, root_lock, session, acknowledged>>

SwitchLocator(p) ==
  /\ Holds(p, "ready")
  /\ root_lock = None
  /\ locator' = Switched(locator, rollover_intent)
  /\ root_lock' = p
  /\ Goto(p, "switched")
  /\ UNCHANGED <<journals, init_intent, rollover_intent, lock_file, residue,
                 store_lock, session, acknowledged>>

RemoveRolloverIntent(p) ==
  /\ Holds(p, "switched")
  /\ rollover_intent' = None
  /\ root_lock' = None
  /\ Opens(p, session.pending)
  /\ UNCHANGED <<journals, locator, init_intent, lock_file, residue, store_lock>>

-----------------------------------------------------------------------------
(* open_instance: recover_rollover and recover_init_after_locator under both *)
(* locks, then the journals and the locator under the store lock.            *)

BeginOpen(p) ==
  /\ phase[p] = "idle"
  /\ lock_file /\ store_lock = None /\ root_lock = None
  /\ locator # None
  /\ store_lock' = p /\ root_lock' = p
  /\ Goto(p, "recover")
  /\ UNCHANGED <<disk, session, acknowledged>>

Candidate == rollover_intent.candidate_run_id
LocatorIsPrevious == locator_matches_rollover_previous(locator, rollover_intent)
LocatorIsNext == locator_matches_rollover_next(locator, rollover_intent)

\* Mutant of FirstRecordExists: a record counts once the head covers it.
FirstRecordExists_HeadRequired ==
  Exists(Candidate) /\ Records(Candidate) # <<>> /\ journals[Candidate].head # 0

FirstRecordExists == Exists(Candidate) /\ Records(Candidate) # <<>>

RecoveringRollover(p) == Holds(p, "recover") /\ rollover_intent # None

DiscardCandidate(p) ==
  /\ RecoveringRollover(p)
  /\ Exists(Candidate) /\ ~FirstRecordExists
  /\ LocatorIsPrevious /\ rollover_intent.phase = "Prepared"
  /\ SetJournal(Candidate, None)
  /\ residue' = Quarantined(Candidate)
  /\ Goto(p, "discarding")
  /\ UNCHANGED <<locator, init_intent, rollover_intent, lock_file,
                 store_lock, root_lock, session, acknowledged>>

DiscardIntent(p) ==
  /\ RecoveringRollover(p)
  /\ ~Exists(Candidate)
  /\ LocatorIsPrevious /\ rollover_intent.phase = "Prepared"
  /\ rollover_intent' = None
  /\ UNCHANGED <<journals, locator, init_intent, lock_file, residue,
                 store_lock, root_lock, phase, session, acknowledged>>

CandidateLoaded(p) ==
  /\ RecoveringRollover(p)
  /\ FirstRecordExists /\ HeadExact(journals[Candidate])
  /\ validate_rollover_candidate(rollover_intent)

PromoteIntent(p) ==
  /\ CandidateLoaded(p)
  /\ LocatorIsPrevious /\ rollover_intent.phase = "Prepared"
  /\ rollover_intent' = Ready(rollover_intent)
  /\ UNCHANGED <<journals, locator, init_intent, lock_file, residue,
                 store_lock, root_lock, phase, session, acknowledged>>

RollForward(p) ==
  /\ CandidateLoaded(p)
  /\ LocatorIsPrevious /\ rollover_intent = Ready(rollover_intent)
  /\ Len(locator.retained) < MaxRetained
  /\ locator' = Switched(locator, rollover_intent)
  /\ UNCHANGED <<journals, init_intent, rollover_intent, lock_file, residue,
                 store_lock, root_lock, phase, session, acknowledged>>

FinishRollForward(p) ==
  /\ CandidateLoaded(p)
  /\ LocatorIsNext /\ rollover_intent = Ready(rollover_intent)
  /\ rollover_intent' = None
  /\ UNCHANGED <<journals, locator, init_intent, lock_file, residue,
                 store_lock, root_lock, phase, session, acknowledged>>

RecoverInitAfterLocator(p) ==
  /\ Holds(p, "recover") /\ rollover_intent = None
  /\ init_intent # None /\ init_intent.physical_id = locator.active_identity
  /\ init_intent' = None
  /\ UNCHANGED <<journals, locator, rollover_intent, lock_file, residue,
                 store_lock, root_lock, phase, session, acknowledged>>

FinishRecovery(p) ==
  /\ Holds(p, "recover")
  /\ rollover_intent = None /\ init_intent = None
  /\ verify_root_inventory
  /\ root_lock' = None
  /\ Goto(p, "load")
  /\ UNCHANGED <<disk, store_lock, session, acknowledged>>

\* The journals the current stage of the open loads and recovers.
Loading(p) ==
  IF RecoveringRollover(p) THEN {i \in {Candidate} : FirstRecordExists}
  ELSE IF Holds(p, "load") THEN Retained(locator) \union {locator.active_identity} ELSE {}

RecoverTemporaryFiles(p) ==
  \E i \in Loading(p) :
    /\ journals[i].record_temp # 0
    /\ load_and_recover_ok(journals[i])
    /\ SetJournal(i, remove_record_temp(journals[i]))
    /\ OnlyJournals

RecoverHead(p) ==
  \E i \in Loading(p) :
    /\ journals[i].record_temp = 0 /\ ~HeadExact(journals[i])
    /\ load_and_recover_ok(journals[i])
    /\ SetJournal(i, publish_head(journals[i]))
    /\ OnlyJournals

Loaded(p) ==
  /\ Holds(p, "load") /\ root_lock = None
  /\ \A i \in Loading(p) : Exists(i) /\ HeadExact(journals[i])
  /\ verify_retained_instances(locator)
  /\ from_journal_ok(locator)

CatchUpLocator(p) ==
  /\ Loaded(p)
  /\ ~LocatorExact(locator)
  /\ locator' = Advanced(locator)
  /\ UNCHANGED <<journals, init_intent, rollover_intent, lock_file, residue,
                 store_lock, root_lock, phase, session, acknowledged>>

FinishOpen(p) ==
  /\ Loaded(p)
  /\ LocatorExact(locator)
  /\ LET rs == Records(locator.active_identity) IN Opens(p, rs[Len(rs)])
  /\ UNCHANGED <<disk, store_lock, root_lock>>

-----------------------------------------------------------------------------
\* Dropping the handle, or losing the process at any other point, frees its locks.
Leave(p) ==
  /\ phase' = [phase EXCEPT ![p] = "idle"]
  /\ store_lock' = IF store_lock = p THEN None ELSE store_lock
  /\ root_lock' = IF root_lock = p THEN None ELSE root_lock
  /\ session' = IF store_lock = p THEN None ELSE session
  /\ UNCHANGED <<disk, acknowledged>>

\* The error returns of an open: a record it reads has a second link, or the root holds a
\* directory that nothing names.
RefuseOpen(p) ==
  /\ \/ \E i \in Loading(p) : LinkedTail(journals[i])
     \/ /\ Holds(p, "recover") /\ rollover_intent = None /\ init_intent = None
        /\ residue # "none"
  /\ Leave(p)

Close(p) == phase[p] = "open" /\ Leave(p)
Crash(p) == phase[p] \notin {"idle", "open"} /\ Leave(p)

CreateSteps(p) ==
  \/ WriteFirstIntent(p) \/ ReserveStoreLock(p) \/ RejoinInitialization(p)
  \/ BootstrapRefused(p) \/ ContinueInitialization(p) \/ RemoveAbandonedCandidate(p)
  \/ DeleteQuarantined(p) \/ WriteRetryIntent(p) \/ GiveUpInitialization(p)
  \/ \E token \in Tokens, value \in Values : CreateInitialJournal(p, token, value)
  \/ WriteInitialLocator(p) \/ RemoveInitIntent(p)

AppendSteps(p) ==
  StageRecord(p) \/ PublishRecord(p) \/ RemoveRecordTemp(p) \/ PublishHead(p)

WriteSteps(p) ==
  \/ \E token \in Tokens, value \in Values :
       BeginCommit(p, token, value) \/ PrepareRollover(p, token, value)
  \/ AdvanceLocator(p) \/ CreateCandidate(p) \/ WriteReadyIntent(p)
  \/ SwitchLocator(p) \/ RemoveRolloverIntent(p)

OpenSteps(p) ==
  \/ BeginOpen(p) \/ DiscardCandidate(p) \/ DiscardIntent(p) \/ PromoteIntent(p)
  \/ RollForward(p) \/ FinishRollForward(p) \/ RecoverInitAfterLocator(p)
  \/ FinishRecovery(p) \/ RecoverTemporaryFiles(p) \/ RecoverHead(p)
  \/ CatchUpLocator(p) \/ FinishOpen(p) \/ RefuseOpen(p)

Step(p) == CreateSteps(p) \/ AppendSteps(p) \/ WriteSteps(p) \/ OpenSteps(p) \/ Close(p)

SnapshotNext == \E p \in Procs : Step(p) \/ Crash(p)

SnapshotSpec == SnapshotInit /\ [][SnapshotNext]_snapshotVars

\* A running process executes its next statement; acquiring a free lock is not refused.
FairSnapshotSpec == SnapshotSpec /\ \A p \in Procs : WF_snapshotVars(Step(p))

-----------------------------------------------------------------------------
(* Properties.                                                              *)

\* The values each variable takes; only the holder of the store lock has a session.
SnapshotTypeOK ==
  /\ \A i \in Instances : Exists(i) =>
       /\ \A n \in DOMAIN Records(i) : Records(i)[n] \in Snapshot
       /\ Len(Records(i)) <= MaxRecords
       /\ journals[i].head <= Len(Records(i))
       /\ recover_temporary_files_ok(journals[i])
  /\ locator # None => validate_locator(locator)
  /\ init_intent # None => init_intent.attempt \in 1..MaxAttempts
  /\ lock_file \in BOOLEAN /\ residue \in {"none", "plain", "linked"}
  /\ store_lock \in Procs \union {None} /\ root_lock \in Procs \union {None}
  /\ session # None => store_lock # None

\* A journal that load_and_recover accepts, or one whose last record was published but
\* still has its temporary as a second link.
LoadsUnlessLinked(j) == load_and_recover_ok(j) \/ LinkedTail(j)

\* What the code would say of the disk at the point where each process stands.
OpenAccepts(p) ==
  /\ RecoveringRollover(p) =>
       /\ LocatorIsPrevious \/ LocatorIsNext
       /\ IF FirstRecordExists
            THEN /\ LoadsUnlessLinked(journals[Candidate])
                 /\ validate_rollover_candidate(rollover_intent)
                 /\ rollover_intent.phase = "Ready" => rollover_intent = Ready(rollover_intent)
                 /\ LocatorIsPrevious => Len(locator.retained) < MaxRetained
            ELSE LocatorIsPrevious /\ rollover_intent.phase = "Prepared"
  /\ Holds(p, "recover") /\ rollover_intent = None =>
       /\ init_intent # None => init_intent.physical_id = locator.active_identity
       /\ InventoryAnchored
  /\ Holds(p, "load") =>
       /\ \A i \in Loading(p) : Exists(i) /\ LoadsUnlessLinked(journals[i])
       /\ verify_retained_instances(locator)
       /\ from_journal_ok(locator)

\* Whatever crashes came before, an open, a retried initialization or an inspection is
\* refused in two windows only: between the hard link of a record and the removal of its
\* temporary, and between the rename of an abandoned candidate and its deletion.  In every
\* other state, also in the middle of another process's initialization or rollover, none of
\* the fail-closed errors ("rollback exceeds the one-record crash window", "stable lock has
\* no signed initialization intent", ...) is met.
RefusedOnlyInWindows ==
  /\ SnapshotTypeOK
  /\ \A p \in Procs : OpenAccepts(p)
  /\ lock_file /\ locator = None => init_intent # None
  /\ InventoryAnchored

\* The snapshot the disk stands for: what an open would return after its recovery.
StoredSnapshot ==
  IF locator = None THEN None
  ELSE IF rollover_intent # None /\ LocatorIsPrevious /\ Exists(Candidate)
            /\ Records(Candidate) # <<>>
    THEN rollover_intent.expected_snapshot
    ELSE LET rs == Records(locator.active_identity) IN rs[Len(rs)]

\* An open handle never works on a stale snapshot: its current is what the disk holds.
OpenSeesLatest ==
  \A p \in Procs : phase[p] = "open" => session.current = StoredSnapshot

\* open, initialize, inspect: recovery accepts what a crash left outside the two windows, and
\* an open that succeeds returns the newest snapshot of it.
RecoveryIsSound == RefusedOnlyInWindows /\ OpenSeesLatest

Register == INSTANCE SnapshotRegister WITH stored <- StoredSnapshot, Absent <- None

\* The store implements the register: writes are atomic under crashes, generations
\* have no gaps, tokens grow, and an acknowledged generation is never lost.
ImplementsRegister == Register!RegisterSpec

CrashesStop == <>[][\A p \in Procs : ~Crash(p)]_snapshotVars

\* Nobody is in an append or a deletion, and the disk is in one of the two windows.
Wedged ==
  /\ \A p \in Procs : phase[p] \notin {"append", "abandoned", "discarding"}
  /\ residue # "none" \/ \E i \in Instances : Exists(i) /\ LinkedTail(journals[i])

\* Once crashes stop, a store that exists is opened again, and an initialization that was
\* begun completes unless its attempts are used up, unless a crash hit one of the two windows
\* that are not recovered from.
RecoveryCompletes ==
  CrashesStop =>
    /\ locator # None ~> (\E p \in Procs : phase[p] = "open") \/ Wedged
    /\ init_intent # None ~>
         \/ locator # None \/ Wedged
         \/ init_intent # None /\ init_intent.attempt >= MaxAttempts

=============================================================================
