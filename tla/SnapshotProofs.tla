--------------------------- MODULE SnapshotProofs ---------------------------
(***************************************************************************)
(* Proofs about AuthenticatedSnapshot, for any processes, values, journal  *)
(* instances, tokens and limits.                                           *)
(*                                                                         *)
(* A crash may leave any prefix of an operation's durable steps.  Disk     *)
(* says which combinations of files that can be, and Place what the holder *)
(* of the store lock, if there is one, may rely on at each of its steps;   *)
(* together with the lock ownership they are inductive.  RecoveryIsSound   *)
(* follows from Disk, and the refinement of SnapshotRegister from Disk,    *)
(* Place and the few steps that change the newest record.                  *)
(***************************************************************************)
EXTENDS AuthenticatedSnapshot, FiniteSetTheorems, SequenceTheorems, TLAPS

-----------------------------------------------------------------------------
(* The locks.                                                               *)

StorePhases == {"abandoned", "intent", "append", "created", "open", "prepared",
                "ready", "switched", "recover", "discarding", "load"}
RootPhases == {"bootstrap", "abandoned", "created", "switched", "recover", "discarding"}
SessionPhases == {"append", "created", "open", "prepared", "ready", "switched"}
Phases == {"idle", "bootstrap", "fresh", "retry"} \union StorePhases

Types ==
  /\ journals \in [Instances -> Journal \union {None}]
  /\ locator \in SnapshotLocator \union {None}
  /\ init_intent \in InitIntent \union {None}
  /\ rollover_intent \in RolloverIntent \union {None}
  /\ lock_file \in BOOLEAN
  /\ store_lock \in Procs \union {None} /\ root_lock \in Procs \union {None}
  /\ phase \in [Procs -> Phases]
  /\ session \in Session \union {None}

\* Who holds which lock is where the locks are held, and the holder's memory is there
\* exactly while it needs it.
Locks ==
  /\ \A p \in Procs : phase[p] \in StorePhases <=> store_lock = p
  /\ \A p \in Procs : phase[p] \in RootPhases <=> root_lock = p
  /\ session # None => \E p \in Procs : phase[p] \in SessionPhases
  /\ \A p \in Procs : phase[p] \in SessionPhases => session # None
  /\ \A p \in Procs : phase[p] \notin {"idle", "bootstrap"} => lock_file
  /\ \A p \in Procs : phase[p] = "bootstrap" => ~lock_file /\ init_intent # None

-----------------------------------------------------------------------------
(* The disk.                                                                *)

Sound(j) ==
  /\ Len(j.records) <= MaxRecords
  /\ j.head <= Len(j.records)
  /\ recover_temporary_files_ok(j)

\* The number of records of the active journal that the locator covers.
Covered(l) == l.generation - l.active_start_generation + 1

\* The active journal holds what the locator covers and at most one record more.
Active(l, j) ==
  /\ j # None
  /\ MonotonicFrom(l, j.records)
  /\ Len(j.records) \in {Covered(l), Covered(l) + 1}
  /\ l.token = j.records[Covered(l)].token
  /\ l.terminal_mac = mac(l.active_identity, j, Covered(l))
  /\ j.head \in {Len(j.records), Len(j.records) - 1} /\ j.head # 0

Settled(l, j) == Len(j.records) = Covered(l) /\ HeadExact(j)

Rollover(r) ==
  LET candidate == journals[r.candidate_run_id] IN
  /\ r.previous_identity # r.candidate_run_id
  /\ r.expected_snapshot.generation = r.previous_generation + 1
  /\ r.expected_snapshot.token > r.previous_token
  /\ Settled(locator, journals[locator.active_identity])
  /\ \/ locator_matches_rollover_previous(locator, r)
     \/ locator_matches_rollover_next(locator, r)
  /\ r.phase = "Prepared" =>
       /\ locator_matches_rollover_previous(locator, r)
       /\ candidate # None => candidate.records \in {<<>>, <<r.expected_snapshot>>}
  /\ r.phase = "Ready" =>
       /\ candidate # None /\ candidate.records = <<r.expected_snapshot>> /\ HeadExact(candidate)
       /\ r.next_terminal_mac = terminal_mac(r.candidate_run_id, candidate)
  /\ locator_matches_rollover_previous(locator, r) =>
       /\ r.candidate_run_id \notin Retained(locator)
       /\ Len(locator.retained) < MaxRetained

\* Every directory belongs to a signed file, and what a locator or a ready intent names exists.
Owned ==
  /\ \A i \in Anchored : Exists(i)
  /\ \A i \in Instances : Exists(i) => i \in Anchored \union Pending
Fits == Cardinality(Anchored \union Pending) <= MaxPhysicalInstances
JournalsSound == \A i \in Instances : Exists(i) => Sound(journals[i])

\* Which files exist together.
Together ==
  /\ locator = None => rollover_intent = None
  /\ lock_file /\ locator = None => init_intent # None
  /\ locator # None => lock_file
  /\ rollover_intent # None => init_intent = None
  /\ init_intent # None /\ locator # None => init_intent.physical_id = locator.active_identity

Located(l) ==
  /\ validate_locator(l)
  /\ \A i \in Retained(l) : HeadExact(journals[i])
  /\ verify_retained_instances(l)
  /\ Active(l, journals[l.active_identity])

Disk ==
  /\ Owned /\ Fits /\ JournalsSound /\ Together
  /\ locator # None => Located(locator)
  /\ rollover_intent # None => Rollover(rollover_intent)

-----------------------------------------------------------------------------
(* The place of the process that holds the store lock.                      *)

\* A journal of n records into which the next one is being appended.
Filling(j, n, next) ==
  /\ j # None /\ n + 1 <= MaxRecords
  /\ \/ Len(j.records) = n /\ j.head = n /\ j.record_temp \in {0, n + 1}
     \/ /\ Len(j.records) = n + 1 /\ j.records[n + 1] = next
        /\ j.head = n /\ j.record_temp \in {0, n + 1}
     \/ /\ Len(j.records) = n + 1 /\ j.records[n + 1] = next
        /\ j.head = n + 1 /\ j.record_temp = 0

Newest(j) == j.records[Len(j.records)]

AppendPlace ==
  /\ session.pending # None
  /\ session.op \in {"create", "commit", "rollover"}
  /\ session.op = "create" =>
       /\ locator = None /\ init_intent # None /\ session.target = init_intent.physical_id
       /\ session.pending.generation = 1
       /\ Filling(Target, 0, session.pending)
  /\ session.op = "commit" =>
       /\ locator # None /\ init_intent = None /\ rollover_intent = None
       /\ session.target = locator.active_identity
       /\ session.pending.generation = locator.generation + 1
       /\ session.pending.token > locator.token
       /\ Filling(Target, Covered(locator), session.pending)
  /\ session.op = "rollover" =>
       /\ rollover_intent # None /\ rollover_intent.phase = "Prepared"
       /\ session.target = Candidate /\ session.pending = rollover_intent.expected_snapshot
       /\ Filling(Target, 0, session.pending)

OpenPlace ==
  /\ locator # None /\ init_intent = None /\ rollover_intent = None
  /\ session.target = locator.active_identity
  /\ session.current # None
  /\ Settled(locator, Target) /\ session.current = Newest(Target)

CreatedPlace ==
  /\ locator # None /\ init_intent # None
  /\ session.target = locator.active_identity
  /\ session.pending # None
  /\ Settled(locator, Target) /\ session.pending = Newest(Target)

RolloverPlace(where) ==
  /\ rollover_intent # None /\ session.op = "rollover"
  /\ session.target = Candidate /\ session.pending = rollover_intent.expected_snapshot
  /\ where = "prepared" => rollover_intent.phase = "Prepared" /\ ~Exists(Candidate)
  /\ where = "ready" => rollover_intent.phase = "Ready" /\ LocatorIsPrevious
  /\ where = "switched" => LocatorIsNext

Place(where) ==
  /\ where \in {"abandoned", "intent"} =>
       locator = None /\ init_intent # None /\ \A i \in Instances : ~Exists(i)
  /\ where = "append" => AppendPlace
  /\ where = "created" => CreatedPlace
  /\ where = "open" => OpenPlace
  /\ where \in {"prepared", "ready", "switched"} => RolloverPlace(where)
  /\ where \in {"recover", "discarding"} => locator # None
  /\ where = "load" => locator # None /\ init_intent = None /\ rollover_intent = None

SnapshotInv == Types /\ Locks /\ Disk /\ \A p \in Procs : Place(phase[p])

-----------------------------------------------------------------------------
(* Prefixes.                                                                *)

\* Appending leaves every prefix as it was.
LEMMA PrefixOfAppend ==
  ASSUME NEW S, NEW s \in Seq(S), NEW x \in S, NEW n \in 0..Len(s)
  PROVE  SubSeq(Append(s, x), 1, n) = SubSeq(s, 1, n)
<1>1. Append(s, x) \in Seq(S) /\ Len(Append(s, x)) = Len(s) + 1
  OBVIOUS
<1>2. SubSeq(Append(s, x), 1, n) \in Seq(S) /\ Len(SubSeq(Append(s, x), 1, n)) = n
  BY <1>1
<1>3. SubSeq(s, 1, n) \in Seq(S) /\ Len(SubSeq(s, 1, n)) = n
  OBVIOUS
<1>4. \A k \in 1..n : SubSeq(Append(s, x), 1, n)[k] = SubSeq(s, 1, n)[k]
  BY <1>1
<1> QED
  BY <1>2, <1>3, <1>4, SeqEqual

-----------------------------------------------------------------------------
(* What a step leaves alone.                                                *)

\* Only the files matter to Disk, and not the directory that is being deleted.
LEMMA DiskStays ==
  ASSUME Disk, UNCHANGED <<journals, locator, init_intent, rollover_intent, lock_file>>
  PROVE  Disk'
BY DEF Disk, Owned, Fits, JournalsSound, Together, Located, Rollover, Exists, Records,
       Anchored, Pending, verify_retained_instances

\* Only the files and the memory matter to Place.
LEMMA PlaceStays ==
  ASSUME NEW CONSTANT w, Place(w), UNCHANGED <<disk, session>>
  PROVE  Place(w)'
BY DEF Place, disk, AppendPlace, OpenPlace, CreatedPlace, RolloverPlace, Exists, Target,
       Candidate, LocatorIsPrevious, LocatorIsNext

\* Without the store lock a process has made sure of nothing.
LEMMA NoPlace ==
  ASSUME NEW CONSTANT w, w \notin StorePhases
  PROVE  Place(w)'
BY DEF Place, StorePhases

\* It is enough to look at the holder of the store lock.
LEMMA PlaceOfHolder ==
  ASSUME Types', Locks', NEW p \in Procs, store_lock' = p, Place(phase[p])'
  PROVE  \A q \in Procs : Place(phase[q])'
<1> SUFFICES ASSUME NEW q \in Procs PROVE Place(phase[q])'
  OBVIOUS
<1>1. CASE q = p
  BY <1>1 DEF Place
<1>2. CASE q # p
  <2>1. phase'[q] \notin StorePhases
    BY <1>2 DEF Locks
  <2> QED
    BY <2>1 DEF Place, StorePhases
<1> QED
  BY <1>1, <1>2

\* While nobody holds the store lock no process is at a place inside it.
LEMMA NoHolder ==
  ASSUME Types', Locks', store_lock' = None
  PROVE  \A q \in Procs : Place(phase[q])'
<1> SUFFICES ASSUME NEW q \in Procs PROVE Place(phase[q])'
  OBVIOUS
<1>1. phase'[q] \notin StorePhases
  BY NoneAssumption DEF Locks
<1> QED
  BY <1>1 DEF Place, StorePhases

-----------------------------------------------------------------------------
(* Steps that leave the files alone.                                        *)

\* A step of a process that does not hold the store lock, while the holder sits still.
LEMMA OthersStay ==
  ASSUME SnapshotInv, NEW p \in Procs, UNCHANGED <<disk, session, store_lock>>,
         Types', Locks', store_lock # p,
         \A q \in Procs \ {p} : phase'[q] = phase[q]
  PROVE  SnapshotInv'
<1>1. Disk'
  BY DiskStays DEF SnapshotInv, disk
<1>2. ASSUME NEW q \in Procs PROVE Place(phase[q])'
  <2>1. CASE q = p
    <3>1. phase'[q] \notin StorePhases
      BY <2>1 DEF Locks
    <3> QED
      BY <3>1 DEF Place, StorePhases
  <2>2. CASE q # p
    <3>1. Place(phase[q]) /\ phase'[q] = phase[q]
      BY <2>2 DEF SnapshotInv
    <3> DEFINE w == phase[q]
    <3>2. Place(w)
      BY <3>1
    <3> QED
      BY <3>1, <3>2 DEF Place, disk, AppendPlace, OpenPlace, CreatedPlace, RolloverPlace,
                        Exists, Target, Candidate, LocatorIsPrevious, LocatorIsNext
  <2> QED
    BY <2>1, <2>2
<1> QED
  BY <1>1, <1>2 DEF SnapshotInv

\* RejoinInitialization: the process only learns that the lock file is there.
LEMMA RejoinInitializationKeeps ==
  ASSUME SnapshotInv, NEW p \in Procs, RejoinInitialization(p)
  PROVE  SnapshotInv'
<1> USE DEF RejoinInitialization, BootstrapAllowed, Goto, disk, SnapshotInv
<1>1. Types'
  BY DEF Types, Phases, StorePhases
<1>2. Locks'
  BY <1>1 DEF Types, Locks, Phases, StorePhases, RootPhases, SessionPhases
<1>3. store_lock # p
  BY DEF Types, Locks, StorePhases
<1> QED
  BY <1>1, <1>2, <1>3, OthersStay DEF Types

\* ContinueInitialization: the process that published the first intent has the store lock.
LEMMA ContinueInitializationKeeps ==
  ASSUME SnapshotInv, NEW p \in Procs, ContinueInitialization(p)
  PROVE  SnapshotInv'
<1> USE DEF ContinueInitialization, InitializationLocked, Goto, SnapshotInv
<1>1. Types'
  BY DEF Types, Phases, StorePhases, disk
<1>2. Locks'
  BY <1>1, NoneAssumption DEF Types, Locks, Phases, StorePhases, RootPhases, SessionPhases, disk
<1>3. Disk'
  BY DiskStays DEF disk
<1>4. \A i \in Instances : ~Exists(i)
  BY NoneAssumption DEF ContinuingFreshBootstrap, Disk, Owned, Together, Anchored, Pending
<1>5. Place("intent")'
  BY <1>4 DEF Place, disk, Exists
<1>6. \A q \in Procs : Place(phase[q])'
  BY <1>1, <1>2, <1>5, PlaceOfHolder DEF Types, Place
<1> QED
  BY <1>1, <1>2, <1>3, <1>6

\* BeginOpen: both locks are free, so nobody's work is under way.
LEMMA BeginOpenKeeps ==
  ASSUME SnapshotInv, NEW p \in Procs, BeginOpen(p)
  PROVE  SnapshotInv'
<1> USE DEF BeginOpen, Goto, SnapshotInv
<1>1. Types'
  BY DEF Types, Phases, StorePhases, disk
<1>2. Locks'
  BY <1>1, NoneAssumption DEF Types, Locks, Phases, StorePhases, RootPhases, SessionPhases, disk
<1>3. Disk'
  BY DiskStays DEF disk
<1>4. \A q \in Procs : Place(phase[q])'
  BY <1>1, <1>2, PlaceOfHolder DEF Types, Place, disk
<1> QED
  BY <1>1, <1>2, <1>3, <1>4

\* FinishRecovery: no intent is left.
LEMMA FinishRecoveryKeeps ==
  ASSUME SnapshotInv, NEW p \in Procs, FinishRecovery(p)
  PROVE  SnapshotInv'
<1> USE DEF FinishRecovery, Holds, Goto, SnapshotInv
<1>1. Types'
  BY DEF Types, Phases, StorePhases, disk
<1>2. Locks'
  BY <1>1, NoneAssumption DEF Types, Locks, Phases, StorePhases, RootPhases, SessionPhases, disk
<1>3. Disk'
  BY DiskStays DEF disk
<1>4. locator # None
  BY DEF Place
<1>5. \A q \in Procs : Place(phase[q])'
  BY <1>1, <1>2, <1>4, PlaceOfHolder DEF Types, Place, disk
<1> QED
  BY <1>1, <1>2, <1>3, <1>5

\* Leaving: the files stay as they are, whoever leaves and wherever it was.
LEMMA LeaveKeeps ==
  ASSUME SnapshotInv, NEW p \in Procs, Leave(p)
  PROVE  SnapshotInv'
<1> USE DEF Leave, SnapshotInv
<1>1. Types'
  BY DEF Types, Phases, StorePhases, disk
<1>2. Locks'
  BY <1>1, NoneAssumption DEF Types, Locks, Phases, StorePhases, RootPhases, SessionPhases, disk
<1>3. CASE store_lock = p
  BY <1>1, <1>2, <1>3, NoHolder, DiskStays DEF disk
<1>4. CASE store_lock # p
  BY <1>1, <1>2, <1>4, OthersStay DEF Types, disk
<1> QED
  BY <1>3, <1>4

\* GiveUpInitialization: the early returns of create.
LEMMA GiveUpInitializationKeeps ==
  ASSUME SnapshotInv, NEW p \in Procs, GiveUpInitialization(p)
  PROVE  SnapshotInv'
<1> USE DEF GiveUpInitialization, Holds, Goto, SnapshotInv
<1>1. Types'
  BY DEF Types, Phases, StorePhases, disk
<1>2. Locks'
  BY <1>1, NoneAssumption DEF Types, Locks, Phases, StorePhases, RootPhases, SessionPhases, disk
<1>3. CASE store_lock = p
  BY <1>1, <1>2, <1>3, NoHolder, DiskStays DEF disk
<1>4. CASE store_lock # p
  BY <1>1, <1>2, <1>4, OthersStay DEF Types, disk
<1> QED
  BY <1>3, <1>4

-----------------------------------------------------------------------------
(* create.                                                                  *)

\* What the signed files name are instances.
LEMMA NamedInstances ==
  ASSUME Types
  PROVE  /\ Anchored \subseteq Instances /\ Pending \subseteq Instances
         /\ IsFiniteSet(Anchored \union Pending)
         /\ Cardinality(Anchored \union Pending) \in Nat
<1>1. ASSUME locator # None PROVE Retained(locator) \subseteq Instances
  <2>1. locator.retained \in Seq(RetainedAnchor)
    BY <1>1 DEF Types, SnapshotLocator
  <2>2. \A k \in 1..Len(locator.retained) : locator.retained[k] \in RetainedAnchor
    BY <2>1
  <2> QED
    BY <2>2 DEF Retained, RetainedAnchor
<1>2. Anchored \subseteq Instances
  BY <1>1 DEF Types, Anchored, SnapshotLocator, RolloverIntent
<1>3. Pending \subseteq Instances
  BY DEF Types, Pending, InitIntent, RolloverIntent
<1>4. IsFiniteSet(Anchored \union Pending)
  BY <1>2, <1>3, FS_Subset, BoundsAssumption
<1> QED
  BY <1>2, <1>3, <1>4, FS_CardinalityType

\* There is room for one more directory, and the new identifier names none in use.
LEMMA FreshIdentifier ==
  ASSUME Types, Owned, Fits
  PROVE  /\ random_identifier \in Instances
         /\ ~Exists(random_identifier)
         /\ random_identifier \notin Anchored \union Pending
<1> DEFINE N == Anchored \union Pending
<1>1. N \subseteq Instances /\ IsFiniteSet(N) /\ Cardinality(N) \in Nat
  BY NamedInstances
<1>2. Cardinality(N) < Cardinality(Instances)
  <2>1. Cardinality(Instances) \in Nat
    BY BoundsAssumption, FS_CardinalityType
  <2> QED
    BY <1>1, <2>1, BoundsAssumption DEF Fits
<1>3. N # Instances
  BY <1>1, <1>2
<1>4. Unused # {}
  <2>1. PICK i \in Instances : i \notin N
    BY <1>1, <1>3
  <2> QED
    BY <2>1 DEF Unused, Owned
<1>5. random_identifier \in Unused
  BY <1>4 DEF random_identifier
<1> QED
  BY <1>5 DEF Unused

\* Creating the stable lock file after the first intent.
LEMMA ReserveStoreLockKeeps ==
  ASSUME SnapshotInv, NEW p \in Procs, ReserveStoreLock(p)
  PROVE  SnapshotInv'
<1> USE DEF ReserveStoreLock, Goto, SnapshotInv
<1>0. store_lock = None /\ locator = None /\ init_intent # None
  BY NoneAssumption DEF Types, Locks, StorePhases, Disk, Together
<1>1. Types'
  BY DEF Types, Phases, StorePhases
<1>2. Locks'
  BY <1>0, <1>1, NoneAssumption DEF Types, Locks, Phases, StorePhases, RootPhases, SessionPhases
<1>3. Disk'
  BY <1>0 DEF Disk, disk, Owned, Fits, JournalsSound, Together, Located, Rollover, Exists, Records,
       Anchored, Pending, verify_retained_instances
<1>4. \A q \in Procs : Place(phase[q])'
  BY <1>0, <1>1, <1>2, NoHolder
<1> QED
  BY <1>1, <1>2, <1>3, <1>4

\* The first initialization intent, published under the root lock.
LEMMA WriteFirstIntentKeeps ==
  ASSUME SnapshotInv, NEW p \in Procs, WriteFirstIntent(p)
  PROVE  SnapshotInv'
<1> USE DEF WriteFirstIntent, BootstrapAllowed, Goto, SnapshotInv
<1>0. store_lock = None /\ locator = None /\ rollover_intent = None
  BY NoneAssumption DEF Types, Locks, StorePhases, Disk, Together
<1>1. random_identifier \in Instances
  BY FreshIdentifier DEF Disk
<1>2. init_intent' \in InitIntent /\ init_intent' # None
  <2>1. [attempt |-> 1, physical_id |-> random_identifier] \in InitIntent
    BY <1>1, BoundsAssumption DEF InitIntent
  <2> QED
    BY <2>1, NoneAssumption DEF Types
<1>3. Types'
  BY <1>2 DEF Types, Phases, StorePhases
<1>4. Locks'
  BY <1>0, <1>2, <1>3, NoneAssumption
  DEF Types, Locks, Phases, StorePhases, RootPhases, SessionPhases
<1>5. Anchored = {} /\ Anchored' = {}
  BY <1>0 DEF Anchored
<1>6. Pending' = {init_intent'.physical_id}
  BY <1>0, <1>2 DEF Pending
<1>7. Fits'
  <2>1. Cardinality(Pending') = 1
    BY <1>6, FS_Singleton
  <2> QED
    BY <1>5, <2>1, BoundsAssumption DEF Fits
<1>8. Owned'
  BY <1>0, <1>5, <1>6 DEF Owned, Disk, Pending, Exists
<1>9. Disk'
  BY <1>0, <1>2, <1>7, <1>8 DEF Disk, JournalsSound, Together, Exists
<1>10. \A q \in Procs : Place(phase[q])'
  BY <1>0, <1>3, <1>4, NoHolder
<1> QED
  BY <1>3, <1>4, <1>9, <1>10

\* A retry removes what the abandoned attempt left behind.
LEMMA RemoveAbandonedCandidateKeeps ==
  ASSUME SnapshotInv, NEW p \in Procs, RemoveAbandonedCandidate(p)
  PROVE  SnapshotInv'
<1> USE DEF RemoveAbandonedCandidate, InitializationLocked, Goto, SnapshotInv
<1>0. locator = None /\ rollover_intent = None /\ init_intent # None
  BY DEF Disk, Together
<1>1. Types'
  BY DEF Types, Phases, StorePhases
<1>2. Locks'
  BY <1>1, NoneAssumption DEF Types, Locks, Phases, StorePhases, RootPhases, SessionPhases
<1>3. Anchored = {} /\ Pending = {init_intent.physical_id}
  BY <1>0 DEF Anchored, Pending
<1>4. \A i \in Instances : journals'[i] = None
  BY <1>3 DEF Types, InitIntent, Disk, Owned, Exists
<1>5. Anchored' = Anchored /\ Pending' = Pending
  BY DEF Anchored, Pending
<1>6. Disk'
  BY <1>0, <1>3, <1>4, <1>5 DEF Disk, Owned, Fits, JournalsSound, Together, Exists
<1>7. Place("abandoned")'
  BY <1>0, <1>4 DEF Place, Exists
<1>8. \A q \in Procs : Place(phase[q])'
  BY <1>1, <1>2, <1>7, PlaceOfHolder DEF Types, Place
<1> QED
  BY <1>1, <1>2, <1>6, <1>8

\* The next attempt's intent replaces the abandoned one.
LEMMA WriteRetryIntentKeeps ==
  ASSUME SnapshotInv, NEW p \in Procs, WriteRetryIntent(p)
  PROVE  SnapshotInv'
<1> USE DEF WriteRetryIntent, Holds, Goto, SnapshotInv
<1>0. /\ locator = None /\ rollover_intent = None /\ init_intent # None
      /\ \A i \in Instances : ~Exists(i)
  BY DEF Disk, Together, Place
<1>1. random_identifier \in Instances
  BY FreshIdentifier DEF Disk
<1>2. init_intent' \in InitIntent /\ init_intent' # None
  <2>1. init_intent.attempt + 1 \in 1..MaxAttempts
    BY <1>0, BoundsAssumption DEF Types, InitIntent
  <2>2. [attempt |-> init_intent.attempt + 1, physical_id |-> random_identifier] \in InitIntent
    BY <1>1, <2>1 DEF InitIntent
  <2> QED
    BY <2>2, NoneAssumption
<1>3. Types'
  BY <1>2 DEF Types, Phases, StorePhases
<1>4. Locks'
  BY <1>0, <1>2, <1>3, NoneAssumption
  DEF Types, Locks, Phases, StorePhases, RootPhases, SessionPhases
<1>5. Anchored' = {}
  BY <1>0 DEF Anchored
<1>6. Pending' = {init_intent'.physical_id}
  BY <1>0, <1>2 DEF Pending
<1>7. Fits'
  <2>1. Cardinality(Pending') = 1
    BY <1>6, FS_Singleton
  <2> QED
    BY <1>5, <2>1, BoundsAssumption DEF Fits
<1>8. \A i \in Instances : ~Exists(i)'
  BY <1>0 DEF Exists
<1>9. Disk'
  BY <1>0, <1>2, <1>5, <1>7, <1>8 DEF Disk, Owned, JournalsSound, Together
<1>10. Place("intent")'
  BY <1>0, <1>2, <1>8 DEF Place
<1>11. \A q \in Procs : Place(phase[q])'
  BY <1>3, <1>4, <1>10, PlaceOfHolder DEF Types, Place
<1> QED
  BY <1>3, <1>4, <1>9, <1>11

\* The directory of a new journal has nothing in it.
LEMMA EmptyJournal ==
  /\ create_journal \in Journal /\ create_journal # None
  /\ Sound(create_journal)
  /\ \A next : Filling(create_journal, 0, next)
<1>1. create_journal.records = <<>> /\ create_journal.head = 0 /\ create_journal.record_temp = 0
  BY DEF create_journal
<1>2. create_journal \in Journal
  <2>1. <<>> \in Seq(Snapshot)
    OBVIOUS
  <2> QED
    BY <2>1 DEF create_journal, Journal
<1>3. create_journal # None
  BY <1>2, NoneAssumption
<1>4. Len(<<>>) = 0
  OBVIOUS
<1> HIDE DEF create_journal
<1>5. Sound(create_journal)
  BY <1>1, <1>4, MaxRecordsAssumption DEF Sound, recover_temporary_files_ok
<1>6. ASSUME NEW next PROVE Filling(create_journal, 0, next)
  BY <1>1, <1>3, <1>4, MaxRecordsAssumption DEF Filling
<1> QED
  BY <1>2, <1>3, <1>5, <1>6

\* An empty journal directory for the instance the intent names.
LEMMA CreateInitialJournalKeeps ==
  ASSUME SnapshotInv, NEW p \in Procs, NEW token \in Tokens, NEW value \in Values,
         CreateInitialJournal(p, token, value)
  PROVE  SnapshotInv'
<1> USE DEF CreateInitialJournal, Holds, Goto, SnapshotInv
<1> DEFINE id == init_intent.physical_id
           next == [generation |-> 1, token |-> token, value |-> value]
<1>0. /\ locator = None /\ rollover_intent = None /\ init_intent # None
      /\ \A i \in Instances : journals[i] = None
  BY DEF Disk, Together, Place, Exists
<1>1. id \in Instances
  BY <1>0 DEF Types, InitIntent
<1>2. next \in Snapshot
  BY DEF Snapshot
<1>3. session' \in Session /\ session' # None
  BY <1>1, <1>2, NoneAssumption DEF Session
<1>4. Types'
  BY <1>3, EmptyJournal DEF Types, Phases, StorePhases
<1>5. Locks'
  BY <1>3, <1>4, NoneAssumption DEF Types, Locks, Phases, StorePhases, RootPhases, SessionPhases
<1>6. journals'[id] = create_journal /\ \A i \in Instances \ {id} : journals'[i] = None
  BY <1>0, <1>1 DEF Types
<1>7. Anchored' = {} /\ Pending' = {id} /\ Pending = {id} /\ Anchored = {}
  BY <1>0 DEF Anchored, Pending
<1>8. Disk'
  BY <1>0, <1>6, <1>7, EmptyJournal DEF Disk, Owned, Fits, JournalsSound, Together, Exists
<1>9. AppendPlace'
  BY <1>0, <1>2, <1>6, EmptyJournal, NoneAssumption DEF AppendPlace, Target
<1>10. \A q \in Procs : Place(phase[q])'
  BY <1>4, <1>5, <1>9, PlaceOfHolder DEF Types, Place
<1> QED
  BY <1>4, <1>5, <1>8, <1>10

-----------------------------------------------------------------------------
(* Appending a record.                                                      *)

\* The steps of append, in a journal of n records.
Appends(j, j2, n, next) ==
  \/ Len(j.records) < n + 1 /\ j.record_temp = 0 /\ j2 = stage_record(j)
  \/ Len(j.records) < n + 1 /\ j.record_temp # 0 /\ j2 = publish_no_replace(j, next)
  \/ Len(j.records) = n + 1 /\ j.record_temp # 0 /\ j2 = remove_record_temp(j)
  \/ Len(j.records) = n + 1 /\ j.record_temp = 0 /\ j.head # n + 1 /\ j2 = publish_head(j)

\* Whatever step comes next, the journal is at a point of the same append.
LEMMA AppendsFills ==
  ASSUME NEW j \in Journal, NEW n \in Nat, NEW next \in Snapshot, Filling(j, n, next),
         NEW j2, Appends(j, j2, n, next)
  PROVE  /\ j2 \in Journal /\ Filling(j2, n, next) /\ Sound(j2)
         /\ \/ j2.records = j.records
            \/ Len(j.records) = n /\ j2.records = Append(j.records, next)
<1> DEFINE rs == j.records
<1>1. rs \in Seq(Snapshot) /\ Len(rs) \in Nat /\ j.head \in Nat /\ j.record_temp \in Nat
  BY DEF Journal
<1>2. /\ Append(rs, next) \in Seq(Snapshot) /\ Len(Append(rs, next)) = Len(rs) + 1
      /\ Append(rs, next)[Len(rs) + 1] = next
  BY <1>1
<1>3. MaxRecords \in Nat
  BY MaxRecordsAssumption
<1>4. CASE j2 = stage_record(j) /\ Len(rs) < n + 1 /\ j.record_temp = 0
  <2>1. j2 \in Journal /\ j2.records = rs /\ j2.head = j.head /\ j2.record_temp = Len(rs) + 1
    BY <1>1, <1>4 DEF Journal, stage_record
  <2>2. j2 # None
    BY <2>1, NoneAssumption
  <2> QED
    BY <1>1, <1>3, <1>4, <2>1, <2>2 DEF Filling, Sound, recover_temporary_files_ok
<1>5. CASE j2 = publish_no_replace(j, next) /\ Len(rs) < n + 1 /\ j.record_temp # 0
  <2>1. /\ j2 \in Journal /\ j2.records = Append(rs, next)
        /\ j2.head = j.head /\ j2.record_temp = j.record_temp
    BY <1>1, <1>2, <1>5 DEF Journal, publish_no_replace
  <2>2. j2 # None
    BY <2>1, NoneAssumption
  <2> QED
    BY <1>1, <1>2, <1>3, <1>5, <2>1, <2>2 DEF Filling, Sound, recover_temporary_files_ok
<1>6. CASE j2 = remove_record_temp(j) /\ Len(rs) = n + 1
  <2>1. j2 \in Journal /\ j2.records = rs /\ j2.head = j.head /\ j2.record_temp = 0
    BY <1>1, <1>6 DEF Journal, remove_record_temp
  <2>2. j2 # None
    BY <2>1, NoneAssumption
  <2> QED
    BY <1>1, <1>3, <1>6, <2>1, <2>2 DEF Filling, Sound, recover_temporary_files_ok
<1>7. CASE j2 = publish_head(j) /\ Len(rs) = n + 1 /\ j.record_temp = 0
  <2>1. j2 \in Journal /\ j2.records = rs /\ j2.head = Len(rs) /\ j2.record_temp = j.record_temp
    BY <1>1, <1>7 DEF Journal, publish_head
  <2>2. j2 # None
    BY <2>1, NoneAssumption
  <2> QED
    BY <1>1, <1>3, <1>7, <2>1, <2>2 DEF Filling, Sound, recover_temporary_files_ok
<1> QED
  BY <1>4, <1>5, <1>6, <1>7 DEF Appends

\* The numbers of a validated locator.
LEMMA LocatorNumbers ==
  ASSUME NEW l \in SnapshotLocator, validate_locator(l)
  PROVE  /\ Covered(l) \in Nat \ {0} /\ Covered(l) <= MaxRecords
         /\ l.active_identity \in Instances /\ l.active_identity \notin Retained(l)
         /\ l.generation = l.active_start_generation + Covered(l) - 1
<1>1. /\ l.active_identity \in Instances
      /\ l.active_start_generation \in Nat /\ l.generation \in Nat
      /\ l.retained \in Seq(RetainedAnchor)
  BY DEF SnapshotLocator
<1>2. /\ l.active_start_generation <= l.generation
      /\ l.generation - l.active_start_generation < MaxRecords
  BY DEF validate_locator
<1>3. \A k \in 1..Len(l.retained) : l.retained[k].identity # l.active_identity
  BY DEF validate_locator
<1> QED
  BY <1>1, <1>2, <1>3, MaxRecordsAssumption DEF Covered, Retained

\* A committed record extends the active journal by the next generation.
LEMMA CommitKeepsActive ==
  ASSUME NEW l \in SnapshotLocator, validate_locator(l), NEW j \in Journal, Active(l, j),
         NEW next \in Snapshot, next.generation = l.generation + 1, next.token > l.token,
         NEW j2 \in Journal, Filling(j2, Covered(l), next),
         \/ j2.records = j.records
         \/ Len(j.records) = Covered(l) /\ j2.records = Append(j.records, next)
  PROVE  Active(l, j2)
<1> DEFINE n == Covered(l)
           rs == j.records
           ts == j2.records
<1>1. /\ n \in Nat \ {0} /\ l.active_start_generation \in Nat
      /\ l.generation = l.active_start_generation + n - 1
  BY LocatorNumbers DEF SnapshotLocator
<1>2. /\ rs \in Seq(Snapshot) /\ Len(rs) \in Nat /\ Len(ts) \in Nat
      /\ j2.head \in Nat
  BY DEF Journal
<1>3. j2 # None
  BY NoneAssumption
<1>4. /\ j2.head \in {Len(ts), Len(ts) - 1} /\ j2.head # 0
      /\ Len(ts) \in {n, n + 1}
  BY <1>1, <1>2 DEF Filling
<1>5. CASE ts = rs
  BY <1>3, <1>4, <1>5 DEF Active, mac
<1>6. CASE Len(rs) = n /\ ts = Append(rs, next)
  <2>1. /\ Len(ts) = n + 1 /\ ts[n + 1] = next
        /\ \A k \in 1..n : ts[k] = rs[k]
    BY <1>1, <1>2, <1>6
  <2>2. mac(l.active_identity, j2, n) = mac(l.active_identity, j, n)
    <3>1. SubSeq(ts, 1, n) = SubSeq(rs, 1, n)
      BY <1>1, <1>2, <1>6, PrefixOfAppend
    <3> QED
      BY <3>1 DEF mac
  <2>3. MonotonicFrom(l, ts)
    <3>0. /\ \A k \in 1..n : rs[k].generation = l.active_start_generation + k - 1
          /\ \A k \in 1..n : rs[k].token > IF k = 1 THEN l.prior_token ELSE rs[k - 1].token
          /\ l.token = rs[n].token
      BY <1>6 DEF Active, MonotonicFrom
    <3>1. ASSUME NEW k \in 1..Len(ts)
          PROVE  /\ ts[k].generation = l.active_start_generation + k - 1
                 /\ ts[k].token > IF k = 1 THEN l.prior_token ELSE ts[k - 1].token
      <4>1. CASE k \in 1..n
        <5>1. ts[k] = rs[k] /\ (k # 1 => ts[k - 1] = rs[k - 1])
          BY <1>1, <2>1, <4>1
        <5> QED
          BY <3>0, <4>1, <5>1
      <4>2. CASE k = n + 1
        <5>1. k # 1 /\ k - 1 = n /\ n \in 1..n
          BY <1>1, <4>2
        <5>2. ts[k] = next /\ ts[k - 1] = rs[n]
          BY <2>1, <4>2, <5>1
        <5>3. next.generation = l.active_start_generation + k - 1
          BY <1>1, <4>2
        <5>4. next.token > rs[n].token
          BY <3>0
        <5> QED
          BY <5>1, <5>2, <5>3, <5>4
      <4> QED
        BY <1>1, <2>1, <4>1, <4>2
    <3>2. ts # <<>>
      BY <1>1, <2>1
    <3> QED
      BY <3>1, <3>2 DEF MonotonicFrom
  <2>4. l.token = ts[n].token
    <3>1. l.token = rs[n].token
      BY DEF Active
    <3>2. n \in 1..n
      BY <1>1
    <3>3. ts[n] = rs[n]
      BY <2>1, <3>2
    <3> QED
      BY <3>1, <3>3
  <2> QED
    BY <1>3, <1>4, <2>2, <2>3, <2>4 DEF Active
<1> QED
  BY <1>5, <1>6

\* What verify_retained_instances checks of one anchor and its journal.
AnchorVerified(l, k, j) ==
  LET anchor == l.retained[k]
      rs == j.records
  IN /\ Len(rs) = anchor.end_generation - anchor.start_generation + 1
     /\ \A n \in 1..Len(rs) :
          /\ rs[n].generation = anchor.start_generation + n - 1
          /\ rs[n].token > IF n > 1 THEN rs[n - 1].token
                           ELSE IF k > 1 THEN l.retained[k - 1].terminal_token ELSE 0
     /\ terminal_mac(anchor.identity, j) = anchor.terminal_mac
     /\ rs[Len(rs)].token = anchor.terminal_token

\* The retained journals are all that verify_retained_instances looks at.
LEMMA RetainedStay ==
  ASSUME verify_retained_instances(locator), locator' = locator,
         \A k \in 1..Len(locator.retained) :
           journals'[locator.retained[k].identity] = journals[locator.retained[k].identity]
  PROVE  verify_retained_instances(locator)'
<1>1. \A k \in 1..Len(locator.retained) :
        AnchorVerified(locator, k, journals[locator.retained[k].identity])
  BY DEF verify_retained_instances, AnchorVerified, Records
<1>2. \A k \in 1..Len(locator'.retained) :
        AnchorVerified(locator', k, journals'[locator'.retained[k].identity])
  BY <1>1
<1> QED
  BY ONLY <1>2 DEF verify_retained_instances, AnchorVerified, Records

\* Replacing one journal that is not retained: what there is to check.
LEMMA JournalChanges ==
  ASSUME SnapshotInv, NEW i \in Instances, NEW j \in Journal, journals[i] # None,
         journals' = [journals EXCEPT ![i] = j],
         UNCHANGED <<locator, init_intent, rollover_intent, lock_file>>,
         Sound(j),
         locator # None => i \notin Retained(locator),
         locator # None /\ i = locator.active_identity => Active(locator, j),
         rollover_intent # None => Rollover(rollover_intent)'
  PROVE  Disk' /\ journals' \in [Instances -> Journal \union {None}]
<1> USE DEF SnapshotInv
<1>1. /\ journals' \in [Instances -> Journal \union {None}]
      /\ journals'[i] = j /\ \A k \in Instances \ {i} : journals'[k] = journals[k]
  BY DEF Types
<1>2. \A k \in Instances : Exists(k)' <=> Exists(k)
  BY <1>1, NoneAssumption DEF Exists
<1>3. Anchored' = Anchored /\ Pending' = Pending
  BY DEF Anchored, Pending
<1>4. Owned' /\ Fits' /\ Together'
  <2>1. Owned'
    BY <1>2, <1>3, NamedInstances DEF Disk, Owned
  <2> QED
    BY <1>3, <2>1 DEF Disk, Fits, Together
<1>5. JournalsSound'
  BY <1>1, <1>2 DEF Disk, JournalsSound, Exists
<1>6. ASSUME locator # None PROVE Located(locator)'
  <2>1. \A k \in Retained(locator) : journals'[k] = journals[k]
    BY <1>1, <1>6, NamedInstances DEF Anchored
  <2>2. \A k \in 1..Len(locator.retained) : locator.retained[k].identity \in Retained(locator)
    BY DEF Retained
  <2>3. verify_retained_instances(locator)'
    <3>1. \A k \in 1..Len(locator.retained) :
            journals'[locator.retained[k].identity] = journals[locator.retained[k].identity]
      BY <2>1, <2>2
    <3>2. verify_retained_instances(locator) /\ locator' = locator
      BY <1>6 DEF Disk, Located
    <3> QED
      BY <3>1, <3>2, RetainedStay
  <2>4. locator.active_identity \in Instances
    BY <1>6 DEF Types, SnapshotLocator
  <2>5. Active(locator, journals[locator.active_identity])'
    BY <1>1, <1>6, <2>4 DEF Disk, Located
  <2> QED
    BY <1>6, <2>1, <2>3, <2>5 DEF Disk, Located
<1> QED
  BY <1>1, <1>4, <1>5, <1>6 DEF Disk

\* The candidate of a pending rollover is neither retained nor active.
LEMMA CandidateApart ==
  ASSUME SnapshotInv, rollover_intent # None, LocatorIsPrevious
  PROVE  /\ locator # None /\ Candidate \in Instances
         /\ Candidate # locator.active_identity /\ Candidate \notin Retained(locator)
BY DEF SnapshotInv, Types, RolloverIntent, Disk, Together, Rollover, LocatorIsPrevious,
       Candidate, locator_matches_rollover_previous

\* A prepared rollover is one from which the locator has not moved.
LEMMA PreparedIsPrevious ==
  ASSUME SnapshotInv, rollover_intent # None, rollover_intent.phase = "Prepared"
  PROVE  LocatorIsPrevious
BY DEF SnapshotInv, Disk, Rollover, LocatorIsPrevious

\* A journal that starts empty and is filled with one record holds nothing else.
LEMMA FillingFromEmpty ==
  ASSUME NEW j \in Journal, NEW next \in Snapshot, Filling(j, 0, next)
  PROVE  j.records \in {<<>>, <<next>>}
<1>1. j.records \in Seq(Snapshot)
  BY DEF Journal
<1>2. CASE Len(j.records) = 0
  BY <1>1, <1>2
<1>3. CASE Len(j.records) = 1 /\ j.records[1] = next
  <2>1. <<next>> \in Seq(Snapshot) /\ Len(<<next>>) = 1 /\ <<next>>[1] = next
    OBVIOUS
  <2>2. \A k \in 1..Len(j.records) : j.records[k] = <<next>>[k]
    BY <1>3, <2>1
  <2> QED
    BY <1>1, <1>3, <2>1, <2>2, SeqEqual
<1> QED
  BY <1>2, <1>3 DEF Filling

\* The journal that append works on, before and after one of its steps.
LEMMA AppendTarget ==
  ASSUME SnapshotInv, NEW p \in Procs, Appending(p), NEW j,
         Appends(Target, j, Sequence - 1, session.pending)
  PROVE  /\ AppendPlace /\ session \in Session
         /\ session.target \in Instances /\ session.pending \in Snapshot
         /\ Sequence - 1 \in Nat /\ Filling(Target, Sequence - 1, session.pending)
         /\ session.op = "commit" => Sequence - 1 = Covered(locator)
         /\ session.op # "commit" => Sequence - 1 = 0
         /\ Target \in Journal /\ Target # None
         /\ j \in Journal /\ Filling(j, Sequence - 1, session.pending) /\ Sound(j)
         /\ \/ j.records = Target.records
            \/ /\ Len(Target.records) = Sequence - 1
               /\ j.records = Append(Target.records, session.pending)
<1> USE DEF Appending, Holds, SnapshotInv
<1> DEFINE t == session.target
           next == session.pending
           n == Sequence - 1
<1>1. AppendPlace
  BY DEF Place
<1>2. session \in Session /\ t \in Instances /\ next \in Snapshot
  BY <1>1, NoneAssumption DEF Types, Locks, SessionPhases, Session, AppendPlace
<1>3. /\ n \in Nat /\ Filling(Target, n, next)
      /\ session.op = "commit" => n = Covered(locator)
      /\ session.op # "commit" => n = 0
  <2>1. CASE session.op = "commit"
    <3>1. locator \in SnapshotLocator /\ validate_locator(locator)
      BY <1>1, <2>1 DEF AppendPlace, Types, Disk, Located
    <3>2. Covered(locator) \in Nat /\ locator.active_start_generation \in Nat
          /\ locator.generation \in Nat
      BY <3>1, LocatorNumbers DEF SnapshotLocator
    <3>3. n = Covered(locator)
      BY <1>1, <2>1, <3>2 DEF AppendPlace, Sequence, Covered
    <3> QED
      BY <1>1, <2>1, <3>2, <3>3 DEF AppendPlace
  <2>2. CASE session.op # "commit"
    BY <1>1, <2>2 DEF AppendPlace, Sequence
  <2> QED
    BY <2>1, <2>2
<1>4. Target \in Journal /\ Target # None
  BY <1>2, <1>3 DEF Types, Target, Filling
<1>5. /\ j \in Journal /\ Filling(j, n, next) /\ Sound(j)
      /\ \/ j.records = Target.records
         \/ Len(Target.records) = n /\ j.records = Append(Target.records, next)
  BY <1>2, <1>3, <1>4, AppendsFills
<1> QED
  BY <1>1, <1>2, <1>3, <1>4, <1>5

\* A step of append: the target moves on, the rest of the disk stays.
LEMMA AppendKeeps ==
  ASSUME SnapshotInv, NEW p \in Procs, Appending(p), NEW j,
         Appends(Target, j, Sequence - 1, session.pending),
         SetJournal(session.target, j), OnlyJournals
  PROVE  SnapshotInv'
<1> USE DEF Appending, Holds, SnapshotInv
<1> DEFINE t == session.target
           next == session.pending
           n == Sequence - 1
<1>1. AppendPlace
  BY DEF Place
<1>2. session \in Session /\ t \in Instances /\ next \in Snapshot
  BY AppendTarget
<1>3. UNCHANGED <<locator, init_intent, rollover_intent, lock_file, store_lock, root_lock,
                  phase, session, acknowledged>>
  BY DEF OnlyJournals
<1>4. journals' = [journals EXCEPT ![t] = j]
  BY DEF SetJournal
<1>5. /\ n \in Nat /\ Filling(Target, n, next)
      /\ session.op = "commit" => n = Covered(locator)
      /\ session.op # "commit" => n = 0
  BY AppendTarget
<1>6. Target \in Journal /\ Target # None
  BY AppendTarget
<1>7. /\ j \in Journal /\ Filling(j, n, next) /\ Sound(j)
      /\ \/ j.records = Target.records
         \/ Len(Target.records) = n /\ j.records = Append(Target.records, next)
  BY AppendTarget
<1> HIDE DEF n
<1>8. ASSUME locator # None
      PROVE  /\ t \notin Retained(locator)
             /\ t = locator.active_identity => Active(locator, j)
             /\ rollover_intent # None => t # locator.active_identity /\ t = Candidate
  <2>1. CASE session.op = "commit"
    <3>1. /\ locator \in SnapshotLocator /\ validate_locator(locator)
          /\ t = locator.active_identity /\ Active(locator, Target) /\ rollover_intent = None
      BY <1>1, <1>8, <2>1 DEF AppendPlace, Types, Disk, Located, Target
    <3>2. next.generation = locator.generation + 1 /\ next.token > locator.token
      BY <1>1, <2>1 DEF AppendPlace
    <3>3. Active(locator, j)
      BY <1>2, <1>5, <1>6, <1>7, <2>1, <3>1, <3>2, CommitKeepsActive
    <3> QED
      BY <3>1, <3>3, LocatorNumbers
  <2>2. CASE session.op = "rollover"
    BY <1>1, <2>2, PreparedIsPrevious, CandidateApart DEF AppendPlace
  <2> QED
    BY <1>1, <1>8, <2>1, <2>2 DEF AppendPlace
<1>9. ASSUME rollover_intent # None PROVE Rollover(rollover_intent)'
  <2>1. session.op = "rollover" /\ locator # None
    BY <1>1, <1>9 DEF AppendPlace, Disk, Together
  <2>2. t = Candidate /\ rollover_intent.phase = "Prepared" /\ next = rollover_intent.expected_snapshot
    BY <1>1, <2>1 DEF AppendPlace
  <2>3. j.records \in {<<>>, <<next>>}
    BY <1>2, <1>5, <1>7, <2>1, FillingFromEmpty
  <2>4. /\ journals'[t] = j /\ locator.active_identity \in Instances
        /\ journals'[locator.active_identity] = journals[locator.active_identity]
    BY <1>2, <1>4, <1>8, <1>9, <2>1 DEF Types, SnapshotLocator
  <2> QED
    BY <1>3, <1>9, <2>2, <2>3, <2>4 DEF Disk, Rollover, Candidate
<1>10. Disk' /\ journals' \in [Instances -> Journal \union {None}]
  BY <1>2, <1>3, <1>4, <1>6, <1>7, <1>8, <1>9, JournalChanges DEF Target
<1>11. Types' /\ Locks'
  BY <1>3, <1>10 DEF Types, Locks
<1>12. Target' = j
  BY <1>2, <1>3, <1>4 DEF Target, Types
<1>13. AppendPlace'
  <2>1. CASE session.op = "commit"
    BY <1>1, <1>3, <1>5, <1>7, <1>12, <2>1 DEF AppendPlace
  <2>2. CASE session.op # "commit"
    BY <1>1, <1>3, <1>5, <1>7, <1>12, <2>2 DEF AppendPlace, Candidate
  <2> QED
    BY <2>1, <2>2
<1>14. \A q \in Procs : Place(phase[q])'
  <2>1. phase'[p] = "append"
    BY <1>3
  <2> QED
    BY <1>3, <1>11, <1>13, <2>1, PlaceOfHolder DEF Place
<1> QED
  BY <1>10, <1>11, <1>14

\* Every one of the four steps is a step of append.
LEMMA AppendStepsAppend ==
  ASSUME SnapshotInv, NEW p \in Procs, AppendSteps(p)
  PROVE  /\ Appending(p)
         /\ \E j : /\ Appends(Target, j, Sequence - 1, session.pending)
                  /\ SetJournal(session.target, j) /\ OnlyJournals
<1> DEFINE n == Sequence - 1
<1>0. Appending(p)
  BY DEF AppendSteps, StageRecord, PublishRecord, RemoveRecordTemp, PublishHead
<1>1. Sequence \in Int
  <2>1. AppendPlace /\ session \in Session
    BY <1>0, NoneAssumption
    DEF Appending, Holds, SnapshotInv, Place, Types, Locks, SessionPhases
  <2>2. CASE session.op = "commit"
    <3>1. locator \in SnapshotLocator /\ session.pending \in Snapshot
      BY <2>1, <2>2, NoneAssumption DEF SnapshotInv, Types, AppendPlace, Session
    <3> QED
      BY <2>2, <3>1 DEF Sequence, SnapshotLocator, Snapshot
  <2>3. CASE session.op # "commit"
    BY <2>3 DEF Sequence
  <2> QED
    BY <2>2, <2>3
<1>2. n + 1 = Sequence
  BY <1>1
<1> HIDE DEF n
<1>3. PICK j : Appends(Target, j, n, session.pending) /\ SetJournal(session.target, j) /\ OnlyJournals
  BY <1>2 DEF AppendSteps, StageRecord, PublishRecord, RemoveRecordTemp, PublishHead, Appends
<1> QED
  BY <1>0, <1>3 DEF n

\* Every durable step of an append, whichever operation runs it.
LEMMA AppendStepsKeep ==
  ASSUME SnapshotInv, NEW p \in Procs, AppendSteps(p)
  PROVE  SnapshotInv'
BY AppendStepsAppend, AppendKeeps

-----------------------------------------------------------------------------
(* Moving the locator.                                                      *)

\* A MAC names an instance and a prefix of its records.
LEMMA MacType ==
  ASSUME NEW i \in Instances, NEW j \in Journal, NEW n \in 0..Len(j.records)
  PROVE  mac(i, j, n) \in Mac
BY DEF mac, Mac, Journal

\* The newest record of the active journal is the one the locator covers last.
LEMMA SettledNewest ==
  ASSUME NEW l \in SnapshotLocator, validate_locator(l), NEW j \in Journal, Active(l, j),
         Len(j.records) = Covered(l)
  PROVE  /\ Newest(j) \in Snapshot
         /\ Newest(j).generation = l.generation /\ Newest(j).token = l.token
         /\ l.terminal_mac = terminal_mac(l.active_identity, j)
<1>1. Covered(l) \in 1..Len(j.records) /\ l.generation = l.active_start_generation + Covered(l) - 1
  BY LocatorNumbers
<1>2. j.records[Covered(l)].generation = l.active_start_generation + Covered(l) - 1
  BY <1>1 DEF Active, MonotonicFrom
<1>3. j.records[Covered(l)] \in Snapshot
  BY <1>1 DEF Journal
<1> QED
  BY <1>1, <1>2, <1>3 DEF Newest, Active, terminal_mac

\* The locator when it names the n-th record of the journal.
Moved(l, j, n) ==
  [l EXCEPT !.generation = j.records[n].generation, !.token = j.records[n].token,
            !.terminal_mac = terminal_mac(l.active_identity, j)]

\* Advanced: the locator takes in the one record it was behind.
LEMMA AdvancedLocator ==
  ASSUME NEW l \in SnapshotLocator, validate_locator(l), NEW j \in Journal, Active(l, j),
         NEW n \in Nat, Len(j.records) = n, Covered(l) = n - 1, n <= MaxRecords,
         NEW m, m = Moved(l, j, n)
  PROVE  /\ m \in SnapshotLocator /\ validate_locator(m)
         /\ Active(m, j) /\ Covered(m) = n
         /\ m.active_identity = l.active_identity /\ m.retained = l.retained
<1> DEFINE tail == j.records[n]
<1>1. /\ l.active_start_generation \in Nat /\ l.generation \in Nat /\ l.active_identity \in Instances
      /\ l.token \in Nat /\ l.prior_token \in Nat
  BY DEF SnapshotLocator
<1>2. /\ Covered(l) \in Nat \ {0} /\ n \in Nat \ {0} /\ Covered(l) = n - 1
      /\ l.generation = l.active_start_generation + n - 2
  BY LocatorNumbers
<1>3. n \in 1..n /\ n - 1 \in 1..n /\ n # 1
  BY <1>2
<1>30. tail \in Snapshot
  <2>1. j.records \in Seq(Snapshot)
    BY DEF Journal
  <2> QED
    BY <1>3, <2>1
<1>4. /\ tail.generation = l.active_start_generation + n - 1
      /\ tail.token > j.records[n - 1].token /\ j.records[n - 1].token = l.token
  <2>1. MonotonicFrom(l, j.records)
    BY DEF Active
  <2>2. tail.generation = l.active_start_generation + n - 1 /\ tail.token > j.records[n - 1].token
    BY <1>3, <2>1 DEF MonotonicFrom
  <2>3. l.token = j.records[n - 1].token
    BY <1>2 DEF Active
  <2> QED
    BY <2>2, <2>3
<1>5. tail.generation \in Nat /\ tail.token \in Nat
  BY <1>30, BoundsAssumption DEF Snapshot, Tokens
<1>6. terminal_mac(l.active_identity, j) \in Mac
  BY <1>1, <1>2, MacType DEF terminal_mac
<1>8. /\ m \in SnapshotLocator
      /\ m.generation = tail.generation /\ m.token = tail.token
      /\ m.terminal_mac = terminal_mac(l.active_identity, j)
      /\ m.active_identity = l.active_identity /\ m.retained = l.retained
      /\ m.active_start_generation = l.active_start_generation /\ m.prior_token = l.prior_token
  BY <1>5, <1>6 DEF SnapshotLocator, Moved
<1> HIDE DEF tail
<1>9. Covered(m) = n
  <2>1. m.generation = l.active_start_generation + n - 1
    BY <1>4, <1>8
  <2>2. m.active_start_generation = l.active_start_generation
    BY <1>8
  <2> QED
    BY <1>1, <1>2, <2>1, <2>2 DEF Covered
<1>10. validate_locator(m)
  <2>1. /\ m.active_start_generation <= m.generation
        /\ m.generation - m.active_start_generation < MaxRecords
    BY <1>1, <1>2, <1>4, <1>8, MaxRecordsAssumption
  <2>2. m.prior_token < m.token
    <3>1. l.prior_token < l.token
      BY DEF validate_locator
    <3> QED
      BY <1>1, <1>4, <1>5, <1>8, <3>1
  <2> QED
    BY <1>8, <2>1, <2>2 DEF validate_locator
<1>11. Active(m, j)
  <2>1. MonotonicFrom(m, j.records)
    BY <1>8 DEF Active, MonotonicFrom
  <2>2. m.token = j.records[Covered(m)].token /\ m.terminal_mac = mac(m.active_identity, j, Covered(m))
    BY <1>8, <1>9 DEF tail, terminal_mac
  <2> QED
    BY <1>9, <2>1, <2>2 DEF Active
<1> QED
  BY <1>8, <1>9, <1>10, <1>11

\* The step of a commit or of an open that moves the locator to the journal's tail.
LEMMA AdvanceKeepsDisk ==
  ASSUME SnapshotInv, locator # None, rollover_intent = None, init_intent = None,
         Len(Records(locator.active_identity)) = Covered(locator) + 1,
         locator' = Advanced(locator),
         UNCHANGED <<journals, init_intent, rollover_intent, lock_file>>
  PROVE  /\ Disk' /\ locator' \in SnapshotLocator /\ locator' # None
         /\ locator'.active_identity = locator.active_identity
         /\ Covered(locator') = Len(Records(locator.active_identity))
         /\ locator'.active_start_generation = locator.active_start_generation
<1> USE DEF SnapshotInv
<1> DEFINE id == locator.active_identity
           j == journals[id]
<1>1. locator \in SnapshotLocator /\ id \in Instances /\ Located(locator)
  BY DEF Types, Disk, SnapshotLocator
<1>2. validate_locator(locator) /\ Active(locator, j)
  BY <1>1 DEF Located
<1>3. j \in Journal
  BY <1>1, <1>2 DEF Types, Active
<1>4. Len(j.records) <= MaxRecords
  BY <1>1, <1>2 DEF Disk, JournalsSound, Sound, Exists, Active
<1>40. Len(j.records) \in Nat
  BY <1>3 DEF Journal
<1>5. /\ locator' \in SnapshotLocator /\ validate_locator(locator') /\ Active(locator', j)
      /\ Covered(locator') = Len(j.records)
      /\ locator'.active_identity = id /\ locator'.retained = locator.retained
  <2> DEFINE n == Len(j.records)
             m == locator'
  <2>1. n \in Nat /\ n <= MaxRecords
    BY <1>4, <1>40
  <2>2. Covered(locator) = n - 1
    <3>1. Covered(locator) \in Nat
      BY <1>1, <1>2, LocatorNumbers
    <3> QED
      BY <3>1, <1>40 DEF Records
  <2>3. m = Moved(locator, j, n)
    BY DEF Advanced, Moved
  <2> HIDE DEF n, m, j
  <2>4. Len(j.records) = n
    BY DEF n
  <2>5. locator \in SnapshotLocator /\ validate_locator(locator) /\ j \in Journal /\ Active(locator, j)
    BY <1>1, <1>2, <1>3
  <2>6. /\ m \in SnapshotLocator /\ validate_locator(m) /\ Active(m, j) /\ Covered(m) = n
        /\ m.active_identity = id /\ m.retained = locator.retained
    BY <2>1, <2>2, <2>3, <2>4, <2>5, AdvancedLocator
  <2> QED
    BY <2>6 DEF m, n
<1>6. Located(locator)'
  <2> DEFINE m == locator'
  <2>1. m.retained = locator.retained /\ m.active_identity = id /\ validate_locator(m)
        /\ Active(m, j)
    BY <1>5
  <2> QED
    BY <1>1, <1>5, <2>1 DEF Located, Retained, verify_retained_instances, Records
<1>7. locator' # None
  BY <1>5, NoneAssumption
<1>8. Anchored' = Anchored /\ Pending' = Pending
  BY <1>5, <1>7 DEF Anchored, Pending, Retained
<1>9. Owned' /\ Fits' /\ JournalsSound' /\ Together'
  BY <1>7, <1>8 DEF Disk, Owned, Fits, JournalsSound, Together, Exists
<1>10. locator'.active_start_generation = locator.active_start_generation
  BY <1>1 DEF Advanced, SnapshotLocator
<1> QED
  BY <1>5, <1>6, <1>7, <1>9, <1>10 DEF Disk, Records

\* A journal of one record, under the locator that names it first.
LEMMA FirstLocator ==
  ASSUME NEW i \in Instances, NEW j \in Journal, NEW s \in Snapshot,
         Len(j.records) = 1, j.records[1] = s, s.generation = 1, HeadExact(j),
         NEW l, l = [active_identity |-> i, active_start_generation |-> 1, generation |-> 1,
                     token |-> s.token, prior_token |-> 0,
                     terminal_mac |-> terminal_mac(i, j), retained |-> <<>>]
  PROVE  /\ l \in SnapshotLocator /\ validate_locator(l) /\ Active(l, j)
         /\ Settled(l, j) /\ Retained(l) = {} /\ l.active_identity = i /\ l.retained = <<>>
<1>1. s.token \in Nat /\ s.token > 0
  BY BoundsAssumption DEF Snapshot, Tokens
<1>2. terminal_mac(i, j) \in Mac
  BY MacType DEF terminal_mac
<1>3. <<>> \in Seq(RetainedAnchor) /\ Len(<<>>) = 0
  OBVIOUS
<1>4. /\ l \in SnapshotLocator
      /\ l.active_identity = i /\ l.active_start_generation = 1 /\ l.generation = 1
      /\ l.token = s.token /\ l.prior_token = 0 /\ l.terminal_mac = terminal_mac(i, j)
      /\ l.retained = <<>>
  BY <1>1, <1>2, <1>3 DEF SnapshotLocator
<1>5. Covered(l) = 1
  BY <1>4 DEF Covered
<1>6. validate_locator(l)
  BY <1>1, <1>3, <1>4, BoundsAssumption, MaxRecordsAssumption DEF validate_locator
<1>7. MonotonicFrom(l, j.records)
  <2>1. j.records # <<>>
    BY <1>3
  <2> QED
    BY <1>1, <1>4, <2>1 DEF MonotonicFrom
<1>8. Active(l, j)
  BY <1>4, <1>5, <1>7, NoneAssumption DEF Active, terminal_mac, HeadExact
<1>9. Retained(l) = {}
  BY <1>3, <1>4 DEF Retained
<1> QED
  BY <1>4, <1>5, <1>6, <1>8, <1>9 DEF Settled

\* The locator that commits the first record.
LEMMA WriteInitialLocatorKeeps ==
  ASSUME SnapshotInv, NEW p \in Procs, WriteInitialLocator(p)
  PROVE  SnapshotInv'
<1> USE DEF SnapshotInv
<1> DEFINE i == session.target
           j == Target
           s == session.pending
           l == locator'
<1>1. Appended(p, "create") /\ Holds(p, "append")
  BY DEF WriteInitialLocator, Appended, Appending
<1>2. /\ locator = None /\ init_intent # None /\ i = init_intent.physical_id
      /\ s # None /\ s.generation = 1 /\ Filling(j, 0, s)
  BY <1>1 DEF Appended, Holds, Place, AppendPlace
<1>3. session \in Session /\ i \in Instances /\ s \in Snapshot /\ j \in Journal
  <2>1. session \in Session
    BY <1>1, NoneAssumption DEF Holds, Types, Locks, SessionPhases
  <2>2. i \in Instances /\ s \in Snapshot
    BY <1>2, <2>1 DEF Session
  <2>3. j \in Journal
    BY <1>2, <2>2 DEF Target, Types, Filling
  <2> QED
    BY <2>1, <2>2, <2>3
<1>4. Len(j.records) = 1 /\ HeadExact(j)
  BY <1>1 DEF Appended, Sequence
<1>5. j.records[1] = s
  BY <1>2, <1>4 DEF Filling
<1>6. l = [active_identity |-> i, active_start_generation |-> 1, generation |-> 1,
           token |-> s.token, prior_token |-> 0,
           terminal_mac |-> terminal_mac(i, j), retained |-> <<>>]
  BY DEF WriteInitialLocator
<1>7. /\ root_lock' = p /\ phase' = [phase EXCEPT ![p] = "created"]
      /\ UNCHANGED <<journals, init_intent, rollover_intent, lock_file, store_lock, session>>
  BY DEF WriteInitialLocator, Goto
<1> HIDE DEF l
<1>8. /\ l \in SnapshotLocator /\ validate_locator(l) /\ Active(l, j)
      /\ Settled(l, j) /\ Retained(l) = {} /\ l.active_identity = i /\ l.retained = <<>>
  <2> HIDE DEF i, j, s
  <2> QED
    BY <1>2, <1>3, <1>4, <1>5, <1>6, FirstLocator
<1>9. l # None
  BY <1>8, NoneAssumption
<1>10. Types'
  BY <1>7, <1>8 DEF Types, l, Phases, StorePhases
<1>11. Locks'
  BY <1>1, <1>7, <1>10, NoneAssumption
  DEF Appended, Holds, Types, Locks, Phases, StorePhases, RootPhases, SessionPhases
<1>12. rollover_intent = None /\ rollover_intent' = None /\ lock_file
  BY <1>1, <1>2, <1>7 DEF Disk, Together, Holds, Locks
<1>13. Anchored = {} /\ Pending = {i} /\ Anchored' = {i} /\ Pending' = {i}
  BY <1>2, <1>7, <1>8, <1>9, <1>12 DEF Anchored, Pending, l
<1>14. Owned'
  BY <1>3, <1>7, <1>8, <1>13, NoneAssumption DEF Owned, Disk, Exists, Target
<1>15. Fits' /\ JournalsSound' /\ Together'
  BY <1>2, <1>7, <1>8, <1>9, <1>12, <1>13 DEF Disk, Fits, JournalsSound, Together, Exists, l
<1>16. Located(locator)'
  <2>1. Len(<<>>) = 0
    OBVIOUS
  <2>2. verify_retained_instances(locator)'
    BY <1>8, <2>1 DEF verify_retained_instances, l
  <2> QED
    BY <1>7, <1>8, <2>2 DEF Located, Target, l
<1>17. Disk'
  BY <1>12, <1>14, <1>15, <1>16 DEF Disk
<1>18. CreatedPlace'
  BY <1>2, <1>4, <1>5, <1>7, <1>8, <1>9 DEF CreatedPlace, Target, Newest, l
<1>19. \A q \in Procs : Place(phase[q])'
  <2>1. phase'[p] = "created" /\ store_lock' = p
    BY <1>1, <1>7 DEF Holds, Types
  <2> QED
    BY <1>10, <1>11, <1>18, <2>1, PlaceOfHolder DEF Place
<1> QED
  BY <1>10, <1>11, <1>17, <1>19

-----------------------------------------------------------------------------
(* Handing out an open handle, and what commit does with it.                *)

\* The facts of the active journal, wherever a process stands.
LEMMA ActiveJournal ==
  ASSUME SnapshotInv, locator # None
  PROVE  /\ locator \in SnapshotLocator /\ locator.active_identity \in Instances
         /\ validate_locator(locator) /\ Located(locator)
         /\ journals[locator.active_identity] \in Journal
         /\ Active(locator, journals[locator.active_identity])
         /\ Len(journals[locator.active_identity].records) <= MaxRecords
<1>1. locator \in SnapshotLocator /\ locator.active_identity \in Instances /\ Located(locator)
  BY DEF SnapshotInv, Types, Disk, SnapshotLocator
<1>2. validate_locator(locator) /\ Active(locator, journals[locator.active_identity])
  BY <1>1 DEF Located
<1>3. journals[locator.active_identity] \in Journal
  BY <1>1, <1>2 DEF SnapshotInv, Types, Active
<1>4. Len(journals[locator.active_identity].records) <= MaxRecords
  BY <1>1, <1>2 DEF SnapshotInv, Disk, JournalsSound, Sound, Exists, Active
<1> QED
  BY <1>1, <1>2, <1>3, <1>4

\* Opens: the handle's snapshot is the newest one, and the locator covers it.
LEMMA OpensKeeps ==
  ASSUME SnapshotInv, NEW p \in Procs, store_lock = p, store_lock' = p,
         root_lock \in {p, None}, root_lock' = None,
         NEW c, Opens(p, c), locator # None,
         UNCHANGED <<journals, lock_file>>, init_intent' = None, rollover_intent' = None,
         locator' \in SnapshotLocator, Disk',
         locator'.active_identity = locator.active_identity,
         Settled(locator', journals[locator.active_identity]),
         c = Newest(journals[locator.active_identity])
  PROVE  SnapshotInv'
<1> DEFINE i == locator.active_identity
           j == journals[i]
<1>1. i \in Instances /\ j \in Journal /\ Active(locator, j)
  BY ActiveJournal
<1>2. c \in Snapshot
  <2>1. j.records \in Seq(Snapshot) /\ Len(j.records) # 0
    BY <1>1 DEF Journal, Active, MonotonicFrom
  <2> QED
    BY <2>1 DEF Newest
<1>3. /\ session' = [op |-> "none", target |-> i, pending |-> None, current |-> c]
      /\ phase' = [phase EXCEPT ![p] = "open"]
  BY DEF Opens, Goto
<1>4. session' \in Session /\ session' # None /\ session'.target = i /\ session'.current = c
  BY <1>1, <1>2, <1>3, NoneAssumption DEF Session
<1>5. locator' # None /\ c # None
  BY <1>2, NoneAssumption
<1>6. Types'
  BY <1>3, <1>4 DEF SnapshotInv, Types, Phases, StorePhases
<1>7. lock_file
  BY DEF SnapshotInv, Disk, Together
<1>8. Locks'
  BY <1>3, <1>4, <1>6, <1>7, NoneAssumption
  DEF SnapshotInv, Types, Locks, Phases, StorePhases, RootPhases, SessionPhases
<1>9. OpenPlace'
  BY <1>4, <1>5 DEF OpenPlace, Target
<1>10. \A q \in Procs : Place(phase[q])'
  <2>1. phase'[p] = "open"
    BY <1>3 DEF SnapshotInv, Types
  <2> QED
    BY <1>6, <1>8, <1>9, <2>1, PlaceOfHolder DEF Place
<1> QED
  BY <1>6, <1>8, <1>10 DEF SnapshotInv

\* The intent of an initialization whose locator is there names nothing new.
LEMMA InitIntentRemoved ==
  ASSUME SnapshotInv, locator # None, init_intent # None, init_intent' = None,
         UNCHANGED <<journals, locator, rollover_intent, lock_file>>
  PROVE  Disk' /\ rollover_intent = None
<1> USE DEF SnapshotInv
<1>1. rollover_intent = None /\ init_intent.physical_id = locator.active_identity
  BY DEF Disk, Together
<1>2. Anchored' = Anchored /\ Pending' = {} /\ Pending \subseteq Anchored
  BY <1>1 DEF Anchored, Pending
<1>3. Anchored' \union Pending' = Anchored \union Pending
  BY <1>2
<1>4. Owned' /\ Fits' /\ JournalsSound' /\ Together'
  BY <1>1, <1>2, <1>3 DEF Disk, Owned, Fits, JournalsSound, Together, Exists
<1>5. Located(locator)'
  BY DEF Disk, Located, verify_retained_instances, Records
<1> QED
  BY <1>1, <1>4, <1>5 DEF Disk

\* The creator removes the intent its locator made redundant.
LEMMA RemoveInitIntentKeeps ==
  ASSUME SnapshotInv, NEW p \in Procs, RemoveInitIntent(p)
  PROVE  SnapshotInv'
<1>1. Holds(p, "created") /\ CreatedPlace
  BY DEF RemoveInitIntent, Holds, SnapshotInv, Place
<1>2. /\ locator # None /\ init_intent # None /\ session.target = locator.active_identity
      /\ Settled(locator, Target) /\ session.pending = Newest(Target)
  BY <1>1 DEF CreatedPlace
<1>3. /\ init_intent' = None /\ root_lock' = None /\ Opens(p, session.pending)
      /\ UNCHANGED <<journals, locator, rollover_intent, lock_file, store_lock>>
  BY DEF RemoveInitIntent
<1>4. Disk' /\ rollover_intent = None
  BY <1>2, <1>3, InitIntentRemoved
<1>5. root_lock = p
  BY <1>1 DEF Holds, SnapshotInv, Locks, RootPhases
<1> QED
  BY <1>1, <1>2, <1>3, <1>4, <1>5, OpensKeeps, ActiveJournal DEF Holds, Target

\* Recovery removes an intent a crash left beside the locator.
LEMMA RecoverInitAfterLocatorKeeps ==
  ASSUME SnapshotInv, NEW p \in Procs, RecoverInitAfterLocator(p)
  PROVE  SnapshotInv'
<1>1. Holds(p, "recover") /\ locator # None /\ init_intent # None
  BY DEF RecoverInitAfterLocator, Holds, SnapshotInv, Place
<1>2. /\ init_intent' = None
      /\ UNCHANGED <<journals, locator, rollover_intent, lock_file, store_lock, root_lock,
                     phase, session>>
  BY DEF RecoverInitAfterLocator
<1>3. Disk'
  BY <1>1, <1>2, InitIntentRemoved
<1>4. Types' /\ Locks'
  BY <1>1, <1>2 DEF Holds, SnapshotInv, Types, Locks
<1>5. \A q \in Procs : Place(phase[q])'
  BY <1>1, <1>2, <1>4, PlaceOfHolder DEF Holds, Place
<1> QED
  BY <1>3, <1>4, <1>5 DEF SnapshotInv

\* Recovery ends with a handle on the newest snapshot.
LEMMA FinishOpenKeeps ==
  ASSUME SnapshotInv, NEW p \in Procs, FinishOpen(p)
  PROVE  SnapshotInv'
<1> DEFINE i == locator.active_identity
           j == journals[i]
<1>1. /\ Holds(p, "load") /\ root_lock = None
      /\ locator # None /\ init_intent = None /\ rollover_intent = None
  BY DEF FinishOpen, Loaded, Holds, SnapshotInv, Place
<1>2. locator \in SnapshotLocator /\ validate_locator(locator) /\ j \in Journal /\ Active(locator, j)
  BY <1>1, ActiveJournal
<1>3. HeadExact(j)
  <2>1. i \in Loading(p)
    BY <1>1 DEF Loading, RecoveringRollover, Holds
  <2> QED
    BY <2>1 DEF FinishOpen, Loaded
<1>4. Newest(j).generation = locator.generation
  BY DEF FinishOpen, LocatorExact, Records, Newest
<1>5. Settled(locator, j)
  <2> DEFINE n == Len(j.records)
  <2>1. n \in {Covered(locator), Covered(locator) + 1} /\ MonotonicFrom(locator, j.records)
    BY <1>2 DEF Active
  <2>2. /\ Covered(locator) \in Nat \ {0} /\ locator.active_start_generation \in Nat
        /\ locator.generation = locator.active_start_generation + Covered(locator) - 1
    BY <1>2, LocatorNumbers DEF SnapshotLocator
  <2>3. n \in 1..n
    BY <2>1, <2>2
  <2>4. j.records[n].generation = locator.active_start_generation + n - 1
    BY <2>1, <2>3 DEF MonotonicFrom
  <2>5. n = Covered(locator)
    BY <1>4, <2>1, <2>2, <2>4 DEF Newest
  <2> QED
    BY <1>3, <2>5 DEF Settled
<1>6. /\ Opens(p, Newest(j))
      /\ UNCHANGED <<disk, store_lock, root_lock>>
  BY DEF FinishOpen, Newest, Records
<1>7. Disk'
  BY <1>6, DiskStays DEF SnapshotInv, disk
<1> QED
  BY <1>1, <1>2, <1>5, <1>6, <1>7, OpensKeeps DEF Holds, disk

\* A commit chooses the record it appends next.
LEMMA BeginCommitKeeps ==
  ASSUME SnapshotInv, NEW p \in Procs, NEW token \in Tokens, NEW value \in Values,
         BeginCommit(p, token, value)
  PROVE  SnapshotInv'
<1> DEFINE j == journals[locator.active_identity]
           s == [generation |-> session.current.generation + 1,
                 token |-> token, value |-> value]
<1>1. /\ Holds(p, "open") /\ OpenPlace
      /\ token > session.current.token /\ Len(j.records) < MaxRecords
      /\ session' = [session EXCEPT !.op = "commit", !.pending = s]
      /\ phase' = [phase EXCEPT ![p] = "append"]
      /\ UNCHANGED <<disk, store_lock, root_lock>>
  BY DEF BeginCommit, Holds, SnapshotInv, Place, OpenPlace, append_ok, Target, Goto
<1>2. /\ locator # None /\ init_intent = None /\ rollover_intent = None
      /\ session.target = locator.active_identity
      /\ Settled(locator, j) /\ session.current = Newest(j)
  BY <1>1 DEF OpenPlace, Target
<1>3. locator \in SnapshotLocator /\ validate_locator(locator) /\ j \in Journal /\ Active(locator, j)
  BY <1>2, ActiveJournal
<1>4. /\ Newest(j) \in Snapshot /\ Newest(j).generation = locator.generation
      /\ Newest(j).token = locator.token
  BY <1>2, <1>3, SettledNewest DEF Settled
<1>5. s \in Snapshot
  <2>1. session.current.generation + 1 \in Nat
    BY <1>2, <1>4 DEF Snapshot
  <2> QED
    BY <2>1 DEF Snapshot
<1>6. session \in Session
  BY <1>1 DEF SnapshotInv, Types, Locks, Holds, SessionPhases
<1>7. s.generation = locator.generation + 1 /\ s.token > locator.token
  BY <1>1, <1>2, <1>4
<1> HIDE DEF s
<1>8. /\ session' \in Session /\ session' # None /\ session'.op = "commit" /\ session'.pending = s
      /\ session'.target = locator.active_identity
  BY <1>1, <1>2, <1>5, <1>6, NoneAssumption DEF Session
<1>9. Types'
  BY <1>1, <1>8 DEF SnapshotInv, Types, disk, Phases, StorePhases
<1>10. Locks'
  BY <1>1, <1>8, <1>9, NoneAssumption
  DEF SnapshotInv, Types, Locks, Holds, disk, Phases, StorePhases, RootPhases, SessionPhases
<1>11. Disk'
  BY <1>1, DiskStays DEF SnapshotInv, disk
<1>12. Filling(j, Covered(locator), s)
  <2>1. Len(j.records) \in Nat /\ Len(j.records) = Covered(locator) /\ HeadExact(j) /\ j # None
    BY <1>2, <1>3 DEF Journal, Settled, Active
  <2> QED
    BY <1>1, <2>1, MaxRecordsAssumption DEF Filling, HeadExact
<1>13. AppendPlace'
  BY <1>1, <1>2, <1>5, <1>7, <1>8, <1>12, NoneAssumption DEF AppendPlace, Target, disk
<1>14. \A q \in Procs : Place(phase[q])'
  <2>1. phase'[p] = "append" /\ store_lock' = p
    BY <1>1 DEF SnapshotInv, Types, Holds
  <2> QED
    BY <1>9, <1>10, <1>13, <2>1, PlaceOfHolder DEF Place
<1> QED
  BY <1>9, <1>10, <1>11, <1>14 DEF SnapshotInv

\* A commit moves the locator over the record it appended.
LEMMA AdvanceLocatorKeeps ==
  ASSUME SnapshotInv, NEW p \in Procs, AdvanceLocator(p)
  PROVE  SnapshotInv'
<1> DEFINE i == locator.active_identity
           j == journals[i]
           n == Covered(locator)
<1>1. Appended(p, "commit") /\ Holds(p, "append") /\ AppendPlace /\ session.op = "commit"
  BY DEF AdvanceLocator, Appended, Appending, Holds, SnapshotInv, Place
<1>2. /\ locator # None /\ init_intent = None /\ rollover_intent = None
      /\ session.target = i /\ session.pending # None
      /\ session.pending.generation = locator.generation + 1
      /\ Filling(j, n, session.pending)
  BY <1>1 DEF AppendPlace, Target
<1>3. locator \in SnapshotLocator /\ validate_locator(locator) /\ j \in Journal /\ Active(locator, j)
  BY <1>2, ActiveJournal
<1>4. /\ n \in Nat \ {0} /\ locator.active_start_generation \in Nat /\ locator.generation \in Nat
      /\ locator.generation = locator.active_start_generation + n - 1
  BY <1>3, LocatorNumbers DEF SnapshotLocator
<1>5. Len(j.records) = n + 1 /\ HeadExact(j) /\ root_lock = None
  <2>1. Len(j.records) = session.pending.generation - locator.active_start_generation + 1
    BY <1>1, <1>2 DEF Appended, Sequence, Target
  <2>2. Len(j.records) = n + 1
    BY <1>2, <1>4, <2>1
  <2> QED
    BY <1>1, <1>2, <2>2 DEF Appended, Target
<1>6. session.pending = Newest(j)
  BY <1>2, <1>4, <1>5 DEF Filling, Newest
<1>7. /\ locator' = Advanced(locator) /\ Opens(p, session.pending)
      /\ UNCHANGED <<journals, init_intent, rollover_intent, lock_file, store_lock, root_lock>>
  BY DEF AdvanceLocator
<1>8. /\ Disk' /\ locator' \in SnapshotLocator /\ locator'.active_identity = i
      /\ Covered(locator') = Len(j.records)
  BY <1>2, <1>5, <1>7, AdvanceKeepsDisk DEF Records
<1>9. Settled(locator', j)
  BY <1>5, <1>8 DEF Settled
<1> QED
  BY <1>1, <1>2, <1>5, <1>6, <1>7, <1>8, <1>9, OpensKeeps DEF Holds

\* Recovery moves the locator over a record a crash left uncovered.
LEMMA CatchUpLocatorKeeps ==
  ASSUME SnapshotInv, NEW p \in Procs, CatchUpLocator(p)
  PROVE  SnapshotInv'
<1> DEFINE i == locator.active_identity
           j == journals[i]
<1>1. /\ Holds(p, "load")
      /\ locator # None /\ init_intent = None /\ rollover_intent = None
  BY DEF CatchUpLocator, Loaded, Holds, SnapshotInv, Place
<1>2. locator \in SnapshotLocator /\ validate_locator(locator) /\ j \in Journal /\ Active(locator, j)
  BY <1>1, ActiveJournal
<1>3. Len(j.records) # Covered(locator)
  <2>1. SUFFICES ASSUME Len(j.records) = Covered(locator) PROVE LocatorExact(locator)
    BY DEF CatchUpLocator
  <2>2. /\ Newest(j).generation = locator.generation /\ Newest(j).token = locator.token
        /\ locator.terminal_mac = terminal_mac(i, j)
    BY <1>2, <2>1, SettledNewest
  <2> QED
    BY <2>2 DEF LocatorExact, Newest, Records
<1>4. Len(j.records) = Covered(locator) + 1
  BY <1>2, <1>3 DEF Active
<1>5. /\ locator' = Advanced(locator)
      /\ UNCHANGED <<journals, init_intent, rollover_intent, lock_file, store_lock, root_lock,
                     phase, session>>
  BY DEF CatchUpLocator
<1>6. Disk' /\ locator' \in SnapshotLocator /\ locator' # None
  BY <1>1, <1>4, <1>5, AdvanceKeepsDisk DEF Records
<1>7. Types' /\ Locks'
  BY <1>5, <1>6 DEF SnapshotInv, Types, Locks
<1>8. \A q \in Procs : Place(phase[q])'
  <2>1. phase'[p] = "load" /\ store_lock' = p
    BY <1>1, <1>5 DEF Holds
  <2> QED
    BY <1>1, <1>5, <1>6, <1>7, <2>1, PlaceOfHolder DEF Place
<1> QED
  BY <1>6, <1>7, <1>8 DEF SnapshotInv

-----------------------------------------------------------------------------
(* Rollover, by the process that began it or by the one that recovers it.   *)

\* The step of a recovery, which moves nothing but the files.
LEMMA RecoveringKeeps ==
  ASSUME SnapshotInv, NEW p \in Procs, Holds(p, "recover"), Disk',
         journals' \in [Instances -> Journal \union {None}],
         locator' \in SnapshotLocator, rollover_intent' \in RolloverIntent \union {None},
         UNCHANGED <<init_intent, lock_file, store_lock, root_lock, phase, session>>
  PROVE  SnapshotInv'
<1>1. Types' /\ Locks'
  BY DEF SnapshotInv, Types, Locks
<1>2. locator' # None
  BY NoneAssumption
<1>3. phase'[p] = "recover" /\ store_lock' = p
  BY DEF Holds
<1>4. \A q \in Procs : Place(phase[q])'
  BY <1>1, <1>2, <1>3, PlaceOfHolder DEF Place
<1> QED
  BY <1>1, <1>4 DEF SnapshotInv

\* The directory of a prepared candidate comes and goes without touching the rest.
LEMMA CandidateReplaced ==
  ASSUME SnapshotInv, rollover_intent # None, rollover_intent.phase = "Prepared",
         NEW j \in Journal \union {None}, j # None => Sound(j) /\ j.records = <<>>,
         journals' = [journals EXCEPT ![Candidate] = j],
         UNCHANGED <<locator, init_intent, rollover_intent, lock_file>>
  PROVE  Disk' /\ journals' \in [Instances -> Journal \union {None}]
<1> USE DEF SnapshotInv
<1> DEFINE c == Candidate
<1>1. /\ locator # None /\ c \in Instances
      /\ c # locator.active_identity /\ c \notin Retained(locator)
  BY PreparedIsPrevious, CandidateApart
<1>2. /\ journals' \in [Instances -> Journal \union {None}]
      /\ journals'[c] = j /\ \A k \in Instances \ {c} : journals'[k] = journals[k]
  BY <1>1 DEF Types
<1>3. Anchored' = Anchored /\ Pending' = Pending /\ c \notin Anchored /\ c \in Pending
  <2>1. Anchored' = Anchored /\ Pending' = Pending
    BY DEF Anchored, Pending
  <2>2. c \notin Anchored
    BY <1>1 DEF Anchored
  <2>3. c \in Pending
    BY DEF Pending, Candidate
  <2> QED
    BY <2>1, <2>2, <2>3
<1>4. Owned' /\ Fits' /\ Together'
  <2>1. Owned'
    BY <1>2, <1>3, NamedInstances DEF Disk, Owned, Exists
  <2> QED
    BY <1>3, <2>1 DEF Disk, Fits, Together
<1>5. JournalsSound'
  BY <1>2 DEF Disk, JournalsSound, Exists
<1>6. Located(locator)'
  <2>1. \A k \in Retained(locator) : journals'[k] = journals[k]
    BY <1>1, <1>2, NamedInstances DEF Anchored
  <2>2. \A k \in 1..Len(locator.retained) : locator.retained[k].identity \in Retained(locator)
    BY DEF Retained
  <2>3. verify_retained_instances(locator)'
    <3>1. \A k \in 1..Len(locator.retained) :
            journals'[locator.retained[k].identity] = journals[locator.retained[k].identity]
      BY <2>1, <2>2
    <3>2. verify_retained_instances(locator) /\ locator' = locator
      BY <1>1 DEF Disk, Located
    <3> QED
      BY <3>1, <3>2, RetainedStay
  <2>4. locator.active_identity \in Instances
    BY <1>1 DEF Types, SnapshotLocator
  <2>5. Active(locator, journals[locator.active_identity])'
    BY <1>1, <1>2, <2>4 DEF Disk, Located
  <2> QED
    BY <1>1, <2>1, <2>3, <2>5 DEF Disk, Located
<1>7. Rollover(rollover_intent)'
  <2>1. journals'[locator.active_identity] = journals[locator.active_identity]
    BY <1>1, <1>2 DEF Types, SnapshotLocator
  <2> QED
    BY <1>2, <2>1 DEF Disk, Rollover, Candidate
<1> QED
  BY <1>1, <1>2, <1>4, <1>5, <1>6, <1>7 DEF Disk

\* The prepared rollover intent, on the settled journal.
LEMMA PrepareRolloverKeeps ==
  ASSUME SnapshotInv, NEW p \in Procs, NEW token \in Tokens, NEW value \in Values,
         PrepareRollover(p, token, value)
  PROVE  SnapshotInv'
<1> DEFINE i == locator.active_identity
           j == journals[i]
           c == random_identifier
           s == [generation |-> session.current.generation + 1,
                 token |-> token, value |-> value]
           r == [phase |-> "Prepared", previous_identity |-> i,
                 previous_start_generation |-> locator.active_start_generation,
                 previous_generation |-> session.current.generation,
                 previous_token |-> session.current.token,
                 previous_terminal_mac |-> locator.terminal_mac,
                 candidate_run_id |-> c, expected_snapshot |-> s,
                 next_terminal_mac |-> None]
<1>1. /\ Holds(p, "open") /\ OpenPlace /\ root_lock = None
      /\ token > session.current.token /\ Len(locator.retained) < MaxRetained
      /\ Cardinality(Anchored \union Pending) < MaxPhysicalInstances
      /\ rollover_intent' = r
      /\ session' = [session EXCEPT !.op = "rollover", !.target = c, !.pending = s]
      /\ phase' = [phase EXCEPT ![p] = "prepared"]
      /\ UNCHANGED <<journals, locator, init_intent, lock_file, store_lock, root_lock>>
  BY DEF PrepareRollover, Holds, SnapshotInv, Place, OpenPlace, Goto
<1>2. /\ locator # None /\ init_intent = None /\ rollover_intent = None
      /\ session.target = i /\ Settled(locator, j) /\ session.current = Newest(j)
  BY <1>1 DEF OpenPlace, Target
<1>3. /\ locator \in SnapshotLocator /\ validate_locator(locator) /\ i \in Instances
      /\ j \in Journal /\ Active(locator, j)
  BY <1>2, ActiveJournal
<1>4. /\ Newest(j) \in Snapshot /\ Newest(j).generation = locator.generation
      /\ Newest(j).token = locator.token
  BY <1>2, <1>3, SettledNewest DEF Settled
<1>5. c \in Instances /\ ~Exists(c) /\ c \notin Anchored \union Pending
  BY FreshIdentifier DEF SnapshotInv, Disk
<1>6. s \in Snapshot /\ s.generation = locator.generation + 1 /\ s.token > locator.token
  <2>1. session.current.generation + 1 \in Nat
    BY <1>2, <1>4 DEF Snapshot
  <2>2. s \in Snapshot
    BY <2>1 DEF Snapshot
  <2> QED
    BY <1>1, <1>2, <1>4, <2>2
<1> HIDE DEF s, c
<1>7. /\ r \in RolloverIntent
      /\ r.phase = "Prepared" /\ r.candidate_run_id = c /\ r.expected_snapshot = s
      /\ r.previous_identity = i /\ r.previous_generation = locator.generation
      /\ r.previous_token = locator.token
      /\ r.previous_start_generation = locator.active_start_generation
      /\ r.previous_terminal_mac = locator.terminal_mac
  <2>1. /\ locator.active_start_generation \in Nat /\ locator.generation \in Nat
        /\ locator.token \in Nat /\ locator.terminal_mac \in Mac
    BY <1>3 DEF SnapshotLocator
  <2> QED
    BY <1>2, <1>3, <1>4, <1>5, <1>6, <2>1 DEF RolloverIntent
<1> HIDE DEF r
<1>8. r # None
  BY <1>7, NoneAssumption
<1>9. session \in Session
  BY <1>1 DEF SnapshotInv, Types, Locks, Holds, SessionPhases
<1>10. /\ session' \in Session /\ session' # None
       /\ session'.op = "rollover" /\ session'.target = c /\ session'.pending = s
  BY <1>1, <1>5, <1>6, <1>9, NoneAssumption DEF Session
<1>11. Types'
  BY <1>1, <1>7, <1>10 DEF SnapshotInv, Types, Phases, StorePhases
<1>12. Locks'
  BY <1>1, <1>10, <1>11, NoneAssumption
  DEF SnapshotInv, Types, Locks, Holds, Phases, StorePhases, RootPhases, SessionPhases
<1>13. Anchored' = Anchored /\ Pending = {} /\ Pending' = {c}
  BY <1>1, <1>2, <1>7, <1>8 DEF Anchored, Pending
<1>14. Fits'
  <2> DEFINE N == Anchored \union Pending
  <2>1. IsFiniteSet(N) /\ Cardinality(N) \in Nat /\ c \notin N
    BY <1>5, NamedInstances DEF SnapshotInv
  <2>2. Cardinality(N \union {c}) = Cardinality(N) + 1
    BY <2>1, FS_AddElement
  <2>3. Anchored' \union Pending' = N \union {c}
    BY <1>13
  <2>4. Cardinality(N) < MaxPhysicalInstances
    BY <1>1
  <2> HIDE DEF N
  <2>5. Cardinality(N \union {c}) <= MaxPhysicalInstances
    BY <2>1, <2>2, <2>4, BoundsAssumption
  <2> QED
    BY <2>3, <2>5 DEF Fits
<1>15. Owned' /\ JournalsSound' /\ Together'
  BY <1>1, <1>2, <1>8, <1>13 DEF SnapshotInv, Disk, Owned, JournalsSound, Together, Exists
<1>16. Located(locator)'
  BY <1>1, <1>2 DEF SnapshotInv, Disk, Located, verify_retained_instances, Records
<1>17. Rollover(rollover_intent)'
  <2>1. c # i /\ c \notin Retained(locator)
    BY <1>2, <1>5 DEF Anchored
  <2>2. journals[c] = None
    BY <1>5 DEF Exists
  <2>3. locator_matches_rollover_previous(locator, r)
    BY <1>7 DEF locator_matches_rollover_previous
  <2>4. r.previous_identity # r.candidate_run_id
        /\ r.expected_snapshot.generation = r.previous_generation + 1
        /\ r.expected_snapshot.token > r.previous_token
    BY <1>6, <1>7, <2>1
  <2>5. /\ locator' = locator /\ journals' = journals /\ rollover_intent' = r
        /\ Settled(locator, j) /\ Len(locator.retained) < MaxRetained
    BY <1>1, <1>2
  <2>6. Rollover(r)
    BY <1>7, <2>1, <2>2, <2>3, <2>4, <2>5 DEF Rollover
  <2> QED
    BY <2>5, <2>6 DEF Rollover
<1>18. Disk'
  BY <1>14, <1>15, <1>16, <1>17 DEF Disk
<1>19. RolloverPlace("prepared")'
  BY <1>1, <1>5, <1>7, <1>8, <1>10 DEF RolloverPlace, Candidate, Exists
<1>20. \A q \in Procs : Place(phase[q])'
  <2>1. phase'[p] = "prepared" /\ store_lock' = p
    BY <1>1 DEF SnapshotInv, Types, Holds
  <2> QED
    BY <1>11, <1>12, <1>19, <2>1, PlaceOfHolder DEF Place
<1> QED
  BY <1>11, <1>12, <1>18, <1>20 DEF SnapshotInv

\* The candidate's empty directory.
LEMMA CreateCandidateKeeps ==
  ASSUME SnapshotInv, NEW p \in Procs, CreateCandidate(p)
  PROVE  SnapshotInv'
<1>1. Holds(p, "prepared") /\ RolloverPlace("prepared")
  BY DEF CreateCandidate, Holds, SnapshotInv, Place
<1>2. /\ rollover_intent # None /\ rollover_intent.phase = "Prepared"
      /\ session.target = Candidate /\ session.pending = rollover_intent.expected_snapshot
  BY <1>1 DEF RolloverPlace
<1>3. /\ journals' = [journals EXCEPT ![Candidate] = create_journal]
      /\ phase' = [phase EXCEPT ![p] = "append"]
      /\ UNCHANGED <<locator, init_intent, rollover_intent, lock_file,
                     store_lock, root_lock, session>>
  BY <1>2 DEF CreateCandidate, SetJournal, Goto
<1>4. Sound(create_journal) /\ create_journal \in Journal /\ create_journal.records = <<>>
  BY EmptyJournal DEF create_journal
<1>5. Disk' /\ journals' \in [Instances -> Journal \union {None}]
  BY <1>2, <1>3, <1>4, CandidateReplaced
<1>6. Types'
  BY <1>3, <1>5 DEF SnapshotInv, Types, Phases, StorePhases
<1>7. Locks'
  BY <1>1, <1>3, <1>6, NoneAssumption
  DEF SnapshotInv, Types, Locks, Holds, Phases, StorePhases, RootPhases, SessionPhases
<1>8. journals'[Candidate] = create_journal
  BY <1>2, <1>3, PreparedIsPrevious, CandidateApart DEF SnapshotInv, Types
<1>9. session.op = "rollover" /\ session.pending # None
  <2>1. rollover_intent.expected_snapshot \in Snapshot
    BY <1>2 DEF SnapshotInv, Types, RolloverIntent
  <2> QED
    BY <1>1, <1>2, <2>1, NoneAssumption DEF RolloverPlace
<1>10. AppendPlace'
  BY <1>2, <1>3, <1>8, <1>9, EmptyJournal DEF AppendPlace, Target, Candidate
<1>11. \A q \in Procs : Place(phase[q])'
  <2>1. phase'[p] = "append" /\ store_lock' = p
    BY <1>1, <1>3 DEF SnapshotInv, Types, Holds
  <2> QED
    BY <1>6, <1>7, <1>10, <2>1, PlaceOfHolder DEF Place
<1> QED
  BY <1>5, <1>6, <1>7, <1>11 DEF SnapshotInv

\* Recovery removes the candidate of a rollover that was not ready.
LEMMA DiscardCandidateKeeps ==
  ASSUME SnapshotInv, NEW p \in Procs, DiscardCandidate(p)
  PROVE  SnapshotInv'
<1>1. /\ Holds(p, "recover") /\ rollover_intent # None /\ rollover_intent.phase = "Prepared"
      /\ journals' = [journals EXCEPT ![Candidate] = None]
      /\ Goto(p, "discarding")
      /\ UNCHANGED <<locator, init_intent, rollover_intent, lock_file,
                     store_lock, root_lock, session>>
  BY DEF DiscardCandidate, RecoveringRollover, SetJournal
<1>2. Disk' /\ journals' \in [Instances -> Journal \union {None}]
  BY <1>1, CandidateReplaced
<1>3. Types'
  BY <1>1, <1>2 DEF SnapshotInv, Types, Phases, StorePhases, Goto
<1>4. Locks'
  BY <1>1, <1>3, NoneAssumption
  DEF SnapshotInv, Types, Locks, Phases, StorePhases, RootPhases, SessionPhases, Goto, Holds
<1>5. \A q \in Procs : Place(phase[q])'
  <2>1. locator' # None
    BY <1>1 DEF SnapshotInv, Disk, Together
  <2>2. phase'[p] = "discarding" /\ store_lock' = p
    BY <1>1 DEF SnapshotInv, Types, Goto, Holds
  <2> QED
    BY <1>3, <1>4, <2>1, <2>2, PlaceOfHolder DEF Place
<1> QED
  BY <1>2, <1>3, <1>4, <1>5 DEF SnapshotInv

\* The renamed directory is deleted; the files that anything reads stay.
LEMMA DeleteQuarantinedKeeps ==
  ASSUME SnapshotInv, NEW p \in Procs, DeleteQuarantined(p)
  PROVE  SnapshotInv'
<1> USE DEF DeleteQuarantined, Holds, Goto, SnapshotInv
<1>1. Types'
  BY DEF Types, Phases, StorePhases
<1>2. Locks'
  BY <1>1, NoneAssumption DEF Types, Locks, Phases, StorePhases, RootPhases, SessionPhases
<1>3. Disk'
  BY DiskStays
<1>4. Place(phase[p])'
  <2>1. CASE phase[p] = "abandoned" /\ UNCHANGED phase
    BY <2>1 DEF Place, Exists
  <2>2. CASE phase[p] = "discarding" /\ Goto(p, "recover")
    <3>1. phase'[p] = "recover" /\ locator' # None
      BY <2>2 DEF Types, Place
    <3> QED
      BY <3>1 DEF Place
  <2> QED
    BY <2>1, <2>2
<1>5. \A q \in Procs : Place(phase[q])'
  BY <1>1, <1>2, <1>4, PlaceOfHolder
<1> QED
  BY <1>1, <1>2, <1>3, <1>5

\* A pending rollover that is given up or done with, and whose candidate is not left behind.
LEMMA RolloverForgotten ==
  ASSUME SnapshotInv, rollover_intent # None, rollover_intent' = None,
         UNCHANGED <<journals, locator, init_intent, lock_file>>,
         \/ rollover_intent.phase = "Prepared" /\ ~Exists(Candidate)
         \/ rollover_intent.phase = "Ready" /\ Candidate = locator.active_identity
  PROVE  Disk' /\ locator # None /\ init_intent = None
<1> USE DEF SnapshotInv
<1>1. locator # None /\ init_intent = None
  BY DEF Disk, Together
<1>2. Anchored' = Anchored /\ Pending' = {}
  BY <1>1 DEF Anchored, Pending, Candidate
<1>3. \A i \in Pending : ~Exists(i)
  BY <1>1 DEF Pending, Candidate
<1>4. Owned'
  BY <1>2, <1>3 DEF Disk, Owned, Exists
<1>5. Fits'
  <2> DEFINE N == Anchored \union Pending
             M == Anchored' \union Pending'
  <2>1. IsFiniteSet(N) /\ Cardinality(N) \in Nat /\ M \subseteq N
    BY <1>2, NamedInstances
  <2>2. Cardinality(M) \in Nat /\ Cardinality(M) <= Cardinality(N)
    <3>1. IsFiniteSet(M)
      BY <2>1, FS_Subset
    <3> QED
      BY <2>1, <3>1, FS_Subset, FS_CardinalityType
  <2> QED
    BY <2>1, <2>2, BoundsAssumption DEF Disk, Fits
<1>6. JournalsSound' /\ Together'
  BY <1>1 DEF Disk, JournalsSound, Together, Exists
<1>7. Located(locator)'
  BY <1>1 DEF Disk, Located, verify_retained_instances, Records
<1> QED
  BY <1>1, <1>4, <1>5, <1>6, <1>7 DEF Disk

\* Recovery then removes that rollover's intent.
LEMMA DiscardIntentKeeps ==
  ASSUME SnapshotInv, NEW p \in Procs, DiscardIntent(p)
  PROVE  SnapshotInv'
<1>1. /\ Holds(p, "recover") /\ rollover_intent # None /\ rollover_intent.phase = "Prepared"
      /\ ~Exists(Candidate) /\ rollover_intent' = None
      /\ UNCHANGED <<journals, locator, init_intent, lock_file,
                     store_lock, root_lock, phase, session>>
  BY DEF DiscardIntent, RecoveringRollover
<1>2. Disk' /\ locator # None
  BY <1>1, RolloverForgotten
<1>3. locator' \in SnapshotLocator /\ journals' \in [Instances -> Journal \union {None}]
  BY <1>1, <1>2 DEF SnapshotInv, Types
<1> QED
  BY <1>1, <1>2, <1>3, RecoveringKeeps

\* The candidate's record is durable: the intent binds it.
LEMMA BecomesReady ==
  ASSUME SnapshotInv, rollover_intent # None, rollover_intent.phase = "Prepared",
         journals[Candidate] # None, HeadExact(journals[Candidate]),
         journals[Candidate].records = <<rollover_intent.expected_snapshot>>,
         rollover_intent' = Ready(rollover_intent),
         UNCHANGED <<journals, locator, init_intent, lock_file>>
  PROVE  /\ Disk' /\ rollover_intent' \in RolloverIntent /\ rollover_intent' # None
         /\ rollover_intent'.phase = "Ready" /\ Candidate' = Candidate
         /\ rollover_intent'.expected_snapshot = rollover_intent.expected_snapshot
         /\ LocatorIsPrevious' /\ locator # None
<1> USE DEF SnapshotInv
<1> DEFINE r == rollover_intent
           t == rollover_intent'
           c == Candidate
           j == journals[c]
<1>1. /\ locator # None /\ init_intent = None /\ c \in Instances /\ r \in RolloverIntent
      /\ j \in Journal /\ LocatorIsPrevious
  BY PreparedIsPrevious, CandidateApart DEF Disk, Together, Types
<1>2. terminal_mac(c, j) \in Mac
  <2>1. Len(j.records) \in 0..Len(j.records)
    BY <1>1 DEF Journal
  <2> QED
    BY <1>1, <2>1, MacType DEF terminal_mac
<1>3. t = [r EXCEPT !.phase = "Ready", !.next_terminal_mac = terminal_mac(c, j)]
  BY DEF Ready, Candidate
<1>4. /\ t \in RolloverIntent
      /\ t.phase = "Ready" /\ t.next_terminal_mac = terminal_mac(c, j)
      /\ t.candidate_run_id = c /\ t.expected_snapshot = r.expected_snapshot
      /\ t.previous_identity = r.previous_identity
      /\ t.previous_start_generation = r.previous_start_generation
      /\ t.previous_generation = r.previous_generation
      /\ t.previous_token = r.previous_token
      /\ t.previous_terminal_mac = r.previous_terminal_mac
  <2> HIDE DEF j
  <2> QED
    BY <1>1, <1>2, <1>3 DEF RolloverIntent, Candidate
<1>5. t # None
  BY <1>4, NoneAssumption
<1>6. LocatorIsPrevious'
  BY <1>1, <1>4 DEF LocatorIsPrevious, locator_matches_rollover_previous
<1>7. /\ Pending = {c} /\ Pending' = {} /\ Anchored' = Anchored \union {c}
  BY <1>1, <1>4, <1>5 DEF Pending, Anchored, Candidate
<1>8. Anchored' \union Pending' = Anchored \union Pending
  BY <1>7
<1>9. Owned' /\ Fits' /\ JournalsSound' /\ Together'
  BY <1>1, <1>7, <1>8 DEF Disk, Owned, Fits, JournalsSound, Together, Exists
<1>10. Located(locator)'
  BY <1>1 DEF Disk, Located, verify_retained_instances, Records
<1>11. Rollover(t)
  <2>1. Rollover(r)
    BY DEF Disk
  <2>2. /\ locator_matches_rollover_previous(locator, t)
        /\ r.candidate_run_id = c
    BY <1>1, <1>4 DEF LocatorIsPrevious, locator_matches_rollover_previous, Candidate
  <2>3. /\ r.candidate_run_id \notin Retained(locator)
        /\ Len(locator.retained) < MaxRetained
    BY <1>1, <2>1 DEF Rollover, LocatorIsPrevious
  <2>4. /\ r.previous_identity # r.candidate_run_id
        /\ r.expected_snapshot.generation = r.previous_generation + 1
        /\ r.expected_snapshot.token > r.previous_token
        /\ Settled(locator, journals[locator.active_identity])
    BY <2>1 DEF Rollover
  <2>5. j # None /\ HeadExact(j) /\ j.records = <<r.expected_snapshot>>
    OBVIOUS
  <2> HIDE DEF t, r, j
  <2> QED
    BY <1>4, <2>2, <2>3, <2>4, <2>5 DEF Rollover, j
<1>12. Rollover(rollover_intent)'
  BY <1>11 DEF Rollover
<1> QED
  BY <1>1, <1>4, <1>5, <1>6, <1>9, <1>10, <1>12 DEF Disk, Candidate

\* The intent becomes ready once the candidate holds its record.
LEMMA WriteReadyIntentKeeps ==
  ASSUME SnapshotInv, NEW p \in Procs, WriteReadyIntent(p)
  PROVE  SnapshotInv'
<1> DEFINE s == session.pending
<1>1. /\ Appended(p, "rollover") /\ Holds(p, "append") /\ AppendPlace
      /\ session.op = "rollover" /\ root_lock = None
  BY DEF WriteReadyIntent, Appended, Appending, Holds, SnapshotInv, Place
<1>2. /\ rollover_intent # None /\ rollover_intent.phase = "Prepared"
      /\ session.target = Candidate /\ s = rollover_intent.expected_snapshot
      /\ s # None /\ Filling(Target, 0, s)
  BY <1>1 DEF AppendPlace
<1>3. session \in Session /\ s \in Snapshot
  BY <1>1, <1>2 DEF SnapshotInv, Types, Locks, Holds, SessionPhases, Session
<1>4. Target \in Journal
  BY <1>2, <1>3 DEF SnapshotInv, Types, Target, Filling, Session
<1>5. Len(Target.records) = 1 /\ HeadExact(Target)
  BY <1>1 DEF Appended, Sequence
<1>6. Target.records = <<s>>
  <2>1. Target.records \in {<<>>, <<s>>}
    BY <1>2, <1>3, <1>4, FillingFromEmpty
  <2>2. Len(<<>>) = 0
    OBVIOUS
  <2> QED
    BY <1>5, <2>1, <2>2
<1>7. /\ rollover_intent' = Ready(rollover_intent)
      /\ phase' = [phase EXCEPT ![p] = "ready"]
      /\ UNCHANGED <<journals, locator, init_intent, lock_file, store_lock, root_lock, session>>
  BY DEF WriteReadyIntent, Goto
<1>8. /\ Disk' /\ rollover_intent' \in RolloverIntent /\ rollover_intent' # None
      /\ rollover_intent'.phase = "Ready" /\ Candidate' = Candidate
      /\ rollover_intent'.expected_snapshot = rollover_intent.expected_snapshot
      /\ LocatorIsPrevious'
  BY <1>2, <1>4, <1>5, <1>6, <1>7, BecomesReady, NoneAssumption DEF Target
<1>9. Types'
  BY <1>7, <1>8 DEF SnapshotInv, Types, Phases, StorePhases
<1>10. Locks'
  BY <1>1, <1>7, <1>9, NoneAssumption
  DEF SnapshotInv, Types, Locks, Holds, Phases, StorePhases, RootPhases, SessionPhases
<1>11. RolloverPlace("ready")'
  BY <1>1, <1>2, <1>7, <1>8 DEF RolloverPlace
<1>12. \A q \in Procs : Place(phase[q])'
  <2>1. phase'[p] = "ready" /\ store_lock' = p
    BY <1>1, <1>7 DEF SnapshotInv, Types, Holds
  <2> QED
    BY <1>9, <1>10, <1>11, <2>1, PlaceOfHolder DEF Place
<1> QED
  BY <1>8, <1>9, <1>10, <1>12 DEF SnapshotInv

\* Recovery finds a complete candidate and makes its intent ready.
LEMMA PromoteIntentKeeps ==
  ASSUME SnapshotInv, NEW p \in Procs, PromoteIntent(p)
  PROVE  SnapshotInv'
<1>1. /\ Holds(p, "recover") /\ rollover_intent # None /\ rollover_intent.phase = "Prepared"
      /\ journals[Candidate] # None /\ HeadExact(journals[Candidate])
      /\ journals[Candidate].records = <<rollover_intent.expected_snapshot>>
      /\ rollover_intent' = Ready(rollover_intent)
      /\ UNCHANGED <<journals, locator, init_intent, lock_file,
                     store_lock, root_lock, phase, session>>
  BY DEF PromoteIntent, CandidateLoaded, RecoveringRollover, FirstRecordExists, Exists, Records,
         validate_rollover_candidate, Candidate
<1>2. Disk' /\ rollover_intent' \in RolloverIntent /\ locator # None
  BY <1>1, BecomesReady
<1>3. locator' \in SnapshotLocator /\ journals' \in [Instances -> Journal \union {None}]
  BY <1>1, <1>2 DEF SnapshotInv, Types
<1> QED
  BY <1>1, <1>2, <1>3, RecoveringKeeps

\* The anchor of the journal that a locator leaves behind, and the locator that follows.
Anchor(l) ==
  [identity |-> l.active_identity, start_generation |-> l.active_start_generation,
   end_generation |-> l.generation, terminal_token |-> l.token, terminal_mac |-> l.terminal_mac]
Following(l, c, s, j) ==
  [active_identity |-> c, active_start_generation |-> s.generation,
   generation |-> s.generation, token |-> s.token, prior_token |-> l.token,
   terminal_mac |-> terminal_mac(c, j), retained |-> Append(l.retained, Anchor(l))]

\* The anchors are the old ones and the one of the journal left behind.
LEMMA FollowingRetained ==
  ASSUME NEW l \in SnapshotLocator, NEW n \in Nat, n = Len(l.retained)
  PROVE  /\ Append(l.retained, Anchor(l)) \in Seq(RetainedAnchor)
         /\ Len(Append(l.retained, Anchor(l))) = n + 1
         /\ Append(l.retained, Anchor(l))[n + 1] = Anchor(l)
         /\ \A k \in 1..n : Append(l.retained, Anchor(l))[k] = l.retained[k]
         /\ Anchor(l).identity = l.active_identity
         /\ Anchor(l).start_generation = l.active_start_generation
         /\ Anchor(l).end_generation = l.generation
         /\ Anchor(l).terminal_token = l.token
         /\ Anchor(l).terminal_mac = l.terminal_mac
<1>1. Anchor(l) \in RetainedAnchor
  BY DEF Anchor, RetainedAnchor, SnapshotLocator
<1>2. l.retained \in Seq(RetainedAnchor)
  BY DEF SnapshotLocator
<1>3. /\ Anchor(l).identity = l.active_identity
      /\ Anchor(l).start_generation = l.active_start_generation
      /\ Anchor(l).end_generation = l.generation
      /\ Anchor(l).terminal_token = l.token
      /\ Anchor(l).terminal_mac = l.terminal_mac
  BY DEF Anchor
<1> HIDE DEF Anchor
<1>4. /\ Append(l.retained, Anchor(l)) \in Seq(RetainedAnchor)
      /\ Len(Append(l.retained, Anchor(l))) = n + 1
      /\ Append(l.retained, Anchor(l))[n + 1] = Anchor(l)
      /\ \A k \in 1..n : Append(l.retained, Anchor(l))[k] = l.retained[k]
  BY <1>1, <1>2
<1> QED
  BY <1>3, <1>4

\* Switched: the locator that follows is valid and covers the candidate's one record.
LEMMA FollowingLocator ==
  ASSUME NEW l \in SnapshotLocator, validate_locator(l),
         NEW c \in Instances, c \notin Retained(l), c # l.active_identity,
         Len(l.retained) < MaxRetained,
         NEW s \in Snapshot, s.generation = l.generation + 1, s.token > l.token,
         NEW j \in Journal, Len(j.records) = 1, j.records[1] = s, HeadExact(j),
         NEW m, m = Following(l, c, s, j)
  PROVE  /\ m \in SnapshotLocator /\ validate_locator(m) /\ Active(m, j) /\ Settled(m, j)
         /\ m.active_identity = c /\ m.retained = Append(l.retained, Anchor(l))
         /\ m.active_start_generation = l.generation + 1 /\ m.generation = l.generation + 1
         /\ m.terminal_mac = terminal_mac(c, j)
         /\ Retained(m) = Retained(l) \union {l.active_identity}
<1> DEFINE n == Len(l.retained)
           as == Append(l.retained, Anchor(l))
<1>1. /\ n \in Nat /\ l.generation \in Nat /\ l.active_start_generation \in Nat
      /\ l.token \in Nat /\ l.prior_token \in Nat /\ l.retained \in Seq(RetainedAnchor)
  BY DEF SnapshotLocator
<1>2. s.token \in Nat /\ s.generation \in Nat
  BY BoundsAssumption DEF Snapshot, Tokens
<1>3. /\ as \in Seq(RetainedAnchor) /\ Len(as) = n + 1
      /\ as[n + 1] = Anchor(l) /\ \A k \in 1..n : as[k] = l.retained[k]
      /\ Anchor(l).identity = l.active_identity
      /\ Anchor(l).start_generation = l.active_start_generation
      /\ Anchor(l).end_generation = l.generation
      /\ Anchor(l).terminal_token = l.token
  BY <1>1, FollowingRetained
<1> HIDE DEF as
<1>4. terminal_mac(c, j) \in Mac
  BY MacType DEF terminal_mac
<1>5. /\ m \in SnapshotLocator
      /\ m.active_identity = c /\ m.active_start_generation = s.generation
      /\ m.generation = s.generation /\ m.token = s.token /\ m.prior_token = l.token
      /\ m.terminal_mac = terminal_mac(c, j) /\ m.retained = as
  BY <1>1, <1>2, <1>3, <1>4 DEF Following, SnapshotLocator, as
<1>6. Covered(m) = 1
  BY <1>2, <1>5 DEF Covered
<1>7. Retained(m) = Retained(l) \union {l.active_identity}
  <2>1. \A k \in 1..n + 1 : k \in 1..n \/ k = n + 1
    BY <1>1
  <2>2. n + 1 \in 1..n + 1 /\ \A k \in 1..n : k \in 1..n + 1
    BY <1>1
  <2>3. Retained(m) = {as[k].identity : k \in 1..n + 1}
    BY <1>3, <1>5 DEF Retained
  <2>4. Retained(l) = {l.retained[k].identity : k \in 1..n}
    BY DEF Retained
  <2>5. Retained(m) \subseteq Retained(l) \union {l.active_identity}
    BY <1>3, <2>1, <2>3, <2>4
  <2>6. l.active_identity \in Retained(m)
    BY <1>3, <2>2, <2>3
  <2>7. Retained(l) \subseteq Retained(m)
    BY <1>3, <2>2, <2>3, <2>4
  <2> QED
    BY <2>5, <2>6, <2>7
<1>8. validate_locator(m)
  <2> DEFINE Start(ts, k) == IF k = 1 THEN 1 ELSE ts[k - 1].end_generation + 1
             Prior(ts, k) == IF k = 1 THEN 0 ELSE ts[k - 1].terminal_token
  <2>1. /\ \A k \in 1..n :
             /\ l.retained[k].start_generation = Start(l.retained, k)
             /\ l.retained[k].end_generation >= l.retained[k].start_generation
             /\ l.retained[k].terminal_token > Prior(l.retained, k)
        /\ l.active_start_generation = Start(l.retained, n + 1)
        /\ l.prior_token = Prior(l.retained, n + 1)
        /\ l.active_start_generation <= l.generation /\ l.prior_token < l.token
    BY DEF validate_locator
  <2>2. \A k \in 1..n + 1 : Start(as, k) = Start(l.retained, k) /\ Prior(as, k) = Prior(l.retained, k)
    <3> SUFFICES ASSUME NEW k \in 1..n + 1, k # 1 PROVE as[k - 1] = l.retained[k - 1]
      OBVIOUS
    <3>1. k - 1 \in 1..n
      BY <1>1
    <3> QED
      BY <1>3, <3>1
  <2>3. ASSUME NEW k \in 1..n + 1
        PROVE  /\ as[k].start_generation = Start(as, k)
               /\ as[k].end_generation >= as[k].start_generation
               /\ as[k].terminal_token > Prior(as, k)
               /\ as[k].identity # c
    <3>1. CASE k \in 1..n
      <4>1. as[k] = l.retained[k] /\ l.retained[k].identity \in Retained(l)
        BY <1>3, <3>1 DEF Retained
      <4> QED
        BY <2>1, <2>2, <3>1, <4>1
    <3>2. CASE k = n + 1
      <4>1. as[k] = Anchor(l)
        BY <1>3, <3>2
      <4>2. l.generation >= l.active_start_generation /\ l.token > l.prior_token
        BY <1>1, <2>1
      <4>3. Start(as, k) = l.active_start_generation /\ Prior(as, k) = l.prior_token
        BY <2>1, <2>2, <3>2
      <4> HIDE DEF Start, Prior
      <4> QED
        BY <1>3, <4>1, <4>2, <4>3
    <3>3. k \in 1..n \/ k = n + 1
      BY <1>1
    <3> QED
      BY <3>1, <3>2, <3>3
  <2> DEFINE a == Len(as)
  <2>5. m.active_start_generation = Start(as, a + 1) /\ m.prior_token = Prior(as, a + 1)
    <3> DEFINE b == a + 1
    <3>1. b # 1 /\ b - 1 = n + 1
      BY <1>1, <1>3
    <3>2. m.active_start_generation = l.generation + 1 /\ m.prior_token = l.token
      BY <1>5
    <3> HIDE DEF b
    <3>3. as[b - 1] = Anchor(l)
      BY <1>3, <3>1
    <3>4. Start(as, b) = l.generation + 1 /\ Prior(as, b) = l.token
      BY <1>3, <3>1, <3>3
    <3> HIDE DEF Start, Prior
    <3> QED
      BY <3>2, <3>4 DEF b
  <2>6. a <= MaxRetained
    BY <1>1, <1>3, BoundsAssumption
  <2>60. \A k \in 1..a :
           /\ as[k].start_generation = Start(as, k)
           /\ as[k].end_generation >= as[k].start_generation
           /\ as[k].terminal_token > Prior(as, k)
           /\ as[k].identity # m.active_identity
    <3>1. 1..a = 1..n + 1 /\ m.active_identity = c
      BY <1>3, <1>5
    <3> HIDE DEF Start, Prior, as, a, n
    <3> QED
      BY <2>3, <3>1
  <2>7. /\ m.active_start_generation <= m.generation
        /\ m.generation - m.active_start_generation < MaxRecords
        /\ m.prior_token < m.token
    BY <1>1, <1>2, <1>5, MaxRecordsAssumption
  <2>8. m.retained = as
    BY <1>5
  <2> QED
    BY <2>5, <2>6, <2>60, <2>7, <2>8 DEF validate_locator
<1>9. MonotonicFrom(m, j.records)
  <2>1. j.records # <<>>
    <3>1. Len(<<>>) = 0
      OBVIOUS
    <3> QED
      BY <3>1
  <2> QED
    BY <1>1, <1>2, <1>5, <2>1 DEF MonotonicFrom
<1>10. Active(m, j)
  BY <1>5, <1>6, <1>9, NoneAssumption DEF Active, terminal_mac, HeadExact
<1> QED
  BY <1>5, <1>6, <1>7, <1>8, <1>10 DEF Settled, as

\* The journal left behind is retained as its anchor says, and so are the earlier ones.
LEMMA FollowingVerified ==
  ASSUME NEW l \in SnapshotLocator, validate_locator(l), verify_retained_instances(l),
         NEW j \in Journal, j = journals[l.active_identity], Active(l, j), Settled(l, j),
         NEW m, m.retained = Append(l.retained, Anchor(l))
  PROVE  verify_retained_instances(m)
<1> DEFINE n == Len(l.retained)
           as == Append(l.retained, Anchor(l))
           a == Anchor(l)
<1>1. /\ n \in Nat /\ l.generation \in Nat /\ l.active_start_generation \in Nat
  BY DEF SnapshotLocator
<1>2. /\ Len(as) = n + 1 /\ as[n + 1] = a /\ \A k \in 1..n : as[k] = l.retained[k]
      /\ a.identity = l.active_identity
      /\ a.start_generation = l.active_start_generation
      /\ a.end_generation = l.generation
      /\ a.terminal_token = l.token /\ a.terminal_mac = l.terminal_mac
  BY <1>1, FollowingRetained
<1> HIDE DEF as, a
<1> DEFINE Before(ts, k) == IF k > 1 THEN ts[k - 1].terminal_token ELSE 0
           Verified(ts, k) ==
             LET anchor == ts[k]
                 rs == Records(anchor.identity)
             IN /\ Len(rs) = anchor.end_generation - anchor.start_generation + 1
                /\ \A i \in 1..Len(rs) :
                     /\ rs[i].generation = anchor.start_generation + i - 1
                     /\ rs[i].token > IF i > 1 THEN rs[i - 1].token ELSE Before(ts, k)
                /\ terminal_mac(anchor.identity, journals[anchor.identity]) = anchor.terminal_mac
                /\ rs[Len(rs)].token = anchor.terminal_token
<1>3. \A k \in 1..n : Verified(l.retained, k)
  BY DEF verify_retained_instances
<1>4. ASSUME NEW k \in 1..n + 1 PROVE Before(as, k) = Before(l.retained, k)
  <2> SUFFICES ASSUME k > 1 PROVE as[k - 1] = l.retained[k - 1]
    OBVIOUS
  <2>1. k - 1 \in 1..n
    BY <1>1
  <2> QED
    BY <1>2, <2>1
<1>5. l.prior_token = Before(l.retained, n + 1)
  <2>1. l.prior_token = IF n + 1 = 1 THEN 0 ELSE l.retained[n + 1 - 1].terminal_token
    BY DEF validate_locator
  <2>2. n + 1 > 1 <=> n + 1 # 1
    BY <1>1
  <2> QED
    BY <2>1, <2>2
<1>6. ASSUME NEW k \in 1..n PROVE Verified(as, k)
  <2>1. as[k] = l.retained[k] /\ Before(as, k) = Before(l.retained, k) /\ Verified(l.retained, k)
    <3>1. k \in 1..n + 1
      BY <1>1
    <3> QED
      BY <1>2, <1>3, <1>4, <3>1
  <2> HIDE DEF Before
  <2> QED
    BY <2>1
<1>7. Verified(as, n + 1)
  <2> DEFINE rs == j.records
             b == Before(as, n + 1)
  <2>1. b = l.prior_token
    <3>1. n + 1 \in 1..n + 1
      BY <1>1
    <3> QED
      BY <1>4, <1>5, <3>1
  <2>2. /\ Len(rs) = Covered(l) /\ Covered(l) \in Nat \ {0}
        /\ Len(rs) = l.generation - l.active_start_generation + 1
    BY LocatorNumbers DEF Settled, Covered
  <2>3. ASSUME NEW i \in 1..Len(rs)
        PROVE  /\ rs[i].generation = l.active_start_generation + i - 1
               /\ rs[i].token > IF i > 1 THEN rs[i - 1].token ELSE l.prior_token
    <3>1. /\ rs[i].generation = l.active_start_generation + i - 1
          /\ rs[i].token > IF i = 1 THEN l.prior_token ELSE rs[i - 1].token
      BY DEF Active, MonotonicFrom
    <3>2. i > 1 <=> i # 1
      BY <2>2
    <3> QED
      BY <3>1, <3>2
  <2>4. /\ terminal_mac(l.active_identity, j) = l.terminal_mac
        /\ rs[Len(rs)].token = l.token
    BY <2>2 DEF Active, Settled, terminal_mac
  <2>5. Records(a.identity) = rs /\ journals[a.identity] = j
    BY <1>2 DEF Records
  <2>6. as[n + 1] = a
    BY <1>2
  <2> HIDE DEF Before, rs, b
  <2>7. /\ Len(rs) = a.end_generation - a.start_generation + 1
        /\ \A i \in 1..Len(rs) :
             /\ rs[i].generation = a.start_generation + i - 1
             /\ rs[i].token > IF i > 1 THEN rs[i - 1].token ELSE b
        /\ terminal_mac(a.identity, j) = a.terminal_mac
        /\ rs[Len(rs)].token = a.terminal_token
    BY <1>2, <2>1, <2>2, <2>3, <2>4
  <2> QED
    BY <2>5, <2>6, <2>7 DEF b
<1>8. \A k \in 1..Len(as) : Verified(as, k)
  <2>1. \A k \in 1..n + 1 : k \in 1..n \/ k = n + 1
    BY <1>1
  <2> HIDE DEF Verified
  <2> QED
    BY <1>2, <1>6, <1>7, <2>1
<1>9. m.retained = as
  BY DEF as
<1> QED
  BY <1>8, <1>9 DEF verify_retained_instances

\* The locator moves to the candidate.
LEMMA SwitchKeepsDisk ==
  ASSUME SnapshotInv, rollover_intent # None, rollover_intent.phase = "Ready", LocatorIsPrevious,
         locator' = Switched(locator, rollover_intent),
         UNCHANGED <<journals, init_intent, rollover_intent, lock_file>>
  PROVE  Disk' /\ locator' \in SnapshotLocator /\ LocatorIsNext'
<1> USE DEF SnapshotInv
<1> DEFINE r == rollover_intent
           c == Candidate
           cj == journals[c]
           l == locator
           m == locator'
           s == r.expected_snapshot
           j == journals[l.active_identity]
<1>1. /\ l # None /\ l \in SnapshotLocator /\ validate_locator(l) /\ Located(l)
      /\ c \in Instances /\ c # l.active_identity /\ c \notin Retained(l)
      /\ j \in Journal /\ Active(l, j) /\ r \in RolloverIntent /\ s \in Snapshot
      /\ init_intent = None
  BY CandidateApart, ActiveJournal DEF Types, RolloverIntent, Disk, Together
<1>2. /\ r.previous_identity # c /\ s.generation = r.previous_generation + 1
      /\ s.token > r.previous_token /\ Settled(l, j)
      /\ cj # None /\ cj.records = <<s>> /\ HeadExact(cj)
      /\ r.next_terminal_mac = terminal_mac(c, cj)
      /\ Len(l.retained) < MaxRetained
  BY DEF Disk, Rollover, LocatorIsPrevious, Candidate
<1>3. s.generation = l.generation + 1 /\ s.token > l.token
  BY <1>2 DEF LocatorIsPrevious, locator_matches_rollover_previous
<1>4. cj \in Journal /\ Len(cj.records) = 1 /\ cj.records[1] = s
  <2>1. cj \in Journal
    BY <1>1, <1>2 DEF Types
  <2> QED
    BY <1>2, <2>1
<1>5. m = Following(l, c, s, cj)
  BY <1>4 DEF Switched, Following, Anchor, Candidate, Records
<1>6. /\ m \in SnapshotLocator /\ validate_locator(m) /\ Active(m, cj) /\ Settled(m, cj)
      /\ m.active_identity = c /\ m.retained = Append(l.retained, Anchor(l))
      /\ m.active_start_generation = l.generation + 1 /\ m.generation = l.generation + 1
      /\ m.terminal_mac = terminal_mac(c, cj)
      /\ Retained(m) = Retained(l) \union {l.active_identity}
  <2>1. l \in SnapshotLocator /\ validate_locator(l) /\ c \in Instances /\ c \notin Retained(l)
        /\ c # l.active_identity /\ Len(l.retained) < MaxRetained /\ s \in Snapshot
        /\ HeadExact(cj)
    BY <1>1, <1>2
  <2> HIDE DEF m, c, cj, s, l
  <2> QED
    BY <1>3, <1>4, <1>5, <2>1, FollowingLocator
<1>7. m # None
  BY <1>6, NoneAssumption
<1>8. Anchored' = Anchored /\ Pending' = Pending
  BY <1>1, <1>6, <1>7 DEF Anchored, Pending, Candidate
<1>9. Owned' /\ Fits' /\ JournalsSound' /\ Together'
  BY <1>1, <1>7, <1>8 DEF Disk, Owned, Fits, JournalsSound, Together, Exists
<1>10. verify_retained_instances(m)
  <2>1. verify_retained_instances(l)
    BY <1>1 DEF Located
  <2> HIDE DEF m
  <2> QED
    BY <1>1, <1>2, <1>6, <2>1, FollowingVerified
<1>11. Located(locator)'
  <2>1. \A i \in Retained(m) : HeadExact(journals[i])
    BY <1>1, <1>2, <1>6 DEF Located, Settled
  <2>2. verify_retained_instances(locator)'
    BY <1>10 DEF verify_retained_instances, Records
  <2> QED
    BY <1>6, <2>1, <2>2 DEF Located
<1>12. LocatorIsNext'
  <2>1. r.previous_generation = l.generation
    BY DEF LocatorIsPrevious, locator_matches_rollover_previous
  <2> QED
    BY <1>2, <1>6, <2>1 DEF LocatorIsNext, locator_matches_rollover_next, Candidate
<1>13. Rollover(rollover_intent)'
  <2>1. Settled(m, journals[m.active_identity])
    BY <1>6
  <2>2. ~locator_matches_rollover_previous(m, r)
    BY <1>2, <1>6 DEF locator_matches_rollover_previous
  <2> QED
    BY <1>2, <1>12, <2>1, <2>2 DEF Rollover, Candidate, LocatorIsNext
<1> QED
  BY <1>6, <1>9, <1>11, <1>12, <1>13 DEF Disk

\* The locator switches to the candidate and retains the previous journal.
LEMMA SwitchLocatorKeeps ==
  ASSUME SnapshotInv, NEW p \in Procs, SwitchLocator(p)
  PROVE  SnapshotInv'
<1>1. Holds(p, "ready") /\ RolloverPlace("ready")
  BY DEF SwitchLocator, Holds, SnapshotInv, Place
<1>2. /\ rollover_intent # None /\ rollover_intent.phase = "Ready" /\ LocatorIsPrevious
      /\ session.op = "rollover"
      /\ session.target = Candidate /\ session.pending = rollover_intent.expected_snapshot
  BY <1>1 DEF RolloverPlace
<1>3. /\ locator' = Switched(locator, rollover_intent) /\ root_lock = None /\ root_lock' = p
      /\ phase' = [phase EXCEPT ![p] = "switched"]
      /\ UNCHANGED <<journals, init_intent, rollover_intent, lock_file, store_lock, session>>
  BY DEF SwitchLocator, Goto
<1>4. Disk' /\ locator' \in SnapshotLocator /\ LocatorIsNext'
  BY <1>2, <1>3, SwitchKeepsDisk
<1>5. Types'
  BY <1>3, <1>4 DEF SnapshotInv, Types, Phases, StorePhases
<1>6. Locks'
  BY <1>1, <1>3, <1>5, NoneAssumption
  DEF SnapshotInv, Types, Locks, Holds, Phases, StorePhases, RootPhases, SessionPhases
<1>7. RolloverPlace("switched")'
  BY <1>2, <1>3, <1>4 DEF RolloverPlace, Candidate
<1>8. \A q \in Procs : Place(phase[q])'
  <2>1. phase'[p] = "switched" /\ store_lock' = p
    BY <1>1, <1>3 DEF SnapshotInv, Types, Holds
  <2> QED
    BY <1>5, <1>6, <1>7, <2>1, PlaceOfHolder DEF Place
<1> QED
  BY <1>4, <1>5, <1>6, <1>8 DEF SnapshotInv

\* Recovery switches the locator of a ready rollover.
LEMMA RollForwardKeeps ==
  ASSUME SnapshotInv, NEW p \in Procs, RollForward(p)
  PROVE  SnapshotInv'
<1>1. /\ Holds(p, "recover") /\ rollover_intent # None /\ LocatorIsPrevious
      /\ rollover_intent = Ready(rollover_intent)
      /\ locator' = Switched(locator, rollover_intent)
      /\ UNCHANGED <<journals, init_intent, rollover_intent, lock_file,
                     store_lock, root_lock, phase, session>>
  BY DEF RollForward, CandidateLoaded, RecoveringRollover
<1>2. rollover_intent \in RolloverIntent
  BY <1>1 DEF SnapshotInv, Types
<1>3. rollover_intent.phase = "Ready"
  <2>1. Ready(rollover_intent).phase = "Ready"
    BY <1>2 DEF Ready, RolloverIntent
  <2> QED
    BY <1>1, <2>1
<1>4. Disk' /\ locator' \in SnapshotLocator
  BY <1>1, <1>3, SwitchKeepsDisk
<1>5. rollover_intent' \in RolloverIntent /\ journals' \in [Instances -> Journal \union {None}]
  BY <1>1, <1>2 DEF SnapshotInv, Types
<1> QED
  BY <1>1, <1>4, <1>5, RecoveringKeeps

\* Once the locator names the candidate, the intent is done with.
LEMMA NextIsReady ==
  ASSUME SnapshotInv, rollover_intent # None, LocatorIsNext
  PROVE  /\ rollover_intent.phase = "Ready" /\ Candidate = locator.active_identity
         /\ locator # None
         /\ Settled(locator, journals[locator.active_identity])
         /\ journals[locator.active_identity].records = <<rollover_intent.expected_snapshot>>
BY DEF SnapshotInv, Disk, Together, Rollover, LocatorIsNext, locator_matches_rollover_next,
       Candidate

\* The intent goes once the locator has switched.
LEMMA RemoveRolloverIntentKeeps ==
  ASSUME SnapshotInv, NEW p \in Procs, RemoveRolloverIntent(p)
  PROVE  SnapshotInv'
<1> DEFINE j == journals[locator.active_identity]
<1>1. Holds(p, "switched") /\ RolloverPlace("switched")
  BY DEF RemoveRolloverIntent, Holds, SnapshotInv, Place
<1>2. /\ rollover_intent # None /\ LocatorIsNext
      /\ session.pending = rollover_intent.expected_snapshot
  BY <1>1 DEF RolloverPlace
<1>3. /\ rollover_intent' = None /\ root_lock' = None /\ Opens(p, session.pending)
      /\ UNCHANGED <<journals, locator, init_intent, lock_file, store_lock>>
  BY DEF RemoveRolloverIntent
<1>4. /\ rollover_intent.phase = "Ready" /\ Candidate = locator.active_identity /\ locator # None
      /\ Settled(locator, j) /\ j.records = <<rollover_intent.expected_snapshot>>
  BY <1>2, NextIsReady
<1>5. Disk' /\ init_intent = None
  BY <1>2, <1>3, <1>4, RolloverForgotten
<1>6. root_lock = p
  BY <1>1 DEF Holds, SnapshotInv, Locks, RootPhases
<1>7. session.pending = Newest(j)
  BY <1>2, <1>4 DEF Newest
<1> QED
  BY <1>1, <1>3, <1>4, <1>5, <1>6, <1>7, OpensKeeps, ActiveJournal DEF Holds

\* Recovery removes the intent of a rollover that has switched.
LEMMA FinishRollForwardKeeps ==
  ASSUME SnapshotInv, NEW p \in Procs, FinishRollForward(p)
  PROVE  SnapshotInv'
<1>1. /\ Holds(p, "recover") /\ rollover_intent # None /\ LocatorIsNext
      /\ rollover_intent' = None
      /\ UNCHANGED <<journals, locator, init_intent, lock_file,
                     store_lock, root_lock, phase, session>>
  BY DEF FinishRollForward, CandidateLoaded, RecoveringRollover
<1>2. rollover_intent.phase = "Ready" /\ Candidate = locator.active_identity /\ locator # None
  BY <1>1, NextIsReady
<1>3. Disk'
  BY <1>1, <1>2, RolloverForgotten
<1>4. locator' \in SnapshotLocator /\ journals' \in [Instances -> Journal \union {None}]
  BY <1>1, <1>2 DEF SnapshotInv, Types
<1> QED
  BY <1>1, <1>3, <1>4, RecoveringKeeps

-----------------------------------------------------------------------------
(* Mending a journal.                                                       *)

\* What load_and_recover does to a journal whose append was interrupted.
Mended(j, j2) == j2 \in {remove_record_temp(j), publish_head(j)} /\ ~HeadExact(j)

\* Repairing a journal keeps its records and only completes its head.
LEMMA MendedJournal ==
  ASSUME NEW j \in Journal, Sound(j), NEW j2, Mended(j, j2)
  PROVE  /\ j2 \in Journal /\ Sound(j2) /\ j2.records = j.records
         /\ j2.head \in {j.head, Len(j.records)}
<1>1. Len(j.records) \in Nat /\ j.head \in Nat
  BY DEF Journal
<1>2. CASE j2 = remove_record_temp(j)
  <2>1. j2 \in Journal /\ j2.records = j.records /\ j2.head = j.head /\ j2.record_temp = 0
    BY <1>2 DEF Journal, remove_record_temp
  <2> QED
    BY <2>1 DEF Sound, recover_temporary_files_ok
<1>3. CASE j2 = publish_head(j)
  <2>1. /\ j2 \in Journal /\ j2.records = j.records /\ j2.head = Len(j.records)
        /\ j2.record_temp = j.record_temp
    BY <1>1, <1>3 DEF Journal, publish_head
  <2> QED
    BY <1>1, <2>1 DEF Sound, recover_temporary_files_ok
<1> QED
  BY <1>2, <1>3 DEF Mended

\* Only the active journal or a prepared candidate is ever in need of it.
LEMMA MendKeeps ==
  ASSUME SnapshotInv, NEW p \in Procs, NEW i \in Loading(p), NEW j, Mended(journals[i], j),
         SetJournal(i, j), OnlyJournals
  PROVE  SnapshotInv'
<1> USE DEF SnapshotInv
<1>1. /\ journals' = [journals EXCEPT ![i] = j]
      /\ UNCHANGED <<locator, init_intent, rollover_intent, lock_file, store_lock, root_lock,
                     phase, session>>
  BY DEF SetJournal, OnlyJournals
<1>2. /\ i \in Instances /\ journals[i] # None
      /\ locator # None => i \notin Retained(locator)
      /\ store_lock = p
      /\ \/ /\ phase[p] = "recover" /\ rollover_intent # None /\ i = Candidate
            /\ rollover_intent.phase = "Prepared" /\ locator # None
            /\ i # locator.active_identity
         \/ /\ phase[p] = "load" /\ rollover_intent = None /\ locator # None /\ init_intent = None
            /\ i = locator.active_identity
  <2>1. CASE RecoveringRollover(p)
    <3>1. i = Candidate /\ FirstRecordExists /\ store_lock = p /\ phase[p] = "recover"
          /\ rollover_intent # None
      BY <2>1 DEF Loading, RecoveringRollover, Holds
    <3>2. rollover_intent.phase = "Prepared"
      BY <3>1 DEF Disk, Rollover, Candidate, Mended, Types, RolloverIntent
    <3>3. /\ locator # None /\ i \in Instances /\ i # locator.active_identity
          /\ i \notin Retained(locator)
      BY <3>1, <3>2, PreparedIsPrevious, CandidateApart
    <3> QED
      BY <3>1, <3>2, <3>3 DEF FirstRecordExists, Exists
  <2>2. CASE ~RecoveringRollover(p)
    <3>1. /\ Holds(p, "load") /\ i \in Retained(locator) \union {locator.active_identity}
      BY <2>2 DEF Loading
    <3>2. locator # None /\ rollover_intent = None /\ init_intent = None
      BY <3>1 DEF Holds, Place
    <3>3. i \notin Retained(locator)
      BY <3>2 DEF Disk, Located, Mended
    <3>4. locator.active_identity \in Instances /\ Active(locator, journals[locator.active_identity])
      BY <3>2, ActiveJournal
    <3> QED
      BY <3>1, <3>2, <3>3, <3>4 DEF Holds, Active
  <2> QED
    BY <2>1, <2>2
<1>3. journals[i] \in Journal /\ Sound(journals[i])
  BY <1>2 DEF Types, Disk, JournalsSound, Exists
<1>4. /\ j \in Journal /\ Sound(j) /\ j.records = journals[i].records
      /\ j.head \in {journals[i].head, Len(journals[i].records)}
  BY <1>3, MendedJournal
<1>5. ASSUME locator # None, i = locator.active_identity PROVE Active(locator, j)
  <2>1. Active(locator, journals[i])
    BY <1>5, ActiveJournal
  <2>2. Len(j.records) \in Nat /\ Len(j.records) # 0
    BY <1>4, <2>1 DEF Active, MonotonicFrom, Journal
  <2> QED
    BY <1>4, <2>1, <2>2, NoneAssumption DEF Active, mac
<1>6. ASSUME rollover_intent # None PROVE Rollover(rollover_intent)'
  <2>1. /\ journals'[i] = j /\ i = Candidate /\ rollover_intent.phase = "Prepared"
        /\ locator.active_identity \in Instances
        /\ journals'[locator.active_identity] = journals[locator.active_identity]
    BY <1>1, <1>2, <1>6 DEF Types, SnapshotLocator
  <2> QED
    BY <1>1, <1>2, <1>4, <1>6, <2>1 DEF Disk, Rollover, Candidate
<1>7. Disk' /\ journals' \in [Instances -> Journal \union {None}]
  BY <1>1, <1>2, <1>4, <1>5, <1>6, JournalChanges
<1>8. Types' /\ Locks'
  BY <1>1, <1>7 DEF Types, Locks
<1>9. \A q \in Procs : Place(phase[q])'
  <2>1. store_lock' = p /\ phase'[p] = phase[p]
    BY <1>1, <1>2
  <2> QED
    BY <1>1, <1>2, <1>8, <2>1, PlaceOfHolder DEF Place
<1> QED
  BY <1>7, <1>8, <1>9

\* Recovery removes a journal's temporary record.
LEMMA RecoverTemporaryFilesKeeps ==
  ASSUME SnapshotInv, NEW p \in Procs, RecoverTemporaryFiles(p)
  PROVE  SnapshotInv'
<1>1. PICK i \in Loading(p) :
        /\ journals[i].record_temp # 0 /\ SetJournal(i, remove_record_temp(journals[i]))
        /\ OnlyJournals
  BY DEF RecoverTemporaryFiles
<1>2. Mended(journals[i], remove_record_temp(journals[i]))
  BY <1>1 DEF Mended, HeadExact
<1> QED
  BY <1>1, <1>2, MendKeeps

\* Recovery publishes the head a crash left behind its records.
LEMMA RecoverHeadKeeps ==
  ASSUME SnapshotInv, NEW p \in Procs, RecoverHead(p)
  PROVE  SnapshotInv'
<1>1. PICK i \in Loading(p) :
        ~HeadExact(journals[i]) /\ SetJournal(i, publish_head(journals[i])) /\ OnlyJournals
  BY DEF RecoverHead
<1>2. Mended(journals[i], publish_head(journals[i]))
  BY <1>1 DEF Mended
<1> QED
  BY <1>1, <1>2, MendKeeps

-----------------------------------------------------------------------------
(* The invariant holds.                                                     *)

\* A root without files.
LEMMA SnapshotInitInv ==
  ASSUME SnapshotInit
  PROVE  SnapshotInv
<1> USE DEF SnapshotInit
<1>1. Types
  BY DEF Types, Phases
<1>2. Locks
  BY NoneAssumption DEF Locks, StorePhases, RootPhases, SessionPhases
<1>3. Anchored = {} /\ Pending = {}
  BY DEF Anchored, Pending
<1>4. Fits
  <2>1. Cardinality({}) = 0
    BY FS_EmptySet
  <2> QED
    BY <1>3, <2>1, BoundsAssumption DEF Fits
<1>5. Disk
  BY <1>3, <1>4 DEF Disk, Owned, JournalsSound, Together, Exists
<1>6. \A p \in Procs : Place(phase[p])
  BY DEF Place
<1> QED
  BY <1>1, <1>2, <1>5, <1>6 DEF SnapshotInv

\* Nothing changes.
LEMMA SnapshotStutter ==
  ASSUME SnapshotInv, UNCHANGED snapshotVars
  PROVE  SnapshotInv'
<1>1. Disk'
  BY DiskStays DEF SnapshotInv, snapshotVars, disk
<1>2. Types' /\ Locks'
  BY DEF SnapshotInv, snapshotVars, disk, Types, Locks
<1>3. \A p \in Procs : Place(phase[p])'
  BY DEF SnapshotInv, snapshotVars, Place, disk, AppendPlace, OpenPlace, CreatedPlace,
         RolloverPlace, Exists, Target, Candidate, LocatorIsPrevious, LocatorIsNext
<1> QED
  BY <1>1, <1>2, <1>3 DEF SnapshotInv

\* BootstrapRefused: the call returns before it changed anything.
LEMMA BootstrapRefusedKeeps ==
  ASSUME SnapshotInv, NEW p \in Procs, BootstrapRefused(p)
  PROVE  SnapshotInv'
BY SnapshotStutter DEF BootstrapRefused

\* Every step of every process, a crash included, keeps the invariant.
LEMMA SnapshotNextKeeps ==
  ASSUME SnapshotInv, [SnapshotNext]_snapshotVars
  PROVE  SnapshotInv'
<1>1. CASE UNCHANGED snapshotVars
  BY <1>1, SnapshotStutter
<1>2. ASSUME NEW p \in Procs, CreateSteps(p) PROVE SnapshotInv'
  BY <1>2, WriteFirstIntentKeeps, ReserveStoreLockKeeps, RejoinInitializationKeeps,
     BootstrapRefusedKeeps, ContinueInitializationKeeps, RemoveAbandonedCandidateKeeps,
     DeleteQuarantinedKeeps, WriteRetryIntentKeeps,
     GiveUpInitializationKeeps, CreateInitialJournalKeeps, WriteInitialLocatorKeeps,
     RemoveInitIntentKeeps DEF CreateSteps
<1>3. ASSUME NEW p \in Procs, WriteSteps(p) PROVE SnapshotInv'
  BY <1>3, BeginCommitKeeps, PrepareRolloverKeeps, AdvanceLocatorKeeps, CreateCandidateKeeps,
     WriteReadyIntentKeeps, SwitchLocatorKeeps, RemoveRolloverIntentKeeps DEF WriteSteps
<1>4. ASSUME NEW p \in Procs, OpenSteps(p) PROVE SnapshotInv'
  BY <1>4, BeginOpenKeeps, DiscardCandidateKeeps, DiscardIntentKeeps, PromoteIntentKeeps,
     RollForwardKeeps, FinishRollForwardKeeps, RecoverInitAfterLocatorKeeps,
     FinishRecoveryKeeps, RecoverTemporaryFilesKeeps, RecoverHeadKeeps,
     CatchUpLocatorKeeps, FinishOpenKeeps, LeaveKeeps DEF OpenSteps, RefuseOpen
<1>5. ASSUME NEW p \in Procs, Close(p) \/ Crash(p) PROVE SnapshotInv'
  BY <1>5, LeaveKeeps DEF Close, Crash
<1> QED
  BY <1>1, <1>2, <1>3, <1>4, <1>5, AppendStepsKeep DEF SnapshotNext, Step

\* Every state the snapshot store reaches, by any interleaving of creations, commits,
\* rollovers, recoveries and crashes, satisfies the inductive invariant: types, lock
\* ownership, what may be on the disk and what the lock's holder has done so far.
THEOREM SnapshotInvariance == SnapshotSpec => []SnapshotInv
<1>1. SnapshotInit => SnapshotInv
  BY SnapshotInitInv
<1>2. SnapshotInv /\ [SnapshotNext]_snapshotVars => SnapshotInv'
  BY SnapshotNextKeeps
<1> QED
  BY <1>1, <1>2, PTL DEF SnapshotSpec

-----------------------------------------------------------------------------
(* Recovery accepts what it finds.                                          *)

\* The root inventory is what the signed files account for.
LEMMA InventoryHolds ==
  ASSUME SnapshotInv
  PROVE  InventoryAnchored
<1>1. Anchored \subseteq Instances /\ Pending \subseteq Instances
  BY NamedInstances DEF SnapshotInv
<1>2. {i \in Instances : Exists(i)} = Anchored \union {i \in Pending : Exists(i)}
  BY <1>1 DEF SnapshotInv, Disk, Owned
<1>3. Cardinality(Anchored \union Pending) <= MaxPhysicalInstances
  BY DEF SnapshotInv, Disk, Fits
<1>4. init_intent # None /\ locator # None => init_intent.physical_id = locator.active_identity
  BY DEF SnapshotInv, Disk, Together
<1>5. rollover_intent # None =>
        /\ locator # None
        /\ \/ locator_matches_rollover_previous(locator, rollover_intent)
           \/ locator_matches_rollover_next(locator, rollover_intent)
  BY DEF SnapshotInv, Disk, Together, Rollover
<1> QED
  BY <1>2, <1>3, <1>4, <1>5 DEF InventoryAnchored

\* The directory under its deletion name, if there is one.
ResidueKnown == residue \in {"none", "plain", "linked"}

\* Only the removal of a candidate leaves one.
LEMMA ResidueStaysKnown ==
  ASSUME ResidueKnown, [SnapshotNext]_snapshotVars
  PROVE  ResidueKnown'
<1> USE DEF ResidueKnown
<1>1. CASE UNCHANGED snapshotVars
  BY <1>1 DEF snapshotVars, disk
<1>2. ASSUME NEW p \in Procs, CreateSteps(p) PROVE ResidueKnown'
  BY <1>2 DEF CreateSteps, WriteFirstIntent, ReserveStoreLock, RejoinInitialization,
     BootstrapRefused, ContinueInitialization, RemoveAbandonedCandidate, DeleteQuarantined,
     WriteRetryIntent, GiveUpInitialization, CreateInitialJournal, WriteInitialLocator,
     RemoveInitIntent, Quarantined, snapshotVars, disk
<1>3. ASSUME NEW p \in Procs, AppendSteps(p) PROVE ResidueKnown'
  BY <1>3 DEF AppendSteps, StageRecord, PublishRecord, RemoveRecordTemp, PublishHead, OnlyJournals
<1>4. ASSUME NEW p \in Procs, WriteSteps(p) PROVE ResidueKnown'
  BY <1>4 DEF WriteSteps, BeginCommit, PrepareRollover, AdvanceLocator, CreateCandidate,
     WriteReadyIntent, SwitchLocator, RemoveRolloverIntent, disk
<1>5. ASSUME NEW p \in Procs, OpenSteps(p) PROVE ResidueKnown'
  BY <1>5 DEF OpenSteps, BeginOpen, DiscardCandidate, DiscardIntent, PromoteIntent, RollForward,
     FinishRollForward, RecoverInitAfterLocator, FinishRecovery, RecoverTemporaryFiles,
     RecoverHead, CatchUpLocator, FinishOpen, RefuseOpen, Leave, OnlyJournals, Quarantined, disk
<1>6. ASSUME NEW p \in Procs, Close(p) \/ Crash(p) PROVE ResidueKnown'
  BY <1>6 DEF Close, Crash, Leave, disk
<1> QED
  BY <1>1, <1>2, <1>3, <1>4, <1>5, <1>6 DEF SnapshotNext, Step

\* The module's type invariant follows.
LEMMA SnapshotTypes ==
  ASSUME SnapshotInv, ResidueKnown
  PROVE  SnapshotTypeOK
<1>1. ASSUME NEW i \in Instances, Exists(i)
      PROVE  /\ \A n \in DOMAIN Records(i) : Records(i)[n] \in Snapshot
             /\ Len(Records(i)) <= MaxRecords
             /\ journals[i].head <= Len(Records(i))
             /\ recover_temporary_files_ok(journals[i])
  <2>1. journals[i].records \in Seq(Snapshot)
    BY <1>1 DEF SnapshotInv, Types, Exists, Journal
  <2>2. \A n \in DOMAIN Records(i) : Records(i)[n] \in Snapshot
    BY <2>1 DEF Records
  <2>3. Sound(journals[i])
    BY <1>1 DEF SnapshotInv, Disk, JournalsSound
  <2> QED
    BY <2>2, <2>3 DEF Sound, Records
<1>2. locator # None => validate_locator(locator)
  BY DEF SnapshotInv, Disk, Located
<1>3. init_intent # None => init_intent.attempt \in 1..MaxAttempts
  BY DEF SnapshotInv, Types, InitIntent
<1>4. session # None => store_lock # None
  BY NoneAssumption DEF SnapshotInv, Locks, SessionPhases, StorePhases
<1> QED
  BY <1>1, <1>2, <1>3, <1>4 DEF SnapshotTypeOK, SnapshotInv, Types, ResidueKnown

\* An open in the middle of a rollover.
LEMMA RolloverAccepted ==
  ASSUME SnapshotInv, rollover_intent # None
  PROVE  /\ LocatorIsPrevious \/ LocatorIsNext
         /\ IF FirstRecordExists
              THEN /\ LoadsUnlessLinked(journals[Candidate])
                   /\ validate_rollover_candidate(rollover_intent)
                   /\ rollover_intent.phase = "Ready" => rollover_intent = Ready(rollover_intent)
                   /\ LocatorIsPrevious => Len(locator.retained) < MaxRetained
              ELSE LocatorIsPrevious /\ rollover_intent.phase = "Prepared"
<1> DEFINE r == rollover_intent
           c == Candidate
           j == journals[c]
<1>1. Rollover(r) /\ r \in RolloverIntent /\ c \in Instances /\ c = r.candidate_run_id
  BY DEF SnapshotInv, Disk, Types, RolloverIntent, Candidate
<1>2. LocatorIsPrevious \/ LocatorIsNext
  BY <1>1 DEF Rollover, LocatorIsPrevious, LocatorIsNext
<1>3. r.phase \in {"Prepared", "Ready"}
  BY <1>1 DEF RolloverIntent
<1>4. ASSUME ~FirstRecordExists PROVE LocatorIsPrevious /\ r.phase = "Prepared"
  <2>1. r.phase # "Ready"
    <3> SUFFICES ASSUME r.phase = "Ready" PROVE FALSE
      OBVIOUS
    <3>1. j # None /\ j.records = <<r.expected_snapshot>>
      BY <1>1 DEF Rollover
    <3> QED
      BY <1>4, <3>1 DEF FirstRecordExists, Exists, Records
  <2> QED
    BY <1>1, <1>3, <2>1 DEF Rollover, LocatorIsPrevious
<1>5. ASSUME FirstRecordExists
      PROVE  /\ LoadsUnlessLinked(j) /\ validate_rollover_candidate(r)
             /\ r.phase = "Ready" => r = Ready(r)
             /\ LocatorIsPrevious => Len(locator.retained) < MaxRetained
  <2>1. j # None /\ j.records = <<r.expected_snapshot>>
    BY <1>1, <1>3, <1>5 DEF FirstRecordExists, Exists, Records, Rollover
  <2>2. j \in Journal /\ Sound(j)
    BY <1>1, <2>1 DEF SnapshotInv, Types, Disk, JournalsSound, Exists
  <2>3. Len(j.records) = 1 /\ j.head \in Nat
    <3>1. Len(<<r.expected_snapshot>>) = 1
      OBVIOUS
    <3> QED
      BY <2>1, <2>2, <3>1 DEF Journal
  <2>4. LoadsUnlessLinked(j)
    BY <2>2, <2>3
    DEF Sound, LoadsUnlessLinked, load_and_recover_ok, read_records_ok, verify_or_recover_head_ok
  <2>5. validate_rollover_candidate(r)
    BY <1>1, <2>1 DEF Rollover, validate_rollover_candidate, Records
  <2>6. ASSUME r.phase = "Ready" PROVE r = Ready(r)
    <3>1. r.next_terminal_mac = terminal_mac(c, j)
      BY <1>1, <2>6 DEF Rollover
    <3> QED
      BY <1>1, <2>6, <3>1 DEF Ready, RolloverIntent
  <2>7. LocatorIsPrevious => Len(locator.retained) < MaxRetained
    BY <1>1 DEF Rollover, LocatorIsPrevious
  <2> QED
    BY <2>4, <2>5, <2>6, <2>7
<1> QED
  BY <1>2, <1>4, <1>5

\* Loading a journal that the locator names.
LEMMA LoadAccepted ==
  ASSUME SnapshotInv, locator # None
  PROVE  /\ \A i \in Retained(locator) \union {locator.active_identity} :
              Exists(i) /\ LoadsUnlessLinked(journals[i])
         /\ verify_retained_instances(locator) /\ from_journal_ok(locator)
<1> DEFINE l == locator
           j == journals[l.active_identity]
<1>1. /\ l \in SnapshotLocator /\ validate_locator(l) /\ Located(l) /\ l.active_identity \in Instances
      /\ j \in Journal /\ Active(l, j) /\ l.retained \in Seq(RetainedAnchor)
  BY ActiveJournal DEF SnapshotLocator
<1>2. \A i \in Retained(l) \union {l.active_identity} : i \in Instances /\ Exists(i)
  BY NamedInstances DEF SnapshotInv, Disk, Owned, Anchored
<1>3. \A i \in Retained(l) \union {l.active_identity} : journals[i] \in Journal /\ Sound(journals[i])
  BY <1>2 DEF SnapshotInv, Types, Disk, JournalsSound, Exists
<1>4. LoadsUnlessLinked(j)
  <2>1. Len(j.records) \in Nat /\ j.head \in Nat /\ Sound(j)
    BY <1>1, <1>3 DEF Journal
  <2> QED
    BY <1>1, <2>1
    DEF Active, Sound, LoadsUnlessLinked, load_and_recover_ok, read_records_ok,
        verify_or_recover_head_ok
<1>5. ASSUME NEW i \in Retained(l) PROVE LoadsUnlessLinked(journals[i])
  <2>1. PICK k \in 1..Len(l.retained) : i = l.retained[k].identity
    BY DEF Retained
  <2>2. l.retained[k] \in RetainedAnchor
    BY <1>1, <2>1
  <2>3. /\ l.retained[k].end_generation \in Nat /\ l.retained[k].start_generation \in Nat
        /\ l.retained[k].end_generation >= l.retained[k].start_generation
    BY <1>1, <2>2 DEF validate_locator, RetainedAnchor
  <2>4. Len(journals[i].records) = l.retained[k].end_generation - l.retained[k].start_generation + 1
    BY <1>1, <2>1 DEF Located, verify_retained_instances, Records
  <2>5. Len(journals[i].records) # 0 /\ Len(journals[i].records) \in Nat
    BY <2>3, <2>4
  <2>6. HeadExact(journals[i]) /\ Sound(journals[i])
    BY <1>1, <1>3 DEF Located
  <2> QED
    BY <2>5, <2>6
    DEF Sound, LoadsUnlessLinked, load_and_recover_ok, read_records_ok,
        verify_or_recover_head_ok, HeadExact
<1>6. from_journal_ok(l)
  <2>1. MonotonicFrom(l, Records(l.active_identity))
    BY <1>1 DEF Active, Records
  <2>2. CASE Len(j.records) = Covered(l)
    <3>1. /\ Newest(j).generation = l.generation /\ Newest(j).token = l.token
          /\ l.terminal_mac = terminal_mac(l.active_identity, j)
      BY <1>1, <2>2, SettledNewest
    <3> QED
      BY <2>1, <3>1 DEF from_journal_ok, LocatorExact, Newest, Records
  <2>3. CASE Len(j.records) = Covered(l) + 1
    <3>1. /\ Covered(l) \in Nat /\ l.active_start_generation \in Nat
          /\ l.generation = l.active_start_generation + Covered(l) - 1
      BY <1>1, LocatorNumbers DEF SnapshotLocator
    <3> DEFINE n == Len(j.records)
    <3>2. n \in 1..n
      BY <2>3, <3>1
    <3>3. j.records[n].generation = l.active_start_generation + n - 1
      BY <2>1, <3>2 DEF MonotonicFrom, Records
    <3>4. j.records[n].generation = l.generation + 1
      BY <2>3, <3>1, <3>3
    <3>5. mac(l.active_identity, j, l.generation - l.active_start_generation + 1) = l.terminal_mac
      BY <1>1 DEF Active, Covered
    <3> QED
      BY <2>1, <3>4, <3>5 DEF from_journal_ok, LocatorOneBehind, Records
  <2> QED
    BY <1>1, <2>2, <2>3 DEF Active
<1> QED
  BY <1>1, <1>2, <1>4, <1>5, <1>6 DEF Located

\* The invariant leaves no state in which a recovery is refused for another reason than a
\* record with a second link or a directory whose deletion was not finished.
LEMMA SnapshotInvIsSound ==
  ASSUME SnapshotInv, ResidueKnown
  PROVE  RecoveryIsSound
<1>1. ASSUME NEW p \in Procs PROVE OpenAccepts(p)
  <2>1. ASSUME Holds(p, "recover"), rollover_intent = None
        PROVE  /\ init_intent # None => init_intent.physical_id = locator.active_identity
               /\ InventoryAnchored
    BY <2>1, InventoryHolds DEF SnapshotInv, Place, Holds, Disk, Together
  <2>2. ASSUME Holds(p, "load")
        PROVE  /\ \A i \in Loading(p) : Exists(i) /\ LoadsUnlessLinked(journals[i])
               /\ verify_retained_instances(locator) /\ from_journal_ok(locator)
    <3>1. locator # None /\ rollover_intent = None
      BY <2>2 DEF SnapshotInv, Place, Holds
    <3>2. Loading(p) = Retained(locator) \union {locator.active_identity}
      BY <2>2, <3>1 DEF Loading, RecoveringRollover
    <3> QED
      BY <3>1, <3>2, LoadAccepted
  <2>3. ASSUME RecoveringRollover(p)
        PROVE  /\ LocatorIsPrevious \/ LocatorIsNext
               /\ IF FirstRecordExists
                    THEN /\ LoadsUnlessLinked(journals[Candidate])
                         /\ validate_rollover_candidate(rollover_intent)
                         /\ rollover_intent.phase = "Ready" => rollover_intent = Ready(rollover_intent)
                         /\ LocatorIsPrevious => Len(locator.retained) < MaxRetained
                    ELSE LocatorIsPrevious /\ rollover_intent.phase = "Prepared"
    BY <2>3, RolloverAccepted DEF RecoveringRollover
  <2> QED
    BY <2>1, <2>2, <2>3 DEF OpenAccepts
<1>2. RefusedOnlyInWindows
  <2>1. lock_file /\ locator = None => init_intent # None
    BY DEF SnapshotInv, Disk, Together
  <2> QED
    BY <1>1, <2>1, InventoryHolds, SnapshotTypes DEF RefusedOnlyInWindows
<1>3. ASSUME NEW p \in Procs, phase[p] = "open" PROVE session.current = StoredSnapshot
  <2>1. OpenPlace
    BY <1>3 DEF SnapshotInv, Place
  <2> QED
    BY <2>1 DEF OpenPlace, StoredSnapshot, Target, Newest, Records
<1> QED
  BY <1>2, <1>3 DEF RecoveryIsSound, OpenSeesLatest

\* Whatever crashes came before, the directories and the signed files agree, and an open, a
\* retried initialization or an inspection is refused only in the two windows the code does
\* not recover from: a record published whose temporary is still linked to it
\* (state_journal.rs reads the records before it removes temporaries), and a candidate renamed
\* for deletion and not deleted yet.  An open handle works on the newest snapshot.
THEOREM SnapshotRecoveryIsSound == SnapshotSpec => []RecoveryIsSound
<1>1. SnapshotInv /\ ResidueKnown => RecoveryIsSound
  BY SnapshotInvIsSound
<1>2. SnapshotInit => ResidueKnown
  BY DEF SnapshotInit, ResidueKnown
<1>3. ResidueKnown /\ [SnapshotNext]_snapshotVars => ResidueKnown'
  BY ResidueStaysKnown
<1> QED
  BY <1>1, <1>2, <1>3, SnapshotInvariance, PTL DEF SnapshotSpec

-----------------------------------------------------------------------------
(* The store implements the register.                                       *)

\* The record of a pending rollover is durable, and the locator has not moved yet.
Taken ==
  /\ rollover_intent # None /\ LocatorIsPrevious
  /\ Exists(Candidate) /\ Records(Candidate) # <<>>

\* What the disk stands for, case by case.
LEMMA StoredCases ==
  /\ locator = None => StoredSnapshot = None
  /\ locator # None /\ Taken => StoredSnapshot = rollover_intent.expected_snapshot
  /\ locator # None /\ ~Taken => StoredSnapshot = Newest(journals[locator.active_identity])
BY DEF StoredSnapshot, Taken, Newest, Records

\* A step that leaves the locator's journal and the fate of a pending rollover alone.
LEMMA StoredStays ==
  ASSUME locator # None, locator' # None, ~Taken, ~Taken',
         journals'[locator'.active_identity].records = journals[locator.active_identity].records
  PROVE  StoredSnapshot' = StoredSnapshot
BY StoredCases DEF StoredSnapshot, Taken, Newest, Records

RegisterStep == [Register!RegisterNext]_(Register!registerVars)

\* A step that moves neither the stored snapshot nor an acknowledgement stutters.
LEMMA StoredUnchanged ==
  ASSUME UNCHANGED <<StoredSnapshot, acknowledged>>
  PROVE  RegisterStep
BY DEF RegisterStep, Register!registerVars

\* A step that stores the next snapshot is a Create or a Write of the register.
LEMMA StoredWritten ==
  ASSUME NEW s \in Snapshot, StoredSnapshot' = s, acknowledged' = acknowledged,
         \/ StoredSnapshot = None /\ s.generation = 1
         \/ /\ StoredSnapshot # None /\ s.generation = StoredSnapshot.generation + 1
            /\ s.token > StoredSnapshot.token
  PROVE  RegisterStep
<1>1. s = [generation |-> s.generation, token |-> s.token, value |-> s.value]
      /\ s.token \in Tokens /\ s.value \in Values
  BY DEF Snapshot
<1>2. Register!Create(s.token, s.value) \/ Register!Write(s.token, s.value)
  BY <1>1 DEF Register!Create, Register!Write
<1> QED
  BY <1>1, <1>2 DEF RegisterStep, Register!RegisterNext

\* A step that returns the stored generation is an Acknowledge.
LEMMA StoredAcknowledged ==
  ASSUME NEW s \in Snapshot, StoredSnapshot = s, StoredSnapshot' = s,
         acknowledged' = s.generation
  PROVE  RegisterStep
<1>1. Register!Acknowledge
  BY NoneAssumption DEF Register!Acknowledge
<1> QED
  BY <1>1 DEF RegisterStep, Register!RegisterNext

\* Steps on the way to the first locator.
LEMMA NothingStored ==
  ASSUME locator = None, locator' = None, acknowledged' = acknowledged
  PROVE  RegisterStep
BY StoredCases, StoredUnchanged DEF StoredSnapshot

\* Steps that leave the journals, the locator and the rollover intent alone.
LEMMA FilesStay ==
  ASSUME UNCHANGED <<journals, locator, rollover_intent, acknowledged>>
  PROVE  RegisterStep
BY StoredUnchanged
DEF StoredSnapshot, LocatorIsPrevious, Exists, Candidate, Records

\* The newest record of a settled store, as the register sees it.
LEMMA StoredSettled ==
  ASSUME SnapshotInv, locator # None, ~Taken,
         Len(journals[locator.active_identity].records) = Covered(locator)
  PROVE  /\ StoredSnapshot \in Snapshot /\ StoredSnapshot # None
         /\ StoredSnapshot = Newest(journals[locator.active_identity])
         /\ StoredSnapshot.generation = locator.generation
         /\ StoredSnapshot.token = locator.token
BY ActiveJournal, SettledNewest, StoredCases, NoneAssumption

\* Handing out a handle acknowledges what is stored.
LEMMA OpensAcknowledges ==
  ASSUME SnapshotInv, NEW p \in Procs, NEW s, Opens(p, s), locator # None, locator' # None,
         ~Taken, ~Taken', s = Newest(journals[locator.active_identity]),
         journals' = journals, locator'.active_identity = locator.active_identity
  PROVE  RegisterStep
<1> DEFINE j == journals[locator.active_identity]
<1>1. j \in Journal /\ Active(locator, j)
  BY ActiveJournal
<1>2. s \in Snapshot
  <2>1. j.records \in Seq(Snapshot) /\ Len(j.records) # 0
    BY <1>1 DEF Journal, Active, MonotonicFrom
  <2> QED
    BY <2>1 DEF Newest
<1>3. StoredSnapshot = s /\ StoredSnapshot' = s
  BY StoredCases, StoredStays
<1>4. acknowledged' = s.generation
  BY DEF Opens
<1> QED
  BY <1>2, <1>3, <1>4, StoredAcknowledged

\* The first locator is the register's Create.
LEMMA WriteInitialLocatorWrites ==
  ASSUME SnapshotInv, NEW p \in Procs, WriteInitialLocator(p)
  PROVE  RegisterStep
<1> DEFINE s == session.pending
<1>1. /\ Holds(p, "append") /\ session.op = "create" /\ AppendPlace
      /\ Len(Target.records) = 1 /\ locator'.active_identity = session.target
      /\ locator' \in SnapshotLocator
      /\ UNCHANGED <<journals, rollover_intent, acknowledged>>
  <2>1. SnapshotInv'
    BY WriteInitialLocatorKeeps
  <2>2. locator' # None
    <3>1. phase'[p] = "created"
      BY DEF WriteInitialLocator, Goto, SnapshotInv, Types
    <3> QED
      BY <2>1, <3>1 DEF SnapshotInv, Place, CreatedPlace
  <2>3. locator' \in SnapshotLocator
    BY <2>1, <2>2 DEF SnapshotInv, Types
  <2> QED
    BY <2>3 DEF WriteInitialLocator, Appended, Appending, Holds, Sequence, SnapshotInv, Place
<1>2. /\ locator = None /\ rollover_intent = None /\ s # None /\ s.generation = 1
      /\ Filling(Target, 0, s)
  BY <1>1 DEF AppendPlace, SnapshotInv, Disk, Together
<1>3. s \in Snapshot
  <2>1. session \in Session
    BY <1>1, NoneAssumption DEF Holds, SnapshotInv, Types, Locks, SessionPhases
  <2> QED
    BY <1>2, <2>1 DEF Session
<1>4. StoredSnapshot' = s
  <2>1. Newest(Target) = s
    BY <1>1, <1>2 DEF Filling, Newest
  <2>2. locator' # None
    BY <1>1, NoneAssumption
  <2> QED
    BY <1>1, <1>2, <2>1, <2>2 DEF StoredSnapshot, Newest, Target, Records
<1>5. StoredSnapshot = None
  BY <1>2, StoredCases
<1> QED
  BY <1>1, <1>2, <1>3, <1>4, <1>5, StoredWritten

\* The steps of an initialization and its retries.
LEMMA CreateStepsImplement ==
  ASSUME SnapshotInv, NEW p \in Procs, CreateSteps(p)
  PROVE  RegisterStep
<1>1. CASE \/ RejoinInitialization(p) \/ BootstrapRefused(p)
           \/ ContinueInitialization(p) \/ DeleteQuarantined(p) \/ GiveUpInitialization(p)
  BY <1>1, FilesStay
  DEF RejoinInitialization, BootstrapRefused, ContinueInitialization, DeleteQuarantined,
      GiveUpInitialization, disk, snapshotVars
<1>2. CASE WriteFirstIntent(p)
  BY <1>2, NothingStored DEF WriteFirstIntent, BootstrapAllowed
<1>3. CASE ReserveStoreLock(p)
  <2>1. locator = None
    BY <1>3 DEF ReserveStoreLock, SnapshotInv, Locks, Disk, Together
  <2> QED
    BY <1>3, <2>1, NothingStored DEF ReserveStoreLock
<1>4. CASE RemoveAbandonedCandidate(p)
  BY <1>4, NothingStored DEF RemoveAbandonedCandidate, InitializationLocked
<1>5. CASE WriteRetryIntent(p)
  <2>1. locator = None
    BY <1>5 DEF WriteRetryIntent, Holds, SnapshotInv, Place
  <2> QED
    BY <1>5, <2>1, NothingStored DEF WriteRetryIntent
<1>6. ASSUME NEW token \in Tokens, NEW value \in Values, CreateInitialJournal(p, token, value)
      PROVE  RegisterStep
  <2>1. locator = None
    BY <1>6 DEF CreateInitialJournal, Holds, SnapshotInv, Place
  <2> QED
    BY <1>6, <2>1, NothingStored DEF CreateInitialJournal
<1>7. CASE RemoveInitIntent(p)
  <2>1. CreatedPlace
    BY <1>7 DEF RemoveInitIntent, Holds, SnapshotInv, Place
  <2>2. rollover_intent = None
    BY <2>1 DEF CreatedPlace, SnapshotInv, Disk, Together
  <2>3. ~Taken /\ ~Taken'
    BY <1>7, <2>2 DEF Taken, RemoveInitIntent
  <2> QED
    BY <1>7, <2>1, <2>3, OpensAcknowledges DEF RemoveInitIntent, CreatedPlace, Target
<1> QED
  BY <1>1, <1>2, <1>3, <1>4, <1>5, <1>6, <1>7, WriteInitialLocatorWrites DEF CreateSteps

\* PublishRecord is the step at which a commit or a rollover takes effect.
LEMMA AppendStepsImplement ==
  ASSUME SnapshotInv, NEW p \in Procs, AppendSteps(p)
  PROVE  RegisterStep
<1> DEFINE t == session.target
           s == session.pending
           i == locator.active_identity
<1>1. Appending(p)
  BY AppendStepsAppend
<1>2. PICK j : /\ Appends(Target, j, Sequence - 1, s)
               /\ SetJournal(t, j) /\ OnlyJournals
  BY AppendStepsAppend
<1>3. /\ AppendPlace /\ t \in Instances /\ s \in Snapshot
      /\ Target \in Journal /\ Target # None /\ j \in Journal
      /\ session.op = "commit" => Sequence - 1 = Covered(locator)
      /\ session.op # "commit" => Sequence - 1 = 0
      /\ \/ j.records = Target.records
         \/ Len(Target.records) = Sequence - 1 /\ j.records = Append(Target.records, s)
  BY <1>1, <1>2, AppendTarget
<1>4. /\ journals'[t] = j /\ \A k \in Instances \ {t} : journals'[k] = journals[k]
      /\ UNCHANGED <<locator, rollover_intent, acknowledged>>
  BY <1>2, <1>3 DEF SetJournal, OnlyJournals, SnapshotInv, Types
<1>5. Target = journals[t] /\ j # None
  BY <1>3, NoneAssumption DEF Target
<1>6. CASE session.op = "create"
  BY <1>3, <1>4, <1>6, NothingStored DEF AppendPlace
<1>7. CASE session.op = "commit"
  <2>1. /\ locator # None /\ rollover_intent = None /\ t = i
        /\ s.generation = locator.generation + 1 /\ s.token > locator.token
    BY <1>3, <1>7 DEF AppendPlace
  <2>2. ~Taken /\ ~Taken'
    BY <1>4, <2>1 DEF Taken
  <2>3. CASE j.records = Target.records
    BY <1>4, <1>5, <2>1, <2>2, <2>3, StoredStays, StoredUnchanged
  <2>4. CASE Len(Target.records) = Covered(locator) /\ j.records = Append(Target.records, s)
    <3>1. /\ StoredSnapshot # None /\ StoredSnapshot.generation = locator.generation
          /\ StoredSnapshot.token = locator.token
      BY <1>5, <2>1, <2>2, <2>4, StoredSettled
    <3>2. Newest(j) = s
      <4>1. Target.records \in Seq(Snapshot)
        BY <1>3 DEF Journal
      <4> QED
        BY <1>3, <2>4, <4>1 DEF Newest
    <3>3. StoredSnapshot' = s
      BY <1>4, <2>1, <3>2 DEF StoredSnapshot, Newest, Records
    <3> QED
      BY <1>3, <1>4, <2>1, <3>1, <3>3, StoredWritten
  <2> QED
    BY <1>3, <1>7, <2>3, <2>4
<1>8. CASE session.op = "rollover"
  <2>1. /\ rollover_intent # None /\ rollover_intent.phase = "Prepared"
        /\ t = Candidate /\ s = rollover_intent.expected_snapshot
    BY <1>3, <1>8 DEF AppendPlace
  <2>2. LocatorIsPrevious /\ locator # None /\ t # i /\ i \in Instances
    BY <2>1, PreparedIsPrevious, CandidateApart, ActiveJournal
  <2>3. LocatorIsPrevious' /\ Candidate' = t
    BY <1>4, <2>1, <2>2 DEF LocatorIsPrevious, Candidate
  <2>4. journals'[i] = journals[i]
    BY <1>4, <2>2
  <2>5. (Taken <=> Target.records # <<>>) /\ (Taken' <=> j.records # <<>>)
    BY <1>3, <1>4, <1>5, <2>1, <2>2, <2>3 DEF Taken, Exists, Records
  <2>6. CASE j.records = Target.records
    <3>1. StoredSnapshot' = StoredSnapshot
      <4>1. CASE Taken
        <5>1. Taken'
          BY <2>5, <2>6, <4>1
        <5> QED
          BY <1>4, <2>2, <4>1, <5>1, StoredCases DEF StoredSnapshot, Taken
      <4>2. CASE ~Taken
        BY <1>4, <2>2, <2>4, <2>5, <2>6, <4>2, StoredStays
      <4> QED
        BY <4>1, <4>2
    <3> QED
      BY <1>4, <3>1, StoredUnchanged
  <2>7. CASE Len(Target.records) = 0 /\ j.records = Append(Target.records, s)
    <3>1. Target.records \in Seq(Snapshot)
      BY <1>3 DEF Journal
    <3>2. ~Taken /\ Taken'
      <4>1. Target.records = <<>>
        BY <2>7, <3>1
      <4>2. Len(j.records) = 1
        BY <1>3, <2>7, <3>1
      <4>3. Len(<<>>) = 0
        OBVIOUS
      <4> QED
        BY <2>5, <4>1, <4>2, <4>3
    <3>3. Settled(locator, journals[i])
      BY <2>1 DEF SnapshotInv, Disk, Rollover
    <3>4. /\ StoredSnapshot # None /\ StoredSnapshot.generation = locator.generation
          /\ StoredSnapshot.token = locator.token
      BY <2>2, <3>2, <3>3, StoredSettled DEF Settled
    <3>5. StoredSnapshot' = s
      BY <1>4, <2>1, <2>2, <3>2 DEF StoredSnapshot, Taken
    <3>6. s.generation = locator.generation + 1 /\ s.token > locator.token
      BY <2>1, <2>2
      DEF SnapshotInv, Disk, Rollover, LocatorIsPrevious, locator_matches_rollover_previous
    <3> QED
      BY <1>3, <1>4, <3>4, <3>5, <3>6, StoredWritten
  <2> QED
    BY <1>3, <1>8, <2>6, <2>7
<1> QED
  BY <1>3, <1>6, <1>7, <1>8 DEF AppendPlace

\* A rollover whose record is durable stands for it, before and after the locator moves.
LEMMA SwitchStored ==
  ASSUME SnapshotInv, rollover_intent # None, rollover_intent.phase = "Ready", LocatorIsPrevious,
         locator' = Switched(locator, rollover_intent),
         UNCHANGED <<journals, init_intent, rollover_intent, lock_file, acknowledged>>
  PROVE  RegisterStep
<1> DEFINE s == rollover_intent.expected_snapshot
           c == Candidate
<1>1. locator' \in SnapshotLocator /\ LocatorIsNext'
  BY SwitchKeepsDisk
<1>2. /\ locator # None /\ locator' # None
      /\ journals[c] # None /\ journals[c].records = <<s>>
  BY <1>1, NoneAssumption DEF SnapshotInv, Disk, Together, Rollover, Candidate
<1>3. Taken /\ StoredSnapshot = s
  <2>1. Taken
    BY <1>2 DEF Taken, Exists, Records
  <2> QED
    BY <1>2, <2>1, StoredCases
<1>4. locator'.active_identity = c /\ ~LocatorIsPrevious'
  <2>1. rollover_intent.previous_identity # c
    BY DEF SnapshotInv, Disk, Rollover, Candidate
  <2>2. locator'.active_identity = c
    BY <1>1 DEF LocatorIsNext, locator_matches_rollover_next, Candidate
  <2> QED
    BY <2>1, <2>2 DEF LocatorIsPrevious, locator_matches_rollover_previous
<1>5. StoredSnapshot' = s
  <2>1. Newest(journals[c]) = s
    BY <1>2 DEF Newest
  <2> QED
    BY <1>2, <1>4, <2>1 DEF StoredSnapshot, Records, Newest
<1> QED
  BY <1>3, <1>5, StoredUnchanged

\* Binding the candidate's record does not change what is stored.
LEMMA ReadyStored ==
  ASSUME SnapshotInv, rollover_intent # None, rollover_intent.phase = "Prepared",
         journals[Candidate] # None, HeadExact(journals[Candidate]),
         journals[Candidate].records = <<rollover_intent.expected_snapshot>>,
         rollover_intent' = Ready(rollover_intent),
         UNCHANGED <<journals, locator, init_intent, lock_file, acknowledged>>
  PROVE  RegisterStep
<1>1. /\ rollover_intent' # None /\ Candidate' = Candidate
      /\ rollover_intent'.expected_snapshot = rollover_intent.expected_snapshot
      /\ LocatorIsPrevious' /\ locator # None
  BY BecomesReady
<1>2. Taken
  BY PreparedIsPrevious DEF Taken, Exists, Records
<1>3. Taken'
  <2>1. rollover_intent' # None /\ LocatorIsPrevious'
    BY <1>1
  <2>2. Exists(Candidate)' /\ Records(Candidate)' # <<>>
    BY <1>1, <1>2 DEF Taken, Exists, Records
  <2> QED
    BY <2>1, <2>2 DEF Taken
<1>4. StoredSnapshot' = rollover_intent'.expected_snapshot
  BY <1>1, <1>3 DEF StoredSnapshot, Taken
<1>5. StoredSnapshot = rollover_intent.expected_snapshot
  BY <1>1, <1>2, StoredCases
<1> QED
  BY <1>1, <1>4, <1>5, StoredUnchanged

\* A candidate without a record stands for nothing, whether it comes or goes.
LEMMA EmptyCandidateStored ==
  ASSUME SnapshotInv, rollover_intent # None, rollover_intent.phase = "Prepared",
         ~Exists(Candidate) \/ Records(Candidate) = <<>>,
         NEW j, journals' = [journals EXCEPT ![Candidate] = j], j # None => j.records = <<>>,
         UNCHANGED <<locator, rollover_intent, acknowledged>>
  PROVE  RegisterStep
<1>1. /\ locator # None /\ Candidate \in Instances /\ Candidate # locator.active_identity
  BY PreparedIsPrevious, CandidateApart
<1>2. locator.active_identity \in Instances /\ Candidate' = Candidate
  BY <1>1, ActiveJournal DEF Candidate
<1>3. /\ journals'[Candidate] = j
      /\ journals'[locator.active_identity] = journals[locator.active_identity]
  BY <1>1, <1>2 DEF SnapshotInv, Types
<1>4. ~Taken /\ ~Taken'
  BY <1>2, <1>3 DEF Taken, Exists, Records
<1> QED
  BY <1>1, <1>3, <1>4, StoredStays, StoredUnchanged

\* A commit's locator covers a record that was already the stored one.
LEMMA AdvanceLocatorImplements ==
  ASSUME SnapshotInv, NEW p \in Procs, AdvanceLocator(p)
  PROVE  RegisterStep
<1> DEFINE j == journals[locator.active_identity]
<1>1. Appended(p, "commit") /\ AppendPlace /\ session.op = "commit"
  BY DEF AdvanceLocator, Appended, Appending, Holds, SnapshotInv, Place
<1>2. /\ locator # None /\ rollover_intent = None
      /\ session.target = locator.active_identity
      /\ session.pending.generation = locator.generation + 1
      /\ Filling(j, Covered(locator), session.pending)
  BY <1>1 DEF AppendPlace, Target
<1>3. locator \in SnapshotLocator /\ validate_locator(locator)
  BY <1>2, ActiveJournal
<1>4. /\ Covered(locator) \in Nat /\ locator.active_start_generation \in Nat
      /\ locator.generation \in Nat
      /\ locator.generation = locator.active_start_generation + Covered(locator) - 1
  BY <1>3, LocatorNumbers DEF SnapshotLocator
<1>5. Len(j.records) = Covered(locator) + 1
  <2>1. Len(j.records) = session.pending.generation - locator.active_start_generation + 1
    BY <1>1, <1>2 DEF Appended, Sequence, Target
  <2> QED
    BY <1>2, <1>4, <2>1
<1>6. session.pending = Newest(j)
  BY <1>2, <1>4, <1>5 DEF Filling, Newest
<1>7. /\ Opens(p, session.pending) /\ locator' = Advanced(locator)
      /\ UNCHANGED <<journals, init_intent, rollover_intent, lock_file>>
  BY DEF AdvanceLocator
<1>8. locator' # None /\ locator'.active_identity = locator.active_identity
  <2>1. init_intent = None
    BY <1>1 DEF AppendPlace
  <2> QED
    BY <1>2, <1>5, <1>7, <2>1, AdvanceKeepsDisk DEF Records
<1>9. ~Taken /\ ~Taken'
  BY <1>2, <1>7 DEF Taken
<1> QED
  BY <1>2, <1>6, <1>7, <1>8, <1>9, OpensAcknowledges

\* The steps of a commit and of a rollover: publishing a record is the Write.
LEMMA WriteStepsImplement ==
  ASSUME SnapshotInv, NEW p \in Procs, WriteSteps(p)
  PROVE  RegisterStep
<1>1. ASSUME NEW token \in Tokens, NEW value \in Values, BeginCommit(p, token, value)
      PROVE  RegisterStep
  BY <1>1, FilesStay DEF BeginCommit, disk
<1>2. ASSUME NEW token \in Tokens, NEW value \in Values, PrepareRollover(p, token, value)
      PROVE  RegisterStep
  <2>1. locator # None /\ rollover_intent = None
    BY <1>2 DEF PrepareRollover, Holds, SnapshotInv, Place, OpenPlace
  <2>2. ~Exists(random_identifier)
    BY FreshIdentifier DEF SnapshotInv, Disk
  <2>3. Candidate' = random_identifier /\ UNCHANGED <<journals, locator, acknowledged>>
    BY <1>2 DEF PrepareRollover, Candidate
  <2>4. ~Taken /\ ~Taken'
    BY <2>1, <2>2, <2>3 DEF Taken, Exists
  <2> QED
    BY <2>1, <2>3, <2>4, StoredStays, StoredUnchanged
<1>3. CASE CreateCandidate(p)
  <2>1. /\ rollover_intent # None /\ rollover_intent.phase = "Prepared"
        /\ session.target = Candidate /\ ~Exists(Candidate)
    BY <1>3 DEF CreateCandidate, Holds, SnapshotInv, Place, RolloverPlace
  <2>2. create_journal.records = <<>>
    BY DEF create_journal
  <2> QED
    BY <1>3, <2>1, <2>2, EmptyCandidateStored DEF CreateCandidate, SetJournal
<1>4. CASE WriteReadyIntent(p)
  <2>1. Appended(p, "rollover") /\ Appending(p) /\ AppendPlace
    BY <1>4 DEF WriteReadyIntent, Appended, Appending, Holds, SnapshotInv, Place
  <2>2. /\ rollover_intent # None /\ rollover_intent.phase = "Prepared"
        /\ session.target = Candidate /\ session.pending = rollover_intent.expected_snapshot
        /\ session.pending # None /\ Filling(Target, 0, session.pending)
    BY <2>1 DEF AppendPlace, Appended
  <2>3. session.pending \in Snapshot /\ Target \in Journal
    <3>1. session \in Session
      BY <2>1 DEF SnapshotInv, Types, Locks, Appending, Holds, SessionPhases
    <3> QED
      BY <2>2, <3>1 DEF Session, SnapshotInv, Types, Target, Filling
  <2>4. Len(Target.records) = 1 /\ HeadExact(Target)
    BY <2>1 DEF Appended, Sequence
  <2>5. Target.records = <<session.pending>>
    <3>1. Target.records \in {<<>>, <<session.pending>>}
      BY <2>2, <2>3, FillingFromEmpty
    <3>2. Len(<<>>) = 0
      OBVIOUS
    <3> QED
      BY <2>4, <3>1, <3>2
  <2> QED
    BY <1>4, <2>2, <2>3, <2>4, <2>5, ReadyStored, NoneAssumption DEF WriteReadyIntent, Target
<1>5. CASE SwitchLocator(p)
  <2>1. rollover_intent # None /\ rollover_intent.phase = "Ready" /\ LocatorIsPrevious
    BY <1>5 DEF SwitchLocator, Holds, SnapshotInv, Place, RolloverPlace
  <2> QED
    BY <1>5, <2>1, SwitchStored DEF SwitchLocator
<1>6. CASE RemoveRolloverIntent(p)
  <2>1. /\ rollover_intent # None /\ LocatorIsNext
        /\ session.pending = rollover_intent.expected_snapshot
    BY <1>6 DEF RemoveRolloverIntent, Holds, SnapshotInv, Place, RolloverPlace
  <2>2. /\ Candidate = locator.active_identity /\ locator # None
        /\ journals[locator.active_identity].records = <<rollover_intent.expected_snapshot>>
    BY <2>1, NextIsReady
  <2>3. session.pending = Newest(journals[locator.active_identity])
    BY <2>1, <2>2 DEF Newest
  <2>4. ~Taken /\ ~Taken'
    BY <1>6, <2>1, <2>2, CandidateApart DEF Taken, RemoveRolloverIntent
  <2> QED
    BY <1>6, <2>2, <2>3, <2>4, OpensAcknowledges DEF RemoveRolloverIntent
<1> QED
  BY <1>1, <1>2, <1>3, <1>4, <1>5, <1>6, AdvanceLocatorImplements DEF WriteSteps

\* Mending a journal leaves its records alone.
LEMMA MendStored ==
  ASSUME SnapshotInv, NEW p \in Procs, NEW i \in Loading(p), NEW j, Mended(journals[i], j),
         SetJournal(i, j), OnlyJournals
  PROVE  RegisterStep
<1>1. /\ journals' = [journals EXCEPT ![i] = j]
      /\ UNCHANGED <<locator, rollover_intent, acknowledged>>
  BY DEF SetJournal, OnlyJournals
<1>2. locator # None /\ i \in Instances /\ journals[i] # None
  <2>1. CASE RecoveringRollover(p)
    BY <2>1 DEF Loading, RecoveringRollover, FirstRecordExists, Exists, SnapshotInv, Types,
                RolloverIntent, Candidate, Disk, Together
  <2>2. CASE ~RecoveringRollover(p)
    <3>1. Holds(p, "load") /\ i \in Retained(locator) \union {locator.active_identity}
      BY <2>2 DEF Loading
    <3>2. locator # None
      BY <3>1 DEF Holds, SnapshotInv, Place
    <3> QED
      BY <3>1, <3>2, NamedInstances DEF SnapshotInv, Disk, Owned, Anchored, Exists
  <2> QED
    BY <2>1, <2>2
<1>3. journals[i] \in Journal /\ Sound(journals[i])
  BY <1>2 DEF SnapshotInv, Types, Disk, JournalsSound, Exists
<1>4. j \in Journal /\ j.records = journals[i].records /\ j # None
  BY <1>3, MendedJournal, NoneAssumption
<1>5. \A k \in Instances :
        /\ journals'[k] = None <=> journals[k] = None
        /\ journals[k] # None => journals'[k].records = journals[k].records
  BY <1>1, <1>2, <1>4 DEF SnapshotInv, Types
<1>6. /\ locator.active_identity \in Instances /\ journals[locator.active_identity] # None
  BY <1>2, ActiveJournal, NoneAssumption
<1>7. rollover_intent # None => Candidate \in Instances
  BY DEF SnapshotInv, Types, RolloverIntent, Candidate
<1>8. (Taken' <=> Taken)
  BY <1>1, <1>5, <1>7 DEF Taken, LocatorIsPrevious, Exists, Records, Candidate
<1>9. CASE Taken
  BY <1>1, <1>2, <1>8, <1>9, StoredCases, StoredUnchanged DEF StoredSnapshot, Taken
<1>10. CASE ~Taken
  BY <1>1, <1>2, <1>5, <1>6, <1>8, <1>10, StoredStays, StoredUnchanged
<1> QED
  BY <1>9, <1>10

\* The steps of an open: recovery stores nothing, its end acknowledges.
LEMMA OpenStepsImplement ==
  ASSUME SnapshotInv, NEW p \in Procs, OpenSteps(p)
  PROVE  RegisterStep
<1>1. CASE BeginOpen(p) \/ FinishRecovery(p) \/ RefuseOpen(p)
  BY <1>1, FilesStay DEF BeginOpen, FinishRecovery, RefuseOpen, Leave, disk
<1>2. CASE DiscardCandidate(p)
  BY <1>2, EmptyCandidateStored
  DEF DiscardCandidate, RecoveringRollover, FirstRecordExists, SetJournal
<1>3. CASE DiscardIntent(p)
  <2>1. /\ ~Taken /\ ~Taken' /\ rollover_intent # None
        /\ UNCHANGED <<journals, locator, acknowledged>>
    BY <1>3 DEF DiscardIntent, RecoveringRollover, Taken
  <2>2. locator # None
    BY <2>1 DEF SnapshotInv, Disk, Together
  <2> QED
    BY <2>1, <2>2, StoredStays, StoredUnchanged
<1>4. CASE PromoteIntent(p)
  BY <1>4, ReadyStored
  DEF PromoteIntent, CandidateLoaded, RecoveringRollover, FirstRecordExists, Exists, Records,
      validate_rollover_candidate, Candidate
<1>5. CASE RollForward(p)
  <2>1. /\ rollover_intent \in RolloverIntent /\ rollover_intent # None
        /\ rollover_intent = Ready(rollover_intent) /\ LocatorIsPrevious
    BY <1>5 DEF RollForward, CandidateLoaded, RecoveringRollover, SnapshotInv, Types
  <2>2. Ready(rollover_intent).phase = "Ready"
    BY <2>1 DEF Ready, RolloverIntent
  <2>3. rollover_intent.phase = "Ready"
    BY <2>1, <2>2
  <2> QED
    BY <1>5, <2>1, <2>3, SwitchStored DEF RollForward
<1>6. CASE FinishRollForward(p)
  <2>1. /\ rollover_intent # None /\ LocatorIsNext /\ rollover_intent' = None
        /\ UNCHANGED <<journals, locator, acknowledged>>
    BY <1>6 DEF FinishRollForward, CandidateLoaded, RecoveringRollover
  <2>2. Candidate = locator.active_identity /\ locator # None
    BY <2>1, NextIsReady
  <2>3. ~Taken /\ ~Taken'
    BY <2>1, <2>2, CandidateApart DEF Taken
  <2> QED
    BY <2>1, <2>2, <2>3, StoredStays, StoredUnchanged
<1>7. CASE RecoverInitAfterLocator(p)
  BY <1>7, StoredUnchanged
  DEF RecoverInitAfterLocator, StoredSnapshot, LocatorIsPrevious, Exists, Candidate, Records
<1>8. CASE RecoverTemporaryFiles(p)
  <2>1. PICK i \in Loading(p) :
          /\ journals[i].record_temp # 0 /\ SetJournal(i, remove_record_temp(journals[i]))
          /\ OnlyJournals
    BY <1>8 DEF RecoverTemporaryFiles
  <2>2. Mended(journals[i], remove_record_temp(journals[i]))
    BY <2>1 DEF Mended, HeadExact
  <2> QED
    BY <2>1, <2>2, MendStored
<1>9. CASE RecoverHead(p)
  <2>1. PICK i \in Loading(p) :
          ~HeadExact(journals[i]) /\ SetJournal(i, publish_head(journals[i])) /\ OnlyJournals
    BY <1>9 DEF RecoverHead
  <2>2. Mended(journals[i], publish_head(journals[i]))
    BY <2>1 DEF Mended
  <2> QED
    BY <2>1, <2>2, MendStored
<1>10. CASE CatchUpLocator(p)
  <2>1. /\ locator # None /\ rollover_intent = None
        /\ locator' = Advanced(locator)
        /\ UNCHANGED <<journals, rollover_intent, acknowledged>>
    BY <1>10 DEF CatchUpLocator, Loaded, Holds, SnapshotInv, Place
  <2>2. locator \in SnapshotLocator
    BY <2>1 DEF SnapshotInv, Types
  <2>3. locator' # None
    <3>1. SnapshotInv' /\ phase'[p] = "load"
      BY <1>10, CatchUpLocatorKeeps DEF CatchUpLocator, Loaded, Holds
    <3> QED
      BY <3>1 DEF SnapshotInv, Place
  <2>4. locator'.active_identity = locator.active_identity
    BY <2>1, <2>2 DEF Advanced, SnapshotLocator
  <2>5. ~Taken /\ ~Taken'
    BY <2>1 DEF Taken
  <2> QED
    BY <2>1, <2>3, <2>4, <2>5, StoredStays, StoredUnchanged
<1>11. CASE FinishOpen(p)
  <2>1. locator # None /\ rollover_intent = None
    BY <1>11 DEF FinishOpen, Loaded, Holds, SnapshotInv, Place
  <2>2. ~Taken /\ ~Taken'
    BY <1>11, <2>1 DEF Taken, FinishOpen, disk
  <2>3. Opens(p, Newest(journals[locator.active_identity]))
    BY <1>11 DEF FinishOpen, Newest, Records
  <2> QED
    BY <1>11, <2>1, <2>2, <2>3, OpensAcknowledges DEF FinishOpen, disk
<1> QED
  BY <1>1, <1>2, <1>3, <1>4, <1>5, <1>6, <1>7, <1>8, <1>9, <1>10, <1>11 DEF OpenSteps

\* Every step of the store is a step of the register or leaves the register alone.
LEMMA SnapshotStepsImplement ==
  ASSUME SnapshotInv, [SnapshotNext]_snapshotVars
  PROVE  RegisterStep
<1>1. CASE UNCHANGED snapshotVars
  BY <1>1, FilesStay DEF snapshotVars, disk
<1>2. ASSUME NEW p \in Procs, Close(p) \/ Crash(p) PROVE RegisterStep
  BY <1>2, FilesStay DEF Close, Crash, Leave, disk
<1> QED
  BY <1>1, <1>2, CreateStepsImplement, AppendStepsImplement, WriteStepsImplement,
     OpenStepsImplement DEF SnapshotNext, Step

\* The snapshot store implements the register: its writes are atomic under crashes, the
\* generations have no gaps, tokens grow, and nothing acknowledged is ever lost.
THEOREM SnapshotImplementsRegister == SnapshotSpec => ImplementsRegister
<1>1. SnapshotInit => Register!RegisterInit
  BY DEF SnapshotInit, Register!RegisterInit, StoredSnapshot
<1>2. SnapshotInv /\ [SnapshotNext]_snapshotVars => [Register!RegisterNext]_(Register!registerVars)
  BY SnapshotStepsImplement DEF RegisterStep
<1> QED
  BY <1>1, <1>2, SnapshotInvariance, PTL
  DEF SnapshotSpec, ImplementsRegister, Register!RegisterSpec
=============================================================================
