---------------------------- MODULE StateJournal ----------------------------
(***************************************************************************)
(* The authenticated append-only journal (src/state_journal.rs): one       *)
(* directory with numbered record files, a head file and, after a crash,   *)
(* the temporary of a record.  Every operator is one durable step of       *)
(* append or of load_and_recover, so a crash falls between two of them.    *)
(*                                                                         *)
(* A record's MAC authenticates the record and, through previous_mac, all  *)
(* the records before it in the same directory; it is represented by what  *)
(* it authenticates.  The head is represented by its sequence (0: no head  *)
(* file).  Replacing the head is one atomic step: the temporary it may     *)
(* leave is deleted unread by the next recovery.                           *)
(***************************************************************************)
EXTENDS Naturals, Sequences

CONSTANT MaxRecords   \* JournalSpec::MAX_RECORDS
ASSUME MaxRecordsAssumption == MaxRecords \in Nat \ {0}

\* AuthenticatedStateJournal::create: a reserved, empty directory.
create_journal == [records |-> <<>>, head |-> 0, record_temp |-> 0]

\* The MAC of the n-th record of the journal j in directory id.
mac(id, j, n) == <<id, SubSeq(j.records, 1, n)>>
terminal_mac(id, j) == mac(id, j, Len(j.records))

-----------------------------------------------------------------------------
(* append, step by step: write the temporary of the next record, publish it *)
(* under its final name (hard link), remove the temporary, replace the head. *)

append_ok(j) == Len(j.records) < MaxRecords

stage_record(j) == [j EXCEPT !.record_temp = Len(j.records) + 1]
publish_no_replace(j, payload) == [j EXCEPT !.records = Append(@, payload)]
remove_record_temp(j) == [j EXCEPT !.record_temp = 0]
publish_head(j) == [j EXCEPT !.head = Len(j.records)]

-----------------------------------------------------------------------------
(* load_and_recover: every record is read, then the temporary is removed,   *)
(* then the head is repaired; the head may be missing for a first record    *)
(* and lag by one otherwise.                                                *)

\* The last record still shares its inode with its temporary: publish_no_replace is a
\* hard link, and the temporary is removed in a later step.
LinkedTail(j) == j.records # <<>> /\ j.record_temp = Len(j.records)

\* BoundedRegularReader::read_direct of every record: a file with a second link is refused.
read_records_ok(j) == Len(j.records) <= MaxRecords /\ ~LinkedTail(j)

\* The temporary is that of the last record or of the next one.  The records are read
\* before, so the removal of a second link is never reached.
recover_temporary_files_ok(j) ==
  j.record_temp \in {0, Len(j.records), Len(j.records) + 1}

\* Mutant of verify_or_recover_head_ok: a missing head is never recovered.
verify_or_recover_head_ok_HeadRequired(j) ==
  j.head # 0 /\ j.head \in {Len(j.records), Len(j.records) - 1}

verify_or_recover_head_ok(j) ==
  IF j.head = 0 THEN Len(j.records) = 1
  ELSE j.head \in {Len(j.records), Len(j.records) - 1}

load_and_recover_ok(j) ==
  /\ read_records_ok(j)
  /\ recover_temporary_files_ok(j)
  /\ verify_or_recover_head_ok(j)

HeadExact(j) == j.head = Len(j.records) /\ j.record_temp = 0

=============================================================================
