--------------------------- MODULE MCSyncStore ---------------------------
(* Instances of SyncStore: a directory with one file, alone or beside       *)
(* another path, or with two files; an empty store, or one adopted from a   *)
(* legacy file with a single claim.                                         *)
EXTENDS SyncStore, TLC

CONSTANTS src, a, b, legacy

MCSegment == {src, a, b}
WorkerPaths == {<<src>>, <<src, a>>, <<b>>}
NestedPaths == {<<src>>, <<src, a>>}

Short == [interval |-> 1, stale |-> 2]
OneTiming == {Short}

NoLegacy == {}
LegacyClaim ==
  {[EmptyInner EXCEPT !.next_token = 2,
      !.claims = {[token |-> 1, agent_id |-> legacy, paths |-> {<<src>>}]}]}

WorkerSymmetry == Permutations(Agents) \cup Permutations(Owners)
=============================================================================
