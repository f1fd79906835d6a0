------------------------ MODULE MCSyncCoordinator ------------------------
(***************************************************************************)
(* The two halves of src/sync.rs: the normalisation of a requested path    *)
(* set, and the coordinator, whose operations take normalised sets.        *)
(*                                                                         *)
(* Coordinator: a directory with two files and a path outside it.          *)
(* Requests: raw paths of up to three components, with the root marker     *)
(* and ./ only in front, where std::path produces them.  A behaviour       *)
(* normalises one request; the coordinator runs in the behaviours of the   *)
(* empty one, which is refused and leaves it as it was.                    *)
(***************************************************************************)
EXTENDS SyncCoordinator, PathNormalization, TLC

CONSTANTS src, a, b, doc

MCSegment == {src, a, b, doc}
MCPaths == {<<src>>, <<src, a>>, <<src, b>>, <<doc>>}

Inward == {src, doc, ParentDir}
Front == Inward \union {CurDir, RootDir}

AllRaw ==
  {<<>>} \union {<<x>> : x \in Front} \union {<<x, y>> : x \in Front, y \in Inward}
    \union {<<x, y, z>> : x \in Front, y \in Inward, z \in Inward}

\* For requests of three paths: everything that nests, and some ways out.
NestedRaw ==
  {<<src>>, <<doc>>, <<src, src>>, <<src, doc>>, <<src, src, doc>>, <<src, doc, src>>,
   <<CurDir, src>>, <<doc, ParentDir, src>>, <<src, ParentDir>>, <<ParentDir>>, <<RootDir, src>>}

\* Every pair of raw paths, the empty request, and triples of the nested ones.
MCRequests ==
  {{}} \union {{x, y} : x \in AllRaw, y \in AllRaw}
    \union {{x, y, z} : x \in NestedRaw, y \in NestedRaw, z \in NestedRaw}

MCInit == Init /\ NormInit

MCNext ==
  \/ NormNext /\ UNCHANGED vars
  \/ verdict = "EmptyClaim" /\ Next /\ UNCHANGED normVars

MCSpec == MCInit /\ [][MCNext]_<<vars, normVars>>

\* The two files are alike, and no request names them.
Symmetry == Permutations(Agents) \cup Permutations({a, b})
=============================================================================
