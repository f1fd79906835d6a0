------------------------- MODULE PathNormalization -------------------------
(***************************************************************************)
(* normalize_claim_paths (src/sync.rs) as the code runs it: every          *)
(* requested path is walked component by component, then the distinct      *)
(* results go through the loop of collapse_covered_paths one at a time.    *)
(* The properties compare what the two loops compute with definitions that *)
(* mention no loop.  The code takes the paths in the order of a BTreeSet;  *)
(* the model takes them in any order, so nothing rests on the order.       *)
(*                                                                         *)
(* A raw path is the sequence of its std::path components.                 *)
(***************************************************************************)
EXTENDS RepoPaths, FiniteSets

CONSTANTS
  RawPaths,      \* component sequences over Segment and the three markers
  Requests,      \* sets of raw paths a caller may ask for
  CurDir, ParentDir, RootDir

ASSUME RawPathsAssumption ==
  /\ Requests \subseteq SUBSET RawPaths
  /\ RawPaths \subseteq Seq(Segment \union {CurDir, ParentDir, RootDir})
  /\ {CurDir, ParentDir, RootDir} \intersect Segment = {}
  /\ CurDir # ParentDir /\ CurDir # RootDir /\ ParentDir # RootDir

VARIABLES
  requested,   \* the request: a set of raw paths
  remaining,   \* raw paths not yet normalised
  walk,        \* the path being walked: [raw, next, normalized]
  normals,     \* the BTreeSet of normalised paths
  todo,        \* normalised paths collapse_covered_paths has not seen
  collapsed,
  verdict      \* "walking", "collapsing", "Ok", or the SyncError

normVars == <<requested, remaining, walk, normals, todo, collapsed, verdict>>

NoWalk == [raw |-> <<>>, next |-> 1, normalized |-> <<>>]

NormInit ==
  /\ requested \in Requests
  /\ remaining = requested
  /\ walk = NoWalk
  /\ normals = {} /\ todo = {} /\ collapsed = {}
  /\ verdict = "walking"

Walking == verdict = "walking" /\ walk # NoWalk
Component == walk.raw[walk.next]

Fail(error) ==
  /\ verdict' = error
  /\ UNCHANGED <<requested, remaining, walk, normals, todo, collapsed>>

\* Take the next path; an empty one is refused before its components are read.
NextPath ==
  /\ verdict = "walking" /\ walk = NoWalk
  /\ \E raw \in remaining :
       IF raw = <<>> THEN Fail("EmptyPath")
       ELSE /\ walk' = [raw |-> raw, next |-> 1, normalized |-> <<>>]
            /\ remaining' = remaining \ {raw}
            /\ UNCHANGED <<requested, normals, todo, collapsed, verdict>>

Advance(normalized) ==
  /\ walk' = [walk EXCEPT !.next = @ + 1, !.normalized = normalized]
  /\ UNCHANGED <<requested, remaining, normals, todo, collapsed, verdict>>

\* Mutant of WalkParent: a parent of the root is ignored.
WalkParent_Saturates ==
  /\ Walking /\ walk.next <= Len(walk.raw) /\ Component = ParentDir
  /\ Advance(SubSeq(walk.normalized, 1, Len(walk.normalized) - 1))

WalkNormal ==
  /\ Walking /\ walk.next <= Len(walk.raw) /\ Component \in Segment
  /\ Advance(Append(walk.normalized, Component))

WalkCurDir ==
  /\ Walking /\ walk.next <= Len(walk.raw) /\ Component = CurDir
  /\ Advance(walk.normalized)

WalkParent ==
  /\ Walking /\ walk.next <= Len(walk.raw) /\ Component = ParentDir
  /\ IF walk.normalized = <<>> THEN Fail("EscapingPath")
     ELSE Advance(SubSeq(walk.normalized, 1, Len(walk.normalized) - 1))

WalkRoot ==
  /\ Walking /\ walk.next <= Len(walk.raw) /\ Component = RootDir
  /\ Fail("AbsolutePath")

FinishPath ==
  /\ Walking /\ walk.next > Len(walk.raw)
  /\ IF walk.normalized = <<>> THEN Fail("EmptyPath")
     ELSE /\ normals' = normals \union {walk.normalized}
          /\ walk' = NoWalk
          /\ UNCHANGED <<requested, remaining, todo, collapsed, verdict>>

BeginCollapse ==
  /\ verdict = "walking" /\ walk = NoWalk /\ remaining = {}
  /\ IF normals = {} THEN Fail("EmptyClaim")
     ELSE /\ todo' = normals
          /\ verdict' = "collapsing"
          /\ UNCHANGED <<requested, remaining, walk, normals, collapsed>>

\* One turn of the loop of collapse_covered_paths.
CollapseOne ==
  /\ verdict = "collapsing"
  /\ \E p \in todo :
       /\ todo' = todo \ {p}
       /\ collapsed' = IF \E q \in collapsed : starts_with(p, q) THEN collapsed
                       ELSE {q \in collapsed : ~starts_with(q, p)} \union {p}
       /\ UNCHANGED <<requested, remaining, walk, normals, verdict>>

FinishCollapse ==
  /\ verdict = "collapsing" /\ todo = {}
  /\ verdict' = "Ok"
  /\ UNCHANGED <<requested, remaining, walk, normals, todo, collapsed>>

NormNext ==
  \/ NextPath \/ WalkNormal \/ WalkCurDir \/ WalkParent \/ WalkRoot
  \/ FinishPath \/ BeginCollapse \/ CollapseOne \/ FinishCollapse

NormSpec == NormInit /\ [][NormNext]_normVars

-----------------------------------------------------------------------------
(* Reference definitions.                                                   *)

Count(raw, i, S) == Cardinality({k \in 1..i : raw[k] \in S})
Depth(raw, i) == Count(raw, i, Segment) - Count(raw, i, {ParentDir})
Escapes(raw) == \E i \in 1..Len(raw) : Depth(raw, i) < 0
Absolute(raw) == \E i \in 1..Len(raw) : raw[i] = RootDir

\* The component that stays at depth d: pushed there and not popped later.
Survives(raw, i, d) ==
  /\ raw[i] \in Segment /\ Depth(raw, i) = d
  /\ \A k \in i..Len(raw) : Depth(raw, k) >= d

Resolved(raw) ==
  [d \in 1..Depth(raw, Len(raw)) |-> raw[CHOOSE i \in 1..Len(raw) : Survives(raw, i, d)]]

Invalid(raw) == Absolute(raw) \/ Escapes(raw) \/ Depth(raw, Len(raw)) = 0

\* A request is accepted exactly when each of its paths stays strictly inside the
\* repository at every component, and its paths become what those components name.
WalkExact ==
  verdict \in {"collapsing", "Ok"} =>
    /\ \A raw \in requested : ~Invalid(raw)
    /\ normals = {Resolved(raw) : raw \in requested}

\* A refused request really holds a path of the kind the error names.
RefusalsJustified ==
  /\ verdict = "EmptyClaim" => requested = {}
  /\ verdict = "EscapingPath" => \E raw \in requested : Escapes(raw)
  /\ verdict = "AbsolutePath" => \E raw \in requested : Absolute(raw)
  /\ verdict = "EmptyPath" => \E raw \in requested : Depth(raw, Len(raw)) = 0

\* The loop returns the uncovered paths, whatever order it sees them in: the claim
\* reserves what was asked for and none of its paths covers another.
CollapseExact == verdict = "Ok" => collapsed = collapse_covered_paths(normals)

\* normalize_claim_paths accepts, refuses and returns exactly what the definitions without
\* a loop say, for every request and in whatever order its loops run.
NormalizesExactly == WalkExact /\ RefusalsJustified /\ CollapseExact

=============================================================================
