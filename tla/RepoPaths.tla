----------------------------- MODULE RepoPaths -----------------------------
(***************************************************************************)
(* The path algebra of the path-claim coordinator (src/sync.rs).           *)
(* A normalised repository-relative path is the non-empty sequence of its  *)
(* components, as Path::starts_with compares whole components.             *)
(***************************************************************************)
EXTENDS Naturals, Sequences

CONSTANTS
  Segment,    \* names of path components
  Paths       \* the normalised paths an instance talks about

ASSUME PathsAssumption == Paths \subseteq (Seq(Segment) \ {<<>>})

\* Path::starts_with of the Rust standard library: q is a component prefix of p.
starts_with(p, q) ==
  /\ Len(q) <= Len(p)
  /\ \A i \in 1..Len(q) : p[i] = q[i]

paths_overlap(p, q) == p = q \/ starts_with(p, q) \/ starts_with(q, p)

path_is_covered_by_claim(p, scope) == p = scope \/ starts_with(p, scope)

\* Two path sets that cannot be owned by two claims.
ScopesOverlap(ps, qs) == \E p \in ps, q \in qs : paths_overlap(p, q)

(***************************************************************************)
(* What collapse_covered_paths returns: the paths of ps that no other path *)
(* of ps covers.  Module PathNormalization walks the code's loop and shows *)
(* that it computes this set.                                              *)
(***************************************************************************)
collapse_covered_paths(ps) ==
  {p \in ps : \A q \in ps : q # p => ~starts_with(p, q)}
=============================================================================
