----------------------------- MODULE SyncProofs -----------------------------
(***************************************************************************)
(* Proofs about the path-claim coordinator: the normalisation of a request *)
(* (PathNormalization), the coordinator in memory (SyncCoordinator) and    *)
(* the durable store (SyncStore), for every set of paths, agents, digests, *)
(* owners and timings, every clock, every token bound and every budget.    *)
(*                                                                         *)
(* CoordInv is the coordinator's inductive invariant.  It carries over to  *)
(* the durable store because every update runs one or two of the           *)
(* coordinator's operations on the state it loaded.                        *)
(***************************************************************************)
EXTENDS PathNormalization, SyncStore,
        NaturalsInduction, WellFoundedInduction, FiniteSetTheorems, TLAPS

-----------------------------------------------------------------------------
(* The walk of one path (PathNormalization).                                *)

\* One more component counts once, and only when it is of the counted kind.
LEMMA CountStep ==
  ASSUME NEW raw, NEW i \in Nat, NEW S
  PROVE  /\ Count(raw, i, S) \in Nat
         /\ Count(raw, i + 1, S) =
              IF raw[i + 1] \in S THEN Count(raw, i, S) + 1 ELSE Count(raw, i, S)
<1> DEFINE A == {k \in 1..i : raw[k] \in S}
           B == {k \in 1..(i + 1) : raw[k] \in S}
           m == i + 1
<1>1. IsFiniteSet(1..i)
  BY FS_Interval
<1>2. IsFiniteSet(A) /\ Cardinality(A) \in Nat
  <2>1. A \in SUBSET (1..i)
    OBVIOUS
  <2> HIDE DEF A
  <2> QED
    BY <1>1, <2>1, FS_Subset, FS_CardinalityType
<1>3. 1..(i + 1) = (1..i) \union {i + 1} /\ i + 1 \notin 1..i
  OBVIOUS
<1>4. CASE raw[i + 1] \in S
  <2>1. B = A \union {m} /\ m \notin A
    BY <1>3, <1>4
  <2> HIDE DEF A, B, m
  <2>2. Cardinality(B) = Cardinality(A) + 1
    BY <1>2, <2>1, FS_AddElement
  <2> QED
    BY <1>2, <1>4, <2>2 DEF Count, A, B
<1>5. CASE raw[i + 1] \notin S
  <2>1. B = A
    BY <1>3, <1>5
  <2> QED
    BY <1>2, <1>5, <2>1 DEF Count
<1> QED
  BY <1>4, <1>5

\* Nothing walked is depth zero.
LEMMA DepthZero ==
  ASSUME NEW raw
  PROVE  Depth(raw, 0) = 0
<1>1. \A S : {k \in 1..0 : raw[k] \in S} = {}
  OBVIOUS
<1>2. \A S : Count(raw, 0, S) = 0
  BY <1>1, FS_EmptySet DEF Count
<1> QED
  BY <1>2 DEF Depth

\* A component pushes, pops or leaves the depth alone.
LEMMA DepthStep ==
  ASSUME NEW raw, NEW i \in Nat
  PROVE  /\ Depth(raw, i) \in Int
         /\ raw[i + 1] \in Segment => Depth(raw, i + 1) = Depth(raw, i) + 1
         /\ raw[i + 1] = ParentDir => Depth(raw, i + 1) = Depth(raw, i) - 1
         /\ raw[i + 1] \notin Segment /\ raw[i + 1] # ParentDir =>
              Depth(raw, i + 1) = Depth(raw, i)
<1> DEFINE x == raw[i + 1]
           P == {ParentDir}
           S0 == Count(raw, i, Segment)
           P0 == Count(raw, i, P)
           S1 == Count(raw, i + 1, Segment)
           P1 == Count(raw, i + 1, P)
<1>1. S0 \in Nat /\ S1 = IF x \in Segment THEN S0 + 1 ELSE S0
  BY CountStep
<1>2. P0 \in Nat /\ P1 = IF x \in P THEN P0 + 1 ELSE P0
  BY CountStep
<1>3. Depth(raw, i) = S0 - P0 /\ Depth(raw, i + 1) = S1 - P1
  BY DEF Depth
<1>4. ParentDir \notin Segment /\ (x \in P <=> x = ParentDir)
  BY RawPathsAssumption
<1> HIDE DEF x, S0, P0, S1, P1, P
<1>5. /\ Depth(raw, i) \in Int
      /\ x \in Segment => Depth(raw, i + 1) = Depth(raw, i) + 1
      /\ x = ParentDir => Depth(raw, i + 1) = Depth(raw, i) - 1
      /\ x \notin Segment /\ x # ParentDir => Depth(raw, i + 1) = Depth(raw, i)
  BY <1>1, <1>2, <1>3, <1>4
<1> QED
  BY <1>5 DEF x

\* Component k of the first i was pushed to depth d and has not been popped.
Kept(raw, i, k, d) ==
  /\ raw[k] \in Segment /\ Depth(raw, k) = d
  /\ \A m \in k..i : Depth(raw, m) >= d

\* What the loop knows of the i components it has walked.
Walked(raw, i, normalized) ==
  /\ Depth(raw, i) = Len(normalized)
  /\ \A k \in 1..i : Depth(raw, k) >= 0 /\ raw[k] # RootDir
  /\ \A d \in 1..Len(normalized) :
       \E k \in 1..i : Kept(raw, i, k, d) /\ normalized[d] = raw[k]

\* At most one component survives at a depth: whatever is pushed there later finds the
\* depth below it, so the earlier one has been popped.
LEMMA SurvivorUnique ==
  ASSUME NEW raw, NEW n \in Nat, NEW d, NEW j \in 1..n, NEW k \in 1..n,
         Kept(raw, n, j, d), Kept(raw, n, k, d)
  PROVE  j = k
<1>1. ASSUME NEW p \in 1..n, NEW q \in 1..n, Kept(raw, n, p, d), Kept(raw, n, q, d), p < q
      PROVE  FALSE
  <2> DEFINE r == q - 1
  <2>1. r \in Nat /\ r + 1 = q /\ r \in p..n
    BY <1>1
  <2> HIDE DEF r
  <2>2. Depth(raw, r) \in Int /\ Depth(raw, q) = Depth(raw, r) + 1
    <3>1. raw[r + 1] \in Segment
      BY <1>1, <2>1 DEF Kept
    <3> QED
      BY <2>1, <3>1, DepthStep
  <2>3. Depth(raw, r) >= d /\ Depth(raw, q) = d
    BY <1>1, <2>1 DEF Kept
  <2> QED
    BY <2>2, <2>3
<1>2. j < k \/ k < j \/ j = k
  OBVIOUS
<1> QED
  BY <1>1, <1>2

\* A path walked to its end is what its components resolve to.
LEMMA WalkedResolves ==
  ASSUME NEW raw, Len(raw) \in Nat, NEW normalized \in Seq(Segment),
         Walked(raw, Len(raw), normalized)
  PROVE  normalized = Resolved(raw)
<1> DEFINE n == Len(raw)
           Chosen(d) == CHOOSE i \in 1..n : Survives(raw, i, d)
<1>1. \A i, d : Survives(raw, i, d) <=> Kept(raw, n, i, d)
  BY DEF Survives, Kept
<1>2. ASSUME NEW d \in 1..Len(normalized)
      PROVE  normalized[d] = raw[Chosen(d)]
  <2>1. PICK k \in 1..n : Kept(raw, n, k, d) /\ normalized[d] = raw[k]
    BY DEF Walked
  <2>2. Chosen(d) \in 1..n /\ Survives(raw, Chosen(d), d)
    BY <1>1, <2>1
  <2>3. Kept(raw, n, Chosen(d), d)
    BY <1>1, <2>2
  <2> HIDE DEF n, Chosen
  <2>4. n \in Nat
    BY DEF n
  <2>5. Chosen(d) = k
    BY <2>1, <2>2, <2>3, <2>4, SurvivorUnique
  <2> QED
    BY <2>1, <2>5
<1>3. Resolved(raw) = [d \in 1..Len(normalized) |-> raw[Chosen(d)]]
  BY DEF Resolved, Walked
<1> HIDE DEF Chosen, n
<1>4. normalized = [d \in 1..Len(normalized) |-> normalized[d]]
  OBVIOUS
<1> QED
  BY <1>2, <1>3, <1>4

\* Nothing walked is nothing kept.
LEMMA WalkedStart ==
  ASSUME NEW raw
  PROVE  Walked(raw, 0, <<>>)
<1>1. Depth(raw, 0) = Len(<<>>)
  BY DepthZero
<1> QED
  BY <1>1 DEF Walked

\* What was kept and is not popped by the next component stays kept.
LEMMA KeptStep ==
  ASSUME NEW raw, NEW i \in Nat, NEW k \in 1..i, NEW d, Kept(raw, i, k, d),
         Depth(raw, i + 1) >= d
  PROVE  Kept(raw, i + 1, k, d)
<1>1. \A m \in k..(i + 1) : m \in k..i \/ m = i + 1
  OBVIOUS
<1> QED
  BY <1>1 DEF Kept

\* A name is pushed.
LEMMA WalkedPush ==
  ASSUME NEW raw, NEW i \in Nat, NEW normalized \in Seq(Segment),
         Walked(raw, i, normalized), raw[i + 1] \in Segment
  PROVE  Walked(raw, i + 1, Append(normalized, raw[i + 1]))
<1> DEFINE x == raw[i + 1]
           next == Append(normalized, x)
           n == Len(normalized)
           m == i + 1
<1>1. /\ n \in Nat /\ Len(next) = n + 1 /\ next[n + 1] = x
      /\ \A d \in 1..n : next[d] = normalized[d]
  OBVIOUS
<1>2. Depth(raw, m) = n + 1
  <2>1. Depth(raw, i) = n
    BY DEF Walked
  <2> QED
    BY <2>1, DepthStep
<1>3. \A k \in 1..m : k \in 1..i \/ k = m
  OBVIOUS
<1>4. \A k \in 1..m : Depth(raw, k) >= 0 /\ raw[k] # RootDir
  <2>1. x # RootDir
    BY RawPathsAssumption
  <2> QED
    BY <1>1, <1>2, <1>3, <2>1 DEF Walked
<1>5. ASSUME NEW d \in 1..(n + 1)
      PROVE  \E k \in 1..m : Kept(raw, m, k, d) /\ next[d] = raw[k]
  <2>1. CASE d = n + 1
    <3>1. m \in 1..m /\ m..m = {m}
      OBVIOUS
    <3>2. Kept(raw, m, m, d)
      <4>1. \A k \in m..m : k = m
        OBVIOUS
      <4>2. raw[m] \in Segment
        OBVIOUS
      <4> HIDE DEF m
      <4> QED
        BY <1>1, <1>2, <2>1, <4>1, <4>2 DEF Kept
    <3> QED
      BY <1>1, <2>1, <3>1, <3>2
  <2>2. CASE d \in 1..n
    <3>1. PICK k \in 1..i : Kept(raw, i, k, d) /\ normalized[d] = raw[k]
      BY <2>2 DEF Walked
    <3>2. Depth(raw, i + 1) >= d
      BY <1>1, <1>2, <2>2
    <3>3. Kept(raw, i + 1, k, d)
      BY <3>1, <3>2, KeptStep
    <3>4. k \in 1..m
      OBVIOUS
    <3> QED
      BY <1>1, <2>2, <3>1, <3>3, <3>4
  <2> QED
    BY <1>1, <2>1, <2>2
<1> HIDE DEF next, n
<1> QED
  BY <1>1, <1>2, <1>4, <1>5 DEF Walked, next

\* A `.' changes nothing.
LEMMA WalkedStay ==
  ASSUME NEW raw, NEW i \in Nat, NEW normalized \in Seq(Segment),
         Walked(raw, i, normalized), raw[i + 1] = CurDir
  PROVE  Walked(raw, i + 1, normalized)
<1> DEFINE m == i + 1
           n == Len(normalized)
<1>1. Depth(raw, m) = n /\ n \in Nat
  <2>1. Depth(raw, i) = n /\ n \in Nat
    BY DEF Walked
  <2>2. CurDir \notin Segment /\ CurDir # ParentDir
    BY RawPathsAssumption
  <2> QED
    BY <2>1, <2>2, DepthStep
<1>2. \A k \in 1..m : k \in 1..i \/ k = m
  OBVIOUS
<1>3. \A k \in 1..m : Depth(raw, k) >= 0 /\ raw[k] # RootDir
  BY <1>1, <1>2, RawPathsAssumption DEF Walked
<1>4. ASSUME NEW d \in 1..n
      PROVE  \E k \in 1..m : Kept(raw, m, k, d) /\ normalized[d] = raw[k]
  <2>1. PICK k \in 1..i : Kept(raw, i, k, d) /\ normalized[d] = raw[k]
    BY DEF Walked
  <2>2. Kept(raw, i + 1, k, d)
    BY <1>1, <2>1, KeptStep
  <2>3. k \in 1..m
    OBVIOUS
  <2> QED
    BY <2>1, <2>2, <2>3
<1> QED
  BY <1>1, <1>3, <1>4 DEF Walked

\* A `..' pops the last name.
LEMMA WalkedPop ==
  ASSUME NEW raw, NEW i \in Nat, NEW normalized \in Seq(Segment), normalized # <<>>,
         Walked(raw, i, normalized), raw[i + 1] = ParentDir
  PROVE  Walked(raw, i + 1, SubSeq(normalized, 1, Len(normalized) - 1))
<1> DEFINE n == Len(normalized)
           l == n - 1
           next == SubSeq(normalized, 1, l)
           m == i + 1
<1>1. n \in Nat /\ n # 0 /\ l \in Nat /\ l < n
  OBVIOUS
<1>2. Len(next) = l /\ \A d \in 1..l : next[d] = normalized[d]
  <2>1. l <= Len(normalized) /\ 1 <= l + 1
    BY <1>1
  <2> HIDE DEF l
  <2>2. next = [d \in 1..l |-> normalized[d]]
    BY <1>1, <2>1
  <2> QED
    BY <1>1, <2>2
<1>3. Depth(raw, m) = l
  <2>1. Depth(raw, i) = n
    BY DEF Walked
  <2> QED
    BY <1>1, <2>1, DepthStep
<1>4. \A k \in 1..m : k \in 1..i \/ k = m
  OBVIOUS
<1>5. \A k \in 1..m : Depth(raw, k) >= 0 /\ raw[k] # RootDir
  <2>1. raw[m] # RootDir
    BY RawPathsAssumption
  <2> QED
    <3>1. Depth(raw, m) >= 0
      BY <1>1, <1>3
    <3> HIDE DEF m
    <3> QED
      BY <1>4, <2>1, <3>1 DEF Walked
<1>6. ASSUME NEW d \in 1..l
      PROVE  \E k \in 1..m : Kept(raw, m, k, d) /\ next[d] = raw[k]
  <2>1. d \in 1..n
    BY <1>1
  <2>2. PICK k \in 1..i : Kept(raw, i, k, d) /\ normalized[d] = raw[k]
    BY <2>1 DEF Walked
  <2>3. Depth(raw, i + 1) >= d
    BY <1>1, <1>3
  <2>4. Kept(raw, i + 1, k, d)
    BY <2>2, <2>3, KeptStep
  <2>5. k \in 1..m
    OBVIOUS
  <2> QED
    BY <1>2, <2>2, <2>4, <2>5
<1> HIDE DEF next, l
<1> QED
  BY <1>2, <1>3, <1>5, <1>6 DEF Walked, next, l

-----------------------------------------------------------------------------
(* One turn of the loop of collapse_covered_paths.                          *)

\* Component prefixes of any sequences: an order.
LEMMA PrefixOrder ==
  ASSUME NEW p \in Seq(Segment), NEW q \in Seq(Segment), NEW r \in Seq(Segment)
  PROVE  /\ starts_with(p, q) /\ starts_with(q, r) => starts_with(p, r)
         /\ starts_with(p, q) /\ starts_with(q, p) => p = q
<1>1. ASSUME starts_with(p, q), starts_with(q, r) PROVE starts_with(p, r)
  BY <1>1 DEF starts_with
<1>2. ASSUME starts_with(p, q), starts_with(q, p) PROVE p = q
  <2>1. Len(p) = Len(q) /\ \A i \in 1..Len(p) : p[i] = q[i]
    BY <1>2 DEF starts_with
  <2> QED
    BY <2>1
<1> QED
  BY <1>1, <1>2

\* A covered path is covered by one that nothing else covers: the shortest.
LEMMA CoveredByCollapsed ==
  ASSUME NEW seen \in SUBSET Seq(Segment), NEW p \in Seq(Segment), NEW c \in seen,
         starts_with(p, c)
  PROVE  \E q \in collapse_covered_paths(seen) : starts_with(p, q)
<1> DEFINE T == {Len(q) : q \in {x \in seen : starts_with(p, x)}}
           Less == {ss \in Nat \X Nat : ss[1] < ss[2]}
<1>1. T \subseteq Nat /\ T # {}
  <2>1. \A q \in seen : Len(q) \in Nat
    OBVIOUS
  <2>2. Len(c) \in T
    OBVIOUS
  <2> QED
    BY <2>1, <2>2
<1> HIDE DEF T
<1>2. \E m \in T : \A k \in T : ~(<<k, m>> \in OpToRel(<, Nat))
  BY <1>1, NatLessThanWellFounded, WFMin
<1>3. Less = OpToRel(<, Nat)
  BY Zenon DEF OpToRel
<1>4. \E m \in T : \A k \in T : <<k, m>> \notin Less
  BY <1>2, <1>3, Zenon
<1>5. \A k, m \in Nat : <<k, m>> \notin Less => m <= k
  OBVIOUS
<1> HIDE DEF Less
<1>6. PICK m \in T : \A k \in T : m <= k
  BY <1>1, <1>4, <1>5
<1>7. PICK q \in seen : starts_with(p, q) /\ m = Len(q)
  BY <1>6 DEF T
<1>8. ASSUME NEW x \in seen, x # q, starts_with(q, x)
      PROVE  FALSE
  <2>1. starts_with(p, x)
    BY <1>7, <1>8, PrefixOrder
  <2>2. Len(q) <= Len(x)
    BY <1>6, <1>7, <2>1 DEF T
  <2>3. starts_with(x, q)
    BY <1>8, <2>2 DEF starts_with
  <2> QED
    BY <1>8, <2>3, PrefixOrder
<1> QED
  BY <1>7, <1>8 DEF collapse_covered_paths

\* The loop's body computes the uncovered paths of what it has seen and the next path.
LEMMA CollapseTurn ==
  ASSUME NEW seen \in SUBSET Seq(Segment), NEW p \in Seq(Segment), p \notin seen
  PROVE  LET done == collapse_covered_paths(seen) IN
           collapse_covered_paths(seen \union {p}) =
             IF \E q \in done : starts_with(p, q) THEN done
             ELSE {q \in done : ~starts_with(q, p)} \union {p}
<1> DEFINE done == collapse_covered_paths(seen)
           both == collapse_covered_paths(seen \union {p})
<1>1. \A q : q \in done <=> q \in seen /\ \A c \in seen : c # q => ~starts_with(q, c)
  BY DEF collapse_covered_paths
<1>2. \A q : q \in both <=> /\ q \in seen \/ q = p
                            /\ \A c \in seen : c # q => ~starts_with(q, c)
                            /\ p # q => ~starts_with(q, p)
  BY DEF collapse_covered_paths
<1>3. CASE \E q \in done : starts_with(p, q)
  <2>1. PICK c \in done : starts_with(p, c)
    BY <1>3
  <2>2. c \in seen /\ c # p
    BY <1>1, <2>1
  <2>3. p \notin both
    BY <1>2, <2>1, <2>2
  <2>4. ASSUME NEW q \in done, starts_with(q, p)
        PROVE  FALSE
    <3>1. q \in seen
      BY <1>1, <2>4
    <3>2. starts_with(q, c)
      BY <2>1, <2>2, <2>4, <3>1, PrefixOrder
    <3>3. q = c
      BY <1>1, <2>2, <3>2
    <3> QED
      BY <2>1, <2>2, <2>4, <3>1, <3>3, PrefixOrder
  <2> HIDE DEF done, both
  <2>5. both = done
    BY <1>1, <1>2, <2>3, <2>4
  <2> QED
    BY <1>3, <2>5 DEF done, both
<1>4. CASE ~ \E q \in done : starts_with(p, q)
  <2>1. \A c \in seen : ~starts_with(p, c)
    BY <1>4, CoveredByCollapsed
  <2> HIDE DEF done, both
  <2>2. p \in both
    BY <1>2, <2>1
  <2>3. both = {q \in done : ~starts_with(q, p)} \union {p}
    BY <1>1, <1>2, <2>2
  <2> QED
    BY <1>4, <2>3 DEF done, both
<1> QED
  BY <1>3, <1>4

-----------------------------------------------------------------------------
(* The two loops.                                                           *)

Current == IF walk = NoWalk THEN {} ELSE {walk.raw}
\* The paths whose walk has ended.
Finished == requested \ (remaining \union Current)

\* Every finished path was accepted and stands in normals as what it resolves to.
FinishedExact ==
  /\ \A raw \in Finished : ~Invalid(raw)
  /\ normals = {Resolved(raw) : raw \in Finished}

WalkedPath == RawPaths \union {<<>>}

WalkSound ==
  /\ todo = {} /\ collapsed = {}
  /\ walk \in [raw : WalkedPath, next : Nat \ {0}, normalized : Seq(Segment)]
  /\ walk # NoWalk =>
       /\ walk.raw \in requested \ remaining /\ walk.raw # <<>>
       /\ walk.next <= Len(walk.raw) + 1
       /\ Walked(walk.raw, walk.next - 1, walk.normalized)
  /\ FinishedExact

CollapseSound ==
  /\ todo \subseteq normals
  /\ collapsed = collapse_covered_paths(normals \ todo)
  /\ verdict = "Ok" => todo = {}

NormInv ==
  /\ requested \in SUBSET RawPaths /\ remaining \subseteq requested
  /\ normals \subseteq Seq(Segment)
  /\ verdict = "walking" => WalkSound
  /\ verdict \in {"collapsing", "Ok"} => CollapseSound
  /\ WalkExact /\ RefusalsJustified

\* Paths not walked yet, a path being walked and the finished ones.
LEMMA WalkParts ==
  ASSUME NormInv, Walking
  PROVE  /\ WalkSound /\ verdict = "walking" /\ walk # NoWalk
         /\ walk.raw \in RawPaths /\ Len(walk.raw) \in Nat
         /\ walk.raw \in requested \ remaining /\ walk.raw # <<>>
         /\ walk.next \in Nat \ {0} /\ walk.next - 1 \in Nat
         /\ walk.normalized \in Seq(Segment)
         /\ Walked(walk.raw, walk.next - 1, walk.normalized)
<1>1. WalkSound /\ verdict = "walking" /\ walk # NoWalk
  BY DEF NormInv, Walking
<1>2. /\ walk.raw \in requested \ remaining /\ walk.raw # <<>>
      /\ walk.next \in Nat \ {0} /\ walk.normalized \in Seq(Segment)
      /\ Walked(walk.raw, walk.next - 1, walk.normalized)
  BY <1>1 DEF WalkSound
<1>3. walk.raw \in RawPaths
  BY <1>2 DEF NormInv
<1>4. Len(walk.raw) \in Nat
  BY <1>3, RawPathsAssumption
<1> QED
  BY <1>1, <1>2, <1>3, <1>4

\* A refusal needs its reason and nothing else.
LEMMA RefusalKeeps ==
  ASSUME NormInv, NEW e \in {"EmptyClaim", "EscapingPath", "AbsolutePath", "EmptyPath"}, Fail(e),
         \/ e = "EmptyClaim" /\ requested = {}
         \/ e = "EscapingPath" /\ \E raw \in requested : Escapes(raw)
         \/ e = "AbsolutePath" /\ \E raw \in requested : Absolute(raw)
         \/ e = "EmptyPath" /\ \E raw \in requested : Depth(raw, Len(raw)) = 0
  PROVE  NormInv'
<1>1. verdict' = e /\ UNCHANGED <<requested, remaining, normals>>
  BY DEF Fail
<1>2. RefusalsJustified' /\ WalkExact'
  BY <1>1 DEF RefusalsJustified, WalkExact
<1> QED
  BY <1>1, <1>2 DEF NormInv

\* While paths are walked nothing has been decided.
LEMMA WalkingKeeps ==
  ASSUME NormInv, verdict' = "walking", requested' = requested, remaining' \subseteq remaining,
         (normals \subseteq Seq(Segment))', WalkSound'
  PROVE  NormInv'
<1>1. RefusalsJustified' /\ WalkExact'
  BY DEF RefusalsJustified, WalkExact
<1> QED
  BY <1>1 DEF NormInv

\* One more component of the path has been walked.
LEMMA AdvanceKeeps ==
  ASSUME NormInv, Walking, walk.next <= Len(walk.raw), NEW next \in Seq(Segment), Advance(next),
         Walked(walk.raw, walk.next, next)
  PROVE  NormInv'
<1>1. /\ WalkSound /\ verdict = "walking" /\ walk # NoWalk
      /\ walk.raw \in RawPaths /\ walk.raw \in requested \ remaining /\ walk.raw # <<>>
      /\ walk.next \in Nat \ {0} /\ Len(walk.raw) \in Nat
  BY WalkParts
<1>2. walk \in [raw : WalkedPath, next : Nat \ {0}, normalized : Seq(Segment)]
  BY <1>1 DEF WalkSound
<1>3. /\ walk'.raw = walk.raw /\ walk'.next = walk.next + 1 /\ walk'.normalized = next
      /\ walk' \in [raw : WalkedPath, next : Nat \ {0}, normalized : Seq(Segment)]
      /\ UNCHANGED <<requested, remaining, normals, todo, collapsed, verdict>>
  <2>1. walk.next + 1 \in Nat \ {0}
    BY <1>1
  <2> QED
    BY <1>2, <2>1 DEF Advance
<1>4. walk'.next - 1 = walk.next /\ walk'.next <= Len(walk'.raw) + 1
  BY <1>1, <1>3
<1>5. walk' # NoWalk
  BY <1>1, <1>3 DEF NoWalk
<1>6. Finished' = Finished
  BY <1>1, <1>3, <1>5 DEF Finished, Current
<1>7. FinishedExact'
  BY <1>1, <1>3, <1>6 DEF FinishedExact, WalkSound
<1>8. WalkSound'
  BY <1>1, <1>3, <1>4, <1>7 DEF WalkSound
<1>9. (normals \subseteq Seq(Segment))'
  BY <1>3 DEF NormInv
<1> QED
  BY <1>1, <1>3, <1>8, <1>9, WalkingKeeps

\* The next path, or the refusal of an empty one.
LEMMA NextPathKeeps ==
  ASSUME NormInv, NextPath
  PROVE  NormInv'
<1>1. verdict = "walking" /\ walk = NoWalk /\ WalkSound
  BY DEF NextPath, NormInv
<1>2. PICK raw \in remaining :
        IF raw = <<>> THEN Fail("EmptyPath")
        ELSE /\ walk' = [raw |-> raw, next |-> 1, normalized |-> <<>>]
             /\ remaining' = remaining \ {raw}
             /\ UNCHANGED <<requested, normals, todo, collapsed, verdict>>
  BY DEF NextPath
<1>3. raw \in requested /\ raw \in RawPaths /\ Len(raw) \in Nat
  BY RawPathsAssumption DEF NormInv
<1>4. CASE raw = <<>>
  <2>1. Depth(raw, Len(raw)) = 0
    BY <1>4, DepthZero
  <2> QED
    BY <1>2, <1>3, <1>4, <2>1, RefusalKeeps
<1>5. CASE raw # <<>>
  <2>1. /\ walk'.raw = raw /\ walk'.next = 1 /\ walk'.normalized = <<>>
        /\ walk' \in [raw : WalkedPath, next : Nat \ {0}, normalized : Seq(Segment)]
        /\ remaining' = remaining \ {raw}
        /\ UNCHANGED <<requested, normals, todo, collapsed, verdict>>
    <3> DEFINE none == <<>>
               one == 1
    <3>1. raw \in WalkedPath /\ none \in Seq(Segment) /\ one \in Nat \ {0}
      BY <1>3 DEF WalkedPath
    <3>2. /\ walk' = [raw |-> raw, next |-> one, normalized |-> none]
          /\ remaining' = remaining \ {raw}
          /\ UNCHANGED <<requested, normals, todo, collapsed, verdict>>
      BY <1>2, <1>5, Zenon
    <3> HIDE DEF none, one
    <3>3. /\ walk'.raw = raw /\ walk'.next = one /\ walk'.normalized = none
          /\ walk' \in [raw : WalkedPath, next : Nat \ {0}, normalized : Seq(Segment)]
      BY <3>1, <3>2
    <3> QED
      BY <3>2, <3>3 DEF none, one
  <2>2. walk' # NoWalk
    BY <1>5, <2>1 DEF NoWalk
  <2>3. Finished' = Finished
    BY <1>1, <1>3, <2>1, <2>2 DEF Finished, Current
  <2>4. FinishedExact'
    BY <1>1, <2>1, <2>3 DEF FinishedExact, WalkSound
  <2>5. Walked(walk'.raw, walk'.next - 1, walk'.normalized)
    BY <2>1, WalkedStart
  <2>6. WalkSound'
    BY <1>1, <1>3, <1>5, <2>1, <2>4, <2>5 DEF WalkSound
  <2>7. (normals \subseteq Seq(Segment))'
    BY <2>1 DEF NormInv
  <2> QED
    BY <1>1, <2>1, <2>6, <2>7, WalkingKeeps
<1> QED
  BY <1>4, <1>5

\* A component of each kind.
LEMMA ComponentKeeps ==
  ASSUME NormInv, WalkNormal \/ WalkCurDir \/ WalkParent \/ WalkRoot
  PROVE  NormInv'
<1> DEFINE raw == walk.raw
           i == walk.next - 1
           names == walk.normalized
<1>1. Walking /\ walk.next <= Len(raw)
  BY DEF WalkNormal, WalkCurDir, WalkParent, WalkRoot
<1>2. /\ raw \in requested /\ Len(raw) \in Nat /\ walk.next \in Nat \ {0} /\ i \in Nat
      /\ i + 1 = walk.next /\ names \in Seq(Segment) /\ Walked(raw, i, names)
  BY <1>1, WalkParts
<1>3. walk.next \in 1..Len(raw)
  BY <1>1, <1>2
<1>4. raw[i + 1] = Component
  BY <1>2 DEF Component
<1> HIDE DEF raw, i, names
<1>5. CASE WalkNormal
  <2>1. Component \in Segment /\ Advance(Append(names, Component))
    BY <1>5 DEF WalkNormal, names
  <2>2. Walked(raw, i + 1, Append(names, raw[i + 1]))
    BY <1>2, <1>4, <2>1, WalkedPush
  <2>3. Walked(walk.raw, walk.next, Append(names, Component))
    BY <1>2, <1>4, <2>2 DEF raw
  <2>4. Append(names, Component) \in Seq(Segment)
    BY <1>2, <2>1
  <2> QED
    BY <1>1, <2>1, <2>3, <2>4, AdvanceKeeps DEF raw
<1>6. CASE WalkCurDir
  <2>1. Component = CurDir /\ Advance(names)
    BY <1>6 DEF WalkCurDir, names
  <2>2. Walked(raw, i + 1, names)
    BY <1>2, <1>4, <2>1, WalkedStay
  <2> QED
    BY <1>1, <1>2, <2>1, <2>2, AdvanceKeeps DEF raw
<1>7. CASE WalkParent
  <2> DEFINE popped == SubSeq(names, 1, Len(names) - 1)
  <2>1. /\ Component = ParentDir
        /\ IF names = <<>> THEN Fail("EscapingPath") ELSE Advance(popped)
    BY <1>7 DEF WalkParent, names
  <2>2. CASE names = <<>>
    <3>1. Depth(raw, i) = 0
      BY <1>2, <2>2 DEF Walked
    <3>2. Depth(raw, i + 1) = Depth(raw, i) - 1
      BY <1>2, <1>4, <2>1, DepthStep
    <3>3. Depth(raw, walk.next) < 0
      BY <1>2, <3>1, <3>2
    <3>4. Escapes(raw)
      BY <1>3, <3>3 DEF Escapes
    <3> QED
      BY <1>2, <2>1, <2>2, <3>4, RefusalKeeps
  <2>3. CASE names # <<>>
    <3>1. Walked(raw, i + 1, popped)
      BY <1>2, <1>4, <2>1, <2>3, WalkedPop
    <3>2. popped \in Seq(Segment)
      BY <1>2, <2>3
    <3> HIDE DEF popped
    <3> QED
      BY <1>1, <1>2, <2>1, <2>3, <3>1, <3>2, AdvanceKeeps DEF raw
  <2> QED
    BY <2>2, <2>3
<1>8. CASE WalkRoot
  <2>1. Component = RootDir /\ Fail("AbsolutePath")
    BY <1>8 DEF WalkRoot
  <2>2. raw[walk.next] = RootDir
    BY <2>1 DEF Component, raw
  <2>3. Absolute(raw)
    BY <1>3, <2>2 DEF Absolute
  <2> QED
    BY <1>2, <2>1, <2>3, RefusalKeeps
<1> QED
  BY <1>5, <1>6, <1>7, <1>8

\* The end of a path: it joins the set, or names the repository itself.
LEMMA FinishPathKeeps ==
  ASSUME NormInv, FinishPath
  PROVE  NormInv'
<1> DEFINE raw == walk.raw
           names == walk.normalized
<1>1. /\ Walking /\ walk.next > Len(raw)
      /\ IF names = <<>> THEN Fail("EmptyPath")
         ELSE /\ normals' = normals \union {names}
              /\ walk' = NoWalk
              /\ UNCHANGED <<requested, remaining, todo, collapsed, verdict>>
  BY DEF FinishPath
<1>2. /\ WalkSound /\ verdict = "walking" /\ walk # NoWalk
      /\ raw \in requested \ remaining /\ Len(raw) \in Nat
      /\ walk.next \in Nat \ {0} /\ names \in Seq(Segment)
      /\ Walked(raw, walk.next - 1, names)
  BY <1>1, WalkParts
<1>3. walk.next - 1 = Len(raw)
  <2>1. walk.next <= Len(raw) + 1
    BY <1>2 DEF WalkSound
  <2> QED
    BY <1>1, <1>2, <2>1
<1>4. Walked(raw, Len(raw), names)
  BY <1>2, <1>3
<1>5. Current = {raw}
  BY <1>2 DEF Current
<1> HIDE DEF raw, names
<1>6. CASE names = <<>>
  <2>1. Depth(raw, Len(raw)) = 0
    BY <1>4, <1>6 DEF Walked
  <2> QED
    BY <1>1, <1>2, <1>6, <2>1, RefusalKeeps
<1>7. CASE names # <<>>
  <2>1. /\ normals' = normals \union {names} /\ walk' = NoWalk
        /\ UNCHANGED <<requested, remaining, todo, collapsed, verdict>>
    BY <1>1, <1>7
  <2>2. names = Resolved(raw)
    BY <1>2, <1>4, WalkedResolves
  <2>3. ~Invalid(raw)
    <3>1. Depth(raw, Len(raw)) # 0
      <4>1. Len(names) # 0
        BY <1>2, <1>7
      <4> QED
        BY <1>4, <4>1 DEF Walked
    <3>2. \A k \in 1..Len(raw) : Depth(raw, k) >= 0 /\ raw[k] # RootDir
      BY <1>4 DEF Walked
    <3>3. ~Absolute(raw)
      BY <3>2 DEF Absolute
    <3>4. ~Escapes(raw)
      <4>1. \A k \in 1..Len(raw) : Depth(raw, k) \in Int
        BY <1>2, DepthStep
      <4> QED
        BY <3>2, <4>1 DEF Escapes
    <3> QED
      BY <3>1, <3>3, <3>4 DEF Invalid
  <2>4. Finished' = Finished \union {raw}
    <3>1. Current' = {}
      BY <2>1 DEF Current
    <3> QED
      BY <1>2, <1>5, <2>1, <3>1 DEF Finished
  <2>5. FinishedExact
    BY <1>2 DEF WalkSound
  <2>6. FinishedExact'
    <3> HIDE DEF Finished
    <3>1. \A x \in Finished' : ~Invalid(x)
      BY <2>3, <2>4, <2>5 DEF FinishedExact
    <3>2. normals' = {Resolved(x) : x \in Finished'}
      BY <2>1, <2>2, <2>4, <2>5 DEF FinishedExact
    <3> QED
      BY <3>1, <3>2 DEF FinishedExact
  <2>7. walk' \in [raw : WalkedPath, next : Nat \ {0}, normalized : Seq(Segment)]
    BY <2>1 DEF NoWalk, WalkedPath
  <2>8. WalkSound'
    BY <1>2, <2>1, <2>6, <2>7 DEF WalkSound
  <2>9. (normals \subseteq Seq(Segment))'
    BY <1>2, <2>1 DEF NormInv
  <2> QED
    BY <1>2, <2>1, <2>8, <2>9, WalkingKeeps
<1> QED
  BY <1>6, <1>7

\* Every path is walked.
LEMMA BeginCollapseKeeps ==
  ASSUME NormInv, BeginCollapse
  PROVE  NormInv'
<1>1. verdict = "walking" /\ walk = NoWalk /\ remaining = {} /\ WalkSound
  BY DEF BeginCollapse, NormInv
<1>2. Finished = requested
  BY <1>1 DEF Finished, Current
<1>3. /\ \A raw \in requested : ~Invalid(raw)
      /\ normals = {Resolved(raw) : raw \in requested}
  BY <1>1, <1>2 DEF WalkSound, FinishedExact
<1>4. CASE normals = {}
  <2>1. requested = {} /\ Fail("EmptyClaim")
    BY <1>3, <1>4 DEF BeginCollapse
  <2> QED
    BY <2>1, RefusalKeeps
<1>5. CASE normals # {}
  <2>1. /\ todo' = normals /\ verdict' = "collapsing"
        /\ UNCHANGED <<requested, remaining, walk, normals, collapsed>>
    BY <1>5 DEF BeginCollapse
  <2>2. collapsed = {} /\ normals \ normals = {}
    BY <1>1 DEF WalkSound
  <2>3. CollapseSound'
    BY <2>1, <2>2 DEF CollapseSound, collapse_covered_paths
  <2>4. WalkExact' /\ RefusalsJustified'
    BY <1>3, <2>1 DEF WalkExact, RefusalsJustified
  <2> QED
    BY <2>1, <2>3, <2>4 DEF NormInv
<1> QED
  BY <1>4, <1>5

\* One turn of the second loop, and its end.
LEMMA CollapseKeeps ==
  ASSUME NormInv, CollapseOne \/ FinishCollapse
  PROVE  NormInv'
<1>1. verdict = "collapsing" /\ CollapseSound /\ WalkExact
  BY DEF CollapseOne, FinishCollapse, NormInv
<1>2. CASE CollapseOne
  <2>1. PICK p \in todo :
          /\ todo' = todo \ {p}
          /\ collapsed' = IF \E q \in collapsed : starts_with(p, q) THEN collapsed
                          ELSE {q \in collapsed : ~starts_with(q, p)} \union {p}
          /\ UNCHANGED <<requested, remaining, walk, normals, verdict>>
    BY <1>2 DEF CollapseOne
  <2> DEFINE seen == normals \ todo
  <2>2. seen \in SUBSET Seq(Segment) /\ p \in Seq(Segment) /\ p \notin seen
    BY <1>1 DEF CollapseSound, NormInv
  <2>3. (normals \ todo)' = seen \union {p}
    BY <1>1, <2>1 DEF CollapseSound
  <2>4. collapsed = collapse_covered_paths(seen)
    BY <1>1 DEF CollapseSound
  <2> HIDE DEF seen
  <2>5. collapsed' = collapse_covered_paths(seen \union {p})
    BY <2>1, <2>2, <2>4, CollapseTurn
  <2>6. CollapseSound'
    BY <1>1, <2>1, <2>3, <2>5 DEF CollapseSound
  <2>7. WalkExact' /\ RefusalsJustified'
    BY <1>1, <2>1 DEF WalkExact, RefusalsJustified
  <2> QED
    BY <1>1, <2>1, <2>6, <2>7 DEF NormInv
<1>3. CASE FinishCollapse
  <2>1. /\ todo = {} /\ verdict' = "Ok"
        /\ UNCHANGED <<requested, remaining, walk, normals, todo, collapsed>>
    BY <1>3 DEF FinishCollapse
  <2>2. CollapseSound'
    BY <1>1, <2>1 DEF CollapseSound
  <2>3. WalkExact' /\ RefusalsJustified'
    BY <1>1, <2>1 DEF WalkExact, RefusalsJustified
  <2> QED
    BY <2>1, <2>2, <2>3 DEF NormInv
<1> QED
  BY <1>2, <1>3

\* For every request, of any number of paths of any length, normalize_claim_paths accepts
\* exactly the paths that stay inside the repository, refuses for the reason it names and
\* returns the uncovered paths, in whatever order its two loops run.
THEOREM NormalizationIsExact == NormSpec => []NormalizesExactly
<1>1. NormInit => NormInv
  <2> SUFFICES ASSUME NormInit PROVE NormInv
    OBVIOUS
  <2>1. requested \in SUBSET RawPaths
    BY RawPathsAssumption DEF NormInit
  <2>2. Finished = {}
    BY DEF Finished, NormInit
  <2>3. FinishedExact
    BY <2>2 DEF FinishedExact, NormInit
  <2>4. WalkSound
    BY <2>3 DEF WalkSound, NormInit, NoWalk, WalkedPath
  <2> QED
    BY <2>1, <2>4 DEF NormInv, NormInit, WalkExact, RefusalsJustified
<1>2. NormInv /\ [NormNext]_normVars => NormInv'
  <2> SUFFICES ASSUME NormInv, [NormNext]_normVars PROVE NormInv'
    OBVIOUS
  <2>1. CASE UNCHANGED normVars
    BY <2>1 DEF normVars, NormInv, WalkSound, CollapseSound, WalkExact, RefusalsJustified,
                FinishedExact, Finished, Current
  <2> QED
    BY <2>1, NextPathKeeps, ComponentKeeps, FinishPathKeeps, BeginCollapseKeeps, CollapseKeeps
       DEF NormNext
<1>3. NormInv => NormalizesExactly
  <2> SUFFICES ASSUME NormInv PROVE NormalizesExactly
    OBVIOUS
  <2>1. CollapseExact
    <3> SUFFICES ASSUME verdict = "Ok" PROVE collapsed = collapse_covered_paths(normals)
      BY DEF CollapseExact
    <3>1. collapsed = collapse_covered_paths(normals \ todo) /\ todo = {}
      BY DEF NormInv, CollapseSound
    <3>2. normals \ todo = normals
      BY <3>1
    <3> QED
      BY <3>1, <3>2
  <2> QED
    BY <2>1 DEF NormInv, NormalizesExactly
<1> QED
  BY <1>1, <1>2, <1>3, PTL DEF NormSpec

-----------------------------------------------------------------------------
(* The path algebra.                                                        *)

\* Component prefixes compose (Path::starts_with is transitive).
LEMMA StartsWithTransitive ==
  ASSUME NEW p \in Paths, NEW q \in Paths, NEW r \in Paths,
         starts_with(p, q), starts_with(q, r)
  PROVE  starts_with(p, r)
BY PathsAssumption DEF starts_with

\* Two prefixes of one path are prefixes of each other, in one order or the other.
LEMMA PrefixesComparable ==
  ASSUME NEW p \in Paths, NEW q \in Paths, NEW r \in Paths,
         starts_with(p, q), starts_with(p, r)
  PROVE  starts_with(q, r) \/ starts_with(r, q)
BY PathsAssumption DEF starts_with

\* A path's own prefix test (path_is_covered_by_claim's equality case).
LEMMA StartsWithReflexive ==
  ASSUME NEW p \in Paths
  PROVE  starts_with(p, p)
BY PathsAssumption DEF starts_with

\* paths_overlap does not depend on the order of its arguments.
LEMMA OverlapSymmetric ==
  ASSUME NEW p, NEW q, paths_overlap(p, q)
  PROVE  paths_overlap(q, p)
BY DEF paths_overlap

\* A scope that covers a path overlaps everything the path overlaps.
LEMMA CoverOverlaps ==
  ASSUME NEW p \in Paths, NEW q \in Paths, NEW scope \in Paths,
         path_is_covered_by_claim(p, scope), paths_overlap(p, q)
  PROVE  paths_overlap(scope, q)
<1>1. CASE p = scope
  BY <1>1
<1>2. CASE starts_with(p, scope)
  <2>1. CASE p = q
    BY <1>2, <2>1 DEF paths_overlap
  <2>2. CASE starts_with(p, q)
    BY <1>2, <2>2, PrefixesComparable DEF paths_overlap
  <2>3. CASE starts_with(q, p)
    BY <1>2, <2>3, StartsWithTransitive DEF paths_overlap
  <2> QED
    BY <2>1, <2>2, <2>3 DEF paths_overlap
<1> QED
  BY <1>1, <1>2 DEF path_is_covered_by_claim

\* A non-empty set of claims has an oldest one, so FirstClaim picks a member.
LEMMA FirstClaimMember ==
  ASSUME NEW cs \in SUBSET PathClaim, cs # {}
  PROVE  FirstClaim(cs) \in cs
<1> DEFINE T == {x.token : x \in cs}
<1>1. T \subseteq Nat /\ T # {}
  BY DEF PathClaim, Tokens
<1>2. \E m \in T : \A k \in T : ~(<<k, m>> \in OpToRel(<, Nat))
  BY <1>1, NatLessThanWellFounded, WFMin
<1> DEFINE Less == {ss \in Nat \X Nat : ss[1] < ss[2]}
<1>3. Less = OpToRel(<, Nat)
  BY Zenon DEF OpToRel
<1>4. \E m \in T : \A k \in T : <<k, m>> \notin Less
  BY <1>2, <1>3, Zenon
<1>5. \A k, m \in Nat : <<k, m>> \notin Less => m <= k
  OBVIOUS
<1> HIDE DEF Less
<1>6. PICK m \in T : \A k \in T : m <= k
  BY <1>1, <1>4, <1>5
<1>7. \E x \in cs : \A y \in cs : x.token <= y.token
  BY <1>6
<1> QED
  BY <1>7 DEF FirstClaim

-----------------------------------------------------------------------------
(* The inductive invariant, as a predicate of the coordinator's state, so   *)
(* that the durable store can use it for the states it rebuilds.            *)

\* Every token ever handed out is below next_token.
TokensBelowNext(c) == \A x \in all_claims(c) : x.token < c.next_token

\* A token names one live claim, and a Worker's token never a top-level claim.
TokensUnique(c) ==
  /\ \A x, y \in all_claims(c) : x.token = y.token => x = y
  /\ \A x \in c.claims, b \in c.subordinate_bindings : b.child_token # x.token

TopLevelDisjoint(c) ==
  \A x, y \in c.claims : x # y => ~ScopesOverlap(x.paths, y.paths)

\* Workers that are active at the same time are different agents with disjoint scopes.
SubordinatesDisjoint(c) ==
  \A x, y \in c.subordinate_claims :
    x # y => x.agent_id # y.agent_id /\ ~ScopesOverlap(x.paths, y.paths)

\* What claim_subordinate_paths checked of a Worker's scope still holds of it: it lies
\* inside the live parent claim, leaves some of it, and belongs to somebody else.
Admitted(c, child, parent, b) ==
  /\ ParentOf(c, child, parent, b)
  /\ parent.agent_id # child.agent_id
  /\ \A p \in child.paths : \E scope \in parent.paths : starts_with(p, scope)
  /\ \E scope \in parent.paths : \A p \in child.paths : ~starts_with(scope, p)

SubordinatesAdmitted(c) ==
  \A child \in c.subordinate_claims :
    \E parent \in c.claims, b \in c.subordinate_bindings : Admitted(c, child, parent, b)

CoordInv(c) ==
  /\ c \in Inner
  /\ TokensBelowNext(c)
  /\ TokensUnique(c)
  /\ BindingsValid(c)
  /\ TopLevelDisjoint(c)
  /\ SubordinatesDisjoint(c)
  /\ SubordinatesAdmitted(c)

IndInv == CoordInv(inner)

\* The empty coordinator of SyncCoordinator::new.
LEMMA EmptyCoordInv == CoordInv(EmptyInner)
BY MaxTokenAssumption
   DEF EmptyInner, CoordInv, Inner, Tokens, TokensBelowNext, TokensUnique, BindingsValid,
       all_claims, TopLevelDisjoint, SubordinatesAdmitted, SubordinatesDisjoint

\* A coordinator with the same claims and bindings and a later next_token: the state after
\* a claim_paths that failed once its token was taken.
LEMMA LaterTokenKeeps ==
  ASSUME NEW c, CoordInv(c), NEW d, d \in Inner,
         d.next_token >= c.next_token,
         d.claims = c.claims,
         d.subordinate_claims = c.subordinate_claims,
         d.subordinate_bindings = c.subordinate_bindings
  PROVE  CoordInv(d)
<1>1. TokensBelowNext(d)
  BY DEF CoordInv, TokensBelowNext, all_claims, Inner, Tokens, PathClaim
<1>2. BindingsValid(d)
  BY DEF CoordInv, BindingsValid, Inner, Tokens, SubordinateClaimBinding
<1> QED
  BY <1>1, <1>2 DEF CoordInv, TokensUnique, all_claims, TopLevelDisjoint,
                    SubordinatesAdmitted, Admitted, ParentOf, SubordinatesDisjoint

LEMMA BurnTokenKeeps ==
  ASSUME NEW c, CoordInv(c), TokenAvailable(c)
  PROVE  CoordInv(BurnToken(c))
<1>1. /\ BurnToken(c) \in Inner
      /\ BurnToken(c).next_token >= c.next_token
      /\ BurnToken(c).claims = c.claims
      /\ BurnToken(c).subordinate_claims = c.subordinate_claims
      /\ BurnToken(c).subordinate_bindings = c.subordinate_bindings
  BY MaxTokenAssumption DEF BurnToken, TokenAvailable, CoordInv, Inner, Tokens
<1> QED
  BY <1>1, LaterTokenKeeps

\* claim_paths keeps the invariant when no claimed path overlaps a requested one.
LEMMA ClaimPathsKeeps ==
  ASSUME NEW c, CoordInv(c), NEW agent \in Agents, NEW ps \in SUBSET Paths,
         TokenAvailable(c), insert_claim_ok(c, ps)
  PROVE  CoordInv(claim_paths(c, agent, ps))
<1> DEFINE new == [token |-> c.next_token, agent_id |-> agent, paths |-> ps]
           d == claim_paths(c, agent, ps)
<1>1. new \in PathClaim /\ c.next_token \in Nat /\ c.next_token + 1 \in Tokens
  BY MaxTokenAssumption DEF TokenAvailable, CoordInv, Inner, Tokens, PathClaim
<1>2. d = [c EXCEPT !.next_token = @ + 1, !.claims = @ \cup {new}]
  BY DEF claim_paths
<1>3. new.token = c.next_token /\ new.paths = ps
  OBVIOUS
<1> HIDE DEF new, d
<1>4. /\ d.next_token = c.next_token + 1
      /\ d.claims = c.claims \cup {new}
      /\ d.subordinate_claims = c.subordinate_claims
      /\ d.subordinate_bindings = c.subordinate_bindings
      /\ d \in Inner
  BY <1>1, <1>2 DEF CoordInv, Inner
<1>5. TokensBelowNext(d)
  BY <1>1, <1>3, <1>4 DEF CoordInv, TokensBelowNext, all_claims, Inner, Tokens, PathClaim
<1>6. TokensUnique(d)
  BY <1>1, <1>3, <1>4 DEF CoordInv, TokensUnique, TokensBelowNext, BindingsValid, all_claims,
                          Inner, Tokens, PathClaim, SubordinateClaimBinding
<1>7. BindingsValid(d)
  BY <1>1, <1>4 DEF CoordInv, BindingsValid, Inner, Tokens, SubordinateClaimBinding
<1>8. TopLevelDisjoint(d)
  BY <1>3, <1>4, OverlapSymmetric DEF CoordInv, TopLevelDisjoint, insert_claim_ok, ScopesOverlap
<1>9. SubordinatesAdmitted(d) /\ SubordinatesDisjoint(d)
  BY <1>4 DEF CoordInv, SubordinatesAdmitted, Admitted, ParentOf, SubordinatesDisjoint
<1> QED
  BY <1>4, <1>5, <1>6, <1>7, <1>8, <1>9 DEF CoordInv, d

\* claim_subordinate_paths keeps the invariant.
LEMMA ClaimSubordinateKeeps ==
  ASSUME NEW c, CoordInv(c), NEW parent, NEW worker \in Agents,
         NEW ps \in SUBSET Paths, NEW digest \in Digests,
         claim_subordinate_paths_ok(c, parent, worker, ps, digest)
  PROVE  CoordInv(claim_subordinate_paths(c, parent, worker, ps, digest))
<1> DEFINE new == [token |-> c.next_token, agent_id |-> worker, paths |-> ps]
           bound == [child_token |-> c.next_token, parent_token |-> parent.token,
                     source_digest |-> digest, worker_id |-> worker, paths |-> ps]
           d == claim_subordinate_paths(c, parent, worker, ps, digest)
<1>1. /\ parent \in c.claims
      /\ ~SubordinateReplay(c, parent, worker, digest)
      /\ validate_subordinate_scope(c, parent, worker, ps)
      /\ c.next_token < MaxToken
  BY DEF claim_subordinate_paths_ok, TokenAvailable
<1>2. /\ c.next_token \in Tokens /\ c.next_token + 1 \in Tokens /\ c.next_token \in Nat
      /\ parent.token \in Tokens /\ parent.token \in Nat
      /\ parent.token < c.next_token
  BY <1>1, MaxTokenAssumption DEF CoordInv, TokensBelowNext, all_claims, Inner, Tokens, PathClaim
<1>3. new \in PathClaim /\ bound \in SubordinateClaimBinding
  BY <1>2 DEF PathClaim, SubordinateClaimBinding
<1>4. d = [c EXCEPT !.next_token = @ + 1,
                    !.subordinate_claims = @ \cup {new},
                    !.subordinate_bindings = @ \cup {bound}]
  BY DEF claim_subordinate_paths
<1>5. /\ new.token = c.next_token /\ new.paths = ps /\ new.agent_id = worker
      /\ bound.child_token = c.next_token /\ bound.parent_token = parent.token
      /\ bound.worker_id = worker /\ bound.paths = ps /\ bound.source_digest = digest
  OBVIOUS
<1> HIDE DEF new, bound, d
<1>6. /\ d.next_token = c.next_token + 1
      /\ d.claims = c.claims
      /\ d.subordinate_claims = c.subordinate_claims \cup {new}
      /\ d.subordinate_bindings = c.subordinate_bindings \cup {bound}
      /\ d \in Inner
  BY <1>2, <1>3, <1>4 DEF CoordInv, Inner
<1>7. TokensBelowNext(d)
  BY <1>2, <1>5, <1>6 DEF CoordInv, TokensBelowNext, all_claims, Inner, Tokens, PathClaim
<1>8. TokensUnique(d)
  BY <1>2, <1>5, <1>6 DEF CoordInv, TokensUnique, TokensBelowNext, all_claims, Inner, Tokens,
                          PathClaim
<1>9. BindingsValid(d)
  <2>1. IsNormalized(bound.paths)
    BY <1>1, <1>5 DEF validate_subordinate_scope
  <2>2. \A y \in c.subordinate_bindings :
          /\ y.child_token < c.next_token /\ y.parent_token < c.next_token
          /\ y.child_token \in Nat /\ y.parent_token \in Nat
          /\ ~(/\ bound.parent_token = y.parent_token
               /\ bound.source_digest = y.source_digest
               /\ bound.worker_id = y.worker_id)
    BY <1>1, <1>5 DEF CoordInv, BindingsValid, SubordinateReplay, Inner, Tokens,
                      SubordinateClaimBinding
  <2> QED
    BY <1>2, <1>5, <1>6, <2>1, <2>2 DEF CoordInv, BindingsValid
<1>10. TopLevelDisjoint(d)
  BY <1>6 DEF CoordInv, TopLevelDisjoint
<1>11. SubordinatesAdmitted(d)
  BY <1>1, <1>5, <1>6 DEF CoordInv, SubordinatesAdmitted, Admitted, ParentOf,
                          validate_subordinate_scope
<1>12. SubordinatesDisjoint(d)
  BY <1>1, <1>5, <1>6, OverlapSymmetric
     DEF CoordInv, SubordinatesDisjoint, validate_subordinate_scope, ScopesOverlap
<1> QED
  BY <1>6, <1>7, <1>8, <1>9, <1>10, <1>11, <1>12 DEF CoordInv, d

\* Claims may disappear as long as no Worker loses its parent.
LEMMA FewerClaimsKeep ==
  ASSUME NEW c, CoordInv(c), NEW d \in Inner,
         d.next_token = c.next_token,
         d.claims \subseteq c.claims,
         d.subordinate_claims \subseteq c.subordinate_claims,
         d.subordinate_bindings = c.subordinate_bindings,
         \A x \in c.claims \ d.claims, b \in c.subordinate_bindings, y \in d.subordinate_claims :
           ~(b.parent_token = x.token /\ b.child_token = y.token)
  PROVE  CoordInv(d)
<1>1. TokensBelowNext(d) /\ TokensUnique(d)
  BY DEF CoordInv, TokensBelowNext, TokensUnique, all_claims
<1>2. TopLevelDisjoint(d) /\ SubordinatesDisjoint(d) /\ BindingsValid(d)
  BY DEF CoordInv, TopLevelDisjoint, SubordinatesDisjoint, BindingsValid
<1>3. SubordinatesAdmitted(d)
  BY DEF CoordInv, SubordinatesAdmitted, Admitted, ParentOf
<1> QED
  BY <1>1, <1>2, <1>3 DEF CoordInv

\* release removes one Worker, or a claim that has no active Worker.
LEMMA ReleaseKeeps ==
  ASSUME NEW c, CoordInv(c), NEW token, release_ok(c, token)
  PROVE  /\ CoordInv(release(c, token))
         /\ release(c, token).next_token = c.next_token
         /\ release(c, token).claims \subseteq c.claims
         /\ release(c, token).subordinate_claims \subseteq c.subordinate_claims
         /\ release(c, token).subordinate_bindings = c.subordinate_bindings
         /\ \A x \in all_claims(c) : x.token # token => x \in all_claims(release(c, token))
         /\ \A x \in all_claims(release(c, token)) : x.token # token
<1> DEFINE d == release(c, token)
<1>1. ~HasActiveSubordinates(c, token)
  BY DEF release_ok
<1>2. /\ d.next_token = c.next_token
      /\ d.claims \subseteq c.claims
      /\ d.subordinate_claims \subseteq c.subordinate_claims
      /\ d.subordinate_bindings = c.subordinate_bindings
      /\ \A x \in c.claims \ d.claims : x.token = token
      /\ \A x \in c.subordinate_claims \ d.subordinate_claims : x.token = token
      /\ d \in Inner
  BY DEF release, CoordInv, Inner
<1>3. \A x \in all_claims(d) : x.token # token
  <2>1. CASE \E child \in c.subordinate_claims : child.token = token
    <3>1. /\ d.claims = c.claims
          /\ \A x \in d.subordinate_claims : x.token # token
      BY <2>1 DEF release, CoordInv, Inner
    <3>2. \A x \in c.claims : x.token # token
      BY <2>1 DEF CoordInv, SubordinatesAdmitted, Admitted, ParentOf, TokensUnique
    <3> QED
      BY <3>1, <3>2 DEF all_claims
  <2>2. CASE ~\E child \in c.subordinate_claims : child.token = token
    BY <2>2 DEF release, CoordInv, Inner, all_claims
  <2> QED
    BY <2>1, <2>2
<1> HIDE DEF d
<1>4. CoordInv(d)
  BY <1>1, <1>2, FewerClaimsKeep DEF HasActiveSubordinates
<1> QED
  BY <1>2, <1>3, <1>4 DEF d, all_claims

\* release_by_agent is refused while one of the agent's claims has an active Worker.
LEMMA ReleaseByAgentKeeps ==
  ASSUME NEW c, CoordInv(c), NEW agent, release_by_agent_ok(c, agent)
  PROVE  /\ CoordInv(release_by_agent(c, agent))
         /\ release_by_agent(c, agent).next_token = c.next_token
         /\ release_by_agent(c, agent).claims \subseteq c.claims
         /\ release_by_agent(c, agent).subordinate_claims \subseteq c.subordinate_claims
         /\ release_by_agent(c, agent).subordinate_bindings = c.subordinate_bindings
         /\ \A x \in all_claims(c) :
              x \notin all_claims(release_by_agent(c, agent)) => x.agent_id = agent
<1> DEFINE d == release_by_agent(c, agent)
<1>1. /\ d.next_token = c.next_token
      /\ d.claims = {x \in c.claims : x.agent_id # agent}
      /\ d.subordinate_claims = {x \in c.subordinate_claims : x.agent_id # agent}
      /\ d.subordinate_bindings = c.subordinate_bindings
      /\ d \in Inner
  BY DEF release_by_agent, CoordInv, Inner
<1> HIDE DEF d
<1>2. CoordInv(d)
  BY <1>1, FewerClaimsKeep DEF release_by_agent_ok, HasActiveSubordinates
<1> QED
  BY <1>1, <1>2 DEF d, all_claims

LEMMA InitIndInv == Init => IndInv
BY EmptyCoordInv DEF Init, IndInv

LEMMA StepIndInv == IndInv /\ [Next]_vars => IndInv'
<1> SUFFICES ASSUME IndInv, [Next]_vars
             PROVE  CoordInv(inner')
  BY DEF IndInv
<1> USE DEF IndInv
<1>1. ASSUME NEW agent \in Agents, NEW ps \in SUBSET Paths, ClaimPaths(agent, ps)
      PROVE  CoordInv(inner')
  BY <1>1, ClaimPathsKeeps, BurnTokenKeeps DEF ClaimPaths
<1>2. ASSUME NEW parent \in inner.claims, NEW worker \in Agents, NEW ps \in SUBSET Paths,
             NEW digest \in Digests, ClaimSubordinatePaths(parent, worker, ps, digest)
      PROVE  CoordInv(inner')
  BY <1>2, ClaimSubordinateKeeps DEF ClaimSubordinatePaths
<1>3. ASSUME NEW token \in Tokens, Release(token)
      PROVE  CoordInv(inner')
  BY <1>3, ReleaseKeeps DEF Release
<1>4. ASSUME NEW agent \in Agents, ReleaseByAgent(agent)
      PROVE  CoordInv(inner')
  BY <1>4, ReleaseByAgentKeeps DEF ReleaseByAgent
<1>5. CASE UNCHANGED vars
  BY <1>5 DEF vars
<1> QED
  BY <1>1, <1>2, <1>3, <1>4, <1>5 DEF Next

-----------------------------------------------------------------------------
(* Consequences.                                                            *)

\* can_write(agent, path) names the claim that gives the right to write.
LEMMA WriterScope ==
  ASSUME NEW c, c \in Inner, NEW agent, NEW p, can_write(c, agent, p)
  PROVE  \/ \E child \in c.subordinate_claims :
              /\ child.agent_id = agent
              /\ \E scope \in child.paths : path_is_covered_by_claim(p, scope)
         \/ /\ \A child \in c.subordinate_claims :
                  \A scope \in child.paths : ~paths_overlap(p, scope)
            /\ \E claim \in c.claims :
                 /\ claim.agent_id = agent
                 /\ \E scope \in claim.paths : path_is_covered_by_claim(p, scope)
<1> DEFINE over == {child \in c.subordinate_claims :
                      \E scope \in child.paths : paths_overlap(p, scope)}
<1>1. CASE over = {}
  BY <1>1 DEF can_write
<1>2. CASE over # {}
  <2>1. FirstClaim(over) \in over
    BY <1>2, FirstClaimMember DEF Inner
  <2> QED
    BY <1>2, <2>1 DEF can_write
<1> QED
  BY <1>1, <1>2

\* Two agents never write overlapping paths.
LEMMA WritersExclusive ==
  ASSUME NEW c, CoordInv(c), NEW a, NEW b, a # b,
         NEW p \in Paths, NEW q \in Paths, paths_overlap(p, q),
         can_write(c, a, p), can_write(c, b, q)
  PROVE  FALSE
<1> DEFINE Child(x, agent, r) ==
             /\ x \in c.subordinate_claims
             /\ x.agent_id = agent
             /\ \E scope \in x.paths : path_is_covered_by_claim(r, scope)
           Top(agent, r) ==
             /\ \A child \in c.subordinate_claims :
                  \A scope \in child.paths : ~paths_overlap(r, scope)
             /\ \E claim \in c.claims :
                  /\ claim.agent_id = agent
                  /\ \E scope \in claim.paths : path_is_covered_by_claim(r, scope)
<1>0. \A x \in all_claims(c) : x.paths \subseteq Paths
  BY DEF CoordInv, Inner, PathClaim, all_claims
<1>1. paths_overlap(q, p)
  BY OverlapSymmetric
<1>2. (\E x : Child(x, a, p)) \/ Top(a, p)
  BY WriterScope DEF CoordInv
<1>3. (\E x : Child(x, b, q)) \/ Top(b, q)
  BY WriterScope DEF CoordInv
<1>4. ASSUME NEW x, Child(x, a, p), NEW y, Child(y, b, q) PROVE FALSE
  <2>1. PICK s \in x.paths : path_is_covered_by_claim(p, s)
    BY <1>4
  <2>2. PICK t \in y.paths : path_is_covered_by_claim(q, t)
    BY <1>4
  <2>3. s \in Paths /\ t \in Paths
    BY <1>0, <1>4 DEF all_claims
  <2>4. paths_overlap(s, t)
    BY <1>1, <2>1, <2>2, <2>3, CoverOverlaps, OverlapSymmetric
  <2> QED
    BY <1>4, <2>4 DEF CoordInv, SubordinatesDisjoint, ScopesOverlap
<1>5. ASSUME NEW x, Child(x, a, p), Top(b, q) PROVE FALSE
  <2>1. PICK s \in x.paths : path_is_covered_by_claim(p, s)
    BY <1>5
  <2>2. paths_overlap(s, q)
    BY <1>0, <1>5, <2>1, CoverOverlaps DEF all_claims
  <2> QED
    BY <1>5, <2>2, OverlapSymmetric
<1>6. ASSUME NEW y, Child(y, b, q), Top(a, p) PROVE FALSE
  <2>1. PICK t \in y.paths : path_is_covered_by_claim(q, t)
    BY <1>6
  <2>2. paths_overlap(t, p)
    BY <1>0, <1>1, <1>6, <2>1, CoverOverlaps DEF all_claims
  <2> QED
    BY <1>6, <2>2, OverlapSymmetric
<1>7. ASSUME Top(a, p), Top(b, q) PROVE FALSE
  <2>1. PICK x \in c.claims :
          x.agent_id = a /\ \E scope \in x.paths : path_is_covered_by_claim(p, scope)
    BY <1>7
  <2>2. PICK y \in c.claims :
          y.agent_id = b /\ \E scope \in y.paths : path_is_covered_by_claim(q, scope)
    BY <1>7
  <2>3. PICK s \in x.paths : path_is_covered_by_claim(p, s)
    BY <2>1
  <2>4. PICK t \in y.paths : path_is_covered_by_claim(q, t)
    BY <2>2
  <2>5. s \in Paths /\ t \in Paths
    BY <1>0 DEF all_claims
  <2>6. paths_overlap(s, t)
    BY <1>1, <2>3, <2>4, <2>5, CoverOverlaps, OverlapSymmetric
  <2> QED
    BY <2>1, <2>2, <2>6 DEF CoordInv, TopLevelDisjoint, ScopesOverlap
<1> QED
  BY <1>2, <1>3, <1>4, <1>5, <1>6, <1>7

-----------------------------------------------------------------------------
(* How the right to write moves.                                            *)

\* The two ways of having the right to write p, in a state of the invariant: through the
\* Worker whose scope covers p, or through a top-level claim no Worker's scope touches at p.
WorkerWrites(c, x, agent, p) ==
  /\ x \in c.subordinate_claims
  /\ x.agent_id = agent
  /\ \E scope \in x.paths : path_is_covered_by_claim(p, scope)

Undivided(c, p) ==
  \A child \in c.subordinate_claims : \A scope \in child.paths : ~paths_overlap(p, scope)

OwnerWrites(c, x, agent, p) ==
  /\ x \in c.claims
  /\ x.agent_id = agent
  /\ \E scope \in x.paths : path_is_covered_by_claim(p, scope)
  /\ Undivided(c, p)

\* can_write read as one of the two.
LEMMA WriterKinds ==
  ASSUME NEW c, CoordInv(c), NEW agent, NEW p, can_write(c, agent, p)
  PROVE  \/ \E x : WorkerWrites(c, x, agent, p)
         \/ \E x : OwnerWrites(c, x, agent, p)
BY WriterScope DEF CoordInv, WorkerWrites, OwnerWrites, Undivided

\* Conversely, a Worker whose scope covers p is the only one whose scope touches p, so it is
\* the one that can_write asks.
LEMMA WorkerCanWrite ==
  ASSUME NEW c, CoordInv(c), NEW agent, NEW p \in Paths, NEW x, WorkerWrites(c, x, agent, p)
  PROVE  can_write(c, agent, p)
<1> DEFINE over == {child \in c.subordinate_claims :
                      \E scope \in child.paths : paths_overlap(p, scope)}
<1>1. c.subordinate_claims \subseteq PathClaim /\ \A y \in PathClaim : y.paths \subseteq Paths
  BY DEF CoordInv, Inner, PathClaim
<1>2. PICK s \in x.paths : path_is_covered_by_claim(p, s)
  BY DEF WorkerWrites
<1>3. x \in over
  BY <1>2 DEF WorkerWrites, path_is_covered_by_claim, paths_overlap
<1>4. ASSUME NEW y \in over PROVE y = x
  <2>1. PICK t \in y.paths : paths_overlap(p, t)
    OBVIOUS
  <2>2. s \in Paths /\ t \in Paths
    BY <1>1 DEF WorkerWrites
  <2>3. paths_overlap(s, t)
    BY <1>2, <2>1, <2>2, CoverOverlaps
  <2> QED
    BY <2>3 DEF WorkerWrites, CoordInv, SubordinatesDisjoint, ScopesOverlap
<1>5. FirstClaim(over) = x
  BY <1>1, <1>3, <1>4, FirstClaimMember
<1> QED
  BY <1>2, <1>3, <1>5 DEF can_write, WorkerWrites

LEMMA OwnerCanWrite ==
  ASSUME NEW c, NEW agent, NEW p, NEW x, OwnerWrites(c, x, agent, p)
  PROVE  can_write(c, agent, p)
BY DEF can_write, OwnerWrites, Undivided

\* Two top-level claims that both cover p are one.
LEMMA OneOwner ==
  ASSUME NEW c, CoordInv(c), NEW p \in Paths,
         NEW x \in c.claims, NEW s \in x.paths, path_is_covered_by_claim(p, s),
         NEW y \in c.claims, NEW t \in y.paths, path_is_covered_by_claim(p, t)
  PROVE  x = y
<1>1. s \in Paths /\ t \in Paths
  BY DEF CoordInv, Inner, PathClaim
<1>2. paths_overlap(p, t)
  BY DEF path_is_covered_by_claim, paths_overlap
<1>3. paths_overlap(s, t)
  BY <1>1, <1>2, CoverOverlaps
<1> QED
  BY <1>3 DEF CoordInv, TopLevelDisjoint, ScopesOverlap

\* The claim a Worker was admitted under covers whatever the Worker's scope covers.
LEMMA ParentCovers ==
  ASSUME NEW ps \in SUBSET Paths, NEW qs \in SUBSET Paths, NEW p \in Paths,
         \A q \in ps : \E scope \in qs : starts_with(q, scope),
         NEW s \in ps, path_is_covered_by_claim(p, s)
  PROVE  \E t \in qs : path_is_covered_by_claim(p, t)
<1>1. PICK t \in qs : starts_with(s, t)
  OBVIOUS
<1>2. p = s \/ starts_with(p, s)
  BY DEF path_is_covered_by_claim
<1> QED
  BY <1>1, <1>2, StartsWithTransitive DEF path_is_covered_by_claim

\* HandoffAlongBinding for the states c before and d after a step.
HandoffAlong(c, d, from, to, path) ==
  \E b \in d.subordinate_bindings :
    /\ \E scope \in b.paths : path_is_covered_by_claim(path, scope)
    /\ \E parent \in c.claims \cap d.claims :
         /\ parent.token = b.parent_token
         /\ \/ from = parent.agent_id /\ to = b.worker_id
            \/ from = b.worker_id /\ to = parent.agent_id

\* While nothing else can write p but a, an old claim of another agent b gives b no right.
LEMMA OldWriter ==
  ASSUME NEW c, CoordInv(c), NEW a, NEW b, a # b, NEW p \in Paths, can_write(c, a, p)
  PROVE  ~can_write(c, b, p)
<1>1. paths_overlap(p, p)
  BY DEF paths_overlap
<1> QED
  BY <1>1, WritersExclusive

\* A new top-level claim moves no right: it does not overlap what somebody can write.
LEMMA ClaimMovesNothing ==
  ASSUME NEW c, CoordInv(c), NEW agent \in Agents, NEW ps \in SUBSET Paths,
         TokenAvailable(c), insert_claim_ok(c, ps),
         NEW a, NEW b, a # b, NEW p \in Paths,
         can_write(c, a, p), can_write(claim_paths(c, agent, ps), b, p)
  PROVE  FALSE
<1> DEFINE new == [token |-> c.next_token, agent_id |-> agent, paths |-> ps]
           d == claim_paths(c, agent, ps)
<1>1. CoordInv(d)
  BY ClaimPathsKeeps
<1>2. /\ d.claims = c.claims \cup {new}
      /\ d.subordinate_claims = c.subordinate_claims
  BY DEF claim_paths, CoordInv, Inner
<1>3. new.paths = ps
  OBVIOUS
<1> HIDE DEF new, d
<1>4. ~can_write(c, b, p)
  BY OldWriter
<1>5. (\E y : WorkerWrites(d, y, b, p)) \/ (\E y : OwnerWrites(d, y, b, p))
  BY <1>1, WriterKinds DEF d
<1>6. ~\E y : WorkerWrites(d, y, b, p)
  BY <1>2, <1>4, WorkerCanWrite DEF WorkerWrites
<1>7. PICK y : OwnerWrites(d, y, b, p)
  BY <1>5, <1>6
<1>8. y = new
  BY <1>2, <1>4, <1>7, OwnerCanWrite DEF OwnerWrites, Undivided
<1>9. PICK t \in ps : path_is_covered_by_claim(p, t)
  BY <1>3, <1>7, <1>8 DEF OwnerWrites
<1>10. ~\E x : WorkerWrites(c, x, a, p)
  BY <1>2, <1>7 DEF OwnerWrites, Undivided, WorkerWrites, path_is_covered_by_claim, paths_overlap
<1>11. PICK x : OwnerWrites(c, x, a, p)
  BY <1>10, WriterKinds
<1>12. PICK s \in x.paths : path_is_covered_by_claim(p, s)
  BY <1>11 DEF OwnerWrites
<1>13. s \in Paths /\ t \in Paths
  BY <1>11 DEF OwnerWrites, CoordInv, Inner, PathClaim
<1>14. paths_overlap(p, t)
  BY <1>9 DEF path_is_covered_by_claim, paths_overlap
<1>15. paths_overlap(s, t)
  BY <1>12, <1>13, <1>14, CoverOverlaps
<1> QED
  BY <1>11, <1>15 DEF OwnerWrites, insert_claim_ok, ScopesOverlap

\* A new subordinate claim moves a right from its parent to its Worker.
LEMMA SubdivisionMovesToWorker ==
  ASSUME NEW c, CoordInv(c), NEW parent, NEW worker \in Agents,
         NEW ps \in SUBSET Paths, NEW digest \in Digests,
         claim_subordinate_paths_ok(c, parent, worker, ps, digest),
         NEW a, NEW b, a # b, NEW p \in Paths, can_write(c, a, p),
         can_write(claim_subordinate_paths(c, parent, worker, ps, digest), b, p)
  PROVE  HandoffAlong(c, claim_subordinate_paths(c, parent, worker, ps, digest), a, b, p)
<1> DEFINE new == [token |-> c.next_token, agent_id |-> worker, paths |-> ps]
           bound == [child_token |-> c.next_token, parent_token |-> parent.token,
                     source_digest |-> digest, worker_id |-> worker, paths |-> ps]
           d == claim_subordinate_paths(c, parent, worker, ps, digest)
<1>1. CoordInv(d)
  BY ClaimSubordinateKeeps
<1>2. /\ d.claims = c.claims
      /\ d.subordinate_claims = c.subordinate_claims \cup {new}
      /\ d.subordinate_bindings = c.subordinate_bindings \cup {bound}
  BY DEF claim_subordinate_paths, CoordInv, Inner
<1>3. /\ new.paths = ps /\ new.agent_id = worker
      /\ bound.paths = ps /\ bound.worker_id = worker /\ bound.parent_token = parent.token
  OBVIOUS
<1> HIDE DEF new, bound, d
<1>4. ~can_write(c, b, p)
  BY OldWriter
<1>5. ~\E y : OwnerWrites(d, y, b, p)
  BY <1>2, <1>4, OwnerCanWrite DEF OwnerWrites, Undivided
<1>6. PICK y : WorkerWrites(d, y, b, p)
  BY <1>1, <1>5, WriterKinds DEF d
<1>7. y = new
  BY <1>2, <1>4, <1>6, WorkerCanWrite DEF WorkerWrites
<1>8. PICK t \in ps : path_is_covered_by_claim(p, t)
  BY <1>3, <1>6, <1>7 DEF WorkerWrites
<1>9. b = worker
  BY <1>3, <1>6, <1>7 DEF WorkerWrites
<1>10. /\ parent \in c.claims
       /\ \A q \in ps : \E scope \in parent.paths : starts_with(q, scope)
       /\ \A child \in c.subordinate_claims : ~ScopesOverlap(child.paths, ps)
       /\ parent.paths \in SUBSET Paths
  BY DEF claim_subordinate_paths_ok, validate_subordinate_scope, CoordInv, Inner, PathClaim
<1>11. ~\E x : WorkerWrites(c, x, a, p)
  <2>1. SUFFICES ASSUME NEW x, WorkerWrites(c, x, a, p) PROVE FALSE
    OBVIOUS
  <2>2. PICK s \in x.paths : path_is_covered_by_claim(p, s)
    BY <2>1 DEF WorkerWrites
  <2>3. s \in Paths /\ t \in Paths /\ paths_overlap(p, t)
    BY <1>8, <2>1 DEF WorkerWrites, CoordInv, Inner, PathClaim, path_is_covered_by_claim,
                      paths_overlap
  <2> QED
    BY <1>10, <2>1, <2>2, <2>3, CoverOverlaps DEF WorkerWrites, ScopesOverlap
<1>12. PICK x : OwnerWrites(c, x, a, p)
  BY <1>11, WriterKinds
<1>13. \E s \in parent.paths : path_is_covered_by_claim(p, s)
  BY <1>8, <1>10, ParentCovers
<1>14. x = parent
  BY <1>10, <1>12, <1>13, OneOwner DEF OwnerWrites
<1>15. /\ bound \in d.subordinate_bindings
       /\ \E scope \in bound.paths : path_is_covered_by_claim(p, scope)
       /\ parent \in c.claims \cap d.claims
       /\ parent.token = bound.parent_token
       /\ a = parent.agent_id /\ b = bound.worker_id
  BY <1>2, <1>3, <1>8, <1>9, <1>10, <1>12, <1>14 DEF OwnerWrites
<1>16. HandoffAlong(c, d, a, b, p)
  BY <1>15 DEF HandoffAlong
<1> QED
  BY <1>16 DEF d

\* Claims that end move a right from a Worker back to its parent.
LEMMA EndMovesToParent ==
  ASSUME NEW c, CoordInv(c), NEW d, CoordInv(d),
         d.claims \subseteq c.claims,
         d.subordinate_claims \subseteq c.subordinate_claims,
         d.subordinate_bindings = c.subordinate_bindings,
         NEW a, NEW b, a # b, NEW p \in Paths, can_write(c, a, p), can_write(d, b, p)
  PROVE  HandoffAlong(c, d, a, b, p)
<1>1. ~can_write(c, b, p)
  BY OldWriter
<1>2. ~\E y : WorkerWrites(d, y, b, p)
  BY <1>1, WorkerCanWrite DEF WorkerWrites
<1>3. PICK y : OwnerWrites(d, y, b, p)
  BY <1>2, WriterKinds
<1>4. ~Undivided(c, p)
  BY <1>1, <1>3, OwnerCanWrite DEF OwnerWrites
<1>5. PICK x : WorkerWrites(c, x, a, p)
  BY <1>4, WriterKinds DEF OwnerWrites
<1>6. PICK s \in x.paths : path_is_covered_by_claim(p, s)
  BY <1>5 DEF WorkerWrites
<1>7. PICK parent \in c.claims, bound \in c.subordinate_bindings : Admitted(c, x, parent, bound)
  BY <1>5 DEF WorkerWrites, CoordInv, SubordinatesAdmitted
<1>8. x.paths \in SUBSET Paths /\ parent.paths \in SUBSET Paths
  BY <1>5 DEF WorkerWrites, CoordInv, Inner, PathClaim
<1>9. \E t \in parent.paths : path_is_covered_by_claim(p, t)
  BY <1>6, <1>7, <1>8, ParentCovers DEF Admitted
<1>10. y = parent
  BY <1>3, <1>9, OneOwner DEF OwnerWrites
<1> QED
  BY <1>3, <1>5, <1>6, <1>7, <1>10 DEF HandoffAlong, Admitted, ParentOf, OwnerWrites, WorkerWrites

\* The coordinator's state always has the types of struct Inner: in particular no
\* token is handed out at or above the checked_add limit.
THEOREM CoordinatorTypeCorrect == Spec => []TypeOK
<1>1. IndInv => TypeOK
  BY DEF IndInv, CoordInv, TypeOK
<1> QED
  BY <1>1, InitIndInv, StepIndInv, PTL DEF Spec

\* For every repository tree and every set of agents, and whatever sequence of
\* claims, subdivisions and releases is run, no two agents may write overlapping paths.
THEOREM CoordinatorWriteExclusion == Spec => []WriteExclusion
<1>1. IndInv => WriteExclusion
  BY WritersExclusive DEF IndInv, WriteExclusion
<1> QED
  BY <1>1, InitIndInv, StepIndInv, PTL DEF Spec

\* A Worker's scope always lies inside a live claim of its parent.
THEOREM CoordinatorSubordinatesContained == Spec => []SubordinatesContained
<1>1. IndInv => SubordinatesContained
  BY DEF IndInv, CoordInv, SubordinatesAdmitted, Admitted, SubordinatesContained
<1> QED
  BY <1>1, InitIndInv, StepIndInv, PTL DEF Spec

\* Live top-level claims never share a path or nest.
THEOREM CoordinatorClaimsExclusive == Spec => []ClaimsExclusive
<1>1. IndInv => ClaimsExclusive
  BY DEF IndInv, CoordInv, TopLevelDisjoint, ClaimsExclusive
<1> QED
  BY <1>1, InitIndInv, StepIndInv, PTL DEF Spec

\* claim_subordinate_paths consumes a frozen reservation (parent token, digest, worker) at
\* most once in the life of the coordinator, whatever was released in between.
THEOREM CoordinatorReservationConsumedOnce == Spec => []ReservationConsumedOnce
<1>1. IndInv => ReservationConsumedOnce
  BY DEF IndInv, CoordInv, BindingsValid, ReservationConsumedOnce
<1> QED
  BY <1>1, InitIndInv, StepIndInv, PTL DEF Spec

\* claim_paths, claim_subordinate_paths, release, release_by_agent: one operation moves the
\* right to write a path between two agents only between a parent and the Worker it admitted.
THEOREM CoordinatorHandoffs ==
  Spec => [][\A a, b \in Agents, p \in Paths :
               (a # b /\ can_write(inner, a, p) /\ can_write(inner', b, p))
                 => HandoffAlongBinding(a, b, p)]_vars
<1> DEFINE Legal == \A a, b \in Agents, p \in Paths :
                      (a # b /\ can_write(inner, a, p) /\ can_write(inner', b, p))
                        => HandoffAlongBinding(a, b, p)
<1>1. ASSUME IndInv, Next PROVE Legal
  <2> SUFFICES ASSUME NEW a \in Agents, NEW b \in Agents, NEW p \in Paths, a # b,
                      can_write(inner, a, p), can_write(inner', b, p)
               PROVE  HandoffAlong(inner, inner', a, b, p)
    BY DEF HandoffAlong, HandoffAlongBinding
  <2> USE DEF IndInv
  <2>1. ASSUME NEW agent \in Agents, NEW ps \in SUBSET Paths, ClaimPaths(agent, ps)
        PROVE  HandoffAlong(inner, inner', a, b, p)
    <3>1. CASE insert_claim_ok(inner, ps)
      BY <1>1, <2>1, <3>1, ClaimMovesNothing DEF ClaimPaths
    <3>2. CASE ~insert_claim_ok(inner, ps)
      <4>1. inner' = BurnToken(inner) /\ CoordInv(inner')
        BY <1>1, <2>1, <3>2, BurnTokenKeeps DEF ClaimPaths
      <4>2. /\ inner'.claims = inner.claims
            /\ inner'.subordinate_claims = inner.subordinate_claims
            /\ inner'.subordinate_bindings = inner.subordinate_bindings
        BY <1>1, <4>1 DEF BurnToken, CoordInv, Inner
      <4> QED
        BY <1>1, <4>1, <4>2, EndMovesToParent
    <3> QED
      BY <3>1, <3>2
  <2>2. ASSUME NEW parent \in inner.claims, NEW worker \in Agents, NEW ps \in SUBSET Paths,
               NEW digest \in Digests, ClaimSubordinatePaths(parent, worker, ps, digest)
        PROVE  HandoffAlong(inner, inner', a, b, p)
    BY <1>1, <2>2, SubdivisionMovesToWorker DEF ClaimSubordinatePaths
  <2>3. ASSUME NEW token \in Tokens, Release(token)
        PROVE  HandoffAlong(inner, inner', a, b, p)
    BY <1>1, <2>3, ReleaseKeeps, EndMovesToParent DEF Release
  <2>4. ASSUME NEW agent \in Agents, ReleaseByAgent(agent)
        PROVE  HandoffAlong(inner, inner', a, b, p)
    BY <1>1, <2>4, ReleaseByAgentKeeps, EndMovesToParent DEF ReleaseByAgent
  <2> QED
    BY <1>1, <2>1, <2>2, <2>3, <2>4 DEF Next
<1> HIDE DEF Legal
<1>2. IndInv /\ [Next]_vars => [Legal]_vars
  BY <1>1
<1>3. Spec => [][Legal]_vars
  BY <1>2, InitIndInv, StepIndInv, PTL DEF Spec
<1> QED
  BY <1>3 DEF Legal

-----------------------------------------------------------------------------
(* Loading.                                                                 *)

\* A non-empty set of claims has a youngest one.
LEMMA HighestTokenMember ==
  ASSUME NEW cs \in SUBSET PathClaim, cs # {}
  PROVE  \E x \in cs : HighestToken(cs) = x.token
<1> DEFINE T == {MaxToken - x.token : x \in cs}
<1>1. T \subseteq Nat /\ T # {}
  BY MaxTokenAssumption DEF PathClaim, Tokens
<1> HIDE DEF T
<1>2. \E m \in T : \A k \in T : ~(<<k, m>> \in OpToRel(<, Nat))
  BY <1>1, NatLessThanWellFounded, WFMin
<1> DEFINE Less == {ss \in Nat \X Nat : ss[1] < ss[2]}
<1>3. Less = OpToRel(<, Nat)
  BY Zenon DEF OpToRel
<1>4. \E m \in T : \A k \in T : <<k, m>> \notin Less
  BY <1>2, <1>3, Zenon
<1>5. \A k, m \in Nat : <<k, m>> \notin Less => m <= k
  OBVIOUS
<1> HIDE DEF Less
<1>6. PICK m \in T : \A k \in T : m <= k
  BY <1>1, <1>4, <1>5
<1>7. \A x \in cs : x.token \in Nat
  BY DEF PathClaim, Tokens
<1>8. PICK x \in cs : m = MaxToken - x.token
  BY <1>6 DEF T
<1>9. \A y \in cs : MaxToken - x.token <= MaxToken - y.token
  BY <1>6, <1>8 DEF T
<1>10. \A y \in cs : y.token <= x.token
  BY <1>7, <1>9, MaxTokenAssumption
<1>11. \E t \in {y.token : y \in cs} : \A y \in cs : y.token <= t
  BY <1>10
<1> QED
  BY <1>11 DEF HighestToken

\* from_snapshot only raises next_token when it is behind a live claim, which a state of the
\* coordinator's invariant never is.
LEMMA LoadedIsInner ==
  ASSUME NEW c, CoordInv(c)
  PROVE  from_snapshot(c) = c
<1>1. all_claims(c) \in SUBSET PathClaim /\ c.next_token \in Nat \ {0}
  BY DEF CoordInv, Inner, all_claims, Tokens
<1>2. CASE all_claims(c) = {}
  <2>1. HighestToken(all_claims(c)) = 0
    BY <1>2 DEF HighestToken
  <2> QED
    BY <1>1, <2>1 DEF from_snapshot, CoordInv, Inner
<1>3. CASE all_claims(c) # {}
  <2>1. PICK x \in all_claims(c) : HighestToken(all_claims(c)) = x.token
    BY <1>1, <1>3, HighestTokenMember
  <2>2. x.token < c.next_token /\ x.token \in Nat
    BY <1>1 DEF CoordInv, TokensBelowNext, PathClaim, Tokens
  <2> QED
    BY <1>1, <2>1, <2>2 DEF from_snapshot, CoordInv, Inner
<1> QED
  BY <1>2, <1>3

\* PathCount of nothing.
LEMMA PathCountEmpty == PathCount({}) = 0
<1> DEFINE F(iter) == [s \in SUBSET {} |->
                         IF s = {} THEN 0
                         ELSE LET x == CHOOSE x \in s : TRUE
                              IN  Cardinality(x.paths) + iter[s \ {x}]]
           sum == CHOOSE iter : iter = F(iter)
<1>1. PathCount({}) = sum[{}]
  BY Zenon DEF PathCount, MapThenSumSet, MapThenFoldSet
<1>2. \A iter : F(iter) = [s \in SUBSET {} |-> 0]
  OBVIOUS
<1>3. \E iter : iter = F(iter)
  BY <1>2
<1>4. sum = F(sum)
  BY <1>3
<1> QED
  BY <1>1, <1>2, <1>4

-----------------------------------------------------------------------------
(* The inductive invariant.                                                 *)

\* What with_locked_update validated of the state it committed.
Committed ==
  /\ validate_sync_snapshot(inner)
  /\ validate_claim_run_owners(inner, run_owners)
  /\ validate_claim_liveness(inner, liveness, supersessions)

\* The history of reservations stays within the number of records the store may hold.
ReservationsCounted(c) ==
  IsFiniteSet(c.subordinate_bindings) /\ Cardinality(c.subordinate_bindings) <= MaxSyncClaims

GrantedBelowNext == \A x \in granted : x.token < inner.next_token

StoreInv ==
  /\ CoordInv(inner)
  /\ StoreTypeOK
  /\ Committed
  /\ SubordinateRunsMatch(inner, run_owners)
  /\ ReservationsCounted(inner)
  /\ GrantedBelowNext
  /\ TokensNameOneClaim
  /\ SupersessionsFollowClock
  /\ GuardedClaimsStay

\* A legacy state that was validated satisfies the coordinator's invariant.
LEMMA LegacyCoordInv ==
  ASSUME NEW c \in LegacyStates
  PROVE  CoordInv(c)
<1>1. /\ c \in Inner
      /\ c.subordinate_claims = {} /\ c.subordinate_bindings = {}
      /\ validate_sync_snapshot(c)
      /\ from_snapshot_with_subordinates_ok(c)
  BY LegacyAssumption DEF coordinator_from_authenticated_ok
<1>2. all_claims(c) = c.claims
  BY <1>1 DEF all_claims
<1>3. TokensBelowNext(c)
  BY <1>1 DEF validate_sync_snapshot, ActiveTokens, TokensBelowNext
<1>4. /\ \A x, y \in all_claims(c) : x # y => x.token # y.token
      /\ \A x, y \in c.claims : x # y => ~ScopesOverlap(x.paths, y.paths)
      /\ BindingsValid(c)
  BY <1>1, <1>2 DEF from_snapshot_with_subordinates_ok
<1> QED
  BY <1>1, <1>3, <1>4 DEF CoordInv, TokensUnique, TopLevelDisjoint, SubordinatesDisjoint,
                          SubordinatesAdmitted

LEMMA StoreInitInv == StoreInit => StoreInv
<1> SUFFICES ASSUME StoreInit PROVE StoreInv
  OBVIOUS
<1> USE DEF StoreInit
<1>0. MaxNow \in Nat /\ MaxSyncClaims \in Nat /\ MaxSyncPaths \in Nat
      /\ MaxSupersessionRecords \in Nat
  BY BoundsAssumption
<1>1. /\ CoordInv(inner)
      /\ inner.subordinate_claims = {} /\ inner.subordinate_bindings = {}
      /\ inner \in LegacyStates \/ all_claims(inner) = {}
  <2>1. CASE inner \in LegacyStates
    BY <2>1, LegacyCoordInv, LegacyAssumption
  <2>2. CASE inner = EmptyInner
    BY <2>2, EmptyCoordInv DEF EmptyInner, all_claims
  <2> QED
    BY <2>1, <2>2
<1>2. StoreTypeOK
  <2>1. inner \in Inner /\ granted \subseteq PathClaim
    BY <1>1 DEF CoordInv, Inner, all_claims
  <2>2. now \in Times
    BY <1>0 DEF Times
  <2> QED
    BY <2>1, <2>2 DEF StoreTypeOK, TypeOK
<1>3. IsFiniteSet({}) /\ Cardinality({}) = 0
  BY FS_EmptySet
<1>4. validate_sync_snapshot(inner)
  <2>1. CASE inner \in LegacyStates
    BY <2>1, LegacyAssumption DEF coordinator_from_authenticated_ok
  <2>2. CASE all_claims(inner) = {}
    BY <2>2, <1>0, <1>3, PathCountEmpty DEF validate_sync_snapshot, ActiveTokens
  <2> QED
    BY <1>1, <2>1, <2>2
<1>5. Committed
  BY <1>0, <1>3, <1>4 DEF Committed, validate_claim_run_owners, validate_claim_liveness
<1>6. SubordinateRunsMatch(inner, run_owners) /\ ReservationsCounted(inner)
  BY <1>0, <1>1, <1>3 DEF SubordinateRunsMatch, ReservationsCounted
<1>7. GrantedBelowNext /\ TokensNameOneClaim
  BY <1>1 DEF GrantedBelowNext, TokensNameOneClaim, CoordInv, TokensBelowNext, TokensUnique
<1> QED
  BY <1>1, <1>2, <1>5, <1>6, <1>7 DEF StoreInv, SupersessionsFollowClock, GuardedClaimsStay

-----------------------------------------------------------------------------
(* What an update keeps.                                                    *)

\* The parent of an active Worker is active.
LEMMA ParentActive ==
  ASSUME NEW c, CoordInv(c), NEW b \in c.subordinate_bindings,
         b.child_token \in ActiveTokens(c)
  PROVE  b.parent_token \in ActiveTokens(c)
<1>1. PICK x \in all_claims(c) : x.token = b.child_token
  BY DEF ActiveTokens
<1>2. x \in c.subordinate_claims
  BY <1>1 DEF CoordInv, TokensUnique, all_claims
<1>3. PICK parent \in c.claims, e \in c.subordinate_bindings : Admitted(c, x, parent, e)
  BY <1>2 DEF CoordInv, SubordinatesAdmitted
<1>4. e = b
  BY <1>1, <1>3 DEF Admitted, ParentOf, CoordInv, BindingsValid
<1> QED
  BY <1>3, <1>4 DEF Admitted, ParentOf, ActiveTokens, all_claims

\* The rows of a Worker and of its parent survive an update that starts no Worker.
LEMMA RunsStillMatch ==
  ASSUME NEW c, NEW owners, SubordinateRunsMatch(c, owners),
         NEW d, NEW kept, owners \subseteq kept,
         d.subordinate_bindings = c.subordinate_bindings,
         \A b \in c.subordinate_bindings :
           b.child_token \in ActiveTokens(d) => b.child_token \in ActiveTokens(c)
  PROVE  SubordinateRunsMatch(d, kept)
BY DEF SubordinateRunsMatch

\* with_locked_update: an operation that keeps the coordinator's invariant, and whose rows
\* are of the right types, commits a state of the store's invariant.
LEMMA UpdateKeeps ==
  ASSUME StoreInv, guard = None,
         NEW d, CoordInv(d),
         NEW owners, owners \subseteq AuthenticatedClaimRunOwner,
         NEW rows, rows \subseteq AuthenticatedClaimLiveness,
         NEW ss, ss \subseteq AuthenticatedClaimSupersession,
         CommitUpdate(d, owners, rows, ss),
         SubordinateRunsMatch(d, owners),
         ReservationsCounted(d),
         d.next_token >= inner.next_token,
         \A r, s \in ss : r.successor_token < s.successor_token => r.at <= s.at,
         \/ granted' = granted
         \/ \E x \in PathClaim : /\ x.token = inner.next_token
                                 /\ x.token < d.next_token
                                 /\ granted' = granted \cup {x}
  PROVE  StoreInv'
<1> DEFINE keptOwners == {o \in owners : o.token \in ActiveTokens(d)}
           keptRows == {l \in rows : l.token \in ActiveTokens(d)}
<1>1. /\ inner' = d /\ run_owners' = keptOwners /\ liveness' = keptRows
      /\ supersessions' = ss /\ now' = now /\ guard' = None
      /\ validate_sync_snapshot(d)
      /\ validate_claim_run_owners(d, keptOwners)
      /\ validate_claim_liveness(d, keptRows, ss)
  BY DEF CommitUpdate
<1>2. keptOwners \subseteq owners /\ keptRows \subseteq rows
  OBVIOUS
<1>3. SubordinateRunsMatch(d, keptOwners)
  BY ParentActive DEF SubordinateRunsMatch
<1> HIDE DEF keptOwners, keptRows
<1>4. d.next_token \in Nat /\ inner.next_token \in Nat /\ \A x \in granted : x.token \in Nat
  BY DEF StoreInv, StoreTypeOK, CoordInv, Inner, Tokens, PathClaim
<1>5. StoreTypeOK'
  <2>1. granted' \subseteq PathClaim
    BY DEF StoreInv, StoreTypeOK
  <2>2. d \in Inner /\ now \in Times
    BY DEF CoordInv, StoreInv, StoreTypeOK
  <2> QED
    BY <1>1, <1>2, <2>1, <2>2 DEF StoreTypeOK, TypeOK, Times
<1>6. Committed'
  BY <1>1 DEF Committed
<1>7. GrantedBelowNext'
  BY <1>1, <1>4 DEF StoreInv, GrantedBelowNext
<1>8. TokensNameOneClaim'
  BY <1>4 DEF StoreInv, GrantedBelowNext, TokensNameOneClaim
<1>9. SupersessionsFollowClock' /\ GuardedClaimsStay'
  BY <1>1 DEF SupersessionsFollowClock, GuardedClaimsStay
<1> QED
  BY <1>1, <1>3, <1>5, <1>6, <1>7, <1>8, <1>9 DEF StoreInv, ReservationsCounted

\* The row of a claim that was just taken.
LEMMA NewRow ==
  ASSUME StoreInv, NEW token \in Tokens, NEW timing, NEW supersedes \in Tokens \cup {None},
         timing.interval \in {t.interval : t \in Timings},
         timing.stale \in {t.stale : t \in Timings}
  PROVE  new_claim_liveness(token, timing, supersedes) \in AuthenticatedClaimLiveness
<1>1. now \in Times
  BY DEF StoreInv, StoreTypeOK
<1> QED
  BY <1>1 DEF new_claim_liveness, AuthenticatedClaimLiveness

LEMMA TimingTypes ==
  /\ DefaultTiming \in Timings
  /\ \A t \in Timings : /\ t.interval \in {x.interval : x \in Timings}
                        /\ t.stale \in {x.stale : x \in Timings}
BY TimingsAssumption DEF DefaultTiming

\* The state after a successful claim: the token next_token names the new claim.
LEMMA AfterClaim ==
  ASSUME NEW c, CoordInv(c), NEW agent \in Agents, NEW ps \in SUBSET Paths, TokenAvailable(c)
  PROVE  /\ claim_paths(c, agent, ps).next_token = c.next_token + 1
         /\ claim_paths(c, agent, ps).subordinate_bindings = c.subordinate_bindings
         /\ ActiveTokens(claim_paths(c, agent, ps)) = ActiveTokens(c) \cup {c.next_token}
         /\ c.next_token \in Tokens /\ c.next_token \in Nat
         /\ [token |-> c.next_token, agent_id |-> agent, paths |-> ps] \in PathClaim
         /\ \A b \in c.subordinate_bindings : b.child_token # c.next_token
<1> DEFINE new == [token |-> c.next_token, agent_id |-> agent, paths |-> ps]
           d == claim_paths(c, agent, ps)
<1>1. new \in PathClaim /\ c.next_token \in Tokens /\ c.next_token \in Nat
  BY DEF CoordInv, Inner, Tokens, PathClaim
<1>2. /\ d.next_token = c.next_token + 1
      /\ d.subordinate_bindings = c.subordinate_bindings
      /\ d.claims = c.claims \cup {new}
      /\ d.subordinate_claims = c.subordinate_claims
  BY DEF claim_paths, CoordInv, Inner
<1>3. new.token = c.next_token
  OBVIOUS
<1>4. \A b \in c.subordinate_bindings : b.child_token # c.next_token
  BY <1>1 DEF CoordInv, BindingsValid, Inner, SubordinateClaimBinding, Tokens
<1> HIDE DEF new, d
<1>5. ActiveTokens(d) = ActiveTokens(c) \cup {c.next_token}
  BY <1>2, <1>3 DEF ActiveTokens, all_claims
<1> QED
  BY <1>1, <1>2, <1>4, <1>5 DEF new, d

LEMMA StoreClaimKeeps ==
  ASSUME StoreInv, NEW agent \in Agents, NEW ps \in SUBSET Paths, NEW timing \in Timings,
         NEW owner \in Owners \cup {None}, StoreClaimPaths(agent, ps, timing, owner)
  PROVE  StoreInv'
<1> DEFINE token == inner.next_token
           d == claim_paths(inner, agent, ps)
           owners == run_owners \cup
                       IF owner = None THEN {} ELSE {[token |-> token, owner |-> owner]}
           rows == liveness \cup {new_claim_liveness(token, timing, None)}
           x == [token |-> token, agent_id |-> agent, paths |-> ps]
<1>1. Loaded = inner /\ CoordInv(inner)
  BY LoadedIsInner DEF Loaded, StoreInv
<1>2. /\ guard = None /\ TokenAvailable(inner) /\ insert_claim_ok(inner, ps)
      /\ CommitUpdate(d, owners, rows, supersessions)
      /\ granted' = granted \cup {x}
  BY <1>1 DEF StoreClaimPaths, Opened
<1>3. CoordInv(d)
  BY <1>1, <1>2, ClaimPathsKeeps
<1>4. /\ d.next_token = token + 1 /\ token \in Nat /\ token \in Tokens
      /\ d.subordinate_bindings = inner.subordinate_bindings
      /\ ActiveTokens(d) = ActiveTokens(inner) \cup {token}
      /\ \A b \in inner.subordinate_bindings : b.child_token # token
      /\ x \in PathClaim /\ x.token = token
  BY <1>1, <1>2, AfterClaim
<1>5. owners \subseteq AuthenticatedClaimRunOwner /\ run_owners \subseteq owners
  <2>1. owner # None => [token |-> token, owner |-> owner] \in AuthenticatedClaimRunOwner
    BY <1>4 DEF AuthenticatedClaimRunOwner
  <2> QED
    BY <2>1 DEF StoreInv, StoreTypeOK
<1>6. rows \subseteq AuthenticatedClaimLiveness
  BY <1>4, NewRow, TimingTypes DEF StoreInv, StoreTypeOK
<1> HIDE DEF d, owners, rows, token, x
<1>7. SubordinateRunsMatch(d, owners)
  BY <1>4, <1>5, RunsStillMatch DEF StoreInv
<1>8. ReservationsCounted(d)
  BY <1>4 DEF StoreInv, ReservationsCounted
<1>9. /\ supersessions \subseteq AuthenticatedClaimSupersession
      /\ \A r, s \in supersessions : r.successor_token < s.successor_token => r.at <= s.at
  BY DEF StoreInv, StoreTypeOK, SupersessionsFollowClock
<1>10. d.next_token >= inner.next_token /\ x.token < d.next_token /\ x.token = inner.next_token
  BY <1>4 DEF token
<1> QED
  BY <1>2, <1>3, <1>4, <1>5, <1>6, <1>7, <1>8, <1>9, <1>10, UpdateKeeps

\* claim_subordinate_paths_for_run writes the Worker's owner row from its parent's.
LEMMA StoreSubordinateKeeps ==
  ASSUME StoreInv, NEW owner \in Owners, NEW parent, NEW worker \in Agents,
         NEW ps \in SUBSET Paths, NEW digest \in Digests,
         StoreClaimSubordinate(owner, parent, worker, ps, digest)
  PROVE  StoreInv'
<1> DEFINE token == inner.next_token
           d == claim_subordinate_paths(inner, parent, worker, ps, digest)
           mine == [token |-> token, owner |-> owner]
           owners == run_owners \cup {mine}
           rows == liveness \cup {new_claim_liveness(token, DefaultTiming, None)}
           x == [token |-> token, agent_id |-> worker, paths |-> ps]
           bound == [child_token |-> token, parent_token |-> parent.token,
                     source_digest |-> digest, worker_id |-> worker, paths |-> ps]
<1>1. Loaded = inner /\ CoordInv(inner)
  BY LoadedIsInner DEF Loaded, StoreInv
<1>2. /\ guard = None
      /\ [token |-> parent.token, owner |-> owner] \in run_owners
      /\ Cardinality(inner.subordinate_bindings) < MaxSyncClaims
      /\ claim_subordinate_paths_ok(inner, parent, worker, ps, digest)
      /\ CommitUpdate(d, owners, rows, supersessions)
      /\ granted' = granted \cup {x}
  BY <1>1 DEF StoreClaimSubordinate, Opened, RunOwnsParent
<1>3. CoordInv(d)
  BY <1>1, <1>2, ClaimSubordinateKeeps
<1>4. token \in Tokens /\ token \in Nat /\ x \in PathClaim /\ mine \in AuthenticatedClaimRunOwner
  BY <1>1 DEF CoordInv, Inner, Tokens, PathClaim, AuthenticatedClaimRunOwner
<1>5. /\ d.next_token = token + 1
      /\ d.claims = inner.claims
      /\ d.subordinate_claims = inner.subordinate_claims \cup {x}
      /\ d.subordinate_bindings = inner.subordinate_bindings \cup {bound}
  BY <1>1 DEF claim_subordinate_paths, CoordInv, Inner
<1>6. /\ x.token = token /\ mine.token = token /\ mine.owner = owner
      /\ bound.child_token = token /\ bound.parent_token = parent.token
  OBVIOUS
<1>7. owners \subseteq AuthenticatedClaimRunOwner /\ rows \subseteq AuthenticatedClaimLiveness
  BY <1>4, NewRow, TimingTypes DEF StoreInv, StoreTypeOK
<1> HIDE DEF d, rows, token, x, mine, bound
<1>8. ActiveTokens(d) = ActiveTokens(inner) \cup {token}
  BY <1>5, <1>6 DEF ActiveTokens, all_claims
<1>9. SubordinateRunsMatch(d, owners)
  <2> SUFFICES ASSUME NEW b \in d.subordinate_bindings, b.child_token \in ActiveTokens(d)
               PROVE  \E p, o \in owners : /\ p.token = b.parent_token
                                           /\ o.token = b.child_token
                                           /\ p.owner = o.owner
    BY DEF SubordinateRunsMatch
  <2>1. CASE b = bound
    BY <1>2, <1>6, <2>1
  <2>2. CASE b \in inner.subordinate_bindings
    <3>1. b.child_token # token
      BY <1>1, <1>4, <2>2
         DEF token, CoordInv, BindingsValid, Inner, SubordinateClaimBinding, Tokens
    <3> QED
      BY <1>8, <2>2, <3>1 DEF StoreInv, SubordinateRunsMatch
  <2> QED
    BY <1>5, <2>1, <2>2
<1>10. ReservationsCounted(d)
  <2>1. /\ IsFiniteSet(inner.subordinate_bindings)
        /\ Cardinality(inner.subordinate_bindings) \in Nat
    BY FS_CardinalityType DEF StoreInv, ReservationsCounted
  <2>2. /\ IsFiniteSet(inner.subordinate_bindings \cup {bound})
        /\ Cardinality(inner.subordinate_bindings \cup {bound})
             \in {Cardinality(inner.subordinate_bindings),
                  Cardinality(inner.subordinate_bindings) + 1}
    BY <2>1, FS_AddElement
  <2> QED
    BY <1>2, <1>5, <2>1, <2>2, BoundsAssumption DEF ReservationsCounted
<1>11. /\ supersessions \subseteq AuthenticatedClaimSupersession
       /\ \A r, s \in supersessions : r.successor_token < s.successor_token => r.at <= s.at
  BY DEF StoreInv, StoreTypeOK, SupersessionsFollowClock
<1>12. d.next_token >= inner.next_token /\ x.token < d.next_token /\ x.token = inner.next_token
  BY <1>4, <1>5, <1>6 DEF token
<1> QED
  BY <1>2, <1>3, <1>4, <1>7, <1>9, <1>10, <1>11, <1>12, UpdateKeeps

\* An update that only ends claims, or changes no claim, and leaves the history alone.
LEMMA QuietUpdateKeeps ==
  ASSUME StoreInv, guard = None,
         NEW d, CoordInv(d),
         d.next_token = inner.next_token,
         d.subordinate_bindings = inner.subordinate_bindings,
         ActiveTokens(d) \subseteq ActiveTokens(inner),
         NEW rows, rows \subseteq AuthenticatedClaimLiveness,
         CommitUpdate(d, run_owners, rows, supersessions),
         granted' = granted
  PROVE  StoreInv'
<1>1. SubordinateRunsMatch(d, run_owners)
  BY RunsStillMatch DEF StoreInv
<1>2. ReservationsCounted(d)
  BY DEF StoreInv, ReservationsCounted
<1>3. /\ run_owners \subseteq AuthenticatedClaimRunOwner
      /\ supersessions \subseteq AuthenticatedClaimSupersession
      /\ \A r, s \in supersessions : r.successor_token < s.successor_token => r.at <= s.at
  BY DEF StoreInv, StoreTypeOK, SupersessionsFollowClock
<1>4. d.next_token >= inner.next_token
  BY DEF StoreInv, CoordInv, Inner, Tokens
<1> QED
  BY <1>1, <1>2, <1>3, <1>4, UpdateKeeps

LEMMA StoreReleaseKeeps ==
  ASSUME StoreInv, NEW token, StoreRelease(token)
  PROVE  StoreInv'
<1>1. Loaded = inner /\ CoordInv(inner)
  BY LoadedIsInner DEF Loaded, StoreInv
<1>2. /\ guard = None /\ release_ok(inner, token) /\ granted' = granted
      /\ CommitUpdate(release(inner, token), run_owners, liveness, supersessions)
  BY <1>1 DEF StoreRelease, Opened
<1> DEFINE d == release(inner, token)
<1>3. /\ CoordInv(d) /\ d.next_token = inner.next_token
      /\ d.claims \subseteq inner.claims
      /\ d.subordinate_claims \subseteq inner.subordinate_claims
      /\ d.subordinate_bindings = inner.subordinate_bindings
  BY <1>1, <1>2, ReleaseKeeps
<1> HIDE DEF d
<1>4. ActiveTokens(d) \subseteq ActiveTokens(inner)
  BY <1>3 DEF ActiveTokens, all_claims
<1>5. liveness \subseteq AuthenticatedClaimLiveness
  BY DEF StoreInv, StoreTypeOK
<1> QED
  BY <1>2, <1>3, <1>4, <1>5, QuietUpdateKeeps DEF d

LEMMA StoreReleaseByAgentKeeps ==
  ASSUME StoreInv, NEW agent, StoreReleaseByAgent(agent)
  PROVE  StoreInv'
<1>1. Loaded = inner /\ CoordInv(inner)
  BY LoadedIsInner DEF Loaded, StoreInv
<1>2. /\ guard = None /\ release_by_agent_ok(inner, agent) /\ granted' = granted
      /\ CommitUpdate(release_by_agent(inner, agent), run_owners, liveness, supersessions)
  BY <1>1 DEF StoreReleaseByAgent, Opened
<1> DEFINE d == release_by_agent(inner, agent)
<1>3. /\ CoordInv(d) /\ d.next_token = inner.next_token
      /\ d.claims \subseteq inner.claims
      /\ d.subordinate_claims \subseteq inner.subordinate_claims
      /\ d.subordinate_bindings = inner.subordinate_bindings
  BY <1>1, <1>2, ReleaseByAgentKeeps
<1> HIDE DEF d
<1>4. ActiveTokens(d) \subseteq ActiveTokens(inner)
  BY <1>3 DEF ActiveTokens, all_claims
<1>5. liveness \subseteq AuthenticatedClaimLiveness
  BY DEF StoreInv, StoreTypeOK
<1> QED
  BY <1>2, <1>3, <1>4, <1>5, QuietUpdateKeeps DEF d

LEMMA HeartbeatKeeps ==
  ASSUME StoreInv, NEW token \in Tokens, NEW agent, NEW timing \in Timings \cup {None},
         Heartbeat(token, agent, timing)
  PROVE  StoreInv'
<1> DEFINE used == IF timing = None THEN DefaultTiming ELSE timing
           Beaten(l) == [l EXCEPT !.heartbeat = now,
                                  !.interval = IF timing = None THEN @ ELSE timing.interval,
                                  !.stale = IF timing = None THEN @ ELSE timing.stale]
           beaten == {Beaten(l) : l \in Row(token)}
           rows == IF beaten = {} THEN {new_claim_liveness(token, used, None)} ELSE beaten
<1>1. Loaded = inner /\ CoordInv(inner)
  BY LoadedIsInner DEF Loaded, StoreInv
<1>2. /\ guard = None /\ granted' = granted
      /\ CommitUpdate(inner, run_owners, (liveness \ Row(token)) \cup rows, supersessions)
  BY <1>1 DEF Heartbeat, Opened
<1>3. liveness \subseteq AuthenticatedClaimLiveness /\ now \in Times
  BY DEF StoreInv, StoreTypeOK
<1>4. used \in Timings
  BY TimingTypes
<1>5. new_claim_liveness(token, used, None) \in AuthenticatedClaimLiveness
  BY <1>4, NewRow, TimingTypes
<1>6. \A l \in AuthenticatedClaimLiveness : Beaten(l) \in AuthenticatedClaimLiveness
  BY <1>3, TimingTypes DEF AuthenticatedClaimLiveness
<1> HIDE DEF Beaten
<1>7. beaten \subseteq AuthenticatedClaimLiveness
  BY <1>3, <1>6 DEF Row
<1> HIDE DEF beaten, used
<1>8. (liveness \ Row(token)) \cup rows \subseteq AuthenticatedClaimLiveness
  BY <1>3, <1>5, <1>7
<1> QED
  BY <1>1, <1>2, <1>8, QuietUpdateKeeps

LEMMA SweepKeeps ==
  ASSUME StoreInv, SweepStale
  PROVE  StoreInv'
<1> DEFINE rows == (liveness \ SweptRows) \cup {[l EXCEPT !.eligible = now] : l \in SweptRows}
<1>1. Loaded = inner /\ CoordInv(inner)
  BY LoadedIsInner DEF Loaded, StoreInv
<1>2. /\ guard = None /\ granted' = granted
      /\ CommitUpdate(inner, run_owners, rows, supersessions)
  BY <1>1 DEF SweepStale, Opened
<1>3. liveness \subseteq AuthenticatedClaimLiveness /\ now \in Times
  BY DEF StoreInv, StoreTypeOK
<1>4. \A l \in AuthenticatedClaimLiveness :
        [l EXCEPT !.eligible = now] \in AuthenticatedClaimLiveness
  BY <1>3 DEF AuthenticatedClaimLiveness
<1>5. rows \subseteq AuthenticatedClaimLiveness
  BY <1>3, <1>4 DEF SweptRows
<1> QED
  BY <1>1, <1>2, <1>5, QuietUpdateKeeps

\* The row that claim_liveness_report reads is a row of the token.
LEMMA ReportedRow ==
  ASSUME NEW token, Row(token) # {}
  PROVE  (CHOOSE l \in Row(token) : TRUE) \in Row(token)
OBVIOUS

\* takeover_at: a predecessor that is eligible ends and its successor takes the same paths.
LEMMA TakeoverKeeps ==
  ASSUME StoreInv, NEW prior \in all_claims(inner), NEW agent \in Agents,
         NEW timing \in Timings \cup {None}, Takeover(prior, agent, timing)
  PROVE  StoreInv'
<1> DEFINE without == release(inner, prior.token)
           token == without.next_token
           own == CHOOSE l \in Row(prior.token) : TRUE
           used == IF timing = None THEN own ELSE timing
           d == claim_paths(without, agent, prior.paths)
           rows == liveness \cup {new_claim_liveness(token, used, prior.token)}
           over == [prior_token |-> prior.token, prior_agent |-> prior.agent_id,
                    successor_token |-> token, successor_agent |-> agent,
                    paths |-> prior.paths, at |-> now]
           ss == supersessions \cup {over}
           x == [token |-> token, agent_id |-> agent, paths |-> prior.paths]
<1>1. Loaded = inner /\ CoordInv(inner)
  BY LoadedIsInner DEF Loaded, StoreInv
<1>2. /\ guard = None /\ release_ok(inner, prior.token) /\ TokenAvailable(without)
      /\ insert_claim_ok(without, prior.paths)
      /\ ensure_supersession_time_not_future
      /\ TakeoverAllowed(prior.token)
      /\ CommitUpdate(d, run_owners, rows, ss)
      /\ granted' = granted \cup {x}
  BY <1>1 DEF Takeover, Opened, ensure_unambiguous_liveness
<1>3. prior \in PathClaim /\ prior.token \in Tokens /\ prior.agent_id \in Agents
      /\ prior.paths \in SUBSET Paths
  BY <1>1 DEF CoordInv, Inner, all_claims, PathClaim
<1>4. /\ CoordInv(without) /\ token = inner.next_token
      /\ without.claims \subseteq inner.claims
      /\ without.subordinate_claims \subseteq inner.subordinate_claims
      /\ without.subordinate_bindings = inner.subordinate_bindings
  BY <1>1, <1>2, ReleaseKeeps
<1> HIDE DEF without
<1>5. CoordInv(d)
  BY <1>2, <1>3, <1>4, ClaimPathsKeeps
<1>6. /\ d.next_token = token + 1 /\ token \in Nat /\ token \in Tokens
      /\ d.subordinate_bindings = inner.subordinate_bindings
      /\ ActiveTokens(d) = ActiveTokens(without) \cup {token}
      /\ \A b \in inner.subordinate_bindings : b.child_token # token
      /\ x \in PathClaim /\ x.token = token
  BY <1>2, <1>3, <1>4, AfterClaim
<1>7. ActiveTokens(without) \subseteq ActiveTokens(inner)
  BY <1>4 DEF ActiveTokens, all_claims
<1>8. now \in Times /\ liveness \subseteq AuthenticatedClaimLiveness
      /\ supersessions \subseteq AuthenticatedClaimSupersession
      /\ run_owners \subseteq AuthenticatedClaimRunOwner
  BY DEF StoreInv, StoreTypeOK
<1>9. rows \subseteq AuthenticatedClaimLiveness
  <2>1. Row(prior.token) # {}
    BY <1>2 DEF TakeoverAllowed, claim_liveness_report
  <2>2. own \in AuthenticatedClaimLiveness
    BY <1>8, <2>1, ReportedRow DEF Row
  <2> HIDE DEF own
  <2>3. used.interval \in {t.interval : t \in Timings} /\ used.stale \in {t.stale : t \in Timings}
    BY <2>2, TimingTypes DEF AuthenticatedClaimLiveness
  <2> HIDE DEF used
  <2> QED
    BY <1>3, <1>6, <1>8, <2>3, NewRow
<1>10. over \in AuthenticatedClaimSupersession
  BY <1>3, <1>6, <1>8 DEF AuthenticatedClaimSupersession
<1>11. over.successor_token = token /\ over.at = now
  OBVIOUS
<1> HIDE DEF over, rows, d, x, token
<1>12. \A s \in supersessions : /\ s.successor_token < token /\ s.at <= now
                                /\ s.successor_token \in Nat /\ s.at \in Nat
  <2>1. \A s \in supersessions : s.successor_token < inner.next_token
    BY DEF StoreInv, Committed, validate_claim_liveness
  <2>2. \A s \in supersessions : s.successor_token \in Nat /\ s.at \in Nat
    BY <1>8, BoundsAssumption DEF AuthenticatedClaimSupersession, Tokens, Times
  <2> QED
    BY <1>2, <1>4, <2>1, <2>2 DEF ensure_supersession_time_not_future
<1>13. \A r, s \in ss : r.successor_token < s.successor_token => r.at <= s.at
  <2>1. now \in Nat
    BY <1>8, BoundsAssumption DEF Times
  <2> QED
    BY <1>6, <1>11, <1>12, <2>1 DEF StoreInv, SupersessionsFollowClock
<1>14. SubordinateRunsMatch(d, run_owners)
  BY <1>6, <1>7, RunsStillMatch DEF StoreInv
<1>15. ReservationsCounted(d)
  BY <1>6 DEF StoreInv, ReservationsCounted
<1>16. d.next_token >= inner.next_token /\ x.token < d.next_token /\ x.token = inner.next_token
  BY <1>4, <1>6
<1>17. ss \subseteq AuthenticatedClaimSupersession
  BY <1>8, <1>10
<1> QED
  BY <1>2, <1>5, <1>6, <1>8, <1>9, <1>13, <1>14, <1>15, <1>16, <1>17, UpdateKeeps

-----------------------------------------------------------------------------
(* The guard and the clock.                                                 *)

\* A token has one liveness row.
LEMMA OneRow ==
  ASSUME StoreInv, NEW l \in liveness, NEW m \in liveness, l.token = m.token
  PROVE  l = m
BY DEF StoreInv, Committed, validate_claim_liveness

\* verify_existing_claim_requests reads a row that is not eligible, and there is no other.
LEMMA LockKeeps ==
  ASSUME StoreInv, NEW requests \in SUBSET granted, LockExistingClaims(requests)
  PROVE  StoreInv'
<1>1. /\ inner' = inner /\ run_owners' = run_owners /\ liveness' = liveness
      /\ supersessions' = supersessions /\ now' = now /\ granted' = granted
      /\ guard' = requests
      /\ \A request \in requests : ExactlyLive(request)
  BY DEF LockExistingClaims, durable
<1>2. requests \in SUBSET PathClaim
  BY DEF StoreInv, StoreTypeOK
<1>3. ASSUME NEW request \in requests, NEW l \in Row(request.token)
      PROVE  l.eligible = None
  <2> DEFINE m == CHOOSE x \in Row(request.token) : TRUE
  <2>1. m \in Row(request.token)
    OBVIOUS
  <2>2. m = l
    BY <2>1, OneRow DEF Row
  <2>3. claim_liveness_report(Row(request.token)) \in {"Fresh", "HeartbeatDue"}
    BY <1>1 DEF ExactlyLive
  <2>4. m.eligible = None
    BY <2>1, <2>3 DEF claim_liveness_report
  <2> QED
    BY <2>2, <2>4
<1>4. GuardedClaimsStay'
  BY <1>1, <1>3 DEF GuardedClaimsStay, ExactlyLive, Row
<1>5. StoreTypeOK'
  BY <1>1, <1>2 DEF StoreInv, StoreTypeOK, TypeOK, Times
<1> QED
  BY <1>1, <1>4, <1>5 DEF StoreInv, Committed, GrantedBelowNext, TokensNameOneClaim,
                          SupersessionsFollowClock

\* persist_exact_owner_heartbeat_locked: the rows keep their claims, and none was eligible.
LEMMA GuardHeartbeatKeeps ==
  ASSUME StoreInv, GuardHeartbeat
  PROVE  StoreInv'
<1> DEFINE tokens == {request.token : request \in guard}
           mine == {l \in liveness : l.token \in tokens}
           Beat(l) == [l EXCEPT !.heartbeat = now]
<1>1. /\ inner' = inner /\ run_owners' = run_owners /\ supersessions' = supersessions
      /\ now' = now /\ guard' = guard /\ granted' = granted
      /\ \A l \in mine : HeartbeatAllowed(l)
      /\ liveness' = (liveness \ mine) \cup {Beat(l) : l \in mine}
  BY DEF GuardHeartbeat
<1>2. liveness \subseteq AuthenticatedClaimLiveness /\ now \in Times
  BY DEF StoreInv, StoreTypeOK
<1>3. \A l \in AuthenticatedClaimLiveness :
        /\ Beat(l) \in AuthenticatedClaimLiveness
        /\ Beat(l).token = l.token /\ Beat(l).eligible = l.eligible
        /\ Beat(l).created = l.created /\ Beat(l).supersedes = l.supersedes
        /\ Beat(l).heartbeat = now
        /\ l.created \in Nat /\ l.heartbeat \in Nat
  BY <1>2, BoundsAssumption DEF AuthenticatedClaimLiveness, Times
<1>4. mine \subseteq liveness
  OBVIOUS
<1> HIDE DEF Beat, mine
<1>5. \A m \in liveness' : \E l \in liveness :
        /\ m.token = l.token /\ m.eligible = l.eligible
        /\ m.created = l.created /\ m.supersedes = l.supersedes
        /\ m \in AuthenticatedClaimLiveness
        /\ m = l \/ (m = Beat(l) /\ l \in mine)
  BY <1>1, <1>2, <1>3, <1>4
<1>6. \A l \in liveness : \E m \in liveness' : m.token = l.token
  BY <1>1, <1>2, <1>3
<1>7. validate_claim_liveness(inner, liveness, supersessions)
  BY DEF StoreInv, Committed
<1>8. \A l \in liveness' :
        /\ l.token \in ActiveTokens(inner)
        /\ \A m \in liveness' : l.token = m.token => l = m
        /\ l.created <= l.heartbeat
        /\ l.eligible # None => l.eligible >= l.heartbeat + l.stale
  <2>1. \A l \in liveness' : l.token \in ActiveTokens(inner)
    BY <1>5, <1>7 DEF validate_claim_liveness
  <2>2. \A l, m \in liveness' : l.token = m.token => l = m
    <3> SUFFICES ASSUME NEW l \in liveness', NEW m \in liveness', l.token = m.token
                 PROVE  l = m
      OBVIOUS
    <3>1. PICK l1 \in liveness : /\ l.token = l1.token
                                 /\ l = l1 \/ (l = Beat(l1) /\ l1 \in mine)
      BY <1>5
    <3>2. PICK m1 \in liveness : /\ m.token = m1.token
                                 /\ m = m1 \/ (m = Beat(m1) /\ m1 \in mine)
      BY <1>5
    <3>3. l1 = m1
      BY <3>1, <3>2, OneRow
    <3>4. l1 \in mine <=> m1 \in mine
      BY <3>3
    <3>5. l \in mine => l \notin liveness \ mine
      OBVIOUS
    <3>6. CASE l1 \in mine
      BY <1>1, <1>2, <1>3, <1>4, <3>1, <3>2, <3>3, <3>6, OneRow
    <3>7. CASE l1 \notin mine
      BY <3>1, <3>2, <3>3, <3>7
    <3> QED
      BY <3>6, <3>7
  <2>3. \A l \in liveness' : l.created <= l.heartbeat
    BY <1>1, <1>2, <1>3, <1>5, <1>7 DEF validate_claim_liveness, HeartbeatAllowed, Times
  <2>4. \A l \in liveness' : l.eligible # None => l.eligible >= l.heartbeat + l.stale
    BY <1>1, <1>3, <1>5, <1>7 DEF validate_claim_liveness, HeartbeatAllowed
  <2> QED
    BY <2>1, <2>2, <2>3, <2>4
<1>9. validate_claim_liveness(inner, liveness', supersessions)
  BY <1>5, <1>6, <1>7, <1>8 DEF validate_claim_liveness
<1>10. StoreTypeOK'
  BY <1>1, <1>5 DEF StoreInv, StoreTypeOK, TypeOK, Times
<1>11. GuardedClaimsStay'
  BY <1>1, <1>5 DEF StoreInv, GuardedClaimsStay, Row
<1> QED
  BY <1>1, <1>9, <1>10, <1>11 DEF StoreInv, Committed, GrantedBelowNext, TokensNameOneClaim,
                                  SupersessionsFollowClock

\* Dropping the guard and moving the clock change no row.
LEMMA IdleKeeps ==
  ASSUME StoreInv, UNCHANGED <<durable, granted>>, now' \in Times,
         guard' = guard \/ guard' = None
  PROVE  StoreInv'
<1>1. StoreTypeOK'
  BY DEF StoreInv, StoreTypeOK, TypeOK, durable, Times
<1>2. GuardedClaimsStay'
  BY DEF StoreInv, GuardedClaimsStay, Row, durable
<1> QED
  BY <1>1, <1>2 DEF StoreInv, durable, Committed, GrantedBelowNext, TokensNameOneClaim,
                    SupersessionsFollowClock

LEMMA StoreStepInv == StoreInv /\ [StoreNext]_storeVars => StoreInv'
<1> SUFFICES ASSUME StoreInv, [StoreNext]_storeVars PROVE StoreInv'
  OBVIOUS
<1>0. now \in Times /\ now \in Nat /\ MaxNow \in Nat
      /\ \A claim \in granted : claim.token \in Tokens
  BY BoundsAssumption DEF StoreInv, StoreTypeOK, Times, PathClaim
<1>1. ASSUME NEW agent \in Agents, NEW ps \in SUBSET Paths, NEW timing \in Timings,
             NEW owner \in Owners \cup {None}, StoreClaimPaths(agent, ps, timing, owner)
      PROVE  StoreInv'
  BY <1>1, StoreClaimKeeps
<1>2. ASSUME NEW owner \in Owners, NEW parent \in inner.claims, NEW worker \in Agents,
             NEW ps \in SUBSET Paths, NEW digest \in Digests,
             StoreClaimSubordinate(owner, parent, worker, ps, digest)
      PROVE  StoreInv'
  BY <1>2, StoreSubordinateKeeps
<1>3. ASSUME NEW claim \in granted, NEW timing \in Timings \cup {None},
             StoreRelease(claim.token) \/ Heartbeat(claim.token, claim.agent_id, timing)
      PROVE  StoreInv'
  BY <1>0, <1>3, StoreReleaseKeeps, HeartbeatKeeps
<1>4. ASSUME NEW agent \in Agents, StoreReleaseByAgent(agent)
      PROVE  StoreInv'
  BY <1>4, StoreReleaseByAgentKeeps
<1>5. ASSUME NEW prior \in all_claims(inner), NEW agent \in Agents,
             NEW timing \in Timings \cup {None}, Takeover(prior, agent, timing)
      PROVE  StoreInv'
  BY <1>5, TakeoverKeeps
<1>6. ASSUME NEW requests \in SUBSET granted, LockExistingClaims(requests)
      PROVE  StoreInv'
  BY <1>6, LockKeeps
<1>7. CASE Tick \/ ClockStepsBack
  <2>1. UNCHANGED <<durable, guard, granted>>
    BY <1>7 DEF Tick, ClockStepsBack
  <2>2. now' \in Times
    BY <1>0, <1>7 DEF Tick, ClockStepsBack, Times
  <2> QED
    BY <2>1, <2>2, IdleKeeps
<1>8. CASE DropGuard \/ UNCHANGED storeVars
  BY <1>0, <1>8, IdleKeeps DEF DropGuard, storeVars, durable, Times
<1> QED
  BY <1>1, <1>2, <1>3, <1>4, <1>5, <1>6, <1>7, <1>8, SweepKeeps, GuardHeartbeatKeeps
     DEF StoreNext, ClientNext

-----------------------------------------------------------------------------
(* Opening a committed state again.                                         *)

\* from_snapshot_with_subordinates accepts every state of the coordinator's invariant in
\* which no Worker also owns a top-level claim.
LEMMA ReloadAccepted ==
  ASSUME NEW c, CoordInv(c),
         \A child \in c.subordinate_claims, claim \in c.claims : claim.agent_id # child.agent_id
  PROVE  from_snapshot_with_subordinates_ok(c)
<1> DEFINE children == {x \in all_claims(c) :
                          \E b \in c.subordinate_bindings : b.child_token = x.token}
           tops == all_claims(c) \ children
           Before(child) == [c EXCEPT !.claims = tops,
                               !.subordinate_claims = {y \in children : y.token < child.token}]
<1>1. children = c.subordinate_claims
  <2>1. c.subordinate_claims \subseteq children
    BY DEF CoordInv, SubordinatesAdmitted, Admitted, ParentOf, all_claims
  <2>2. children \subseteq c.subordinate_claims
    BY DEF CoordInv, TokensUnique, all_claims
  <2> QED
    BY <2>1, <2>2
<1>2. tops = c.claims
  <2>1. \A x \in c.claims : x \notin children
    BY DEF CoordInv, TokensUnique
  <2> QED
    BY <1>1, <2>1 DEF all_claims
<1>3. \A x, y \in all_claims(c) : x # y => x.token # y.token
  BY DEF CoordInv, TokensUnique
<1>4. ASSUME NEW child \in children
      PROVE  \E b \in c.subordinate_bindings, parent \in tops :
               /\ b.child_token = child.token
               /\ b.parent_token = parent.token
               /\ validate_subordinate_scope(Before(child), parent, child.agent_id, child.paths)
               /\ child.agent_id = b.worker_id
               /\ child.paths = b.paths
  <2>1. PICK parent \in c.claims, b \in c.subordinate_bindings : Admitted(c, child, parent, b)
    BY <1>1, <1>4 DEF CoordInv, SubordinatesAdmitted
  <2>2. /\ Before(child).claims = c.claims
        /\ Before(child).subordinate_claims = {y \in c.subordinate_claims : y.token < child.token}
    BY <1>1, <1>2 DEF CoordInv, Inner
  <2>3. child.token \in Nat
    BY <1>1, <1>4 DEF CoordInv, Inner, PathClaim, Tokens
  <2> HIDE DEF Before, children, tops
  <2>4. IsNormalized(child.paths)
    BY <2>1 DEF Admitted, ParentOf, CoordInv, BindingsValid
  <2>5. \A y \in Before(child).subordinate_claims :
          y.agent_id # child.agent_id /\ ~ScopesOverlap(y.paths, child.paths)
    BY <1>1, <1>4, <2>2, <2>3 DEF CoordInv, SubordinatesDisjoint
  <2>6. \A claim \in Before(child).claims : claim.agent_id # child.agent_id
    BY <1>1, <1>4, <2>2
  <2>7. validate_subordinate_scope(Before(child), parent, child.agent_id, child.paths)
    BY <2>1, <2>4, <2>5, <2>6 DEF validate_subordinate_scope, Admitted
  <2> QED
    BY <1>2, <2>1, <2>7 DEF Admitted, ParentOf
<1>5. \A x, y \in tops : x # y => ~ScopesOverlap(x.paths, y.paths)
  BY <1>2 DEF CoordInv, TopLevelDisjoint
<1>6. BindingsValid(c)
  BY DEF CoordInv
<1> HIDE <1>1, <1>2
<1> QED
  BY <1>3, <1>4, <1>5, <1>6 DEF from_snapshot_with_subordinates_ok

\* The reasons for which a committed state may not open again are the two the property names.
LEMMA OpensAgain == StoreInv => OpensUnlessDoubleRole
<1> SUFFICES ASSUME StoreInv, \A agent \in Agents : ~DoubleRole(agent),
                    PathCount(inner.subordinate_bindings) <= MaxSyncPaths
             PROVE  validate_authenticated_store
  BY DEF OpensUnlessDoubleRole
<1>1. CoordInv(inner)
  BY DEF StoreInv
<1>2. \A child \in inner.subordinate_claims, claim \in inner.claims :
        claim.agent_id # child.agent_id
  BY <1>1 DEF DoubleRole, CoordInv, Inner, PathClaim
<1>3. from_snapshot_with_subordinates_ok(inner)
  BY <1>1, <1>2, ReloadAccepted
<1> QED
  BY <1>3 DEF StoreInv, validate_authenticated_store, coordinator_from_authenticated_ok,
              Committed, ReservationsCounted, ReservationsBounded

-----------------------------------------------------------------------------
(* What a step may do to somebody's right.                                  *)

\* A takeover moves the right to write from the predecessor to its successor, or, where it
\* ends a Worker, back to the parent.
LEMMA TakeoverHandoff ==
  ASSUME StoreInv, NEW prior \in all_claims(inner), NEW agent \in Agents,
         NEW timing \in Timings \cup {None}, Takeover(prior, agent, timing),
         NEW a \in Agents, NEW b \in Agents, NEW p \in Paths, a # b,
         can_write(inner, a, p), can_write(inner', b, p)
  PROVE  HandoffAlong(inner, inner', a, b, p) \/ HandoffByTakeover(a, b)
<1> DEFINE without == release(inner, prior.token)
           x == [token |-> without.next_token, agent_id |-> agent, paths |-> prior.paths]
           over == [prior_token |-> prior.token, prior_agent |-> prior.agent_id,
                    successor_token |-> without.next_token, successor_agent |-> agent,
                    paths |-> prior.paths, at |-> now]
<1>1. Loaded = inner /\ CoordInv(inner)
  BY LoadedIsInner DEF Loaded, StoreInv
<1>2. /\ release_ok(inner, prior.token) /\ TokenAvailable(without)
      /\ insert_claim_ok(without, prior.paths)
      /\ TakeoverAllowed(prior.token)
      /\ inner' = claim_paths(without, agent, prior.paths)
      /\ supersessions' = supersessions \cup {over}
  BY <1>1 DEF Takeover, CommitUpdate
<1>3. prior \in PathClaim /\ prior.paths \in SUBSET Paths
  BY <1>1 DEF CoordInv, Inner, all_claims, PathClaim
<1>4. /\ CoordInv(without) /\ without.next_token = inner.next_token
      /\ without.claims \subseteq inner.claims
      /\ without.subordinate_claims \subseteq inner.subordinate_claims
      /\ without.subordinate_bindings = inner.subordinate_bindings
      /\ \A y \in all_claims(inner) : y.token # prior.token => y \in all_claims(without)
  BY <1>1, <1>2, ReleaseKeeps
<1> HIDE DEF without
<1>5. CoordInv(inner')
  BY <1>2, <1>3, <1>4, ClaimPathsKeeps
<1>6. /\ inner'.claims = without.claims \cup {x}
      /\ inner'.subordinate_claims = without.subordinate_claims
      /\ inner'.subordinate_bindings = without.subordinate_bindings
  BY <1>2, <1>4 DEF claim_paths, CoordInv, Inner
<1>7. x.paths = prior.paths /\ x.agent_id = agent
  OBVIOUS
<1>8. over.successor_token = inner.next_token /\ over.prior_agent = prior.agent_id
      /\ over.prior_token = prior.token /\ over.successor_agent = agent
  BY <1>4
<1> HIDE DEF x, over
<1>9. ~can_write(inner, b, p)
  BY <1>1, OldWriter
<1>10. ~\E y : WorkerWrites(inner', y, b, p)
  BY <1>1, <1>4, <1>6, <1>9, WorkerCanWrite DEF WorkerWrites
<1>11. PICK y : OwnerWrites(inner', y, b, p)
  BY <1>5, <1>10, WriterKinds
<1>12. CASE y # x
  <2>1. OwnerWrites(without, y, b, p)
    BY <1>6, <1>11, <1>12 DEF OwnerWrites, Undivided
  <2>2. can_write(without, b, p)
    BY <2>1, OwnerCanWrite
  <2>3. HandoffAlong(inner, without, a, b, p)
    BY <1>1, <1>4, <2>2, EndMovesToParent
  <2> QED
    BY <1>6, <2>3 DEF HandoffAlong
<1>13. CASE y = x
  <2>1. b = agent
    BY <1>7, <1>11, <1>13 DEF OwnerWrites
  <2>2. PICK t \in prior.paths : path_is_covered_by_claim(p, t)
    BY <1>7, <1>11, <1>13 DEF OwnerWrites
  <2>3. prior \in inner.claims
    <3>1. SUFFICES ASSUME prior \in inner.subordinate_claims PROVE FALSE
      BY DEF all_claims
    <3>2. PICK parent \in inner.claims, e \in inner.subordinate_bindings :
            Admitted(inner, prior, parent, e)
      BY <1>1, <3>1 DEF CoordInv, SubordinatesAdmitted
    <3>3. parent.token # prior.token
      BY <1>1, <3>2 DEF Admitted, ParentOf, CoordInv, BindingsValid
    <3>4. parent \in all_claims(without)
      BY <1>4, <3>3 DEF all_claims
    <3>5. parent \in without.claims
      <4>1. SUFFICES ASSUME parent \in without.subordinate_claims PROVE FALSE
        BY <3>4 DEF all_claims
      <4>2. parent \in inner.subordinate_claims
        BY <1>4, <4>1
      <4> QED
        BY <1>1, <3>2, <4>2
           DEF CoordInv, SubordinatesAdmitted, Admitted, ParentOf, TokensUnique
    <3>6. PICK q \in parent.paths : starts_with(t, q)
      BY <3>2 DEF Admitted
    <3>7. paths_overlap(q, t)
      BY <3>6 DEF paths_overlap
    <3> QED
      BY <1>2, <3>5, <3>6, <3>7 DEF insert_claim_ok, ScopesOverlap
  <2>4. inner.subordinate_claims \subseteq without.subordinate_claims
    <3>1. \A z \in inner.subordinate_claims : z.token # prior.token
      BY <1>1, <2>3 DEF CoordInv, SubordinatesAdmitted, Admitted, ParentOf, TokensUnique
    <3>2. \A z \in inner.subordinate_claims : z \notin without.claims
      BY <1>1, <1>4 DEF CoordInv, SubordinatesAdmitted, Admitted, ParentOf, TokensUnique
    <3> QED
      BY <1>4, <3>1, <3>2 DEF all_claims
  <2>5. Undivided(inner, p)
    BY <1>6, <1>11, <2>4 DEF OwnerWrites, Undivided
  <2>6. ~\E z : WorkerWrites(inner, z, a, p)
    BY <2>5 DEF Undivided, WorkerWrites, path_is_covered_by_claim, paths_overlap
  <2>7. PICK z : OwnerWrites(inner, z, a, p)
    BY <1>1, <2>6, WriterKinds
  <2>8. z = prior
    BY <1>1, <2>2, <2>3, <2>7, OneOwner DEF OwnerWrites
  <2>9. a = prior.agent_id
    BY <2>7, <2>8 DEF OwnerWrites
  <2>10. over \in supersessions' \ supersessions
    <3>1. \A s \in supersessions : /\ s.successor_token < inner.next_token
                                   /\ s.successor_token \in Nat /\ inner.next_token \in Nat
      BY DEF StoreInv, Committed, validate_claim_liveness, StoreTypeOK, CoordInv, Inner,
             AuthenticatedClaimSupersession, Tokens
    <3> QED
      BY <1>2, <1>8, <3>1
  <2>11. \E l \in Row(prior.token) : /\ l.eligible # None
                                     /\ l.eligible >= l.heartbeat + l.stale
                                     /\ now >= l.eligible
    <3> DEFINE l == CHOOSE m \in Row(prior.token) : TRUE
    <3>1. Row(prior.token) # {}
      BY <1>2 DEF TakeoverAllowed, claim_liveness_report
    <3>2. l \in Row(prior.token) /\ l \in liveness
      BY <3>1 DEF Row
    <3>3. /\ ~(l.eligible # None /\ now < l.eligible)
          /\ l.eligible # None
      BY <1>2, <3>1 DEF TakeoverAllowed, claim_liveness_report
    <3>4. l.eligible \in Nat /\ now \in Nat
      BY <3>2, <3>3, BoundsAssumption
         DEF StoreInv, StoreTypeOK, AuthenticatedClaimLiveness, Times
    <3>5. l.eligible >= l.heartbeat + l.stale
      BY <3>2, <3>3 DEF StoreInv, Committed, validate_claim_liveness
    <3> HIDE DEF l
    <3> QED
      BY <3>2, <3>3, <3>4, <3>5
  <2> QED
    BY <1>8, <2>1, <2>9, <2>10, <2>11 DEF HandoffByTakeover
<1> QED
  BY <1>12, <1>13

LegalHandoffs ==
  \A a, b \in Agents, p \in Paths :
    (a # b /\ can_write(inner, a, p) /\ can_write(inner', b, p))
      => HandoffAlongBinding(a, b, p) \/ HandoffByTakeover(a, b)

FinalEligibility ==
  \A l \in liveness :
    (l.eligible # None /\ l.token \in ActiveTokens(inner')) => l \in liveness'

LEMMA StepHandoffs ==
  ASSUME StoreInv, StoreNext
  PROVE  LegalHandoffs
<1> SUFFICES ASSUME NEW a \in Agents, NEW b \in Agents, NEW p \in Paths, a # b,
                    can_write(inner, a, p), can_write(inner', b, p)
             PROVE  HandoffAlong(inner, inner', a, b, p) \/ HandoffByTakeover(a, b)
  BY DEF LegalHandoffs, HandoffAlong, HandoffAlongBinding
<1>1. Loaded = inner /\ CoordInv(inner)
  BY LoadedIsInner DEF Loaded, StoreInv
<1>2. ~can_write(inner, b, p)
  BY <1>1, OldWriter
<1>3. ASSUME NEW agent \in Agents, NEW ps \in SUBSET Paths, NEW timing, NEW owner,
             StoreClaimPaths(agent, ps, timing, owner)
      PROVE  FALSE
  <2>1. /\ TokenAvailable(inner) /\ insert_claim_ok(inner, ps)
        /\ inner' = claim_paths(inner, agent, ps)
    BY <1>1, <1>3 DEF StoreClaimPaths, CommitUpdate
  <2> QED
    BY <1>1, <2>1, ClaimMovesNothing
<1>4. ASSUME NEW owner, NEW parent, NEW worker \in Agents, NEW ps \in SUBSET Paths,
             NEW digest \in Digests, StoreClaimSubordinate(owner, parent, worker, ps, digest)
      PROVE  HandoffAlong(inner, inner', a, b, p)
  <2>1. /\ claim_subordinate_paths_ok(inner, parent, worker, ps, digest)
        /\ inner' = claim_subordinate_paths(inner, parent, worker, ps, digest)
    BY <1>1, <1>4 DEF StoreClaimSubordinate, CommitUpdate
  <2> QED
    BY <1>1, <2>1, SubdivisionMovesToWorker
<1>5. ASSUME NEW token, StoreRelease(token)
      PROVE  HandoffAlong(inner, inner', a, b, p)
  <2>1. release_ok(inner, token) /\ inner' = release(inner, token)
    BY <1>1, <1>5 DEF StoreRelease, CommitUpdate
  <2> QED
    BY <1>1, <2>1, ReleaseKeeps, EndMovesToParent
<1>6. ASSUME NEW agent, StoreReleaseByAgent(agent)
      PROVE  HandoffAlong(inner, inner', a, b, p)
  <2>1. release_by_agent_ok(inner, agent) /\ inner' = release_by_agent(inner, agent)
    BY <1>1, <1>6 DEF StoreReleaseByAgent, CommitUpdate
  <2> QED
    BY <1>1, <2>1, ReleaseByAgentKeeps, EndMovesToParent
<1>7. ASSUME NEW token, NEW agent, NEW timing, Heartbeat(token, agent, timing)
      PROVE  inner' = inner
  BY <1>1, <1>7 DEF Heartbeat, CommitUpdate
<1>8. SweepStale => inner' = inner
  BY <1>1 DEF SweepStale, CommitUpdate
<1>9. ASSUME NEW requests, LockExistingClaims(requests)
      PROVE  inner' = inner
  BY <1>9 DEF LockExistingClaims, durable
<1>10. GuardHeartbeat \/ DropGuard \/ Tick \/ ClockStepsBack => inner' = inner
  BY DEF GuardHeartbeat, DropGuard, Tick, ClockStepsBack, durable
<1>11. inner' # inner
  BY <1>2
<1> QED
  BY <1>3, <1>4, <1>5, <1>6, <1>7, <1>8, <1>9, <1>10, <1>11, TakeoverHandoff
     DEF StoreNext, ClientNext

\* A commit keeps the rows of the claims that stay.
LEMMA CommitKeepsRows ==
  ASSUME NEW d, NEW owners, NEW rows, NEW ss, CommitUpdate(d, owners, rows, ss),
         NEW l \in rows, l.token \in ActiveTokens(inner')
  PROVE  l \in liveness'
BY DEF CommitUpdate

LEMMA StepEligibility ==
  ASSUME StoreInv, StoreNext
  PROVE  FinalEligibility
<1> SUFFICES ASSUME NEW l \in liveness, l.eligible # None, l.token \in ActiveTokens(inner')
             PROVE  l \in liveness'
  BY DEF FinalEligibility
<1>1. ASSUME NEW agent, NEW ps, NEW timing, NEW owner, StoreClaimPaths(agent, ps, timing, owner)
      PROVE  l \in liveness'
  BY <1>1, CommitKeepsRows DEF StoreClaimPaths
<1>2. ASSUME NEW owner, NEW parent, NEW worker, NEW ps, NEW digest,
             StoreClaimSubordinate(owner, parent, worker, ps, digest)
      PROVE  l \in liveness'
  BY <1>2, CommitKeepsRows DEF StoreClaimSubordinate
<1>3. ASSUME NEW token, StoreRelease(token)
      PROVE  l \in liveness'
  BY <1>3, CommitKeepsRows DEF StoreRelease
<1>4. ASSUME NEW agent, StoreReleaseByAgent(agent)
      PROVE  l \in liveness'
  BY <1>4, CommitKeepsRows DEF StoreReleaseByAgent
<1>5. ASSUME NEW token, NEW agent, NEW timing, Heartbeat(token, agent, timing)
      PROVE  l \in liveness'
  <2>1. l \notin Row(token)
    BY <1>5 DEF Heartbeat, HeartbeatAllowed
  <2>2. PICK rows : CommitUpdate(Loaded, run_owners, (liveness \ Row(token)) \cup rows,
                                 supersessions)
    BY <1>5, Zenon DEF Heartbeat
  <2>3. l \in (liveness \ Row(token)) \cup rows
    BY <2>1
  <2> QED
    BY <2>2, <2>3, CommitKeepsRows
<1>6. ASSUME SweepStale
      PROVE  l \in liveness'
  <2>1. l \notin SweptRows
    BY DEF SweptRows
  <2>2. l \in (liveness \ SweptRows) \cup {[m EXCEPT !.eligible = now] : m \in SweptRows}
    BY <2>1
  <2> QED
    BY <1>6, <2>2, CommitKeepsRows DEF SweepStale
<1>7. ASSUME NEW prior, NEW agent, NEW timing, Takeover(prior, agent, timing)
      PROVE  l \in liveness'
  BY <1>7, CommitKeepsRows DEF Takeover
<1>8. ASSUME NEW requests, LockExistingClaims(requests)
      PROVE  l \in liveness'
  BY <1>8 DEF LockExistingClaims, durable
<1>9. GuardHeartbeat => l \in liveness'
  BY DEF GuardHeartbeat, HeartbeatAllowed
<1>10. DropGuard \/ Tick \/ ClockStepsBack => l \in liveness'
  BY DEF DropGuard, Tick, ClockStepsBack, durable
<1> QED
  BY <1>1, <1>2, <1>3, <1>4, <1>5, <1>6, <1>7, <1>8, <1>9, <1>10 DEF StoreNext, ClientNext

-----------------------------------------------------------------------------
(* Theorems about the store, under any clock.                               *)

\* The inductive invariant of the durable claim store.
THEOREM StoreInvariance == StoreSpec => []StoreInv
BY StoreInitInv, StoreStepInv, PTL DEF StoreSpec

\* Through every commit and reload of claims.json the rows keep their types, takeovers are
\* recorded in the order of their times although the clock may step back, and a token names
\* one claim for ever.
THEOREM StoreStaysConsistent == StoreSpec => []StoreConsistent
<1>1. StoreInv => StoreConsistent
  BY DEF StoreInv, StoreConsistent
<1> QED
  BY <1>1, StoreInvariance, PTL

\* A claim that an ExistingClaimsGuard verified stays live and ineligible until the guard is
\* dropped.
THEOREM StoreGuardedClaimsStay == StoreSpec => []GuardedClaimsStay
<1>1. StoreInv => GuardedClaimsStay
  BY DEF StoreInv
<1> QED
  BY <1>1, StoreInvariance, PTL

\* Write exclusion and containment of Workers hold of the durable store, with takeovers and
\* reloads, as they do of the coordinator.
THEOREM StoreSubdivisionSafe == StoreSpec => []SubdivisionSafe
<1>1. StoreInv => SubdivisionSafe
  BY WritersExclusive DEF StoreInv, SubdivisionSafe, WriteExclusion, CoordInv,
                          SubordinatesAdmitted, Admitted, SubordinatesContained
<1> QED
  BY <1>1, StoreInvariance, PTL

\* The only committed states that open_authenticated_store refuses are those in which a
\* Worker also owns a top-level claim, or whose reservation history has too many paths.
THEOREM StoreOpensUnlessDoubleRole == StoreSpec => []OpensUnlessDoubleRole
  BY OpensAgain, StoreInvariance, PTL

\* In one update of the store the right to write a path changes hands only between a parent
\* and its Worker or by the takeover of a claim that a sweep had found stale, and a claim
\* once eligible for takeover is never made fresh again.
THEOREM StoreOwnershipMovesLegally == StoreSpec => OwnershipMovesLegally
<1>1. StoreInv /\ [StoreNext]_storeVars => [LegalHandoffs]_storeVars
  BY StepHandoffs
<1>2. StoreInv /\ [StoreNext]_storeVars => [FinalEligibility]_storeVars
  BY StepEligibility
<1>3. StoreSpec => [][LegalHandoffs]_storeVars
  BY <1>1, StoreInvariance, PTL DEF StoreSpec
<1>4. StoreSpec => [][FinalEligibility]_storeVars
  BY <1>2, StoreInvariance, PTL DEF StoreSpec
<1>5. HandoffsAreLegal <=> [][LegalHandoffs]_storeVars
  BY DEF HandoffsAreLegal, LegalHandoffs
<1>6. EligibilityIsFinal <=> [][FinalEligibility]_storeVars
  BY DEF EligibilityIsFinal, FinalEligibility
<1> QED
  BY <1>3, <1>4, <1>5, <1>6 DEF OwnershipMovesLegally

=============================================================================
