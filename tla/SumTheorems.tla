---------------------------- MODULE SumTheorems -----------------------------
(***************************************************************************)
(* Facts about the sum of a function over a finite set, SumFunctionOnSet   *)
(* of the community modules, which the accounts of the run budget and of   *)
(* the scheduler are made of.  The fold takes the elements away in an      *)
(* order fixed by CHOOSE; the facts say that the order does not matter.    *)
(*                                                                         *)
(* Induction is on the subsets of a finite set: a counterexample that no   *)
(* strict subset is one of would be minimal.                               *)
(***************************************************************************)
EXTENDS Integers, FiniteSets, Functions, FiniteSetTheorems, WellFoundedInduction, TLAPS

First(s) == CHOOSE x \in s : TRUE

\* g[s] is the sum over s, for every subset s of S.
SumsBy(g, f, S) ==
  \A s \in SUBSET S : g[s] = IF s = {} THEN 0 ELSE f[First(s)] + g[s \ {First(s)}]

IntegerOn(f, S) == \A x \in S : f[x] \in Int

\* A set of subsets of a finite set that is not empty has a minimal member.
LEMMA MinimalSubset ==
  ASSUME NEW S, IsFiniteSet(S), NEW B \in SUBSET SUBSET S, B # {}
  PROVE  \E T \in B : IsFiniteSet(T) /\ \A U \in SUBSET T : U # T => U \notin B
<1>1. FiniteSubsetsOf(S) = SUBSET S
  BY FS_FiniteSubsetsOfFinite
<1>2. IsWellFoundedOn(StrictSubsetOrdering(S), SUBSET S)
  BY <1>1, FS_StrictSubsetOrderingWellFounded
<1>3. PICK T \in B : \A U \in B : ~(<<U, T>> \in StrictSubsetOrdering(S))
  BY <1>2, WFMin
<1>4. ASSUME NEW U \in SUBSET T, U # T PROVE U \notin B
  BY <1>3, <1>4 DEF StrictSubsetOrdering
<1>5. IsFiniteSet(T)
  BY FS_Subset
<1> QED
  BY <1>3, <1>4, <1>5

\* What is chosen first from a set that is not empty is one of its members.
LEMMA FirstIn == ASSUME NEW s, s # {} PROVE First(s) \in s
BY DEF First

\* The sum over no element.
LEMMA SumsEmpty == ASSUME NEW S, NEW f, NEW g, SumsBy(g, f, S) PROVE g[{}] = 0
BY DEF SumsBy

\* Two such functions agree on the subsets they share.
LEMMA SumsUnique ==
  ASSUME NEW S, IsFiniteSet(S), NEW f, NEW g, NEW h, SumsBy(g, f, S), SumsBy(h, f, S)
  PROVE  \A s \in SUBSET S : g[s] = h[s]
<1> DEFINE B == {s \in SUBSET S : g[s] # h[s]}
<1> SUFFICES ASSUME B # {} PROVE FALSE
  OBVIOUS
<1>1. PICK T \in B : \A U \in SUBSET T : U # T => U \notin B
  <2> B \in SUBSET SUBSET S
    OBVIOUS
  <2> HIDE DEF B
  <2> QED
    BY MinimalSubset
<1>2. CASE T = {}
  BY <1>1, <1>2 DEF SumsBy
<1>3. CASE T # {}
  <2> DEFINE U == T \ {First(T)}
  <2>1. U \in SUBSET T /\ U # T /\ U \in SUBSET S
    BY <1>3, FirstIn
  <2>2. g[U] = h[U]
    BY <2>1, <1>1
  <2>3. g[T] = f[First(T)] + g[U] /\ h[T] = f[First(T)] + h[U]
    BY <1>3 DEF SumsBy
  <2> QED
    BY <2>2, <2>3
<1> QED
  BY <1>2, <1>3

\* There is such a function, with integer values.
LEMMA SumsExist ==
  ASSUME NEW S, IsFiniteSet(S), NEW f, IntegerOn(f, S)
  PROVE  \E g \in [SUBSET S -> Int] : SumsBy(g, f, S)
<1> DEFINE Has(T) == \E g \in [SUBSET T -> Int] : SumsBy(g, f, T)
           B == {T \in SUBSET S : ~Has(T)}
<1> SUFFICES ASSUME B # {} PROVE FALSE
  OBVIOUS
<1>1. PICK T \in B : IsFiniteSet(T) /\ \A U \in SUBSET T : U # T => U \notin B
  <2> B \in SUBSET SUBSET S
    OBVIOUS
  <2> HIDE DEF B
  <2> QED
    BY MinimalSubset
<1> DEFINE fn(s) == CHOOSE g \in [SUBSET s -> Int] : SumsBy(g, f, s)
           val(s) == fn(s)[s]
<1>2. ASSUME NEW U \in SUBSET T, U # T
      PROVE  fn(U) \in [SUBSET U -> Int] /\ SumsBy(fn(U), f, U) /\ val(U) \in Int
  <2>1. Has(U)
    BY <1>1, <1>2
  <2>2. fn(U) \in [SUBSET U -> Int] /\ SumsBy(fn(U), f, U)
    BY <2>1
  <2> QED
    BY <2>2
<1>3. ASSUME NEW s \in SUBSET T, s # T, s # {}
      PROVE  val(s) = f[First(s)] + val(s \ {First(s)})
  <2> DEFINE u == s \ {First(s)}
  <2>1. u \in SUBSET T /\ u # T /\ u \subseteq s /\ IsFiniteSet(u)
    BY <1>1, <1>3, FirstIn, FS_Subset
  <2>2. SumsBy(fn(s), f, u)
    <3> HIDE DEF fn
    <3> QED
      BY <1>2, <1>3, <2>1 DEF SumsBy
  <2>3. fn(s)[u] = fn(u)[u]
    <3>1. SumsBy(fn(u), f, u)
      BY <1>2, <2>1
    <3> HIDE DEF fn, u
    <3> QED
      BY <2>1, <2>2, <3>1, SumsUnique
  <2>4. fn(s)[s] = f[First(s)] + fn(s)[u]
    <3>1. SumsBy(fn(s), f, s)
      BY <1>2, <1>3
    <3> HIDE DEF fn
    <3> QED
      BY <3>1, <1>3 DEF SumsBy
  <2> QED
    BY <2>3, <2>4
<1>4. ASSUME {} # T PROVE val({}) = 0
  <2>1. SumsBy(fn({}), f, {})
    BY <1>2, <1>4
  <2> HIDE DEF fn
  <2> QED
    BY <2>1, SumsEmpty
<1> DEFINE rest == T \ {First(T)}
           g == [s \in SUBSET T |->
                   IF s = {} THEN 0 ELSE IF s = T THEN f[First(T)] + val(rest) ELSE val(s)]
<1>5. T # {} => rest \in SUBSET T /\ rest # T /\ f[First(T)] \in Int
  BY <1>1, FirstIn DEF IntegerOn
<1>6. g \in [SUBSET T -> Int]
  <2>1. \A s \in SUBSET T : s # T => val(s) \in Int
    BY <1>2
  <2> HIDE DEF val, rest
  <2> QED
    BY <2>1, <1>5
<1>7. SumsBy(g, f, T)
  <2> SUFFICES ASSUME NEW s \in SUBSET T
               PROVE  g[s] = IF s = {} THEN 0 ELSE f[First(s)] + g[s \ {First(s)}]
    BY DEF SumsBy
  <2>1. CASE s = {}
    BY <2>1
  <2>2. CASE s # {}
    <3> DEFINE u == s \ {First(s)}
    <3>1. u \in SUBSET T /\ u # T
      BY <2>2, FirstIn
    <3>2. g[u] = val(u)
      <4> HIDE DEF val
      <4>1. CASE u = {}
        BY <4>1, <3>1, <1>4
      <4>2. CASE u # {}
        BY <4>2, <3>1
      <4> QED
        BY <4>1, <4>2
    <3>3. g[s] = f[First(s)] + val(u)
      <4>1. CASE s = T
        <5> HIDE DEF val
        <5> QED
          BY <2>2, <4>1
      <4>2. CASE s # T
        <5>1. val(s) = f[First(s)] + val(u)
          BY <2>2, <4>2, <1>3
        <5> HIDE DEF val
        <5> QED
          BY <2>2, <4>2, <5>1
      <4> QED
        BY <4>1, <4>2
    <3> HIDE DEF g, val
    <3> QED
      BY <2>2, <3>2, <3>3
  <2> QED
    BY <2>1, <2>2
<1> HIDE DEF g
<1>8. Has(T)
  BY <1>6, <1>7
<1> QED
  BY <1>8

\* The fold is the value of such a function.
LEMMA SumIs ==
  ASSUME NEW S, IsFiniteSet(S), NEW f, NEW g \in [SUBSET S -> Int], SumsBy(g, f, S)
  PROVE  SumFunctionOnSet(f, S) = g[S]
<1> DEFINE F(iter) == [s \in SUBSET S |->
                         IF s = {} THEN 0
                         ELSE LET x == CHOOSE x \in s : TRUE IN f[x] + iter[s \ {x}]]
           sum == CHOOSE iter : iter = F(iter)
<1>1. SumFunctionOnSet(f, S) = sum[S]
  BY Zenon DEF SumFunctionOnSet, FoldFunctionOnSet, MapThenFoldSet
<1>2. g = F(g)
  BY DEF SumsBy, First
<1>3. sum = F(sum)
  BY <1>2
<1> HIDE DEF sum
<1>4. SumsBy(sum, f, S)
  BY <1>3 DEF SumsBy, First
<1> QED
  BY <1>1, <1>4, SumsUnique

-----------------------------------------------------------------------------
(* The facts that other modules use.                                        *)

\* The sum over no element.
LEMMA SumEmpty == ASSUME NEW f PROVE SumFunctionOnSet(f, {}) = 0
<1>1. PICK g \in [SUBSET {} -> Int] : SumsBy(g, f, {})
  BY SumsExist, FS_EmptySet DEF IntegerOn
<1>2. g[{}] = 0
  BY <1>1 DEF SumsBy
<1> QED
  BY <1>1, <1>2, SumIs, FS_EmptySet

\* The sum is an integer, and the fold takes its first element away.
LEMMA SumFirst ==
  ASSUME NEW S, IsFiniteSet(S), NEW f, IntegerOn(f, S)
  PROVE  /\ SumFunctionOnSet(f, S) \in Int
         /\ S # {} => SumFunctionOnSet(f, S)
                        = f[First(S)] + SumFunctionOnSet(f, S \ {First(S)})
<1>1. PICK g \in [SUBSET S -> Int] : SumsBy(g, f, S)
  BY SumsExist
<1>2. SumFunctionOnSet(f, S) = g[S]
  BY <1>1, SumIs
<1>3. ASSUME S # {}
      PROVE  SumFunctionOnSet(f, S \ {First(S)}) = g[S \ {First(S)}]
  <2> DEFINE U == S \ {First(S)}
  <2>1. IsFiniteSet(U) /\ U \subseteq S /\ IntegerOn(f, U)
    BY FS_Subset DEF IntegerOn
  <2>2. PICK h \in [SUBSET U -> Int] : SumsBy(h, f, U)
    BY <2>1, SumsExist
  <2>3. SumsBy(g, f, U)
    BY <1>1, <2>1 DEF SumsBy
  <2> HIDE DEF U
  <2>4. SumFunctionOnSet(f, U) = h[U]
    BY <2>1, <2>2, SumIs
  <2>5. h[U] = g[U]
    BY <2>1, <2>2, <2>3, SumsUnique
  <2> QED
    BY <2>4, <2>5 DEF U
<1>4. S # {} => g[S] = f[First(S)] + g[S \ {First(S)}]
  BY <1>1 DEF SumsBy
<1> QED
  BY <1>2, <1>3, <1>4

\* Any element may be taken away.
LEMMA SumRemove ==
  ASSUME NEW S, IsFiniteSet(S), NEW f, IntegerOn(f, S), NEW x \in S
  PROVE  SumFunctionOnSet(f, S) = f[x] + SumFunctionOnSet(f, S \ {x})
<1> DEFINE Sum(T) == SumFunctionOnSet(f, T)
           B == {T \in SUBSET S : \E y \in T : Sum(T) # f[y] + Sum(T \ {y})}
<1> SUFFICES ASSUME B # {} PROVE FALSE
  OBVIOUS
<1>1. PICK T \in B : IsFiniteSet(T) /\ \A U \in SUBSET T : U # T => U \notin B
  <2> B \in SUBSET SUBSET S
    OBVIOUS
  <2> HIDE DEF B
  <2> QED
    BY MinimalSubset
<1>2. PICK y \in T : Sum(T) # f[y] + Sum(T \ {y})
  OBVIOUS
<1> DEFINE c == First(T)
           U == T \ {c}
           W == T \ {y}
           R == T \ {c, y}
<1>3. c \in T
  BY FirstIn
<1>4. ASSUME NEW V \in SUBSET T PROVE IsFiniteSet(V) /\ IntegerOn(f, V) /\ Sum(V) \in Int
  BY <1>1, FS_Subset, SumFirst DEF IntegerOn
<1>5. Sum(T) = f[c] + Sum(U)
  BY <1>4, SumFirst
<1>6. c # y
  BY <1>2, <1>5
<1>7. Sum(U) = f[y] + Sum(R)
  <2>1. U \in SUBSET T /\ U # T /\ y \in U /\ U \ {y} = R
    BY <1>3, <1>6
  <2> HIDE DEF c, U, R, Sum
  <2> QED
    BY <2>1, <1>1
<1>8. Sum(W) = f[c] + Sum(R)
  <2>1. W \in SUBSET T /\ W # T /\ c \in W /\ W \ {c} = R
    BY <1>3, <1>6
  <2> HIDE DEF c, W, R, Sum
  <2> QED
    BY <2>1, <1>1
<1>9. Sum(R) \in Int /\ f[c] \in Int /\ f[y] \in Int
  BY <1>3, <1>4 DEF IntegerOn
<1> HIDE DEF c, U, W, R, Sum
<1>10. Sum(T) = f[y] + Sum(W)
  BY <1>5, <1>7, <1>8, <1>9
<1> QED
  BY <1>2, <1>10 DEF W

\* An element may be added.
LEMMA SumAdd ==
  ASSUME NEW S, IsFiniteSet(S), NEW f, IntegerOn(f, S), NEW x, x \notin S, f[x] \in Int
  PROVE  SumFunctionOnSet(f, S \cup {x}) = SumFunctionOnSet(f, S) + f[x]
<1> DEFINE T == S \cup {x}
<1>1. IsFiniteSet(T) /\ IntegerOn(f, T) /\ x \in T /\ T \ {x} = S
  BY FS_AddElement DEF IntegerOn
<1>2. SumFunctionOnSet(f, S) \in Int
  BY SumFirst
<1> HIDE DEF T
<1>3. SumFunctionOnSet(f, T) = f[x] + SumFunctionOnSet(f, S)
  BY <1>1, SumRemove
<1> QED
  BY <1>2, <1>3 DEF T

\* Larger terms have a larger sum.
LEMMA SumMonotone ==
  ASSUME NEW S, IsFiniteSet(S), NEW f, NEW g, IntegerOn(f, S), IntegerOn(g, S),
         \A x \in S : f[x] <= g[x]
  PROVE  SumFunctionOnSet(f, S) <= SumFunctionOnSet(g, S)
<1> DEFINE Sf(T) == SumFunctionOnSet(f, T)
           Sg(T) == SumFunctionOnSet(g, T)
           B == {T \in SUBSET S : ~(Sf(T) <= Sg(T))}
<1> SUFFICES ASSUME B # {} PROVE FALSE
  OBVIOUS
<1>1. PICK T \in B : IsFiniteSet(T) /\ \A U \in SUBSET T : U # T => U \notin B
  <2> B \in SUBSET SUBSET S
    OBVIOUS
  <2> HIDE DEF B
  <2> QED
    BY MinimalSubset
<1>2. CASE T = {}
  <2>1. Sf(T) = 0 /\ Sg(T) = 0
    BY <1>2, SumEmpty
  <2> HIDE DEF Sf, Sg
  <2> QED
    BY <2>1
<1>3. CASE T # {}
  <2> DEFINE c == First(T)
             U == T \ {c}
  <2>1. c \in T /\ U \in SUBSET T /\ U # T /\ IsFiniteSet(U)
    BY <1>1, <1>3, FirstIn, FS_Subset
  <2>2. IntegerOn(f, T) /\ IntegerOn(g, T) /\ IntegerOn(f, U) /\ IntegerOn(g, U)
    BY <2>1 DEF IntegerOn
  <2>3. Sf(U) <= Sg(U)
    <3> HIDE DEF c, U, Sf, Sg
    <3> QED
      BY <1>1, <2>1
  <2>4. Sf(T) = f[c] + Sf(U) /\ Sg(T) = g[c] + Sg(U)
    BY <1>1, <1>3, <2>2, SumFirst
  <2>5. Sf(U) \in Int /\ Sg(U) \in Int
    BY <2>1, <2>2, SumFirst
  <2>6. f[c] \in Int /\ g[c] \in Int /\ f[c] <= g[c]
    BY <2>1, <2>2 DEF IntegerOn
  <2> HIDE DEF Sf, Sg, c, U
  <2> QED
    BY <2>3, <2>4, <2>5, <2>6
<1> QED
  BY <1>2, <1>3

\* Only the terms matter.
LEMMA SumAgree ==
  ASSUME NEW S, IsFiniteSet(S), NEW f, NEW g, IntegerOn(f, S), \A x \in S : f[x] = g[x]
  PROVE  SumFunctionOnSet(f, S) = SumFunctionOnSet(g, S)
<1>1. IntegerOn(g, S)
  BY DEF IntegerOn
<1>2. SumFunctionOnSet(f, S) <= SumFunctionOnSet(g, S)
  BY <1>1, SumMonotone DEF IntegerOn
<1>3. SumFunctionOnSet(g, S) <= SumFunctionOnSet(f, S)
  BY <1>1, SumMonotone DEF IntegerOn
<1>4. SumFunctionOnSet(f, S) \in Int /\ SumFunctionOnSet(g, S) \in Int
  BY <1>1, SumFirst
<1> QED
  BY <1>2, <1>3, <1>4

\* Natural terms have a natural sum, at least as large as each of them.
LEMMA SumNatural ==
  ASSUME NEW S, IsFiniteSet(S), NEW f, \A x \in S : f[x] \in Nat
  PROVE  /\ SumFunctionOnSet(f, S) \in Nat
         /\ \A x \in S : f[x] <= SumFunctionOnSet(f, S)
<1> DEFINE zero == [x \in S |-> 0]
           B == {T \in SUBSET S : SumFunctionOnSet(zero, T) # 0}
<1>1. ASSUME NEW T \in SUBSET S
      PROVE  IsFiniteSet(T) /\ IntegerOn(f, T) /\ IntegerOn(zero, T)
  BY FS_Subset DEF IntegerOn
<1>2. ASSUME NEW T \in SUBSET S PROVE SumFunctionOnSet(zero, T) = 0
  <2> SUFFICES ASSUME B # {} PROVE FALSE
    OBVIOUS
  <2>1. PICK V \in B : IsFiniteSet(V) /\ \A U \in SUBSET V : U # V => U \notin B
    <3> B \in SUBSET SUBSET S
      OBVIOUS
    <3> HIDE DEF B
    <3> QED
      BY MinimalSubset
  <2>2. V # {}
    BY <2>1, SumEmpty
  <2> DEFINE U == V \ {First(V)}
  <2>3. First(V) \in S /\ U \in SUBSET V /\ U # V
    BY <2>1, <2>2, FirstIn
  <2>4. SumFunctionOnSet(zero, U) = 0
    <3> HIDE DEF zero, U
    <3> QED
      BY <2>1, <2>3
  <2>5. SumFunctionOnSet(zero, V) = zero[First(V)] + SumFunctionOnSet(zero, U)
    <3> HIDE DEF zero
    <3> QED
      BY <1>1, <2>1, <2>2, SumFirst
  <2>6. zero[First(V)] = 0
    BY <2>3
  <2> HIDE DEF zero, U
  <2> QED
    BY <2>1, <2>4, <2>5, <2>6
<1>3. ASSUME NEW T \in SUBSET S PROVE SumFunctionOnSet(f, T) \in Nat
  <2>1. SumFunctionOnSet(zero, T) <= SumFunctionOnSet(f, T)
    <3>1. \A x \in T : zero[x] <= f[x]
      OBVIOUS
    <3> HIDE DEF zero
    <3> QED
      BY <1>1, <3>1, SumMonotone
  <2>2. SumFunctionOnSet(f, T) \in Int
    BY <1>1, SumFirst
  <2> HIDE DEF zero
  <2> QED
    BY <1>2, <2>1, <2>2
<1>4. ASSUME NEW x \in S PROVE f[x] <= SumFunctionOnSet(f, S)
  <2>1. SumFunctionOnSet(f, S) = f[x] + SumFunctionOnSet(f, S \ {x})
    BY <1>1, SumRemove
  <2>2. SumFunctionOnSet(f, S \ {x}) \in Nat /\ f[x] \in Nat
    BY <1>3
  <2> QED
    BY <2>1, <2>2
<1> QED
  BY <1>3, <1>4

\* One term changes.
LEMMA SumChange ==
  ASSUME NEW S, IsFiniteSet(S), NEW f, NEW g, IntegerOn(f, S), NEW x \in S, g[x] \in Int,
         \A y \in S \ {x} : g[y] = f[y]
  PROVE  SumFunctionOnSet(g, S) = SumFunctionOnSet(f, S) - f[x] + g[x]
<1> DEFINE R == S \ {x}
<1>1. IsFiniteSet(R) /\ IntegerOn(f, R) /\ IntegerOn(g, R) /\ IntegerOn(g, S)
  BY FS_Subset DEF IntegerOn
<1>2. SumFunctionOnSet(f, S) = f[x] + SumFunctionOnSet(f, R)
  BY SumRemove
<1>3. SumFunctionOnSet(g, S) = g[x] + SumFunctionOnSet(g, R)
  BY <1>1, SumRemove
<1>4. SumFunctionOnSet(f, R) = SumFunctionOnSet(g, R)
  BY <1>1, SumAgree
<1>5. SumFunctionOnSet(f, R) \in Int /\ f[x] \in Int
  BY <1>1, SumFirst DEF IntegerOn
<1> QED
  BY <1>2, <1>3, <1>4, <1>5

\* A sum over fewer natural numbers is no larger.
LEMMA SumSubset ==
  ASSUME NEW S, IsFiniteSet(S), NEW f, \A x \in S : f[x] \in Nat, NEW T \in SUBSET S
  PROVE  SumFunctionOnSet(f, T) <= SumFunctionOnSet(f, S)
<1> DEFINE Sum(R) == SumFunctionOnSet(f, R)
           B == {R \in SUBSET S : T \subseteq R /\ ~(Sum(T) <= Sum(R))}
<1>0. ASSUME NEW R \in SUBSET S PROVE IsFiniteSet(R) /\ Sum(R) \in Nat /\ IntegerOn(f, R)
  BY FS_Subset, SumNatural DEF IntegerOn
<1> SUFFICES ASSUME B # {} PROVE FALSE
  OBVIOUS
<1>1. PICK R \in B : IsFiniteSet(R) /\ \A U \in SUBSET R : U # R => U \notin B
  <2> B \in SUBSET SUBSET S
    OBVIOUS
  <2> HIDE DEF B
  <2> QED
    BY MinimalSubset
<1>2. R \in SUBSET S /\ T \subseteq R /\ ~(Sum(T) <= Sum(R))
  OBVIOUS
<1>3. R # T
  BY <1>0, <1>2
<1>4. PICK x \in R : x \notin T
  BY <1>2, <1>3
<1> DEFINE U == R \ {x}
<1>5. U \in SUBSET S /\ U \in SUBSET R /\ U # R /\ T \subseteq U
  BY <1>2, <1>4
<1>6. Sum(T) <= Sum(U)
  BY <1>1, <1>5
<1>7. Sum(R) = f[x] + Sum(U)
  BY <1>0, <1>2, <1>4, SumRemove
<1>8. f[x] \in Nat /\ Sum(U) \in Nat /\ Sum(T) \in Nat
  BY <1>0, <1>2, <1>5
<1> HIDE DEF U, Sum
<1> QED
  BY <1>2, <1>6, <1>7, <1>8
=============================================================================
