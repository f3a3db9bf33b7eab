---------------------------- MODULE SumTheorems ----------------------------
(***************************************************************************)
(* Facts about finite sets, definitions by recursion and sums that the     *)
(* proofs of the components share.  The induction theorems of the library  *)
(* take a predicate as a parameter; here an induction is an argument about *)
(* a minimal counterexample, which a well-founded order provides.          *)
(***************************************************************************)
EXTENDS Integers, Functions, FiniteSetTheorems, WellFoundedInduction, TLAPS

-----------------------------------------------------------------------------
(* Finite sets. *)

LEMMA FiniteInterval ==
    ASSUME NEW n \in Nat
    PROVE  IsFiniteSet(1 .. n)
  BY FS_Interval

\* Without one of its elements a set is smaller.
LEMMA SmallerSubset ==
    ASSUME NEW S, NEW s \in SUBSET S, NEW x \in s
    PROVE  <<s \ {x}, s>> \in StrictSubsetOrdering(S)
  BY DEF StrictSubsetOrdering

\* The subsets of a finite set are well-founded by inclusion.
LEMMA SubsetsWellFounded ==
    ASSUME NEW S, IsFiniteSet(S)
    PROVE  IsWellFoundedOn(StrictSubsetOrdering(S), SUBSET S)
  BY FS_StrictSubsetOrderingWellFounded, FS_FiniteSubsetsOfFinite

\* A family of subsets of a finite set has a member none of whose elements can be
\* taken out.
LEMMA MinimalSubset ==
    ASSUME NEW S, IsFiniteSet(S), NEW Family, Family \subseteq SUBSET S, Family # {}
    PROVE  \E s \in Family : \A x \in s : s \ {x} \notin Family
<1>1. IsWellFoundedOn(StrictSubsetOrdering(S), SUBSET S)
  BY SubsetsWellFounded
<1>2. PICK s \in Family : \A t \in Family : <<t, s>> \notin StrictSubsetOrdering(S)
  BY <1>1, WFMin
<1> QED BY <1>2, SmallerSubset

\* Of the sets of what lies above an element, a minimal one is empty.
LEMMA FiniteHasMax ==
    ASSUME NEW S, IsFiniteSet(S), S \subseteq Int, S # {}
    PROVE  \E x \in S : \A y \in S : x >= y
<1> DEFINE Above(x) == {y \in S : y > x}
           Uppers == {Above(x) : x \in S}
<1>1. IsWellFoundedOn(StrictSubsetOrdering(S), SUBSET S)
  BY SubsetsWellFounded
<1>2. Uppers \subseteq SUBSET S /\ Uppers # {}
  OBVIOUS
<1>3. PICK U \in Uppers : \A V \in Uppers : <<V, U>> \notin StrictSubsetOrdering(S)
  BY <1>1, <1>2, WFMin
<1>4. PICK x \in S : U = Above(x)
  OBVIOUS
<1>5. ASSUME NEW y \in S, y > x PROVE FALSE
  <2>1. \A z \in S : z > y => z > x
    BY <1>5
  <2>2. Above(y) \subseteq Above(x)
    BY <2>1
  <2>3. y \in Above(x) /\ y \notin Above(y)
    BY <1>5
  <2>4. <<Above(y), Above(x)>> \in StrictSubsetOrdering(S)
    BY <2>2, <2>3 DEF StrictSubsetOrdering
  <2> QED
    BY <1>3, <1>4, <2>4
<1> QED BY <1>5

\* What a function takes a finite set to is finite.
LEMMA FiniteImage ==
    ASSUME NEW S, IsFiniteSet(S), NEW f
    PROVE  IsFiniteSet({f[x] : x \in S})
<1> DEFINE T == {f[x] : x \in S}
           g == [x \in S |-> f[x]]
<1>1. g \in Surjection(S, T)
  BY DEF Surjection
<1> HIDE DEF T, g
<1>2. IsFiniteSet(T)
  BY <1>1, FS_Surjection
<1> QED
  BY <1>2 DEF T

\* The least element is the greatest one of the negated set.
LEMMA FiniteHasMin ==
    ASSUME NEW S, IsFiniteSet(S), S \subseteq Int, S # {}
    PROVE  \E x \in S : \A y \in S : x <= y
<1> DEFINE f == [x \in S |-> -x]
           Negated == {f[x] : x \in S}
<1>1. IsFiniteSet(Negated)
  BY FiniteImage
<1>2. Negated \subseteq Int /\ Negated # {}
  <2>1. \A x \in S : f[x] \in Int
    OBVIOUS
  <2> HIDE DEF f
  <2> QED BY <2>1
<1>3. PICK m \in Negated : \A y \in Negated : m >= y
  BY <1>1, <1>2, FiniteHasMax
<1>4. PICK x \in S : m = -x
  OBVIOUS
<1>5. ASSUME NEW y \in S PROVE x <= y
  <2>1. f[y] \in Negated /\ f[y] = -y
    OBVIOUS
  <2>2. -x >= -y
    BY <1>3, <1>4, <2>1
  <2> QED
    BY <2>2
<1> QED BY <1>5

\* And so has any set of natural numbers.
LEMMA MinimalNat ==
    ASSUME NEW N, N \subseteq Nat, N # {}
    PROVE  \E n \in N : \A m \in N : n <= m
<1>1. PICK top \in N : TRUE
  OBVIOUS
<1> DEFINE S == {k \in N : k <= top}
<1>2. IsFiniteSet(0 .. top)
  BY <1>1, FS_Interval
<1>3. S \in SUBSET (0 .. top) /\ S \subseteq Int /\ S # {}
  <2>1. \A k \in N : k \in Nat
    OBVIOUS
  <2>2. \A k \in S : k \in 0 .. top /\ k \in Int
    BY <2>1
  <2>3. top \in S
    BY <2>1
  <2> HIDE DEF S
  <2> QED BY <2>2, <2>3
<1>4. IsFiniteSet(S)
  BY <1>2, <1>3, FS_Subset
<1> HIDE DEF S
<1>5. PICK n \in S : \A m \in S : n <= m
  BY <1>3, <1>4, FiniteHasMin
<1> USE DEF S
<1>6. ASSUME NEW m \in N PROVE n <= m
  BY <1>1, <1>5
<1> QED BY <1>5, <1>6

-----------------------------------------------------------------------------
(* Definitions by recursion. *)

\* A descent from every element of S to its bottom, and a step from the value of
\* one element to the value of the next.
IsRecursion(S, R, bottom, V, base, pred, step) ==
    /\ IsWellFoundedOn(R, S)
    /\ bottom \in S /\ base \in V
    /\ pred \in [S -> S]
    /\ step \in [S \X V -> V]
    /\ \A s \in S : s # bottom => <<pred[s], s>> \in R

Follows(g, S, bottom, base, pred, step) ==
    \A s \in S : g[s] = IF s = bottom THEN base ELSE step[<<s, g[pred[s]]>>]

\* The function exists: of the sets of pairs that contain the base and are closed
\* under the steps, the least one has one pair for each element.
LEMMA Recursion ==
    ASSUME NEW S, NEW R, NEW bottom, NEW V, NEW base, NEW pred, NEW step,
           IsRecursion(S, R, bottom, V, base, pred, step)
    PROVE  \E g \in [S -> V] : Follows(g, S, bottom, base, pred, step)
<1>0. /\ IsWellFoundedOn(R, S)
      /\ bottom \in S /\ base \in V
      /\ pred \in [S -> S]
      /\ step \in [S \X V -> V]
      /\ \A s \in S : s # bottom => <<pred[s], s>> \in R
  BY DEF IsRecursion
<1> USE <1>0
<1> DEFINE Closed(W) ==
              /\ <<bottom, base>> \in W
              /\ \A s \in S, v \in V :
                    s # bottom /\ <<pred[s], v>> \in W => <<s, step[<<s, v>>]>> \in W
           G == {p \in S \X V : \A W \in SUBSET (S \X V) : Closed(W) => p \in W}
<1>1. Closed(G)
  <2>1. <<bottom, base>> \in G
    OBVIOUS
  <2>2. ASSUME NEW s \in S, NEW v \in V, s # bottom, <<pred[s], v>> \in G
        PROVE  <<s, step[<<s, v>>]>> \in G
    <3>1. step[<<s, v>>] \in V
      OBVIOUS
    <3>2. ASSUME NEW W \in SUBSET (S \X V), Closed(W) PROVE <<s, step[<<s, v>>]>> \in W
      <4>1. <<pred[s], v>> \in W
        BY <2>2, <3>2
      <4> QED BY <2>2, <3>2, <4>1
    <3> QED BY <3>1, <3>2
  <2> HIDE DEF G
  <2> QED BY <2>1, <2>2
<1>2. ASSUME NEW W \in SUBSET (S \X V), Closed(W) PROVE G \subseteq W
  BY <1>2
<1>3. G \subseteq S \X V
  OBVIOUS
<1> HIDE DEF G
<1> DEFINE One(s) == \E v \in V : \A u \in V : <<s, u>> \in G <=> u = v
           Bad == {s \in S : ~One(s)}
\* Taking out a pair that nothing needs leaves a closed set.
<1>4. ASSUME NEW s \in S, \A t \in S : <<t, s>> \in R => One(t) PROVE One(s)
  <2>1. CASE s = bottom
    <3>1. ASSUME NEW u \in V, <<s, u>> \in G, u # base PROVE FALSE
      <4>1. Closed(G \ {<<s, u>>})
        BY <1>1, <2>1, <3>1
      <4>2. G \ {<<s, u>>} \in SUBSET (S \X V)
        BY <1>3
      <4>3. G \subseteq G \ {<<s, u>>}
        BY <1>2, <4>1, <4>2
      <4> QED BY <3>1, <4>3
    <3> QED BY <1>1, <2>1, <3>1
  <2>2. CASE s # bottom
    <3>1. pred[s] \in S /\ One(pred[s])
      BY <1>4, <2>2
    <3>2. PICK v \in V : \A u \in V : <<pred[s], u>> \in G <=> u = v
      BY <3>1
    <3>3. <<s, step[<<s, v>>]>> \in G /\ step[<<s, v>>] \in V
      BY <1>1, <2>2, <3>2
    <3>4. ASSUME NEW u \in V, <<s, u>> \in G, u # step[<<s, v>>] PROVE FALSE
      <4> DEFINE W == G \ {<<s, u>>}
      <4>1. <<bottom, base>> \in W
        BY <1>1, <2>2
      <4>2. ASSUME NEW t \in S, NEW w \in V, t # bottom, <<pred[t], w>> \in W
            PROVE  <<t, step[<<t, w>>]>> \in W
        <5>1. <<pred[t], w>> \in G
          BY <4>2
        <5>2. <<t, step[<<t, w>>]>> \in G
          BY <1>1, <4>2, <5>1
        <5>3. t = s => step[<<t, w>>] # u
          BY <3>2, <3>4, <5>1
        <5> QED BY <5>2, <5>3
      <4>3. Closed(W)
        BY <4>1, <4>2
      <4>4. W \in SUBSET (S \X V)
        BY <1>3
      <4>5. G \subseteq W
        BY <1>2, <4>3, <4>4
      <4> QED BY <3>4, <4>5
    <3> QED BY <3>3, <3>4
  <2> QED BY <2>1, <2>2
<1>5. Bad = {}
  <2> SUFFICES ASSUME Bad # {} PROVE FALSE
    OBVIOUS
  <2>1. Bad \subseteq S
    OBVIOUS
  <2> HIDE DEF Bad
  <2>2. PICK s \in Bad : \A t \in Bad : <<t, s>> \notin R
    BY <2>1, WFMin
  <2> QED BY <1>4, <2>2 DEF Bad
<1> DEFINE g == [s \in S |-> CHOOSE v \in V : <<s, v>> \in G]
<1>6. \A s \in S : g[s] \in V /\ \A u \in V : <<s, u>> \in G <=> u = g[s]
  <2> SUFFICES ASSUME NEW s \in S PROVE g[s] \in V /\ \A u \in V : <<s, u>> \in G <=> u = g[s]
    OBVIOUS
  <2>1. PICK v \in V : \A u \in V : <<s, u>> \in G <=> u = v
    BY <1>5
  <2>2. g[s] = v
    BY <2>1
  <2> QED BY <2>1, <2>2
<1>7. g \in [S -> V]
  BY <1>6
<1> HIDE DEF g
<1>8. ASSUME NEW s \in S
      PROVE  g[s] = IF s = bottom THEN base ELSE step[<<s, g[pred[s]]>>]
  <2>1. CASE s = bottom
    BY <1>1, <1>6, <2>1
  <2>2. CASE s # bottom
    <3>1. pred[s] \in S
      OBVIOUS
    <3>2. g[pred[s]] \in V /\ <<pred[s], g[pred[s]]>> \in G
      BY <1>6, <3>1
    <3>3. <<s, step[<<s, g[pred[s]]>>]>> \in G
      BY <1>1, <2>2, <3>2
    <3>4. step[<<s, g[pred[s]]>>] \in V
      BY <3>2
    <3> QED BY <1>6, <2>2, <3>3, <3>4
  <2> QED BY <2>1, <2>2
<1> QED BY <1>7, <1>8 DEF Follows

Below == {p \in Nat \X Nat : p[1] < p[2]}

\* No sequence of natural numbers descends for ever.
LEMMA BelowWellFounded == IsWellFoundedOn(Below, Nat)
<1> SUFFICES ASSUME NEW f \in [Nat -> Nat], \A n \in Nat : <<f[n + 1], f[n]>> \in Below
             PROVE  FALSE
  BY DEF IsWellFoundedOn
<1> DEFINE N == {f[n] : n \in Nat}
<1>1. N \subseteq Nat /\ N # {}
  OBVIOUS
<1>2. PICK m \in N : \A k \in N : m <= k
  BY <1>1, MinimalNat
<1>3. PICK n \in Nat : m = f[n]
  BY <1>2
<1>4. n + 1 \in Nat /\ f[n + 1] \in N
  OBVIOUS
<1>5. m <= f[n + 1] /\ f[n + 1] < m
  BY <1>2, <1>3, <1>4 DEF Below
<1>6. m \in Nat /\ f[n + 1] \in Nat
  BY <1>3, <1>4
<1> QED BY <1>5, <1>6

\* A function on the natural numbers may be defined from smaller arguments.
LEMMA NatRecursion ==
    ASSUME NEW V, NEW base \in V,
           NEW pred \in [Nat -> Nat], \A n \in Nat : n # 0 => pred[n] < n,
           NEW step \in [Nat \X V -> V]
    PROVE  \E g \in [Nat -> V] : Follows(g, Nat, 0, base, pred, step)
<1>1. \A n \in Nat : n # 0 => <<pred[n], n>> \in Below
  BY DEF Below
<1>2. IsRecursion(Nat, Below, 0, V, base, pred, step)
  BY <1>1, BelowWellFounded DEF IsRecursion
<1> QED BY <1>2, Recursion

-----------------------------------------------------------------------------
(* Sums. *)

Pick(s) == CHOOSE x \in s : TRUE

\* What SumFunctionOnSet(f, S) is defined by.
Unfolds(g, f, S) ==
    g = [s \in SUBSET S |-> IF s = {} THEN 0 ELSE f[Pick(s)] + g[s \ {Pick(s)}]]

\* The recursion over the subsets of a finite set has a solution.
LEMMA UnfoldingExists ==
    ASSUME NEW S, IsFiniteSet(S), NEW f, \A x \in S : f[x] \in Int
    PROVE  \E g \in [SUBSET S -> Int] : Unfolds(g, f, S)
<1> DEFINE D == SUBSET S
           R == StrictSubsetOrdering(S)
           bottom == {}
           base == 0
           pred == [s \in D |-> IF s = bottom THEN bottom ELSE s \ {Pick(s)}]
           step == [p \in D \X Int |-> IF p[1] = bottom THEN base ELSE f[Pick(p[1])] + p[2]]
<1>1. \A s \in D : s # {} => Pick(s) \in s
  BY DEF Pick
<1>2. pred \in [D -> D]
  OBVIOUS
<1>3. step \in [D \X Int -> Int]
  BY <1>1
<1>4. \A s \in D : s # bottom => <<pred[s], s>> \in R
  BY <1>1, SmallerSubset
<1>5. IsWellFoundedOn(R, D)
  BY SubsetsWellFounded
<1>6. bottom \in D /\ base \in Int
  OBVIOUS
<1>7. PICK g \in [D -> Int] : Follows(g, D, bottom, base, pred, step)
  <2>1. IsRecursion(D, R, bottom, Int, base, pred, step)
    BY <1>2, <1>3, <1>4, <1>5, <1>6 DEF IsRecursion
  <2> QED BY <2>1, Recursion
<1> HIDE DEF pred, step
<1>8. \A s \in D : g[s] = IF s = {} THEN 0 ELSE step[<<s, g[pred[s]]>>]
  BY <1>7 DEF Follows
<1>9. ASSUME NEW s \in D, s # {} PROVE g[s] = f[Pick(s)] + g[s \ {Pick(s)}]
  <2>1. pred[s] = s \ {Pick(s)} /\ g[pred[s]] \in Int
    BY <1>2, <1>9 DEF pred
  <2>2. step[<<s, g[pred[s]]>>] = f[Pick(s)] + g[pred[s]]
    BY <1>9, <2>1 DEF step
  <2> QED BY <1>8, <1>9, <2>1, <2>2
<1> QED BY <1>8, <1>9 DEF Unfolds

\* Two solutions agree where their sets and summands do.
LEMMA UnfoldingsAgree ==
    ASSUME NEW S, NEW f, NEW g, Unfolds(g, f, S),
           NEW T, NEW e, NEW h, Unfolds(h, e, T),
           NEW U \in (SUBSET S) \cap (SUBSET T), IsFiniteSet(U),
           \A x \in U : f[x] = e[x]
    PROVE  g[U] = h[U]
<1> DEFINE Bad == {s \in SUBSET U : g[s] # h[s]}
<1>1. Bad = {}
  <2> SUFFICES ASSUME Bad # {} PROVE FALSE
    OBVIOUS
  <2>1. Bad \subseteq SUBSET U
    OBVIOUS
  <2> HIDE DEF Bad
  <2>2. PICK s \in Bad : \A x \in s : s \ {x} \notin Bad
    BY <2>1, MinimalSubset
  <2>3. s \in SUBSET U /\ s \in SUBSET S /\ s \in SUBSET T /\ g[s] # h[s]
    BY <2>1 DEF Bad
  <2>4. CASE s = {}
    BY <2>3, <2>4 DEF Unfolds
  <2>5. CASE s # {}
    <3>1. Pick(s) \in s
      BY <2>5 DEF Pick
    <3>2. s \ {Pick(s)} \notin Bad
      BY <2>2, <3>1
    <3>3. g[s \ {Pick(s)}] = h[s \ {Pick(s)}]
      BY <2>3, <3>2 DEF Bad
    <3>4. /\ g[s] = f[Pick(s)] + g[s \ {Pick(s)}]
          /\ h[s] = e[Pick(s)] + h[s \ {Pick(s)}]
      BY <2>3, <2>5 DEF Unfolds
    <3> QED BY <2>3, <3>1, <3>3, <3>4
  <2> QED BY <2>4, <2>5
<1> QED BY <1>1

\* The sum is given by a solution.
LEMMA SumUnfolds ==
    ASSUME NEW S, IsFiniteSet(S), NEW f, \A x \in S : f[x] \in Int
    PROVE  \E g \in [SUBSET S -> Int] : Unfolds(g, f, S) /\ SumFunctionOnSet(f, S) = g[S]
<1> DEFINE g == CHOOSE g : Unfolds(g, f, S)
<1>1. Unfolds(g, f, S)
  BY UnfoldingExists
<1>2. SumFunctionOnSet(f, S) = g[S]
  BY DEF SumFunctionOnSet, FoldFunctionOnSet, MapThenFoldSet, Unfolds, Pick
<1>3. PICK h \in [SUBSET S -> Int] : Unfolds(h, f, S)
  BY UnfoldingExists
<1> HIDE DEF g
<1>4. ASSUME NEW s \in SUBSET S PROVE g[s] = h[s]
  BY <1>1, <1>3, UnfoldingsAgree, FS_Subset
<1>5. g \in [SUBSET S -> Int]
  BY <1>1, <1>3, <1>4 DEF Unfolds
<1> QED BY <1>1, <1>2, <1>5

\* An empty sum is zero.
LEMMA SumOfNone ==
    ASSUME NEW f
    PROVE  SumFunctionOnSet(f, {}) = 0
<1>1. IsFiniteSet({})
  BY FS_EmptySet
<1>2. PICK g \in [SUBSET {} -> Int] : Unfolds(g, f, {}) /\ SumFunctionOnSet(f, {}) = g[{}]
  BY <1>1, SumUnfolds
<1> QED BY <1>2 DEF Unfolds

\* A sum of integers is one.
LEMMA SumIsInt ==
    ASSUME NEW S, IsFiniteSet(S), NEW f, \A x \in S : f[x] \in Int
    PROVE  SumFunctionOnSet(f, S) \in Int
<1>1. PICK g \in [SUBSET S -> Int] : SumFunctionOnSet(f, S) = g[S]
  BY SumUnfolds
<1> QED BY <1>1

\* Equal summands, equal sums.
LEMMA SumAgrees ==
    ASSUME NEW S, IsFiniteSet(S), NEW f, \A x \in S : f[x] \in Int,
           NEW e, \A x \in S : e[x] = f[x]
    PROVE  SumFunctionOnSet(e, S) = SumFunctionOnSet(f, S)
<1>1. PICK g \in [SUBSET S -> Int] : Unfolds(g, f, S) /\ SumFunctionOnSet(f, S) = g[S]
  BY SumUnfolds
<1>2. PICK h \in [SUBSET S -> Int] : Unfolds(h, e, S) /\ SumFunctionOnSet(e, S) = h[S]
  BY SumUnfolds
<1> QED BY <1>1, <1>2, UnfoldingsAgree

\* The sum takes out the element CHOOSE returns.
LEMMA SumPick ==
    ASSUME NEW S, IsFiniteSet(S), S # {}, NEW f, \A x \in S : f[x] \in Int
    PROVE  /\ Pick(S) \in S
           /\ SumFunctionOnSet(f, S) = f[Pick(S)] + SumFunctionOnSet(f, S \ {Pick(S)})
<1> DEFINE T == S \ {Pick(S)}
<1>0. Pick(S) \in S
  BY DEF Pick
<1>1. PICK g \in [SUBSET S -> Int] : Unfolds(g, f, S) /\ SumFunctionOnSet(f, S) = g[S]
  BY SumUnfolds
<1>2. IsFiniteSet(T) /\ T \in SUBSET S
  BY FS_Subset
<1>3. PICK h \in [SUBSET T -> Int] : Unfolds(h, f, T) /\ SumFunctionOnSet(f, T) = h[T]
  BY <1>2, SumUnfolds
<1>4. g[T] = h[T]
  BY <1>1, <1>2, <1>3, UnfoldingsAgree
<1>5. g[S] = f[Pick(S)] + g[T]
  BY <1>1 DEF Unfolds
<1> QED BY <1>0, <1>1, <1>3, <1>4, <1>5

\* It may take out any other: the order of summation does not matter.
LEMMA SumRemove ==
    ASSUME NEW S, IsFiniteSet(S), NEW f, \A x \in S : f[x] \in Int, NEW y \in S
    PROVE  SumFunctionOnSet(f, S) = f[y] + SumFunctionOnSet(f, S \ {y})
<1> DEFINE Sum(s) == SumFunctionOnSet(f, s)
           Bad == {s \in SUBSET S : \E x \in s : Sum(s) # f[x] + Sum(s \ {x})}
<1>0. \A s \in SUBSET S : IsFiniteSet(s) /\ Sum(s) \in Int
  BY FS_Subset, SumIsInt
<1>1. Bad = {}
  <2> SUFFICES ASSUME Bad # {} PROVE FALSE
    OBVIOUS
  <2>1. Bad \subseteq SUBSET S
    OBVIOUS
  <2> HIDE DEF Bad
  <2>2. PICK s \in Bad : \A x \in s : s \ {x} \notin Bad
    BY <2>1, MinimalSubset
  <2>3. s \in SUBSET S
    BY <2>1
  <2>4. PICK x \in s : Sum(s) # f[x] + Sum(s \ {x})
    BY <2>2 DEF Bad
  <2> DEFINE p == Pick(s)
  <2>5. p \in s /\ Sum(s) = f[p] + Sum(s \ {p})
    BY <1>0, <2>3, SumPick
  <2>6. p # x
    BY <2>4, <2>5
  <2>7. s \ {p} \notin Bad /\ s \ {x} \notin Bad
    BY <2>2, <2>5
  <2>8. /\ Sum(s \ {p}) = f[x] + Sum((s \ {p}) \ {x})
        /\ Sum(s \ {x}) = f[p] + Sum((s \ {x}) \ {p})
    BY <2>3, <2>5, <2>6, <2>7 DEF Bad
  <2>9. (s \ {p}) \ {x} = (s \ {x}) \ {p}
    OBVIOUS
  <2> DEFINE rest == Sum((s \ {x}) \ {p})
  <2>10. f[x] \in Int /\ f[p] \in Int /\ rest \in Int
    <3>1. (s \ {x}) \ {p} \in SUBSET S
      BY <2>3
    <3>2. rest \in Int
      BY <1>0, <3>1
    <3>3. x \in S /\ p \in S
      BY <2>3, <2>5
    <3> HIDE DEF rest, p
    <3> QED BY <3>2, <3>3
  <2>11. Sum(s) = f[p] + (f[x] + rest) /\ Sum(s) # f[x] + (f[p] + rest)
    BY <2>4, <2>5, <2>8, <2>9
  <2> HIDE DEF rest, p, Sum
  <2> QED BY <2>10, <2>11
<1> QED BY <1>1

\* More values that are not negative never make a smaller sum.
LEMMA SumGrows ==
    ASSUME NEW S, IsFiniteSet(S), NEW f, \A x \in S : f[x] \in Nat, NEW T \in SUBSET S
    PROVE  SumFunctionOnSet(f, T) <= SumFunctionOnSet(f, S)
<1> DEFINE Sum(s) == SumFunctionOnSet(f, s)
           Bad == {s \in SUBSET S : T \subseteq s /\ ~(Sum(T) <= Sum(s))}
<1>0. \A s \in SUBSET S : IsFiniteSet(s) /\ Sum(s) \in Int
  <2> SUFFICES ASSUME NEW s \in SUBSET S PROVE IsFiniteSet(s) /\ Sum(s) \in Int
    OBVIOUS
  <2>1. IsFiniteSet(s)
    BY FS_Subset
  <2>2. \A x \in s : f[x] \in Int
    OBVIOUS
  <2> QED BY <2>1, <2>2, SumIsInt
<1>1. Bad = {}
  <2> SUFFICES ASSUME Bad # {} PROVE FALSE
    OBVIOUS
  <2>1. Bad \subseteq SUBSET S
    OBVIOUS
  <2> HIDE DEF Bad
  <2>2. PICK s \in Bad : \A x \in s : s \ {x} \notin Bad
    BY <2>1, MinimalSubset
  <2>3. s \in SUBSET S /\ T \subseteq s /\ ~(Sum(T) <= Sum(s))
    BY <2>2 DEF Bad
  <2>4. s # T
    BY <1>0, <2>3
  <2>5. PICK x \in s : x \notin T
    BY <2>3, <2>4
  <2>6. Sum(T) <= Sum(s \ {x})
    BY <2>2, <2>3, <2>5 DEF Bad
  <2>7. Sum(s) = f[x] + Sum(s \ {x})
    BY <1>0, <2>3, <2>5, SumRemove
  <2>8. Sum(T) \in Int /\ Sum(s \ {x}) \in Int /\ f[x] \in Nat
    BY <1>0, <2>3, <2>5
  <2> HIDE DEF Sum
  <2> QED BY <2>3, <2>6, <2>7, <2>8
<1> QED BY <1>1

\* Zeros add up to zero.
LEMMA SumOfZeros ==
    ASSUME NEW S, IsFiniteSet(S), NEW f, \A x \in S : f[x] = 0
    PROVE  SumFunctionOnSet(f, S) = 0
<1> DEFINE Bad == {s \in SUBSET S : SumFunctionOnSet(f, s) # 0}
<1>1. Bad = {}
  <2> SUFFICES ASSUME Bad # {} PROVE FALSE
    OBVIOUS
  <2>1. Bad \subseteq SUBSET S
    OBVIOUS
  <2> HIDE DEF Bad
  <2>2. PICK s \in Bad : \A x \in s : s \ {x} \notin Bad
    BY <2>1, MinimalSubset
  <2>3. s \in SUBSET S /\ SumFunctionOnSet(f, s) # 0 /\ IsFiniteSet(s)
    BY <2>2, FS_Subset DEF Bad
  <2>4. PICK x \in s : TRUE
    BY <2>3, SumOfNone
  <2>5. SumFunctionOnSet(f, s \ {x}) = 0
    BY <2>2, <2>3 DEF Bad
  <2>6. SumFunctionOnSet(f, s) = f[x] + SumFunctionOnSet(f, s \ {x})
    BY <2>3, SumRemove
  <2> QED BY <2>3, <2>5, <2>6
<1> QED BY <1>1

\* A change of one value changes the sum by as much.
LEMMA SumChanges ==
    ASSUME NEW S, IsFiniteSet(S), NEW f, \A x \in S : f[x] \in Int,
           NEW e, \A x \in S : e[x] \in Int,
           NEW y \in S, \A x \in S \ {y} : e[x] = f[x]
    PROVE  SumFunctionOnSet(e, S) = SumFunctionOnSet(f, S) + (e[y] - f[y])
<1>1. /\ SumFunctionOnSet(f, S) = f[y] + SumFunctionOnSet(f, S \ {y})
      /\ SumFunctionOnSet(e, S) = e[y] + SumFunctionOnSet(e, S \ {y})
  BY SumRemove
<1>2. IsFiniteSet(S \ {y})
  BY FS_Subset
<1>3. /\ SumFunctionOnSet(e, S \ {y}) = SumFunctionOnSet(f, S \ {y})
      /\ SumFunctionOnSet(f, S \ {y}) \in Int
  BY <1>2, SumAgrees, SumIsInt
<1> QED BY <1>1, <1>3

\* A running sum over a list.
LEMMA SumPrefix ==
    ASSUME NEW n \in Nat, NEW f, \A i \in 1 .. n + 1 : f[i] \in Int
    PROVE  SumFunctionOnSet(f, 1 .. n + 1) = SumFunctionOnSet(f, 1 .. n) + f[n + 1]
<1>1. IsFiniteSet(1 .. n + 1) /\ n + 1 \in 1 .. n + 1
  BY FS_Interval
<1>2. (1 .. n + 1) \ {n + 1} = 1 .. n
  OBVIOUS
<1>3. IsFiniteSet(1 .. n)
  BY FS_Interval
<1>4. SumFunctionOnSet(f, 1 .. n) \in Int
  BY <1>3, SumIsInt
<1>5. SumFunctionOnSet(f, 1 .. n + 1) = f[n + 1] + SumFunctionOnSet(f, 1 .. n)
  BY <1>1, <1>2, SumRemove
<1> QED BY <1>1, <1>4, <1>5
=============================================================================
