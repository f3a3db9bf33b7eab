------------------------- MODULE StakeSamplerProofs -------------------------
(***************************************************************************)
(* The sampler returns what ValidatorDaemon expects of it, for every list  *)
(* of receipts, every stake map and every rate up to one.                  *)
(***************************************************************************)
EXTENDS StakeSampler, FloatTheorems

\* The size the loop stops at: at least one and at most all of the receipts, and
\* otherwise the product of their number and the rate, cut to an integer, the
\* next one where the product is as near to it as a float tells.
LEMMA SampleSizeBounds ==
  ASSUME NEW n \in Nat \ {0}, n < pow2[MANTISSA], NEW s, s = n_sample(n)
  PROVE  /\ s \in 1 .. n
         /\ \/ s = 1
            \/ (s * pow2[SampleRate[2]] - n * SampleRate[1]) * pow2[MANTISSA]
                   <= s * pow2[SampleRate[2]]
         /\ ((s + 1) * pow2[SampleRate[2]] - n * SampleRate[1]) * pow2[MANTISSA + 1]
                > (s + 1) * pow2[SampleRate[2]]
  <1> DEFINE m == SampleRate[1]
             d == pow2[SampleRate[2]]
             a == n * m
             H == pow2[MANTISSA]
             D == pow2[MANTISSA + 1]
             q == a \div d
             t == Truncated(a, d)
  <1>1. m \in Nat /\ d \in Nat \ {0} /\ m <= d /\ H \in Nat \ {0} /\ D = 2 * H
    BY PowersOfTwo, RateAssumption, MantissaAssumption
  <1>2. s = IF t < 1 THEN 1 ELSE t
    BY DEF n_sample
  <1>3. a \in Nat /\ a <= n * d /\ n * d \in Nat
    BY <1>1
  <1>4. n < H
    OBVIOUS
  <1> HIDE DEF m, d, a, H, D
  <1>5. q < H
    <2>1. q \in Nat /\ q * d \in Nat /\ q * d <= a
      BY <1>1, <1>3, Division
    <2> HIDE DEF q
    <2>2. ASSUME q > n PROVE FALSE
      <3>1. (n + 1) * d <= q * d
        BY <1>1, <2>1, <2>2
      <3>2. (n + 1) * d = n * d + d
        BY <1>1
      <3> QED BY <1>1, <1>3, <2>1, <3>1, <3>2
    <2> QED BY <1>1, <1>4, <2>1, <2>2
  <1>6. /\ t \in Nat /\ t * d < a + d /\ (t + 1) * d > a
        /\ (t * d - a) * H <= t * d
        /\ ((t + 1) * d - a) * D > (t + 1) * d
    BY <1>1, <1>3, <1>5, TruncationBounds DEF H, D
  <1> HIDE DEF q, t
  <1>7. CASE t < 1
    <2>1. s = 1 /\ t = 0
      BY <1>2, <1>6, <1>7
    <2>2. a < d
      BY <1>1, <1>6, <2>1
    <2>3. (1 + 1) * d = 2 * d /\ 2 * d - a \in Nat /\ 2 * d - a >= d + 1
      BY <1>1, <1>3, <2>2
    <2>4. (2 * d - a) * 2 <= (2 * d - a) * D
      BY <1>1, <2>3
    <2>5. (2 * d - a) * D \in Nat
      BY <1>1, <2>3
    <2>6. ((1 + 1) * d - a) * D > (1 + 1) * d
      BY <1>1, <1>3, <2>3, <2>4, <2>5
    <2> QED BY <2>1, <2>6 DEF m, d, a, D
  <1>8. CASE ~(t < 1)
    <2>1. s = t
      BY <1>2, <1>8
    <2>2. ASSUME t > n PROVE FALSE
      <3>1. (n + 1) * d <= t * d
        BY <1>1, <1>6, <2>2
      <3>2. (n + 1) * d = n * d + d
        BY <1>1
      <3> QED BY <1>1, <1>3, <1>6, <3>1, <3>2
    <2>3. s \in 1 .. n
      BY <1>6, <1>8, <2>1, <2>2
    <2> QED BY <1>6, <2>1, <2>3 DEF m, d, a, H, D
  <1> QED BY <1>7, <1>8

\* The same of the receipts the sampler was given.
LEMMA SampleSizeType ==
  ASSUME receipts \in ReceiptLists, receipts # << >>
  PROVE  n_sample(Len(receipts)) \in 1 .. Len(receipts)
  <1>1. receipts \in Seq(Range(receipts)) /\ Len(receipts) < pow2[MANTISSA]
    BY SamplerAssumption
  <1>2. Len(receipts) \in Nat \ {0}
    BY <1>1
  <1> QED BY <1>1, <1>2, SampleSizeBounds

\* The positions of the receipts are the numbers up to their count.
LEMMA PositionsAreNumbers ==
  ASSUME receipts \in ReceiptLists
  PROVE  /\ Len(receipts) \in Nat
         /\ Positions = 1 .. Len(receipts)
         /\ receipts # << >> <=> Len(receipts) > 0
         /\ IsFiniteSet(Positions) /\ Cardinality(Positions) = Len(receipts)
  <1>1. receipts \in Seq(Range(receipts))
    BY SamplerAssumption
  <1>2. Len(receipts) \in Nat /\ DOMAIN receipts = 1 .. Len(receipts)
          /\ (receipts # << >> <=> Len(receipts) > 0)
    BY <1>1
  <1>3. IsFiniteSet(1 .. Len(receipts)) /\ Cardinality(1 .. Len(receipts)) = Len(receipts)
    BY <1>2, FS_Interval
  <1> QED BY <1>2, <1>3 DEF Positions

\* A shuffled list of positions is never the empty list it replaces.
LEMMA ShuffledIsNotEmpty ==
  ASSUME receipts \in ReceiptLists, receipts # << >>,
         NEW f \in Bijection(Positions, Positions)
  PROVE  /\ f # << >> /\ DOMAIN f = Positions /\ IsInjective(f)
         /\ \A k \in Positions : f[k] \in Positions
  <1>1. f \in [Positions -> Positions] /\ IsInjective(f)
    BY DEF Bijection, Injection
  <1>2. 1 \in Positions
    BY PositionsAreNumbers
  <1> QED BY <1>1, <1>2

\* What Draw does: an entry still in the bag leaves it and joins the sample.
LEMMA DrawEffect ==
  ASSUME Draw
  PROVE  /\ Len(chosen) < n_sample(Len(receipts))
         /\ UNCHANGED <<receipts, operator_stake, indices>>
         /\ \E k \in left : chosen' = Append(chosen, indices[k]) /\ left' = left \ {k}
  BY DEF Draw, drawn

\* The types hold, and the positions the sampler handles are those of its list.
LEMMA TypeStep == TypeOK /\ BagPartition /\ [Next]_vars => TypeOK'
  <1> SUFFICES ASSUME TypeOK, BagPartition, [Next]_vars PROVE TypeOK'
    OBVIOUS
  <1>1. CASE Shuffle
    <2>1. indices' \in Bijection(Positions, Positions) /\ receipts # << >>
            /\ left' = Positions /\ UNCHANGED <<receipts, operator_stake, chosen>>
      BY <1>1 DEF Shuffle
    <2>2. DOMAIN indices' = Positions
      BY <2>1, ShuffledIsNotEmpty DEF TypeOK
    <2> QED BY <2>1, <2>2 DEF TypeOK, Positions
  <1>2. CASE Draw
    <2>1. PICK k \in left : chosen' = Append(chosen, indices[k]) /\ left' = left \ {k}
      BY <1>2, DrawEffect
    <2>2. UNCHANGED <<receipts, operator_stake, indices>>
      BY <1>2, DrawEffect
    <2>3. indices[k] \in Positions
      <3>1. indices # << >>
        BY <2>1 DEF TypeOK
      <3> QED BY <2>1, <3>1 DEF TypeOK, Bijection, Injection
    <2>4. chosen' \in Seq(Positions)
      BY <2>1, <2>3 DEF TypeOK
    <2> QED BY <2>1, <2>2, <2>4 DEF TypeOK, Positions
  <1>3. CASE UNCHANGED vars
    BY <1>3 DEF vars, TypeOK, Positions
  <1> QED BY <1>1, <1>2, <1>3 DEF Next

\* Appending a position that is not in the sample keeps it free of repetition.
LEMMA AppendKeepsInjective ==
  ASSUME NEW S, NEW s \in Seq(S), NEW x \in S, IsInjective(s), x \notin Range(s)
  PROVE  /\ IsInjective(Append(s, x))
         /\ Range(Append(s, x)) = Range(s) \cup {x}
         /\ Len(Append(s, x)) = Len(s) + 1
  <1>1. /\ DOMAIN Append(s, x) = 1 .. Len(s) + 1 /\ DOMAIN s = 1 .. Len(s) /\ Len(s) \in Nat
        /\ \A i \in 1 .. Len(s) : Append(s, x)[i] = s[i]
        /\ Append(s, x)[Len(s) + 1] = x
        /\ Len(Append(s, x)) = Len(s) + 1
    OBVIOUS
  <1>2. \A i \in 1 .. Len(s) : s[i] # x
    BY <1>1 DEF Range
  <1>3. IsInjective(Append(s, x))
    BY <1>1, <1>2 DEF IsInjective
  <1>4. Range(Append(s, x)) = Range(s) \cup {x}
    BY <1>1 DEF Range
  <1> QED BY <1>1, <1>3, <1>4

\* The shuffle puts all positions in the bag; a draw moves one to the sample.
LEMMA PartitionStep == TypeOK /\ BagPartition /\ [Next]_vars => BagPartition'
  <1> SUFFICES ASSUME TypeOK, BagPartition, [Next]_vars PROVE BagPartition'
    OBVIOUS
  <1>0. receipts \in ReceiptLists /\ chosen \in Seq(Positions) /\ Len(chosen) \in Nat
    BY DEF TypeOK
  <1>1. CASE Shuffle
    <2>1. /\ indices' \in Bijection(Positions, Positions) /\ receipts # << >>
          /\ indices = << >> /\ left' = Positions
          /\ UNCHANGED <<receipts, operator_stake, chosen>>
      BY <1>1 DEF Shuffle
    <2>2. chosen = << >> /\ chosen' = << >> /\ receipts' = receipts
      BY <2>1 DEF BagPartition
    <2>3. indices' # << >>
      BY <1>0, <2>1, ShuffledIsNotEmpty
    <2>4. IsInjective(chosen') /\ Range(chosen') = {} /\ Len(chosen') = 0
      BY <2>2 DEF IsInjective, Range
    <2>5. Cardinality(left') = Len(receipts') /\ Len(receipts) \in Nat \ {0}
      BY <1>0, <2>1, <2>2, PositionsAreNumbers
    <2>6. n_sample(Len(receipts)) \in Nat
      BY <1>0, <2>1, SampleSizeType
    <2> QED BY <2>2, <2>3, <2>4, <2>5, <2>6 DEF BagPartition
  <1>2. CASE Draw
    <2>1. PICK k \in left : chosen' = Append(chosen, indices[k]) /\ left' = left \ {k}
      BY <1>2, DrawEffect
    <2>2. UNCHANGED <<receipts, operator_stake, indices>>
            /\ Len(chosen) < n_sample(Len(receipts))
      BY <1>2, DrawEffect
    <2>3. indices # << >> /\ indices \in Bijection(Positions, Positions)
      BY <2>1 DEF TypeOK
    <2>4. left \subseteq Positions /\ indices \in [Positions -> Positions]
            /\ IsInjective(indices) /\ DOMAIN indices = Positions
      BY <2>3 DEF TypeOK, Bijection, Injection
    <2>5. indices[k] \in Positions /\ indices[k] \notin Range(chosen)
      BY <2>1, <2>4 DEF BagPartition
    <2>6. /\ IsInjective(chosen')
          /\ Range(chosen') = Range(chosen) \cup {indices[k]}
          /\ Len(chosen') = Len(chosen) + 1
      BY <1>0, <2>1, <2>5, AppendKeepsInjective DEF BagPartition
    <2>7. Range(chosen') \cap {indices'[j] : j \in left'} = {}
      <3>1. \A j \in left' : indices[j] # indices[k]
        BY <2>1, <2>4 DEF IsInjective
      <3> QED BY <2>1, <2>2, <2>6, <3>1 DEF BagPartition
    <2>8. Len(chosen') + Cardinality(left') = Len(receipts')
      <3>1. IsFiniteSet(left)
        BY <1>0, <2>4, PositionsAreNumbers, FS_Subset
      <3>2. Cardinality(left \ {k}) = Cardinality(left) - 1 /\ Cardinality(left) \in Nat
        BY <2>1, <3>1, FS_RemoveElement, FS_CardinalityType
      <3> QED BY <1>0, <2>1, <2>2, <2>3, <2>6, <3>2 DEF BagPartition
    <2>9. Len(chosen') <= n_sample(Len(receipts')) \/ receipts' = << >>
      <3>1. CASE receipts = << >>
        BY <2>2, <3>1
      <3>2. CASE receipts # << >>
        <4>1. n_sample(Len(receipts)) \in Nat
          BY <1>0, <3>2, SampleSizeType
        <4> QED BY <1>0, <2>2, <2>6, <4>1
      <3> QED BY <3>1, <3>2
    <2> QED BY <2>2, <2>3, <2>6, <2>7, <2>8, <2>9 DEF BagPartition
  <1>3. CASE UNCHANGED vars
    BY <1>3 DEF vars, BagPartition
  <1> QED BY <1>1, <1>2, <1>3 DEF Next

\* Before the shuffle there is nothing in the bag and nothing in the sample.
LEMMA InitPartition == Init => TypeOK /\ BagPartition
  <1> SUFFICES ASSUME Init PROVE TypeOK /\ BagPartition
    OBVIOUS
  <1>1. receipts \in ReceiptLists /\ indices = << >> /\ left = {} /\ chosen = << >>
    BY DEF Init
  <1>2. TypeOK
    BY DEF Init, TypeOK
  <1>3. IsInjective(chosen) /\ Range(chosen) = {} /\ Len(chosen) = 0
    BY <1>1 DEF IsInjective, Range
  <1>4. receipts # << >> => 0 <= n_sample(Len(receipts))
    <2>1. receipts # << >> => Len(receipts) \in Nat \ {0}
      BY <1>1, PositionsAreNumbers
    <2>2. receipts # << >> => n_sample(Len(receipts)) \in 1 .. Len(receipts)
      BY <1>1, SampleSizeType
    <2> QED BY <2>1, <2>2
  <1> QED BY <1>1, <1>2, <1>3, <1>4 DEF BagPartition

\* StakeWeightedSampler.sample never loses or repeats a receipt, and every
\* variable keeps its type.
THEOREM PartitionCorrect == Spec => [](TypeOK /\ BagPartition)
  <1>1. Init => TypeOK /\ BagPartition
    BY InitPartition
  <1>2. (TypeOK /\ BagPartition) /\ [Next]_vars => (TypeOK /\ BagPartition)'
    BY TypeStep, PartitionStep
  <1> QED BY <1>1, <1>2, PTL DEF Spec

\* StakeWeightedSampler.sample returns a sample as ValidatorDaemon expects it:
\* distinct receipts, at least one, and otherwise as many as the float product of
\* their number and the rate, cut to an integer.
THEOREM SampleCorrect == Spec => []SampleIsDrawable
  <1>1. TypeOK /\ BagPartition => SampleIsDrawable
    <2> SUFFICES ASSUME TypeOK, BagPartition, Returned, receipts # << >>
                 PROVE  SampleIsDrawable
      BY DEF SampleIsDrawable
    <2>1. receipts \in ReceiptLists /\ Len(receipts) \in Nat \ {0} /\ Len(chosen) \in Nat
      BY PositionsAreNumbers DEF TypeOK
    <2>2. n_sample(Len(receipts)) \in 1 .. Len(receipts)
      BY <2>1, SampleSizeType
    <2>3. Len(chosen) <= n_sample(Len(receipts)) /\ indices # << >>
      BY DEF BagPartition, Returned
    <2>4. Len(chosen) = n_sample(Len(receipts))
      <3>1. CASE left = {}
        <4>1. Cardinality(left) = 0
          BY <3>1, FS_EmptySet
        <4>2. Len(chosen) + Cardinality(left) = Len(receipts)
          BY <2>3 DEF BagPartition
        <4> QED BY <2>1, <2>2, <2>3, <4>1, <4>2
      <3>2. CASE Len(chosen) >= n_sample(Len(receipts))
        BY <2>1, <2>2, <2>3, <3>2
      <3> QED BY <3>1, <3>2 DEF Returned
    <2>5. IsInjective(chosen)
      BY DEF BagPartition
    <2>6. Len(receipts) < pow2[MANTISSA]
      BY <2>1, SamplerAssumption
    <2> QED BY <2>1, <2>2, <2>4, <2>5, <2>6, SampleSizeBounds DEF SampleIsDrawable
  <1> QED BY <1>1, PartitionCorrect, PTL

\* Every variable of the sampler keeps its type.
THEOREM SamplerTypeCorrect == Spec => []TypeOK
  BY PartitionCorrect, PTL

-----------------------------------------------------------------------------
(* The chances. *)

\* The weight the scan has passed before it comes to entry k.
passed(k) == SumFunctionOnSet([j \in left |-> weights(j)], {j \in left : j < k})

\* A stake below one counts as one, a missing one as well.
LEMMA WeightPositive ==
  ASSUME TypeOK, NEW k \in left
  PROVE  weights(k) \in Nat \ {0}
  <1>1. Stake(receipts[k]) \in Int
    BY SamplerAssumption DEF TypeOK, Stake
  <1> QED BY <1>1 DEF weights

\* The bag is finite, and its entries are numbers.
LEMMA BagFinite ==
  ASSUME TypeOK
  PROVE  IsFiniteSet(left) /\ left \subseteq Int
  <1>1. CASE indices = << >>
    <2>1. left = {}
      BY <1>1 DEF TypeOK
    <2> QED BY <2>1, FS_EmptySet
  <1>2. CASE indices \in Bijection(Positions, Positions)
    <2>1. left \subseteq Positions
      BY <1>2 DEF TypeOK, Bijection, Injection
    <2>2. IsFiniteSet(Positions) /\ Positions \subseteq Int
      BY PositionsAreNumbers DEF TypeOK
    <2> QED BY <2>1, <2>2, FS_Subset
  <1> QED BY <1>1, <1>2 DEF TypeOK

\* The running sum grows by the weight of each entry and ends at the total.
LEMMA ScanSums ==
  ASSUME TypeOK, NEW k \in left
  PROVE  /\ passed(k) \in Nat /\ acc(k) \in Nat /\ total \in Nat
         /\ acc(k) = passed(k) + weights(k)
         /\ acc(k) <= total
         /\ \A j \in left : j < k => acc(j) <= passed(k)
         /\ passed(k) = 0 \/ \E j \in left : j < k /\ acc(j) = passed(k)
  <1> DEFINE w == [j \in left |-> weights(j)]
             Before == {j \in left : j < k}
             Upto(j) == {i \in left : i <= j}
             Sum(s) == SumFunctionOnSet(w, s)
  <1>1. IsFiniteSet(left) /\ left \subseteq Int
    BY BagFinite
  <1>2. \A j \in left : w[j] \in Nat \ {0}
    BY WeightPositive
  <1>3. acc(k) = Sum(Upto(k)) /\ passed(k) = Sum(Before) /\ total = Sum(left)
    BY DEF acc, passed, total, SumFunction
  <1>4. \A s \in SUBSET left : IsFiniteSet(s) /\ Sum(s) \in Nat
    <2> SUFFICES ASSUME NEW s \in SUBSET left PROVE IsFiniteSet(s) /\ Sum(s) \in Nat
      OBVIOUS
    <2>1. IsFiniteSet(s)
      BY <1>1, FS_Subset
    <2>2. \A x \in s : w[x] \in Nat /\ w[x] \in Int
      BY <1>2
    <2>3. {} \in SUBSET s
      OBVIOUS
    <2> HIDE DEF w
    <2>4. SumFunctionOnSet(w, {}) <= SumFunctionOnSet(w, s) /\ SumFunctionOnSet(w, s) \in Int
      BY <2>1, <2>2, <2>3, SumGrows, SumIsInt
    <2> QED BY <2>1, <2>4, SumOfNone
  <1> HIDE DEF w
  <1>5. Upto(k) \in SUBSET left /\ Before \in SUBSET left /\ left \in SUBSET left
    OBVIOUS
  <1>6. Sum(Upto(k)) = w[k] + Sum(Before)
    <2>1. k \in Upto(k)
      BY <1>1
    <2>2. Upto(k) \ {k} = Before
      <3>1. \A i \in left : i <= k /\ i # k <=> i < k
        BY <1>1
      <3> QED BY <3>1
    <2>3. IsFiniteSet(Upto(k)) /\ \A x \in Upto(k) : w[x] \in Int
      BY <1>2, <1>4, <1>5
    <2> QED BY <2>1, <2>2, <2>3, SumRemove
  <1>7. Sum(Upto(k)) <= Sum(left)
    BY <1>1, <1>2, <1>5, SumGrows
  <1>8. ASSUME NEW j \in left, j < k PROVE acc(j) <= passed(k)
    <2>1. Upto(j) \in SUBSET Before
      <3>1. \A i \in left : i <= j => i < k
        BY <1>1, <1>8
      <3> QED BY <3>1
    <2>2. IsFiniteSet(Before) /\ \A x \in Before : w[x] \in Nat
      BY <1>2, <1>4, <1>5
    <2>3. Sum(Upto(j)) <= Sum(Before)
      BY <2>1, <2>2, SumGrows
    <2>4. acc(j) = Sum(Upto(j))
      BY DEF acc, w
    <2> QED BY <1>3, <2>3, <2>4
  <1>9. passed(k) = 0 \/ \E j \in left : j < k /\ acc(j) = passed(k)
    <2>1. CASE Before = {}
      BY <1>3, <2>1, SumOfNone
    <2>2. CASE Before # {}
      <3>1. IsFiniteSet(Before) /\ Before \subseteq Int
        BY <1>1, <1>4, <1>5
      <3>2. PICK j \in Before : \A i \in Before : j >= i
        BY <2>2, <3>1, FiniteHasMax
      <3>3. Upto(j) = Before
        <4>1. \A i \in left : i <= j <=> i < k
          BY <1>1, <3>2
        <4> QED BY <4>1
      <3>4. acc(j) = Sum(Upto(j))
        BY DEF acc, w
      <3> QED BY <1>3, <3>2, <3>3, <3>4
    <2> QED BY <2>1, <2>2
  <1>10. w[k] = weights(k)
    BY DEF w
  <1> QED BY <1>2, <1>3, <1>4, <1>5, <1>6, <1>7, <1>8, <1>9, <1>10

\* An entry is drawn by the targets above what was passed before it, up to what
\* was passed with it.
LEMMA TargetsOfEntry ==
  ASSUME TypeOK, NEW k \in left
  PROVE  {t \in 1 .. total : k \in drawn(t)} = passed(k) + 1 .. passed(k) + weights(k)
  <1>1. /\ passed(k) \in Nat /\ acc(k) \in Nat /\ total \in Nat
        /\ acc(k) = passed(k) + weights(k) /\ acc(k) <= total
        /\ \A j \in left : j < k => acc(j) <= passed(k)
        /\ passed(k) = 0 \/ \E j \in left : j < k /\ acc(j) = passed(k)
    BY ScanSums
  <1>2. \A j \in left : acc(j) \in Nat
    BY ScanSums
  <1>3. weights(k) \in Nat
    BY WeightPositive
  <1>4. ASSUME NEW t \in 1 .. total
        PROVE  k \in drawn(t) <=> t > passed(k) /\ t <= acc(k)
    <2>1. k \in drawn(t) <=> acc(k) >= t /\ \A j \in left : j < k => acc(j) < t
      BY DEF drawn
    <2>2. (\A j \in left : j < k => acc(j) < t) => t > passed(k)
      BY <1>1, <1>4
    <2>3. t > passed(k) => \A j \in left : j < k => acc(j) < t
      BY <1>1, <1>2, <1>4
    <2> QED BY <1>1, <1>4, <2>1, <2>2, <2>3
  <1> HIDE DEF drawn, passed, weights, acc, total
  <1>5. ASSUME NEW t
        PROVE  t \in {u \in 1 .. total : k \in drawn(u)}
                 <=> t \in passed(k) + 1 .. passed(k) + weights(k)
    <2>1. t \in passed(k) + 1 .. passed(k) + weights(k) => t \in 1 .. total
      BY <1>1, <1>3
    <2>2. t \in 1 .. total =>
             (t > passed(k) /\ t <= acc(k) <=> t \in passed(k) + 1 .. passed(k) + weights(k))
      BY <1>1, <1>3
    <2> QED BY <1>4, <2>1, <2>2
  <1> QED BY <1>5

\* The draw of StakeWeightedSampler.sample is fair: of the targets up to the
\* weight in the bag, each entry is drawn by as many as it weighs, and no target
\* draws two.
THEOREM DrawCorrect == Spec => []DrawIsProportional
  <1>1. TypeOK => DrawIsProportional
    <2> SUFFICES ASSUME TypeOK, NEW k \in left
                 PROVE  /\ Cardinality({t \in 1 .. total : k \in drawn(t)}) = weights(k)
                        /\ \A j \in left \ {k} : {t \in 1 .. total : j \in drawn(t)}
                              \cap {t \in 1 .. total : k \in drawn(t)} = {}
      BY DEF DrawIsProportional
    <2>1. passed(k) \in Nat /\ weights(k) \in Nat \ {0}
      BY ScanSums, WeightPositive
    <2>2. Cardinality(passed(k) + 1 .. passed(k) + weights(k)) = weights(k)
      <3> DEFINE a == passed(k) + 1
                 b == passed(k) + weights(k)
      <3>1. a \in Int /\ b \in Int /\ ~(a > b) /\ b - a + 1 = weights(k)
        BY <2>1
      <3> HIDE DEF a, b
      <3>2. Cardinality(a .. b) = b - a + 1
        BY <3>1, FS_Interval
      <3> QED BY <3>1, <3>2 DEF a, b
    <2>3. ASSUME NEW j \in left \ {k}, NEW t \in 1 .. total, j \in drawn(t), k \in drawn(t)
          PROVE  FALSE
      <3>1. /\ acc(k) >= t /\ \A i \in left : i < k => acc(i) < t
            /\ acc(j) >= t /\ \A i \in left : i < j => acc(i) < t
        BY <2>3 DEF drawn
      <3>2. j \in Int /\ k \in Int /\ j # k
        BY BagFinite
      <3>3. acc(j) \in Nat /\ acc(k) \in Nat /\ t \in Int
        BY ScanSums
      <3> HIDE DEF acc
      <3>4. CASE j < k
        BY <3>1, <3>3, <3>4
      <3>5. CASE k < j
        BY <3>1, <3>3, <3>5
      <3> QED BY <3>2, <3>4, <3>5
    <2> QED BY <2>2, <2>3, TargetsOfEntry
  <1> QED BY <1>1, SamplerTypeCorrect, PTL

\* StakeWeightedSampler.sample can draw every receipt still in the bag, whatever
\* stake was reported for its operator.
THEOREM EveryEntryDrawable == Spec => []NobodyStarves
  <1>1. TypeOK => NobodyStarves
    <2> SUFFICES ASSUME TypeOK, NEW k \in left
                 PROVE  \E t \in 1 .. total : k \in drawn(t)
      BY DEF NobodyStarves
    <2>1. passed(k) \in Nat /\ weights(k) \in Nat \ {0}
      BY ScanSums, WeightPositive
    <2>2. passed(k) + weights(k) \in passed(k) + 1 .. passed(k) + weights(k)
      BY <2>1
    <2> QED BY <2>2, TargetsOfEntry
  <1> QED BY <1>1, SamplerTypeCorrect, PTL
=============================================================================
