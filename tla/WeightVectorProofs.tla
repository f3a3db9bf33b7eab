------------------------- MODULE WeightVectorProofs -------------------------
(***************************************************************************)
(* What the vote of weights.py looks like, for any operators and verdicts. *)
(***************************************************************************)
EXTENDS WeightVector, FloatTheorems, SequenceTheorems

LEMMA MaxOfFinite ==
    ASSUME NEW S, IsFiniteSet(S), S \subseteq Int, S # {}
    PROVE  Max(S) \in S /\ \A y \in S : Max(S) >= y
  BY FiniteHasMax DEF Max

-----------------------------------------------------------------------------
(* Who is in the vector. *)

IsOperatorList(operators) ==
    /\ IsFiniteSet(DOMAIN operators)
    /\ DOMAIN operators \subseteq Int
    /\ \A i \in DOMAIN operators : operators[i].stake \in Int

\* Each name once.
LEMMA KeptOnce ==
    ASSUME NEW operators, IsOperatorList(operators), NEW faulty,
           NEW i \in kept(operators, faulty), NEW j \in kept(operators, faulty),
           operators[i].operator_id = operators[j].operator_id
    PROVE  i = j
<1>1. i \in Int /\ j \in Int
  BY DEF kept, clean, IsOperatorList
<1>2. i <= j /\ j <= i
  BY DEF kept
<1> QED
  BY <1>1, <1>2

\* A name with a clean entry is there.
LEMMA KeptCovers ==
    ASSUME NEW operators, IsOperatorList(operators), NEW faulty,
           NEW i \in clean(operators, faulty)
    PROVE  \E j \in kept(operators, faulty) :
               operators[j].operator_id = operators[i].operator_id
<1> DEFINE Same == {j \in clean(operators, faulty) :
                       operators[j].operator_id = operators[i].operator_id}
<1>1. Same \in SUBSET (DOMAIN operators) /\ Same # {}
  BY DEF clean
<1>2. IsFiniteSet(Same) /\ Same \subseteq Int
  BY <1>1, FS_Subset DEF IsOperatorList
<1>3. PICK j \in Same : \A k \in Same : j <= k
  BY <1>1, <1>2, FiniteHasMin
<1>4. j \in kept(operators, faulty)
  BY <1>3 DEF kept
<1> QED
  BY <1>3, <1>4

\* The verdicts accuse the operator they name or, where they name none, the one of
\* the last receipt of their job.
LEMMA AccusedIsFaulty ==
    ASSUME NEW receipts, NEW verdicts, NEW n,
           receipts \in Seq(Range(receipts)), n # NoName
    PROVE  n \in faulty_operators_from_verdicts(receipts, verdicts) <=>
             \E v \in Range(verdicts) :
               /\ Lower[v.verdict] = "mismatch"
               /\ \/ v.operator_id = n
                  \/ /\ v.operator_id = NoName
                     /\ \E k \in DOMAIN receipts :
                          /\ receipts[k].job_id = v.job_id /\ receipts[k].operator_id = n
                          /\ \A m \in DOMAIN receipts :
                                m > k => receipts[m].job_id # v.job_id
<1> DEFINE Last(v) ==
             \E k \in DOMAIN receipts :
               /\ receipts[k].job_id = v.job_id /\ receipts[k].operator_id = n
               /\ \A m \in DOMAIN receipts : m > k => receipts[m].job_id # v.job_id
<1>1. ASSUME NEW v PROVE by_job(receipts, v.job_id) = n <=> Last(v)
  <2> DEFINE claims == {i \in DOMAIN receipts : receipts[i].job_id = v.job_id}
  <2>1. DOMAIN receipts = 1 .. Len(receipts) /\ Len(receipts) \in Nat
    OBVIOUS
  <2>2. IsFiniteSet(1 .. Len(receipts))
    BY <2>1, FS_Interval
  <2>3. claims \in SUBSET (1 .. Len(receipts))
    BY <2>1
  <2>4. IsFiniteSet(claims) /\ claims \subseteq Int
    BY <2>2, <2>3, FS_Subset
  <2>5. by_job(receipts, v.job_id) =
            IF claims = {} THEN NoName ELSE receipts[Max(claims)].operator_id
    BY DEF by_job
  <2>6. CASE claims = {}
    <3>1. ~Last(v)
      BY <2>6
    <3> QED BY <2>5, <2>6, <3>1
  <2>7. CASE claims # {}
    <3>1. Max(claims) \in claims /\ \A y \in claims : Max(claims) >= y
      BY <2>4, <2>7, MaxOfFinite
    <3>2. PICK top \in claims : top = Max(claims) /\ \A y \in claims : top >= y
      BY <3>1
    <3>3. top \in DOMAIN receipts /\ top \in Int /\ receipts[top].job_id = v.job_id
      BY <2>4
    <3>4. ASSUME receipts[top].operator_id = n PROVE Last(v)
      <4>1. ASSUME NEW m \in DOMAIN receipts, m > top
            PROVE  receipts[m].job_id # v.job_id
        <5>1. m \in Int
          BY <2>1
        <5>2. m \in claims => top >= m
          BY <3>2
        <5>3. m \notin claims
          BY <3>3, <4>1, <5>1, <5>2
        <5> QED BY <5>3
      <4> QED BY <3>3, <3>4, <4>1
    <3>5. ASSUME Last(v) PROVE receipts[top].operator_id = n
      <4>1. PICK k \in DOMAIN receipts :
              /\ receipts[k].job_id = v.job_id /\ receipts[k].operator_id = n
              /\ \A m \in DOMAIN receipts : m > k => receipts[m].job_id # v.job_id
        BY <3>5
      <4>2. k \in claims /\ k \in Int
        BY <2>1, <4>1
      <4>3. top >= k /\ ~(top > k)
        BY <3>2, <3>3, <4>1, <4>2
      <4>4. top = k
        BY <3>3, <4>2, <4>3
      <4> QED BY <4>1, <4>4
    <3> QED BY <2>5, <2>7, <3>2, <3>4, <3>5
  <2> QED BY <2>6, <2>7
<1> HIDE DEF Last
<1>2. ASSUME NEW v
      PROVE  blamed(receipts, v) = n <=>
               (v.operator_id = n \/ (v.operator_id = NoName /\ Last(v)))
  BY <1>1 DEF blamed
<1>3. n \in faulty_operators_from_verdicts(receipts, verdicts) <=>
        \E v \in Range(verdicts) : IsMismatch(v) /\ blamed(receipts, v) = n
  BY DEF faulty_operators_from_verdicts
<1> QED
  BY <1>2, <1>3 DEF IsMismatch, Last

-----------------------------------------------------------------------------
(* With which weight. *)

\* Weights are small enough for a float to hold them exactly.
LEMMA WeightsAreExact ==
    ASSUME NEW q \in Nat, q < U16_MAX
    PROVE  q < pow2[MANTISSA]
<1>1. pow2[MANTISSA] \in Nat
  BY MantissaAssumption, PowersOfTwo
<1> QED
  BY <1>1, WeightAssumption

\* int(n / d) is less than one above n / d, and more than one below never.
LEMMA QuotientBounds ==
    ASSUME NEW n \in Nat, NEW d \in Nat \ {0}
    PROVE  /\ Quotient(n, d) \in Nat
           /\ Quotient(n, d) * d < n + d
           /\ (Quotient(n, d) + 1) * d > n
<1>1. CASE n \div d < U16_MAX
  <2>1. n \div d < pow2[MANTISSA]
    BY <1>1, Division, WeightsAreExact
  <2>2. Quotient(n, d) = Truncated(n, d)
    BY <1>1 DEF Quotient
  <2> QED BY <2>1, <2>2, TruncationBounds
<1>2. CASE ~(n \div d < U16_MAX)
  <2> DEFINE q == n \div d
  <2>1. q \in Nat /\ q * d \in Nat /\ q * d <= n /\ n < q * d + d
    BY Division
  <2>2. Quotient(n, d) = q
    BY <1>2 DEF Quotient
  <2> HIDE DEF q
  <2>3. (q + 1) * d = q * d + d
    BY <2>1
  <2> QED BY <2>1, <2>2, <2>3
<1> QED
  BY <1>1, <1>2

\* More to divide never makes a smaller quotient, rounding included.
LEMMA QuotientGrows ==
    ASSUME NEW n \in Nat, NEW m \in Nat, n <= m, NEW d \in Nat \ {0}
    PROVE  Quotient(n, d) <= Quotient(m, d)
<1> DEFINE p == n \div d
           q == m \div d
<1>1. p \in Nat /\ q \in Nat /\ p <= q
  BY Division, DivisionGrows
<1>2. /\ Quotient(n, d) = IF p < U16_MAX /\ RoundsUp(n, d) THEN p + 1 ELSE p
      /\ Quotient(m, d) = IF q < U16_MAX /\ RoundsUp(m, d) THEN q + 1 ELSE q
  BY DEF Quotient, Truncated
<1>3. /\ RoundsUp(n, d) <=> ((p + 1) * d - n) * pow2[MANTISSA - BitLength(p) + 1] <= d
      /\ RoundsUp(m, d) <=> ((q + 1) * d - m) * pow2[MANTISSA - BitLength(q) + 1] <= d
  BY DEF RoundsUp
<1> HIDE DEF p, q
<1>4. CASE p < q
  BY <1>1, <1>2, <1>4
<1>5. CASE p = q
  <2>1. ASSUME p < U16_MAX, RoundsUp(n, d) PROVE RoundsUp(m, d)
    <3> DEFINE P == pow2[MANTISSA - BitLength(p) + 1]
               r == (p + 1) * d - n
               s == (p + 1) * d - m
    <3>1. P \in Nat
      BY <1>1, <2>1, RoundingPlace, WeightsAreExact
    <3>2. (p + 1) * d \in Int
      BY <1>1
    <3>3. r \in Int /\ s \in Int /\ s <= r
      BY <3>2
    <3>4. r * P <= d
      BY <1>3, <2>1
    <3> HIDE DEF P, r, s
    <3>5. s * P <= r * P
      BY <3>1, <3>3
    <3>6. s * P \in Int /\ r * P \in Int
      BY <3>1, <3>3
    <3>7. s * P <= d
      BY <3>4, <3>5, <3>6
    <3> QED
      BY <1>3, <1>5, <3>7 DEF s, P
  <2> QED
    BY <1>1, <1>2, <1>5, <2>1
<1> QED
  BY <1>1, <1>4, <1>5

\* From U16_MAX on nothing is rounded, and a whole multiple is exact.
LEMMA QuotientFull ==
    ASSUME NEW s \in Nat, NEW d \in Nat \ {0}, d <= s
    PROVE  /\ Quotient(s * U16_MAX, d) >= U16_MAX
           /\ s = d => Quotient(s * U16_MAX, d) = U16_MAX
<1> DEFINE n == s * U16_MAX
           m == d * U16_MAX
<1>1. U16_MAX \in Nat \ {0}
  BY WeightAssumption
<1>2. n \in Nat /\ m \in Nat
  BY <1>1
<1>3. m <= n
  BY <1>1
<1>4. m \div d = U16_MAX
  <2>1. U16_MAX * d = m
    BY <1>1
  <2> HIDE DEF m
  <2>2. U16_MAX * d <= m /\ m < U16_MAX * d + d
    BY <1>2, <2>1
  <2> QED BY <1>1, <1>2, <2>2, DivisionUnique
<1> HIDE DEF m, n
<1>5. Quotient(m, d) = U16_MAX
  BY <1>1, <1>4 DEF Quotient
<1>6. Quotient(m, d) <= Quotient(n, d)
  BY <1>2, <1>3, QuotientGrows
<1> QED
  BY <1>1, <1>5, <1>6 DEF m, n

LEMMA ScorePositive ==
    ASSUME NEW stake \in Int, NEW top \in Int
    PROVE  score(stake, top) \in Nat \ {0}
<1> DEFINE n == Magnitude(stake) * U16_MAX
           d == Magnitude(top)
<1>1. CASE (stake > 0 /\ top > 0) \/ (stake < 0 /\ top < 0)
  <2>1. Magnitude(stake) \in Nat /\ d \in Nat \ {0}
    BY <1>1 DEF Magnitude
  <2>2. n \in Nat
    BY <2>1, WeightAssumption
  <2>3. Quotient(n, d) \in Int
    BY <2>1, <2>2, QuotientBounds
  <2> QED
    BY <1>1, <2>3 DEF score
<1>2. CASE ~((stake > 0 /\ top > 0) \/ (stake < 0 /\ top < 0))
  BY <1>2 DEF score
<1> QED
  BY <1>1, <1>2

\* The maximum is the stake of a clean operator, but never zero.
LEMMA MaxStakeIs ==
    ASSUME NEW operators, IsOperatorList(operators), NEW faulty,
           clean(operators, faulty) # {}
    PROVE  \E i \in clean(operators, faulty) :
              /\ \A j \in clean(operators, faulty) : operators[j].stake <= operators[i].stake
              /\ max_stake(operators, faulty) =
                     IF operators[i].stake = 0 THEN 1 ELSE operators[i].stake
<1> DEFINE f == [i \in clean(operators, faulty) |-> operators[i].stake]
           stakes == {operators[i].stake : i \in clean(operators, faulty)}
<1>1. clean(operators, faulty) \in SUBSET (DOMAIN operators)
  BY DEF clean
<1>2. IsFiniteSet(clean(operators, faulty))
  BY <1>1, FS_Subset DEF IsOperatorList
<1>3. IsFiniteSet({f[i] : i \in clean(operators, faulty)})
  BY <1>2, FiniteImage
<1>4. stakes = {f[i] : i \in clean(operators, faulty)}
  OBVIOUS
<1>5. stakes \subseteq Int /\ stakes # {}
  BY <1>1 DEF IsOperatorList
<1>6. Max(stakes) \in stakes /\ \A y \in stakes : Max(stakes) >= y
  BY <1>3, <1>4, <1>5, MaxOfFinite
<1>7. PICK i \in clean(operators, faulty) : Max(stakes) = operators[i].stake
  BY <1>6
<1>8. \A j \in clean(operators, faulty) : operators[j].stake \in stakes
  OBVIOUS
<1>9. max_stake(operators, faulty) = IF Max(stakes) = 0 THEN 1 ELSE Max(stakes)
  BY DEF max_stake
<1> HIDE DEF stakes
<1>10. ASSUME NEW j \in clean(operators, faulty)
       PROVE  operators[j].stake <= operators[i].stake
  <2>1. operators[j].stake \in Int /\ operators[i].stake \in Int
    BY <1>1 DEF IsOperatorList
  <2> QED BY <1>6, <1>7, <1>8, <2>1
<1> QED
  BY <1>7, <1>9, <1>10

LEMMA MaxStakeIsInt ==
    ASSUME NEW operators, IsOperatorList(operators), NEW faulty,
           clean(operators, faulty) # {}
    PROVE  max_stake(operators, faulty) \in Int \ {0}
<1>1. PICK i \in clean(operators, faulty) :
          max_stake(operators, faulty) = IF operators[i].stake = 0 THEN 1 ELSE operators[i].stake
  BY MaxStakeIs
<1>2. operators[i].stake \in Int
  BY DEF clean, IsOperatorList
<1> QED
  BY <1>1, <1>2

\* Weights are never zero, and never beyond a u16.
LEMMA WeightInRange ==
    ASSUME NEW operators, IsOperatorList(operators), NEW faulty,
           NEW equal_weight \in BOOLEAN, NEW i \in kept(operators, faulty)
    PROVE  weight(operators, faulty, equal_weight, i) \in 1 .. U16_MAX
<1>1. i \in clean(operators, faulty) /\ operators[i].stake \in Int
  BY DEF kept, clean, IsOperatorList
<1>2. max_stake(operators, faulty) \in Int
  BY <1>1, MaxStakeIsInt
<1> DEFINE w == score(operators[i].stake, max_stake(operators, faulty))
<1>3. w \in Nat \ {0}
  BY <1>1, <1>2, ScorePositive
<1> HIDE DEF w
<1>4. clamped(w) \in 1 .. U16_MAX
  BY <1>3, WeightAssumption DEF clamped
<1>5. U16_MAX \in 1 .. U16_MAX
  BY WeightAssumption
<1> QED
  BY <1>4, <1>5 DEF weight, w

LEMMA ClampedIs ==
    ASSUME NEW w \in Nat \ {0}
    PROVE  /\ clamped(w) \in 1 .. U16_MAX
           /\ w <= U16_MAX => clamped(w) = w
           /\ w >= U16_MAX => clamped(w) = U16_MAX
  BY WeightAssumption DEF clamped

\* Up to the maximum, a larger stake never weighs less.
LEMMA ScoreGrows ==
    ASSUME NEW s \in Int, NEW t \in Int, NEW top \in Int \ {0}, s <= t, t <= top
    PROVE  clamped(score(s, top)) <= clamped(score(t, top))
<1> DEFINE v == score(s, top)
           w == score(t, top)
<1>0. U16_MAX \in Nat \ {0}
  BY WeightAssumption
<1>1. v \in Nat \ {0} /\ w \in Nat \ {0}
  BY ScorePositive
<1>2. CASE top > 0 /\ s <= 0
  <2>1. v = 1
    BY <1>2 DEF score
  <2> HIDE DEF v, w
  <2>2. clamped(v) <= clamped(w)
    BY <1>0, <1>1, <2>1, ClampedIs
  <2> QED BY <2>2 DEF v, w
<1>3. CASE top > 0 /\ s > 0
  <2> DEFINE n == s * U16_MAX
             m == t * U16_MAX
             p == Quotient(n, top)
             q == Quotient(m, top)
  <2>1. s \in Nat /\ t \in Nat /\ top \in Nat \ {0}
    BY <1>3
  <2>2. n \in Nat /\ m \in Nat /\ n <= m
    BY <1>0, <2>1
  <2>3. p <= q /\ p \in Nat /\ q \in Nat
    BY <2>1, <2>2, QuotientGrows, QuotientBounds
  <2>4. /\ v = IF p < 1 THEN 1 ELSE p
        /\ w = IF q < 1 THEN 1 ELSE q
    BY <1>3 DEF score, Magnitude
  <2> HIDE DEF v, w, p, q
  <2>5. v <= w
    BY <2>3, <2>4
  <2>6. clamped(v) <= clamped(w)
    BY <1>0, <1>1, <2>5 DEF clamped
  <2> QED BY <2>6 DEF v, w
<1>4. CASE top < 0
  <2>1. -s \in Nat /\ -t \in Nat /\ -top \in Nat \ {0} /\ -top <= -s /\ -top <= -t
    BY <1>4
  <2> DEFINE p == Quotient((-s) * U16_MAX, -top)
             q == Quotient((-t) * U16_MAX, -top)
  <2>2. Magnitude(s) = -s /\ Magnitude(t) = -t /\ Magnitude(top) = -top
    BY <1>4 DEF Magnitude
  <2>3. p >= U16_MAX /\ q >= U16_MAX /\ p \in Nat /\ q \in Nat
    <3>1. (-s) * U16_MAX \in Nat /\ (-t) * U16_MAX \in Nat
      BY <1>0, <2>1
    <3> QED BY <2>1, <3>1, QuotientFull, QuotientBounds
  <2>4. /\ v = IF p < 1 THEN 1 ELSE p
        /\ w = IF q < 1 THEN 1 ELSE q
    BY <1>4, <2>2 DEF score
  <2> HIDE DEF p, q, v, w
  <2>5. v >= U16_MAX /\ w >= U16_MAX
    BY <1>0, <1>1, <2>3, <2>4
  <2>6. clamped(v) = U16_MAX /\ clamped(w) = U16_MAX
    BY <1>1, <2>5, ClampedIs
  <2>7. clamped(v) <= clamped(w)
    BY <1>0, <2>6
  <2> QED BY <2>7 DEF v, w
<1> QED
  BY <1>2, <1>3, <1>4

\* w is the share of a stake s of which top is the largest.
IsShare(w, s, top) ==
    /\ s = top => w = U16_MAX
    /\ w = 1 \/
         /\ w * top < (s * U16_MAX) + top
         /\ (w + 1) * top > s * U16_MAX

\* Of a positive maximum, everybody has his share.
LEMMA ScoreIsShare ==
    ASSUME NEW s \in Int, NEW top \in Nat \ {0}, s <= top,
           NEW w, w = clamped(score(s, top))
    PROVE  IsShare(w, s, top)
<1> USE DEF IsShare
<1>0. U16_MAX \in Nat \ {0}
  BY WeightAssumption
<1>1. CASE s <= 0
  <2>1. score(s, top) = 1
    BY <1>1 DEF score
  <2>2. w = 1
    BY <1>0, <2>1, ClampedIs
  <2> QED BY <1>1, <2>2
<1>2. CASE s > 0
  <2> DEFINE n == s * U16_MAX
             q == Quotient(n, top)
  <2>1. s \in Nat /\ n \in Nat
    BY <1>0, <1>2
  <2>2. q \in Nat /\ q * top < n + top /\ (q + 1) * top > n
    BY <2>1, QuotientBounds
  <2>3. score(s, top) = IF q < 1 THEN 1 ELSE q
    BY <1>2 DEF score, Magnitude
  <2>4. s = top => q = U16_MAX
    BY <2>1, QuotientFull
  <2>5. n <= top * U16_MAX
    BY <1>0, <2>1
  <2> HIDE DEF n, q
  <2>6. CASE q < 1
    BY <1>0, <2>2, <2>3, <2>4, <2>6, ClampedIs
  <2>7. CASE q >= 1 /\ q <= U16_MAX
    <3>1. w = q
      BY <2>2, <2>3, <2>7, ClampedIs
    <3> QED BY <2>2, <2>4, <3>1 DEF n
  <2>8. CASE q > U16_MAX
    <3>1. w = U16_MAX
      BY <1>0, <2>2, <2>3, <2>8, ClampedIs
    <3>2. U16_MAX * top <= q * top
      BY <1>0, <2>2, <2>8
    <3>3. (U16_MAX + 1) * top = top * U16_MAX + top
      BY <1>0
    <3>4. U16_MAX * top \in Int /\ q * top \in Int /\ top * U16_MAX \in Int
      BY <1>0, <2>2
    <3>5. U16_MAX * top < n + top
      BY <2>1, <2>2, <3>2, <3>4
    <3>6. (U16_MAX + 1) * top > n
      BY <2>1, <2>5, <3>3, <3>4
    <3> QED BY <3>1, <3>5, <3>6 DEF n
  <2> QED BY <1>0, <2>2, <2>6, <2>7, <2>8
<1> QED
  BY <1>1, <1>2

\* More stake, no less weight.
LEMMA WeightsFollowStakes ==
    ASSUME NEW operators, IsOperatorList(operators), NEW faulty,
           NEW i \in kept(operators, faulty), NEW j \in kept(operators, faulty),
           operators[i].stake <= operators[j].stake
    PROVE  weight(operators, faulty, FALSE, i) <= weight(operators, faulty, FALSE, j)
<1>1. /\ i \in clean(operators, faulty) /\ operators[i].stake \in Int
      /\ j \in clean(operators, faulty) /\ operators[j].stake \in Int
  BY DEF kept, clean, IsOperatorList
<1>2. PICK k \in clean(operators, faulty) :
          /\ \A l \in clean(operators, faulty) : operators[l].stake <= operators[k].stake
          /\ max_stake(operators, faulty) =
                 IF operators[k].stake = 0 THEN 1 ELSE operators[k].stake
  BY <1>1, MaxStakeIs
<1>3. operators[k].stake \in Int /\ operators[j].stake <= operators[k].stake
  BY <1>1, <1>2 DEF clean, IsOperatorList
<1>4. max_stake(operators, faulty) \in Int \ {0}
  BY <1>1, MaxStakeIsInt
<1>5. operators[j].stake <= max_stake(operators, faulty)
  BY <1>1, <1>2, <1>3
<1> QED
  BY <1>1, <1>4, <1>5, ScoreGrows DEF weight

\* The largest stake has the full weight, every other one its share.
LEMMA WeightIsShare ==
    ASSUME NEW operators, IsOperatorList(operators), NEW faulty,
           NEW k \in clean(operators, faulty), operators[k].stake > 0,
           \A j \in clean(operators, faulty) : operators[j].stake <= operators[k].stake,
           NEW i \in kept(operators, faulty)
    PROVE  IsShare(weight(operators, faulty, FALSE, i), operators[i].stake, operators[k].stake)
<1>1. /\ i \in clean(operators, faulty) /\ operators[i].stake \in Int
      /\ operators[k].stake \in Nat \ {0}
  BY DEF kept, clean, IsOperatorList
<1>2. PICK m \in clean(operators, faulty) :
          /\ \A l \in clean(operators, faulty) : operators[l].stake <= operators[m].stake
          /\ max_stake(operators, faulty) =
                 IF operators[m].stake = 0 THEN 1 ELSE operators[m].stake
  BY <1>1, MaxStakeIs
<1>3. operators[m].stake \in Int
  BY DEF clean, IsOperatorList
<1>4. operators[m].stake = operators[k].stake
  BY <1>1, <1>2, <1>3
<1>5. max_stake(operators, faulty) = operators[k].stake
  BY <1>1, <1>2, <1>4
<1>6. weight(operators, faulty, FALSE, i) =
          clamped(score(operators[i].stake, operators[k].stake))
  BY <1>5 DEF weight
<1>7. operators[i].stake <= operators[k].stake
  BY <1>1
<1> QED
  BY <1>1, <1>6, <1>7, ScoreIsShare

-----------------------------------------------------------------------------
(* The length in front of the entries. *)

\* Eight bits make a byte.
LEMMA BytePlaces ==
    ASSUME NEW k \in Nat
    PROVE  pow2[k + 8] = 256 * pow2[k] /\ pow2[k] \in Nat \ {0}
<1>1. \A j \in Nat : pow2[j] \in Nat \ {0} /\ pow2[j + 1] = 2 * pow2[j]
  BY PowersOfTwo
<1>2. pow2[k + 1] = 2 * pow2[k]
  BY <1>1
<1>3. pow2[(k + 1) + 1] = 2 * pow2[k + 1] /\ (k + 1) + 1 = k + 2
  BY <1>1
<1>4. pow2[(k + 2) + 1] = 2 * pow2[k + 2] /\ (k + 2) + 1 = k + 3
  BY <1>1
<1>5. pow2[(k + 3) + 1] = 2 * pow2[k + 3] /\ (k + 3) + 1 = k + 4
  BY <1>1
<1>6. pow2[(k + 4) + 1] = 2 * pow2[k + 4] /\ (k + 4) + 1 = k + 5
  BY <1>1
<1>7. pow2[(k + 5) + 1] = 2 * pow2[k + 5] /\ (k + 5) + 1 = k + 6
  BY <1>1
<1>8. pow2[(k + 6) + 1] = 2 * pow2[k + 6] /\ (k + 6) + 1 = k + 7
  BY <1>1
<1>9. pow2[(k + 7) + 1] = 2 * pow2[k + 7] /\ (k + 7) + 1 = k + 8
  BY <1>1
<1> QED
  BY <1>1, <1>2, <1>3, <1>4, <1>5, <1>6, <1>7, <1>8, <1>9

LEMMA SomePowers ==
    pow2[0] = 1 /\ pow2[8] = 256 /\ pow2[24] = 16777216 /\ pow2[30] = 1073741824
<1>1. \A j \in Nat : pow2[j] \in Nat \ {0} /\ pow2[j + 1] = 2 * pow2[j]
  BY PowersOfTwo
<1>2. pow2[0] = 1
  BY PowersOfTwo
<1>3. pow2[0 + 8] = 256 * pow2[0] /\ 0 + 8 = 8
  BY BytePlaces
<1>4. pow2[8 + 8] = 256 * pow2[8] /\ 8 + 8 = 16
  BY BytePlaces
<1>5. pow2[16 + 8] = 256 * pow2[16] /\ 16 + 8 = 24
  BY BytePlaces
<1>6. pow2[24 + 8] = 256 * pow2[24] /\ 24 + 8 = 32
  BY BytePlaces
<1>7. pow2[30 + 1] = 2 * pow2[30] /\ pow2[31 + 1] = 2 * pow2[31] /\ pow2[30] \in Nat
  BY <1>1
<1>8. pow2[8] = 256 /\ pow2[16] = 65536 /\ pow2[24] = 16777216 /\ pow2[32] = 4294967296
  BY <1>2, <1>3, <1>4, <1>5, <1>6
<1> QED
  BY <1>2, <1>7, <1>8

\* The lowest n bytes of v make up v without its multiples of 2^8n.
LEMMA SumOfBytes ==
    ASSUME NEW v \in Nat, NEW n \in Nat,
           NEW f, \A i \in Nat \ {0} :
                     f[i] = ((v \div pow2[8 * (i - 1)]) % 256) * pow2[8 * (i - 1)]
    PROVE  SumFunctionOnSet(f, 1 .. n) = v - (v \div pow2[8 * n]) * pow2[8 * n]
<1> DEFINE P(m) == pow2[8 * m]
           Holds(m) == SumFunctionOnSet(f, 1 .. m) = v - (v \div P(m)) * P(m)
           Bad == {m \in Nat : ~Holds(m)}
<1>1. \A m \in Nat : P(m) \in Nat \ {0} /\ P(m + 1) = 256 * P(m)
  <2> SUFFICES ASSUME NEW m \in Nat PROVE P(m) \in Nat \ {0} /\ P(m + 1) = 256 * P(m)
    OBVIOUS
  <2>1. 8 * m \in Nat /\ 8 * (m + 1) = 8 * m + 8
    OBVIOUS
  <2> QED BY <2>1, BytePlaces
<1>2. P(0) = 1
  BY PowersOfTwo
<1>3. \A i \in Nat \ {0} : f[i] = ((v \div P(i - 1)) % 256) * P(i - 1)
  OBVIOUS
<1> HIDE DEF P
<1>4. \A i \in Nat \ {0} : f[i] \in Int
  <2> SUFFICES ASSUME NEW i \in Nat \ {0} PROVE f[i] \in Int
    OBVIOUS
  <2>1. P(i - 1) \in Nat \ {0}
    BY <1>1
  <2>2. v \div P(i - 1) \in Nat
    BY <2>1, Division
  <2>3. (v \div P(i - 1)) % 256 \in Nat
    BY <2>2
  <2> QED BY <1>3, <2>1, <2>3
<1>5. Bad = {}
  <2> SUFFICES ASSUME Bad # {} PROVE FALSE
    OBVIOUS
  <2>1. Bad \subseteq Nat
    OBVIOUS
  <2> HIDE DEF Bad
  <2>2. PICK m \in Bad : \A k \in Bad : m <= k
    BY <2>1, MinimalNat
  <2>3. m \in Nat /\ ~Holds(m)
    BY <2>2 DEF Bad
  <2>4. m # 0
    <3>1. 1 .. 0 = {}
      OBVIOUS
    <3>2. SumFunctionOnSet(f, 1 .. 0) = 0
      BY <3>1, SumOfNone
    <3>3. v - (v \div 1) * 1 = 0
      OBVIOUS
    <3> QED BY <1>2, <2>3, <3>2, <3>3
  <2> DEFINE k == m - 1
             p == P(k)
             a == v \div p
             c == a \div 256
             S == SumFunctionOnSet(f, 1 .. k)
  <2>5. k \in Nat /\ k + 1 = m /\ k < m /\ p \in Nat \ {0} /\ P(m) = 256 * p
    <3>1. k \in Nat /\ k + 1 = m /\ k < m
      BY <2>3, <2>4
    <3> HIDE DEF k
    <3>2. P(k) \in Nat \ {0} /\ P(k + 1) = 256 * P(k)
      BY <1>1, <3>1
    <3> QED BY <3>1, <3>2
  <2>6. S = v - a * p
    BY <2>2, <2>3, <2>5 DEF Bad
  <2>7. a \in Nat /\ a * p \in Nat /\ a * p <= v /\ v < a * p + p
    <3> HIDE DEF p
    <3> QED BY <2>5, Division
  <2>8. c \in Nat /\ a = (256 * c) + (a % 256) /\ a % 256 \in 0 .. 255
    <3> HIDE DEF a
    <3> QED BY <2>7
  <2>9. SumFunctionOnSet(f, 1 .. k + 1) = S + f[k + 1]
    BY <1>4, <2>5, SumPrefix
  <2>10. f[m] = (a % 256) * p
    BY <1>3, <2>3, <2>4
  <2> HIDE DEF S, a, p, k
  <2> DEFINE d == a % 256
             e == d * p
             g == c * (256 * p)
  <2>11. c \in Nat /\ d \in 0 .. 255 /\ a = 256 * c + d
    BY <2>8
  <2> HIDE DEF c, d
  <2>12. a * p = (256 * c + d) * p
    BY <2>11
  <2>13. (256 * c + d) * p = c * (256 * p) + d * p
    BY <2>5, <2>11
  <2>14. a * p = g + e /\ e \in Nat /\ g \in Nat
    BY <2>5, <2>11, <2>12, <2>13
  <2>15. e + p <= 256 * p
    <3>1. (d + 1) * p <= 256 * p
      BY <2>5, <2>11
    <3>2. (d + 1) * p = d * p + p
      BY <2>5, <2>11
    <3> QED BY <3>1, <3>2
  <2>16. 256 * p \in Nat \ {0}
    BY <2>5
  <2>17. f[m] = e
    BY <2>10 DEF d
  <2> HIDE DEF e, g
  <2>18. g <= v /\ v < g + 256 * p
    BY <2>5, <2>7, <2>14, <2>15, <2>16
  <2>19. v \div (256 * p) = c
    BY <2>11, <2>16, <2>18, DivisionUnique DEF g
  <2>20. SumFunctionOnSet(f, 1 .. m) = (v - a * p) + e
    BY <2>5, <2>6, <2>9, <2>17
  <2>21. (v - a * p) + e = v - g
    BY <2>14
  <2> QED BY <2>3, <2>5, <2>19, <2>20, <2>21 DEF g
<1> QED BY <1>5 DEF P

\* What fits into n bytes is read back from them.
LEMMA BytesReadBack ==
    ASSUME NEW v \in Nat, NEW n \in Nat, v < pow2[8 * n],
           NEW s, DOMAIN s = 1 .. n, \A i \in 1 .. n : s[i] = LittleEndian(v, n)[i]
    PROVE  LittleEndianValue(s) = v
<1> DEFINE e == [i \in 1 .. n |-> s[i] * pow2[8 * (i - 1)]]
           f == [i \in Nat \ {0} |-> ((v \div pow2[8 * (i - 1)]) % 256) * pow2[8 * (i - 1)]]
<1>1. LittleEndianValue(s) = SumFunctionOnSet(e, 1 .. n)
  BY DEF LittleEndianValue, SumFunction
<1>2. \A i \in 1 .. n : e[i] = f[i] /\ f[i] \in Int
  <2> SUFFICES ASSUME NEW i \in 1 .. n PROVE e[i] = f[i] /\ f[i] \in Int
    OBVIOUS
  <2>1. i \in Nat \ {0} /\ 8 * (i - 1) \in Nat
    OBVIOUS
  <2>2. s[i] = (v \div pow2[8 * (i - 1)]) % 256
    BY DEF LittleEndian
  <2>3. pow2[8 * (i - 1)] \in Nat \ {0}
    BY <2>1, PowersOfTwo
  <2>4. v \div pow2[8 * (i - 1)] \in Nat
    BY <2>3, Division
  <2>5. (v \div pow2[8 * (i - 1)]) % 256 \in Nat
    BY <2>4
  <2> QED BY <2>1, <2>2, <2>3, <2>5
<1>3. \A i \in Nat \ {0} : f[i] = ((v \div pow2[8 * (i - 1)]) % 256) * pow2[8 * (i - 1)]
  OBVIOUS
<1> HIDE DEF e, f
<1>4. SumFunctionOnSet(f, 1 .. n) = v - (v \div pow2[8 * n]) * pow2[8 * n]
  BY <1>3, SumOfBytes
<1>5. IsFiniteSet(1 .. n)
  BY FiniteInterval
<1>6. SumFunctionOnSet(e, 1 .. n) = SumFunctionOnSet(f, 1 .. n)
  BY <1>2, <1>5, SumAgrees
<1>7. pow2[8 * n] \in Nat \ {0}
  <2>1. 8 * n \in Nat
    OBVIOUS
  <2> QED BY <2>1, PowersOfTwo
<1>8. v \div pow2[8 * n] = 0
  BY <1>7, DivisionUnique
<1> QED BY <1>1, <1>4, <1>6, <1>7, <1>8

\* One element, and those after it.
LEMMA Joined ==
    ASSUME NEW S, NEW t \in Seq(S), NEW s \in Seq(S), NEW n \in Nat, Len(t) = 1, Len(s) = n
    PROVE  /\ t \o s \in Seq(S)
           /\ Len(t \o s) = n + 1
           /\ (t \o s)[1] = t[1]
           /\ \A i \in 1 .. n : (t \o s)[i + 1] = s[i]
<1>1. /\ t \o s \in Seq(S)
      /\ Len(t \o s) = Len(t) + Len(s)
      /\ \A i \in 1 .. Len(t) + Len(s) :
            (t \o s)[i] = IF i <= Len(t) THEN t[i] ELSE s[i - Len(t)]
  BY ConcatProperties
<1> DEFINE u == t \o s
<1>2. /\ u \in Seq(S)
      /\ Len(u) = 1 + n
      /\ \A i \in 1 .. 1 + n : u[i] = IF i <= 1 THEN t[i] ELSE s[i - 1]
  BY <1>1
<1> HIDE DEF u
<1>3. \A i \in 1 .. n : i + 1 \in 1 .. 1 + n /\ ~(i + 1 <= 1) /\ (i + 1) - 1 = i
  OBVIOUS
<1>4. \A i \in 1 .. n : u[i + 1] = s[i]
  BY <1>2, <1>3
<1>5. 1 \in 1 .. 1 + n
  OBVIOUS
<1>6. u[1] = t[1]
  BY <1>2, <1>5
<1>7. Len(u) = n + 1
  BY <1>2
<1> QED
  BY <1>2, <1>4, <1>6, <1>7 DEF u

\* A head goes in front.
LEMMA Prepended ==
    ASSUME NEW S, NEW a \in S, NEW s \in Seq(S), NEW n \in Nat, Len(s) = n,
           NEW u, u = <<a>> \o s
    PROVE  /\ u \in Seq(S) /\ Len(u) = n + 1
           /\ u[1] = a
           /\ \A i \in 1 .. n : u[i + 1] = s[i]
<1> DEFINE t == <<a>>
<1>1. t \in Seq(S) /\ Len(t) = 1 /\ t[1] = a
  OBVIOUS
<1>2. u = t \o s
  OBVIOUS
<1> HIDE DEF t
<1> QED
  BY <1>1, <1>2, Joined

\* What is behind the head.
LEMMA BehindHead ==
    ASSUME NEW S, NEW s \in Seq(S), NEW n \in Nat, Len(s) = n + 1
    PROVE  /\ DOMAIN SubSeq(s, 2, n + 1) = 1 .. n
           /\ \A i \in 1 .. n : SubSeq(s, 2, n + 1)[i] = s[i + 1]
  OBVIOUS

\* A byte, and the n bytes of a number behind it.
Framed(buf, a, v, n) == buf = <<a>> \o LittleEndian(v, n)

LEMMA HeadAndBytes ==
    ASSUME NEW a \in Nat, NEW v \in Nat, NEW n \in Nat, v < pow2[8 * n],
           NEW buf, Framed(buf, a, v, n)
    PROVE  /\ Len(buf) = n + 1
           /\ buf[1] = a
           /\ LittleEndianValue(SubSeq(buf, 2, n + 1)) = v
<1> DEFINE bytes == LittleEndian(v, n)
           tail == SubSeq(buf, 2, n + 1)
<1>1. bytes \in Seq(Nat) /\ Len(bytes) = n
  <2>1. \A i \in 1 .. n : (v \div pow2[8 * (i - 1)]) % 256 \in Nat
    <3> SUFFICES ASSUME NEW i \in 1 .. n PROVE (v \div pow2[8 * (i - 1)]) % 256 \in Nat
      OBVIOUS
    <3>1. 8 * (i - 1) \in Nat
      OBVIOUS
    <3>2. pow2[8 * (i - 1)] \in Nat \ {0}
      BY <3>1, PowersOfTwo
    <3>3. v \div pow2[8 * (i - 1)] \in Nat
      BY <3>2, Division
    <3> QED BY <3>3
  <2> QED BY <2>1 DEF LittleEndian
<1> HIDE DEF bytes
<1>2. buf = <<a>> \o bytes
  BY DEF bytes, Framed
<1>3. /\ Len(buf) = n + 1 /\ buf \in Seq(Nat) /\ buf[1] = a
      /\ \A i \in 1 .. n : buf[i + 1] = bytes[i]
  BY <1>1, <1>2, Prepended
<1>4. DOMAIN tail = 1 .. n /\ \A i \in 1 .. n : tail[i] = buf[i + 1]
  BY <1>3, BehindHead
<1> HIDE DEF tail
<1>5. \A i \in 1 .. n : tail[i] = LittleEndian(v, n)[i]
  BY <1>3, <1>4 DEF bytes
<1>6. LittleEndianValue(tail) = v
  BY <1>4, <1>5, BytesReadBack
<1> QED BY <1>3, <1>6 DEF tail

\* A compact integer is read back, whatever form it was written in.
LEMMA CompactReadBack ==
    ASSUME NEW v \in Nat
    PROVE  decode_compact(encode_compact(v)) = <<v, Len(encode_compact(v))>>
<1> DEFINE buf == encode_compact(v)
           h == v \div 64
           l == v % 64
<1>1. h \in Nat /\ l \in 0 .. 63 /\ v = 64 * h + l
  OBVIOUS
<1> DEFINE first(mode) == l * 4 + mode
<1>2. \A mode \in 0 .. 3 :
         first(mode) \in Nat /\ first(mode) % 4 = mode /\ first(mode) \div 4 = l
  BY <1>1
<1>3. \A mode \in 0 .. 3, n \in Nat :
         Framed(WithMode(v, mode, n + 1), first(mode), h, n)
  <2> SUFFICES ASSUME NEW mode \in 0 .. 3, NEW n \in Nat
               PROVE  Framed(WithMode(v, mode, n + 1), first(mode), h, n)
    OBVIOUS
  <2>1. (n + 1) - 1 = n
    OBVIOUS
  <2> QED BY <2>1 DEF WithMode, Framed
<1> HIDE DEF h, l, first
<1>4. CASE v < 64
  <2>1. buf = WithMode(v, 0, 1)
    BY <1>4 DEF encode_compact
  <2>2. h = 0 /\ l = v
    BY <1>1, <1>4
  <2>3. Framed(buf, first(0), h, 0)
    <3>1. 0 + 1 = 1
      OBVIOUS
    <3> QED BY <1>3, <2>1, <3>1
  <2> HIDE DEF buf
  <2>4. PICK n \in Nat : n = 0
    OBVIOUS
  <2>5. Len(buf) = n + 1 /\ buf[1] = first(0) /\ LittleEndianValue(SubSeq(buf, 2, n + 1)) = h
    <3>1. h < pow2[8 * n]
      BY <2>2, <2>4, SomePowers
    <3>2. Framed(buf, first(0), h, n) /\ first(0) \in Nat /\ h \in Nat
      BY <1>1, <1>2, <2>3, <2>4
    <3> QED BY <3>1, <3>2, HeadAndBytes
  <2>6. buf[1] % 4 = 0 /\ buf[1] \div 4 = v
    BY <1>2, <2>2, <2>5
  <2>7. decode_compact(buf) = <<v, 1>>
    BY <2>6 DEF decode_compact
  <2>8. decode_compact(buf) = <<v, Len(buf)>>
    BY <2>4, <2>5, <2>7
  <2> QED BY <2>8 DEF buf
<1>5. CASE 64 <= v /\ v < 16384
  <2>1. buf = WithMode(v, 1, 2)
    BY <1>5 DEF encode_compact
  <2>2. h < 256
    BY <1>1, <1>5
  <2>3. Framed(buf, first(1), h, 1)
    <3>1. 1 + 1 = 2
      OBVIOUS
    <3> QED BY <1>3, <2>1, <3>1
  <2> HIDE DEF buf
  <2>4. PICK n \in Nat : n = 1
    OBVIOUS
  <2>5. Len(buf) = n + 1 /\ buf[1] = first(1) /\ LittleEndianValue(SubSeq(buf, 2, n + 1)) = h
    <3>1. h < pow2[8 * n]
      BY <2>2, <2>4, SomePowers
    <3>2. Framed(buf, first(1), h, n) /\ first(1) \in Nat /\ h \in Nat
      BY <1>1, <1>2, <2>3, <2>4
    <3> QED BY <3>1, <3>2, HeadAndBytes
  <2>6. buf[1] % 4 = 1 /\ buf[1] \div 4 = l
    BY <1>2, <2>5
  <2>7. decode_compact(buf) = <<l + 64 * h, 2>>
    BY <2>4, <2>5, <2>6 DEF decode_compact
  <2>8. decode_compact(buf) = <<v, Len(buf)>>
    BY <1>1, <2>4, <2>5, <2>7
  <2> QED BY <2>8 DEF buf
<1>6. CASE 16384 <= v /\ v < 1073741824
  <2>1. buf = WithMode(v, 2, 4)
    BY <1>6 DEF encode_compact
  <2>2. h < 16777216
    BY <1>1, <1>6
  <2>3. Framed(buf, first(2), h, 3)
    <3>1. 3 + 1 = 4
      OBVIOUS
    <3> QED BY <1>3, <2>1, <3>1
  <2> HIDE DEF buf
  <2>4. PICK n \in Nat : n = 3
    OBVIOUS
  <2>5. Len(buf) = n + 1 /\ buf[1] = first(2) /\ LittleEndianValue(SubSeq(buf, 2, n + 1)) = h
    <3>1. h < pow2[8 * n]
      BY <2>2, <2>4, SomePowers
    <3>2. Framed(buf, first(2), h, n) /\ first(2) \in Nat /\ h \in Nat
      BY <1>1, <1>2, <2>3, <2>4
    <3> QED BY <3>1, <3>2, HeadAndBytes
  <2>6. buf[1] % 4 = 2 /\ buf[1] \div 4 = l
    BY <1>2, <2>5
  <2>7. decode_compact(buf) = <<l + 64 * h, 4>>
    BY <2>4, <2>5, <2>6 DEF decode_compact
  <2>8. decode_compact(buf) = <<v, Len(buf)>>
    BY <1>1, <2>4, <2>5, <2>7
  <2> QED BY <2>8 DEF buf
<1>7. CASE 1073741824 <= v
  <2> DEFINE n == (BitLength(v) + 7) \div 8
             a == (n - 4) * 4 + 3
  <2>1. Framed(buf, a, v, n)
    BY <1>7 DEF encode_compact, Framed
  <2>2. bits[v] \in Nat /\ v < pow2[bits[v]] /\ BitLength(v) = bits[v]
    BY BitsUnfold, BitsBound DEF BitLength
  <2>3. bits[v] >= 31
    <3> SUFFICES ASSUME bits[v] <= 30 PROVE FALSE
      BY <2>2
    <3>1. pow2[bits[v]] <= pow2[30] /\ pow2[bits[v]] \in Nat
      BY <2>2, PowersGrow, PowersOfTwo
    <3> QED BY <1>7, <2>2, <3>1, SomePowers
  <2>4. n \in Nat /\ n >= 4 /\ bits[v] <= 8 * n
    BY <2>2, <2>3
  <2>5. v < pow2[8 * n]
    <3>1. 8 * n \in Nat
      BY <2>4
    <3>2. pow2[bits[v]] <= pow2[8 * n] /\ pow2[bits[v]] \in Nat /\ pow2[8 * n] \in Nat
      BY <2>2, <2>4, <3>1, PowersGrow, PowersOfTwo
    <3> QED BY <2>2, <3>2
  <2> HIDE DEF n
  <2>6. a \in Nat /\ a % 4 = 3 /\ a \div 4 + 4 = n
    BY <2>4
  <2> HIDE DEF a, buf
  <2>7. Len(buf) = n + 1 /\ buf[1] = a /\ LittleEndianValue(SubSeq(buf, 2, n + 1)) = v
    BY <2>1, <2>4, <2>5, <2>6, HeadAndBytes, SMTT(40)
  <2>8. decode_compact(buf) = <<v, n + 1>>
    BY <2>6, <2>7 DEF decode_compact
  <2>9. decode_compact(buf) = <<v, Len(buf)>>
    BY <2>7, <2>8
  <2> QED BY <2>9 DEF buf
<1> QED
  BY <1>4, <1>5, <1>6, <1>7
=============================================================================
