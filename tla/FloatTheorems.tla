---------------------------- MODULE FloatTheorems ---------------------------
(***************************************************************************)
(* Powers of two, integer division, and how far int() of a rounded float   *)
(* can be from the number that was rounded.                                *)
(***************************************************************************)
EXTENDS Floats, SumTheorems

-----------------------------------------------------------------------------
(* Powers of two and the length of a number in bits. *)

LEMMA PowersOfTwo ==
    /\ pow2 \in [Nat -> Nat \ {0}]
    /\ pow2[0] = 1
    /\ \A k \in Nat : pow2[k + 1] = 2 * pow2[k]
<1> DEFINE V == Nat \ {0}
           pred == [n \in Nat |-> IF n = 0 THEN 0 ELSE n - 1]
           step == [p \in Nat \X V |-> 2 * p[2]]
           Doubles(g) == g = [k \in Nat |-> IF k = 0 THEN 1 ELSE 2 * g[k - 1]]
<1>1. pred \in [Nat -> Nat] /\ \A n \in Nat : n # 0 => pred[n] < n
  OBVIOUS
<1>2. step \in [Nat \X V -> V] /\ 1 \in V
  OBVIOUS
<1>3. \A n \in Nat : n # 0 => pred[n] = n - 1
  OBVIOUS
<1>4. \A n \in Nat, v \in V : step[<<n, v>>] = 2 * v
  OBVIOUS
<1> HIDE DEF pred, step, V
<1>5. PICK g \in [Nat -> V] : Follows(g, Nat, 0, 1, pred, step)
  BY <1>1, <1>2, NatRecursion
<1>6. \A n \in Nat : g[n] = IF n = 0 THEN 1 ELSE step[<<n, g[pred[n]]>>]
  BY <1>5 DEF Follows
<1>7. ASSUME NEW n \in Nat, n # 0 PROVE g[n] = 2 * g[n - 1]
  <2>1. g[pred[n]] \in V
    BY <1>1
  <2> QED BY <1>3, <1>4, <1>6, <1>7, <2>1
<1>8. \A n \in Nat : g[n] = IF n = 0 THEN 1 ELSE 2 * g[n - 1]
  BY <1>6, <1>7
<1>9. Doubles(g)
  BY <1>8
<1>10. pow2 = CHOOSE h : Doubles(h)
  BY DEF pow2
<1> HIDE DEF Doubles
<1>11. Doubles(pow2)
  BY <1>9, <1>10
<1> USE DEF Doubles
<1>12. \A n \in Nat : pow2[n] = IF n = 0 THEN 1 ELSE 2 * pow2[n - 1]
  BY <1>11
<1> DEFINE Bad == {n \in Nat : pow2[n] # g[n]}
<1>13. Bad = {}
  <2> SUFFICES ASSUME Bad # {} PROVE FALSE
    OBVIOUS
  <2>1. Bad \subseteq Nat
    OBVIOUS
  <2> HIDE DEF Bad
  <2>2. PICK n \in Bad : \A m \in Bad : n <= m
    BY <2>1, MinimalNat
  <2>3. n \in Nat /\ pow2[n] # g[n]
    BY <2>2 DEF Bad
  <2>4. CASE n = 0
    BY <1>8, <1>12, <2>3, <2>4
  <2>5. CASE n # 0
    <3>1. n - 1 \in Nat /\ n - 1 \notin Bad
      BY <2>2, <2>3, <2>5
    <3>2. pow2[n - 1] = g[n - 1]
      BY <3>1 DEF Bad
    <3> QED BY <1>8, <1>12, <2>3, <2>5, <3>2
  <2> QED BY <2>4, <2>5
<1>14. DOMAIN pow2 = Nat /\ DOMAIN g = Nat
  <2>1. pow2 = [k \in Nat |-> IF k = 0 THEN 1 ELSE 2 * pow2[k - 1]]
    BY <1>11
  <2> QED BY <2>1
<1>15. pow2 \in [Nat -> V]
  <2>1. pow2 = [k \in Nat |-> pow2[k]]
    BY <1>11
  <2>2. \A n \in Nat : pow2[n] \in V
    BY <1>13
  <2> QED BY <2>1, <2>2
<1>16. ASSUME NEW k \in Nat PROVE pow2[k + 1] = 2 * pow2[k]
  <2>1. k + 1 \in Nat /\ k + 1 # 0 /\ (k + 1) - 1 = k
    OBVIOUS
  <2> QED BY <1>12, <2>1
<1> QED BY <1>12, <1>15, <1>16 DEF V

\* A larger exponent, a larger power.
LEMMA PowersGrow ==
    ASSUME NEW j \in Nat, NEW k \in Nat, j <= k
    PROVE  pow2[j] <= pow2[k]
<1> DEFINE Bad == {n \in Nat : j <= n /\ ~(pow2[j] <= pow2[n])}
<1>1. Bad = {}
  <2> SUFFICES ASSUME Bad # {} PROVE FALSE
    OBVIOUS
  <2>1. Bad \subseteq Nat
    OBVIOUS
  <2> HIDE DEF Bad
  <2>2. PICK n \in Bad : \A m \in Bad : n <= m
    BY <2>1, MinimalNat
  <2>3. n \in Nat /\ j <= n /\ ~(pow2[j] <= pow2[n])
    BY <2>2 DEF Bad
  <2>4. n # j
    BY <2>3, PowersOfTwo
  <2>5. n - 1 \in Nat /\ j <= n - 1 /\ n - 1 \notin Bad
    BY <2>2, <2>3, <2>4
  <2>6. pow2[j] <= pow2[n - 1]
    BY <2>5 DEF Bad
  <2>7. pow2[(n - 1) + 1] = 2 * pow2[n - 1] /\ (n - 1) + 1 = n
    BY <2>3, <2>5, PowersOfTwo
  <2>8. pow2[n - 1] \in Nat /\ pow2[j] \in Nat
    BY <2>5, PowersOfTwo
  <2> QED BY <2>3, <2>6, <2>7, <2>8
<1> QED BY <1>1

LEMMA BitsUnfold ==
    /\ bits \in [Nat -> Nat]
    /\ bits[0] = 0
    /\ \A n \in Nat \ {0} : bits[n] = 1 + bits[n \div 2]
<1> DEFINE pred == [n \in Nat |-> n \div 2]
           step == [p \in Nat \X Nat |-> 1 + p[2]]
           Halves(g) == g = [n \in Nat |-> IF n = 0 THEN 0 ELSE 1 + g[n \div 2]]
<1>1. \A n \in Nat : n \div 2 \in Nat /\ (n # 0 => n \div 2 < n)
  OBVIOUS
<1>2. pred \in [Nat -> Nat] /\ \A n \in Nat : n # 0 => pred[n] < n
  BY <1>1
<1>3. step \in [Nat \X Nat -> Nat] /\ 0 \in Nat
  OBVIOUS
<1>4. \A n \in Nat : pred[n] = n \div 2
  OBVIOUS
<1>5. \A n \in Nat, v \in Nat : step[<<n, v>>] = 1 + v
  OBVIOUS
<1> HIDE DEF pred, step
<1>6. PICK g \in [Nat -> Nat] : Follows(g, Nat, 0, 0, pred, step)
  BY <1>2, <1>3, NatRecursion
<1>7. \A n \in Nat : g[n] = IF n = 0 THEN 0 ELSE step[<<n, g[pred[n]]>>]
  BY <1>6 DEF Follows
<1>8. ASSUME NEW n \in Nat PROVE g[n] = IF n = 0 THEN 0 ELSE 1 + g[n \div 2]
  <2>1. pred[n] \in Nat /\ g[pred[n]] \in Nat
    BY <1>2
  <2>2. step[<<n, g[pred[n]]>>] = 1 + g[pred[n]]
    BY <1>5, <2>1
  <2> QED BY <1>4, <1>7, <2>2
<1>9. Halves(g)
  BY <1>8
<1>10. bits = CHOOSE h : Halves(h)
  BY DEF bits
<1> HIDE DEF Halves
<1>11. Halves(bits)
  BY <1>9, <1>10
<1> USE DEF Halves
<1>12. \A n \in Nat : bits[n] = IF n = 0 THEN 0 ELSE 1 + bits[n \div 2]
  BY <1>11
<1> DEFINE Bad == {n \in Nat : bits[n] # g[n]}
<1>13. Bad = {}
  <2> SUFFICES ASSUME Bad # {} PROVE FALSE
    OBVIOUS
  <2>1. Bad \subseteq Nat
    OBVIOUS
  <2> HIDE DEF Bad
  <2>2. PICK n \in Bad : \A m \in Bad : n <= m
    BY <2>1, MinimalNat
  <2>3. n \in Nat /\ bits[n] # g[n]
    BY <2>2 DEF Bad
  <2>4. CASE n = 0
    BY <1>8, <1>12, <2>3, <2>4
  <2>5. CASE n # 0
    <3>1. n \div 2 \in Nat /\ n \div 2 < n
      BY <1>1, <2>3, <2>5
    <3>2. n \div 2 \notin Bad
      BY <2>2, <2>3, <3>1
    <3>3. bits[n \div 2] = g[n \div 2]
      BY <3>1, <3>2 DEF Bad
    <3> QED BY <1>8, <1>12, <2>3, <2>5, <3>3
  <2> QED BY <2>4, <2>5
<1>14. bits \in [Nat -> Nat]
  <2>1. bits = [n \in Nat |-> bits[n]]
    BY <1>11
  <2>2. \A n \in Nat : bits[n] \in Nat
    BY <1>13
  <2> QED BY <2>1, <2>2
<1> QED BY <1>12, <1>14

\* The length of n in bits is the least k with n < 2^k.
LEMMA BitsBound ==
    ASSUME NEW n \in Nat
    PROVE  /\ n < pow2[bits[n]]
           /\ n # 0 => bits[n] # 0 /\ pow2[bits[n] - 1] <= n
<1> DEFINE Holds(m) == /\ m < pow2[bits[m]]
                       /\ m # 0 => bits[m] # 0 /\ pow2[bits[m] - 1] <= m
           Bad == {m \in Nat : ~Holds(m)}
<1>1. Bad = {}
  <2> SUFFICES ASSUME Bad # {} PROVE FALSE
    OBVIOUS
  <2>1. Bad \subseteq Nat
    OBVIOUS
  <2> HIDE DEF Bad
  <2>2. PICK m \in Bad : \A k \in Bad : m <= k
    BY <2>1, MinimalNat
  <2>3. m \in Nat /\ ~Holds(m)
    BY <2>2 DEF Bad
  <2>4. m # 0
    BY <2>3, BitsUnfold, PowersOfTwo
  <2> DEFINE h == m \div 2
             b == bits[h]
  <2>5. h \in Nat /\ h < m /\ 2 * h <= m /\ m < 2 * h + 2
    BY <2>3, <2>4
  <2>6. Holds(h)
    <3>1. h \notin Bad
      BY <2>2, <2>3, <2>5
    <3> QED BY <2>5, <3>1 DEF Bad
  <2>7. bits[m] = 1 + b /\ b \in Nat
    BY <2>3, <2>4, <2>5, BitsUnfold
  <2>8. pow2[b + 1] = 2 * pow2[b] /\ pow2[b] \in Nat
    BY <2>7, PowersOfTwo
  <2>9. 1 + b = b + 1 /\ (1 + b) - 1 = b /\ 1 + b # 0
    BY <2>7
  <2>10. h < pow2[b]
    BY <2>6
  <2> HIDE DEF h
  <2>11. m < 2 * pow2[b]
    BY <2>3, <2>5, <2>8, <2>10
  <2>12. pow2[b] <= m
    <3>1. CASE h = 0
      <4>1. b = 0
        BY <3>1, BitsUnfold
      <4> QED BY <2>3, <2>4, <4>1, PowersOfTwo
    <3>2. CASE h # 0
      <4>1. b # 0 /\ pow2[b - 1] <= h
        BY <2>6, <3>2
      <4>2. b - 1 \in Nat /\ (b - 1) + 1 = b
        BY <2>7, <4>1
      <4>3. pow2[b] = 2 * pow2[b - 1] /\ pow2[b - 1] \in Nat
        BY <4>2, PowersOfTwo
      <4> HIDE DEF b
      <4> QED BY <2>3, <2>5, <4>1, <4>3
    <3> QED BY <3>1, <3>2
  <2> QED BY <2>3, <2>7, <2>8, <2>9, <2>11, <2>12
<1> QED BY <1>1

\* Exponents add up.
LEMMA PowersMultiply ==
    ASSUME NEW j \in Nat, NEW k \in Nat
    PROVE  pow2[j + k] = pow2[j] * pow2[k]
<1> DEFINE Bad == {n \in Nat : pow2[j + n] # pow2[j] * pow2[n]}
<1>1. Bad = {}
  <2> SUFFICES ASSUME Bad # {} PROVE FALSE
    OBVIOUS
  <2>1. Bad \subseteq Nat
    OBVIOUS
  <2> HIDE DEF Bad
  <2>2. PICK n \in Bad : \A m \in Bad : n <= m
    BY <2>1, MinimalNat
  <2>3. n \in Nat /\ pow2[j + n] # pow2[j] * pow2[n]
    BY <2>2 DEF Bad
  <2>4. pow2[j] \in Nat
    BY PowersOfTwo
  <2>5. n # 0
    BY <2>3, <2>4, PowersOfTwo
  <2>6. n - 1 \in Nat /\ n - 1 \notin Bad
    BY <2>2, <2>3, <2>5
  <2>7. pow2[j + (n - 1)] = pow2[j] * pow2[n - 1]
    BY <2>6 DEF Bad
  <2>8. /\ (n - 1) + 1 = n /\ (j + (n - 1)) + 1 = j + n /\ j + (n - 1) \in Nat
    BY <2>3, <2>6
  <2>9. pow2[n] = 2 * pow2[n - 1] /\ pow2[j + n] = 2 * pow2[j + (n - 1)]
    BY <2>6, <2>8, PowersOfTwo
  <2>10. pow2[n - 1] \in Nat
    BY <2>6, PowersOfTwo
  <2>11. pow2[j] * (2 * pow2[n - 1]) = 2 * (pow2[j] * pow2[n - 1])
    BY <2>4, <2>10
  <2> QED BY <2>3, <2>7, <2>9, <2>11
<1> QED BY <1>1

-----------------------------------------------------------------------------
(* Integer division. *)

LEMMA Division ==
    ASSUME NEW n \in Nat, NEW d \in Nat \ {0}
    PROVE  /\ n \div d \in Nat
           /\ (n \div d) * d \in Nat
           /\ (n \div d) * d <= n
           /\ n < (n \div d) * d + d
  OBVIOUS

\* The quotient is the only number with these bounds.
LEMMA DivisionUnique ==
    ASSUME NEW n \in Nat, NEW d \in Nat \ {0}, NEW q \in Nat,
           q * d <= n, n < q * d + d
    PROVE  n \div d = q
<1> DEFINE p == n \div d
<1>1. p \in Nat /\ p * d \in Nat /\ p * d <= n /\ n < p * d + d
  BY Division
<1> HIDE DEF p
<1>2. q * d \in Nat
  OBVIOUS
<1>3. ASSUME p < q PROVE FALSE
  <2>1. (p + 1) * d <= q * d
    BY <1>1, <1>3
  <2>2. (p + 1) * d = p * d + d
    BY <1>1
  <2> QED BY <1>1, <1>2, <2>1, <2>2
<1>4. ASSUME q < p PROVE FALSE
  <2>1. (q + 1) * d <= p * d
    BY <1>1, <1>4
  <2>2. (q + 1) * d = q * d + d
    OBVIOUS
  <2> QED BY <1>1, <1>2, <2>1, <2>2
<1>5. p = q
  BY <1>1, <1>3, <1>4
<1> QED
  BY <1>5 DEF p

\* More to divide, a larger quotient.
LEMMA DivisionGrows ==
    ASSUME NEW n \in Nat, NEW m \in Nat, n <= m, NEW d \in Nat \ {0}
    PROVE  n \div d <= m \div d
<1> DEFINE p == n \div d
           q == m \div d
<1>1. p \in Nat /\ p * d \in Nat /\ p * d <= n
  BY Division
<1>2. q \in Nat /\ q * d \in Nat /\ m < q * d + d
  BY Division
<1> HIDE DEF p, q
<1>3. ASSUME q < p PROVE FALSE
  <2>1. (q + 1) * d <= p * d
    BY <1>1, <1>2, <1>3
  <2>2. (q + 1) * d = q * d + d
    BY <1>2
  <2> QED BY <1>1, <1>2, <2>1, <2>2
<1>4. p <= q
  BY <1>1, <1>2, <1>3
<1> QED
  BY <1>4 DEF p, q

-----------------------------------------------------------------------------
(* Truncation. *)

\* A number below 2^MANTISSA has at most MANTISSA bits, so that a float of its
\* size still has a bit below the units.
LEMMA RoundingPlace ==
    ASSUME NEW q \in Nat, q < pow2[MANTISSA]
    PROVE  /\ bits[q] \in Nat /\ bits[q] <= MANTISSA
           /\ pow2[MANTISSA - BitLength(q) + 1] \in Nat
           /\ pow2[MANTISSA - BitLength(q) + 1] >= 2
<1>1. bits[q] \in Nat /\ MANTISSA \in Nat
  BY BitsUnfold, MantissaAssumption
<1>2. ASSUME MANTISSA < bits[q] PROVE FALSE
  <2>1. q # 0
    BY <1>1, <1>2, BitsUnfold
  <2>2. bits[q] - 1 \in Nat /\ MANTISSA <= bits[q] - 1 /\ pow2[bits[q] - 1] <= q
    BY <1>1, <1>2, <2>1, BitsBound
  <2>3. pow2[MANTISSA] <= pow2[bits[q] - 1]
    BY <1>1, <2>2, PowersGrow
  <2>4. pow2[MANTISSA] \in Nat /\ pow2[bits[q] - 1] \in Nat
    BY <1>1, <2>2, PowersOfTwo
  <2> QED BY <2>2, <2>3, <2>4
<1> DEFINE e == MANTISSA - bits[q] + 1
<1>3. e \in Nat /\ 1 <= e
  BY <1>1, <1>2
<1> HIDE DEF e
<1>4. pow2[0 + 1] = 2 * pow2[0] /\ pow2[0] = 1
  BY PowersOfTwo
<1>5. pow2[1] = 2
  BY <1>4
<1>6. pow2[1] <= pow2[e] /\ pow2[e] \in Nat
  BY <1>3, PowersGrow, PowersOfTwo
<1>7. pow2[e] >= 2
  BY <1>5, <1>6
<1> QED
  BY <1>1, <1>2, <1>6, <1>7 DEF e, BitLength

\* int() of the float n / d is n / d cut to an integer, or the next one, but
\* only where that is as near as half a unit in the last place.
LEMMA TruncationBounds ==
    ASSUME NEW n \in Nat, NEW d \in Nat \ {0}, n \div d < pow2[MANTISSA],
           NEW t, t = Truncated(n, d)
    PROVE  /\ t \in {n \div d, n \div d + 1}
           /\ t \in Nat
           /\ t * d < n + d
           /\ (t + 1) * d > n
           /\ (t * d - n) * pow2[MANTISSA] <= t * d
           /\ ((t + 1) * d - n) * pow2[MANTISSA + 1] > (t + 1) * d
<1> DEFINE q == n \div d
           b == bits[q]
           P == pow2[MANTISSA - b + 1]
           H == pow2[MANTISSA]
           D == pow2[MANTISSA + 1]
           r == (q * d + d) - n
<1>1. q \in Nat /\ q * d \in Nat /\ q * d <= n /\ n < q * d + d
  BY Division
<1>2. /\ t = IF RoundsUp(n, d) THEN q + 1 ELSE q
      /\ RoundsUp(n, d) <=> ((q + 1) * d - n) * P <= d
  BY DEF Truncated, RoundsUp, BitLength
<1>3. MANTISSA \in Nat /\ b \in Nat /\ b <= MANTISSA /\ P \in Nat /\ P >= 2
  BY <1>1, RoundingPlace, MantissaAssumption DEF BitLength
<1>4. H \in Nat \ {0} /\ D = 2 * H /\ q < H
  BY <1>3, PowersOfTwo
<1>5. q < pow2[b] /\ pow2[b] \in Nat
  BY <1>1, <1>3, BitsBound, PowersOfTwo
<1>6. D = P * pow2[b]
  <2>1. MANTISSA - b + 1 \in Nat /\ (MANTISSA - b + 1) + b = MANTISSA + 1
    BY <1>3
  <2> QED BY <1>3, <2>1, PowersMultiply
<1>7. (q + 1) * d = q * d + d /\ (q + 2) * d = q * d + 2 * d
  BY <1>1
<1>8. r \in Nat \ {0} /\ r <= d
  BY <1>1
<1>9. b = 0 => pow2[b] = 1
  BY PowersOfTwo
<1>10. q # 0 => pow2[b] <= 2 * q
  <2> SUFFICES ASSUME q # 0 PROVE pow2[b] <= 2 * q
    OBVIOUS
  <2>1. b # 0 /\ pow2[b - 1] <= q
    BY <1>1, BitsBound
  <2>2. b - 1 \in Nat /\ (b - 1) + 1 = b
    BY <1>3, <2>1
  <2>3. pow2[b] = 2 * pow2[b - 1] /\ pow2[b - 1] \in Nat
    BY <2>2, PowersOfTwo
  <2> QED BY <1>1, <2>1, <2>3
<1>11. q = 0 => pow2[b] = 1
  <2>1. q = 0 => b = 0
    BY BitsUnfold
  <2> QED BY <1>9, <2>1
<1> HIDE DEF q, b, P, H, D, r
<1>12. r = (q * d + d) - n
  BY DEF r
<1>13. CASE RoundsUp(n, d)
  <2>1. t = q + 1 /\ r * P <= d
    BY <1>2, <1>7, <1>12, <1>13
  <2>2. r * 2 <= r * P /\ r * P \in Nat
    BY <1>3, <1>8
  <2>3. r < d
    BY <1>8, <2>1, <2>2
  <2>4. t * d = q * d + d /\ (t + 1) * d = q * d + 2 * d
    BY <1>1, <2>1, <1>7
  <2>5. t * d < n + d /\ (t + 1) * d > n
    BY <1>1, <1>12, <2>3, <2>4
  <2>6. (t * d - n) * H <= t * d
    <3>1. t * d - n = r
      BY <1>12, <2>4
    <3>2. 2 * (r * H) = r * D
      BY <1>4, <1>8
    <3>3. r * D = (r * P) * pow2[b]
      BY <1>3, <1>5, <1>6, <1>8
    <3>4. (r * P) * pow2[b] <= d * pow2[b]
      BY <1>5, <2>1, <2>2
    <3>5. d * pow2[b] <= 2 * (q * d + d)
      <4>1. pow2[b] <= 2 * q + 1
        BY <1>1, <1>5, <1>10, <1>11
      <4>2. d * pow2[b] <= d * (2 * q + 1)
        BY <1>1, <1>5, <4>1
      <4>3. d * (2 * q + 1) = 2 * (q * d) + d
        BY <1>1
      <4>4. d * pow2[b] \in Nat
        BY <1>5
      <4> QED BY <1>1, <4>2, <4>3, <4>4
    <3>6. r * H \in Nat /\ d * pow2[b] \in Nat
      BY <1>4, <1>5, <1>8
    <3>7. 2 * (r * H) <= 2 * (q * d + d)
      BY <1>1, <3>2, <3>3, <3>4, <3>5, <3>6
    <3>8. r * H <= q * d + d
      BY <1>1, <3>6, <3>7
    <3> QED BY <2>4, <3>1, <3>8
  <2>7. ((t + 1) * d - n) * D > (t + 1) * d
    <3>1. (t + 1) * d - n = r + d
      BY <1>1, <1>12, <2>4
    <3>2. q + 2 <= D
      BY <1>1, <1>4
    <3>3. (q + 2) * d <= D * d
      BY <1>1, <1>4, <3>2
    <3>4. (r + d) * D = r * D + D * d
      BY <1>4, <1>8
    <3>5. r * D \in Nat \ {0} /\ D * d \in Nat
      BY <1>4, <1>8
    <3> QED BY <1>1, <1>7, <2>4, <3>1, <3>3, <3>4, <3>5
  <2>8. t \in Nat
    BY <1>1, <2>1
  <2> QED BY <2>1, <2>5, <2>6, <2>7, <2>8 DEF q, H, D
<1>14. CASE ~RoundsUp(n, d)
  <2>1. t = q /\ ~(r * P <= d)
    BY <1>2, <1>7, <1>12, <1>14
  <2>2. t * d = q * d /\ (t + 1) * d = q * d + d
    BY <1>7, <2>1
  <2>3. (t * d - n) * H <= t * d
    <3> DEFINE s == n - q * d
    <3>1. s \in Nat /\ t * d - n = -s
      BY <1>1, <2>2
    <3> HIDE DEF s
    <3>2. (-s) * H = -(s * H) /\ s * H \in Nat
      BY <1>4, <3>1
    <3> QED BY <1>1, <2>2, <3>1, <3>2
  <2>4. ((t + 1) * d - n) * D > (t + 1) * d
    <3>1. (t + 1) * d - n = r
      BY <1>12, <2>2
    <3>2. r * P \in Nat /\ r * P >= d + 1
      BY <1>3, <1>8, <2>1
    <3>3. r * D = (r * P) * pow2[b]
      BY <1>3, <1>5, <1>6, <1>8
    <3>4. (r * P) * pow2[b] >= (d + 1) * pow2[b]
      BY <1>5, <3>2
    <3>5. (d + 1) * pow2[b] >= (d + 1) * (q + 1)
      <4>1. q + 1 <= pow2[b]
        BY <1>1, <1>5
      <4> QED BY <1>1, <1>5, <4>1
    <3>6. (d + 1) * (q + 1) = (q * d + d) + (q + 1)
      BY <1>1
    <3>7. /\ r * D \in Nat /\ (d + 1) * pow2[b] \in Nat
      BY <1>4, <1>5, <1>8
    <3>8. r * D > q * d + d
      BY <1>1, <3>2, <3>3, <3>4, <3>5, <3>6, <3>7
    <3> QED BY <2>2, <3>1, <3>8
  <2>5. t \in Nat /\ t * d < n + d /\ (t + 1) * d > n
    BY <1>1, <2>1, <2>2
  <2> QED BY <2>1, <2>3, <2>4, <2>5 DEF q, H, D
<1> QED
  BY <1>13, <1>14
=============================================================================
