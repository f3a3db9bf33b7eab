------------------------------- MODULE Floats -------------------------------
(***************************************************************************)
(* What int() makes of a float.  Where the code multiplies or divides, the *)
(* operands are exact and the result is rounded once, to MANTISSA          *)
(* significant bits, to the nearest and in a tie to the even mantissa; then*)
(* int() cuts it.  Rounding shows only where it reaches the next integer.  *)
(***************************************************************************)
EXTENDS Integers

CONSTANT MANTISSA       \* significant bits of a float, 53

ASSUME MantissaAssumption == MANTISSA \in Nat

\* The powers of two that shifts, float precision and byte places are made of.
pow2[k \in Nat] == IF k = 0 THEN 1 ELSE 2 * pow2[k - 1]

\* int.bit_length of a natural number.
bits[n \in Nat] == IF n = 0 THEN 0 ELSE 1 + bits[n \div 2]

BitLength(n) == bits[n]

\* The float n / d is the next integer already when n / d misses it by at most
\* half a unit in the last place; a tie goes up, to the even mantissa.
RoundsUp(n, d) ==
    LET q == n \div d
    IN  ((q + 1) * d - n) * pow2[MANTISSA - BitLength(q) + 1] <= d

\* int(n / d) for n / d from zero up to the integers a float holds exactly.
Truncated(n, d) ==
    LET q == n \div d
    IN  IF RoundsUp(n, d) THEN q + 1 ELSE q
=============================================================================
