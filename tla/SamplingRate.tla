---------------------------- MODULE SamplingRate ----------------------------
(***************************************************************************)
(* How many receipts StakeWeightedSampler draws.  The sample_rate is a     *)
(* float, which is an integer mantissa over a power of two, and rarely the *)
(* decimal fraction somebody wrote: of 100 receipts 0.29 asks for 28.      *)
(***************************************************************************)
EXTENDS Floats

CONSTANT SampleRate     \* sample_rate: <<m, k>> stands for m / 2^k

\* __init__ refuses rates outside 0 .. 1.
ASSUME RateAssumption ==
    /\ SampleRate \in Nat \X Nat
    /\ SampleRate[1] < pow2[MANTISSA] /\ SampleRate[1] <= pow2[SampleRate[2]]

\* Mutant: the size is rounded up, as the docstring has it.
n_sample_up(n) == 1 + (n * SampleRate[1] - 1) \div pow2[SampleRate[2]]

\* max(1, int(n * sample_rate)).
n_sample(n) ==
    LET size == Truncated(n * SampleRate[1], pow2[SampleRate[2]])
    IN  IF size < 1 THEN 1 ELSE size
=============================================================================
