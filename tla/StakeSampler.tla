---------------------------- MODULE StakeSampler ----------------------------
(***************************************************************************)
(* StakeWeightedSampler.sample (sampler.py): how the sample is drawn that  *)
(* ValidatorDaemon takes from an oracle.                                   *)
(*                                                                         *)
(* Receipts are the positions 1 .. n; all the sampler reads of a receipt   *)
(* is its operator.  The bag is a list of entries (index, weight) from     *)
(* which drawn entries are popped, in place: entry k pairs the k-th        *)
(* shuffled index with the k-th weight, and `left' holds the entries not   *)
(* popped yet.  The generator is an oracle: any permutation, then any      *)
(* target.  A real target draws what the next integer draws, so integers   *)
(* stand for all.  Where rounding puts a target beyond the last sum, the   *)
(* loop draws nothing and tries again, which is a stuttering step.         *)
(***************************************************************************)
EXTENDS SamplingRate, Sequences, FiniteSets, FiniteSetsExt, Functions

CONSTANTS
    ReceiptLists,   \* sequences of operator ids, one id per receipt
    StakeMaps       \* the operator_stake arguments: functions to integers

ASSUME SamplerAssumption ==
    /\ \A receipts \in ReceiptLists :
         receipts \in Seq(Range(receipts)) /\ Len(receipts) < pow2[MANTISSA]
    /\ \A stake \in StakeMaps : \A op \in DOMAIN stake : stake[op] \in Int

VARIABLES
    receipts,
    operator_stake,
    indices,        \* the shuffled positions, << >> before the shuffle
    left,           \* the entries still in the bag
    chosen

vars == <<receipts, operator_stake, indices, left, chosen>>

Positions == DOMAIN receipts

TypeOK ==
    /\ receipts \in ReceiptLists
    /\ operator_stake \in StakeMaps
    /\ indices = << >> \/ indices \in Bijection(Positions, Positions)
    /\ left \subseteq DOMAIN indices
    /\ chosen \in Seq(Positions)

Init ==
    /\ receipts \in ReceiptLists
    /\ operator_stake \in StakeMaps
    /\ indices = << >>
    /\ left = {}
    /\ chosen = << >>

-----------------------------------------------------------------------------
Stake(op) == IF op \in DOMAIN operator_stake THEN operator_stake[op] ELSE 1

\* Mutant: a stake is used as it was given.
raw_weights(k) == Stake(receipts[k])

weights(k) == IF Stake(receipts[k]) < 1 THEN 1 ELSE Stake(receipts[k])

\* The running sum when the scan of the bag has passed entry k.
acc(k) == SumFunctionOnSet([j \in left |-> weights(j)], {j \in left : j <= k})

total == SumFunction([j \in left |-> weights(j)])

\* Mutant: the scan stops one late.
drawn_strictly(target) ==
    {k \in left : acc(k) > target /\ \A j \in left : j < k => acc(j) <= target}

\* The entry at which the running sum reaches the target.
drawn(target) ==
    {k \in left : acc(k) >= target /\ \A j \in left : j < k => acc(j) < target}

\* Mutant: an index may be left out for another one.
ShuffleWithRepetition ==
    /\ indices = << >> /\ receipts # << >>
    /\ indices' \in [Positions -> Positions]
    /\ left' = Positions
    /\ UNCHANGED <<receipts, operator_stake, chosen>>

Shuffle ==
    /\ indices = << >> /\ receipts # << >>
    /\ indices' \in Bijection(Positions, Positions)
    /\ left' = Positions
    /\ UNCHANGED <<receipts, operator_stake, chosen>>

\* Mutant: a drawn entry stays in the bag.
DrawWithoutPop ==
    /\ Len(chosen) < n_sample(Len(receipts))
    /\ \E target \in 0 .. total : \E k \in drawn(target) :
         chosen' = Append(chosen, indices[k])
    /\ UNCHANGED <<receipts, operator_stake, indices, left>>

Draw ==
    /\ Len(chosen) < n_sample(Len(receipts))
    /\ \E target \in 0 .. total : \E k \in drawn(target) :
         /\ chosen' = Append(chosen, indices[k])
         /\ left' = left \ {k}
    /\ UNCHANGED <<receipts, operator_stake, indices>>

Next == Shuffle \/ Draw

Spec == Init /\ [][Next]_vars

-----------------------------------------------------------------------------
\* The loop has ended, or there was nothing to draw from.
Returned ==
    \/ receipts = << >>
    \/ indices # << >> /\ (left = {} \/ Len(chosen) >= n_sample(Len(receipts)))

\* Throughout the loop the drawn receipts and those still in the bag partition
\* the receipts, so that no receipt is drawn twice or lost, and the loop never
\* draws more than it should.
BagPartition ==
    /\ indices = << >> => left = {} /\ chosen = << >>
    /\ IsInjective(chosen)
    /\ Range(chosen) \cap {indices[k] : k \in left} = {}
    /\ indices # << >> => Len(chosen) + Cardinality(left) = Len(receipts)
    /\ receipts # << >> => Len(chosen) <= n_sample(Len(receipts))

\* What ValidatorDaemon assumes of the sampler: it returns distinct receipts, at
\* least one, and otherwise as many as the product of their number and the rate
\* asks for, rounded down, where a product that misses an integer by less than
\* the precision of a float counts as that integer.  The bag never runs dry first.
SampleIsDrawable ==
    (Returned /\ receipts # << >>) =>
        LET product == Len(receipts) * SampleRate[1]
            size == Len(chosen)
            scaled(n) == n * pow2[SampleRate[2]]
            \* By how much n exceeds the product.
            excess(n) == scaled(n) - product
        IN  /\ IsInjective(chosen)
            /\ size \in 1 .. Len(receipts)
            /\ size = 1 \/ excess(size) * pow2[MANTISSA] <= scaled(size)
            /\ excess(size + 1) * pow2[MANTISSA + 1] > scaled(size + 1)

\* The chance of an entry is its share of the weight left in the bag: of the
\* targets 1 .. total exactly weights(k) draw entry k, and none draws two.
DrawIsProportional ==
    LET targets(k) == {t \in 1 .. total : k \in drawn(t)}
    IN  \A k \in left :
            /\ Cardinality(targets(k)) = weights(k)
            /\ \A j \in left \ {k} : targets(j) \cap targets(k) = {}

\* No stake, zero and negative ones included, keeps a receipt out of reach:
\* every entry in the bag is drawn by some target in (0, total].
NobodyStarves == \A k \in left : \E t \in 1 .. total : k \in drawn(t)

-----------------------------------------------------------------------------
\* "Sample size = ceil(sample_rate x len(receipts))" (sampler.py:8).
SizeIsCeiling ==
    (Returned /\ receipts # << >>) =>
        Len(chosen) = Min({n \in 0 .. Len(receipts) :
                             n * pow2[SampleRate[2]] >= Len(receipts) * SampleRate[1]})

\* "Fisher-Yates over (operator, stake_weight) pairs" and "heavier-stake
\* operators get more entries" (sampler.py): an entry carries the weight of the
\* receipt it stands for.
EntriesArePairs == \A k \in left : weights(k) = weights(indices[k])
=============================================================================
