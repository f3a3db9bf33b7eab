--------------------------- MODULE MCStakeSampler ---------------------------
(* Up to MaxReceipts receipts of two operators, whose stakes are missing,   *)
(* below one, or enough to weigh on the draw.                               *)
EXTENDS StakeSampler

CONSTANT MaxReceipts

MCReceiptLists == UNION {[1 .. n -> {"op1", "op2"}] : n \in 0 .. MaxReceipts}

MCStakeMaps == UNION {[ops -> {-1, 0, 3}] : ops \in SUBSET {"op1", "op2"}}

HalfRate == <<1, 1>>

\* With three significant bits, 3 * 5/8 rounds up to the next integer and
\* 4 * 5/8 is cut.
FiveEighths == <<5, 3>>
=============================================================================
