---------------------------- MODULE WeightVector ----------------------------
(***************************************************************************)
(* The vote of weights.py, as pure operators: who is in the vector, with   *)
(* which weight, and the call body it is encoded to.                       *)
(*                                                                         *)
(* An operator is a record with its name (operator_id), its stake and the  *)
(* active flag.  A name is not an account: hex with and without 0x are two *)
(* names of one account, and an ss58 text is a name that _to_32 refuses    *)
(* (Account maps it to NoAccount).  The code compares names.               *)
(*                                                                         *)
(* A vector is a function on the kept positions of the operator list, in   *)
(* whose order the entries are encoded.  The layout of an entry (32 bytes, *)
(* then 2) is left out; the compact length in front of them is kept.       *)
(***************************************************************************)
EXTENDS Floats, Sequences, FiniteSets, FiniteSetsExt, Functions

CONSTANTS
    Names,          \* operator_id texts
    NoName,         \* a verdict without an operator_id
    Account,        \* Names -> accounts: what _to_32 makes of a name
    NoAccount,      \* ... which is this where it raises
    VerdictTexts,   \* the verdict fields of verdicts, "" where there is none
    Lower,          \* VerdictTexts -> STRING: what str.lower makes of a text
    U16_MAX,        \* the largest weight
    MAX_EPOCH       \* the largest u64

ASSUME WeightAssumption ==
    /\ NoName \notin Names
    /\ DOMAIN Account = Names
    /\ DOMAIN Lower = VerdictTexts
    /\ U16_MAX \in Nat \ {0}
    /\ pow2[MANTISSA] > 2 * U16_MAX
    /\ MAX_EPOCH \in Nat

Operators == [operator_id : Names, stake : Int, active : BOOLEAN]

-----------------------------------------------------------------------------
(* faulty_operators_from_verdicts *)

\* by_job: of several receipts for one job the last one counts.
by_job(receipts, job) ==
    LET claims == {i \in DOMAIN receipts : receipts[i].job_id = job}
    IN  IF claims = {} THEN NoName ELSE receipts[Max(claims)].operator_id

\* Mutant: the receipt of the job is not looked up.
blamed_by_name(receipts, v) == IF receipts = << >> THEN NoName ELSE v.operator_id

\* The operator a verdict names, else the one whose receipt it is about.
blamed(receipts, v) ==
    IF v.operator_id # NoName THEN v.operator_id ELSE by_job(receipts, v.job_id)

\* Mutant: only the spelling of ReplayVerdict.MISMATCH counts.
IsMismatchAsSpelled(v) == v.verdict = "mismatch"

IsMismatch(v) == Lower[v.verdict] = "mismatch"

faulty_operators_from_verdicts(receipts, verdicts) ==
    {blamed(receipts, v) : v \in {u \in Range(verdicts) : IsMismatch(u)}} \ {NoName}

-----------------------------------------------------------------------------
(* compute_weight_vector *)

clean(operators, faulty) ==
    {i \in DOMAIN operators :
        operators[i].active /\ operators[i].operator_id \notin faulty}

\* The first clean operator of each name.
kept(operators, faulty) ==
    {i \in clean(operators, faulty) :
        \A j \in clean(operators, faulty) :
            operators[j].operator_id = operators[i].operator_id => i <= j}

\* Mutant: the maximum is taken over everybody, faulty and frozen included.
max_stake_of_all(operators, faulty) ==
    LET everybody == DOMAIN operators \cup clean(operators, faulty)
        top == Max({operators[i].stake : i \in everybody})
    IN  IF top = 0 THEN 1 ELSE top

\* "max(...) or 1"; a name left out later as a duplicate still counts here.
max_stake(operators, faulty) ==
    LET top == Max({operators[i].stake : i \in clean(operators, faulty)})
    IN  IF top = 0 THEN 1 ELSE top

\* int(n / d) for n and d above zero.  Beyond U16_MAX the value is clamped, and
\* how it was rounded makes no difference.
Quotient(n, d) == IF n \div d < U16_MAX THEN Truncated(n, d) ELSE n \div d

Magnitude(n) == IF n < 0 THEN -n ELSE n

\* Mutant: a small stake is cut to zero.
score_unfloored(stake, top) ==
    IF stake > 0 /\ top > 0 THEN Quotient(stake * U16_MAX, top) ELSE 0

\* max(1, int(stake * U16_MAX / top)): a quotient of opposite signs is cut to
\* zero or less, one of equal signs is the quotient of the magnitudes.
score(stake, top) ==
    LET q == Quotient(Magnitude(stake) * U16_MAX, Magnitude(top))
    IN  IF (stake > 0 /\ top > 0) \/ (stake < 0 /\ top < 0)
        THEN IF q < 1 THEN 1 ELSE q
        ELSE 1

clamped(w) == IF w > U16_MAX THEN U16_MAX ELSE IF w < 0 THEN 0 ELSE w

weight(operators, faulty, equal_weight, i) ==
    IF equal_weight THEN U16_MAX
    ELSE clamped(score(operators[i].stake, max_stake(operators, faulty)))

compute_weight_vector(operators, faulty, equal_weight) ==
    [i \in kept(operators, faulty) |->
        [account |-> Account[operators[i].operator_id],
         weight |-> weight(operators, faulty, equal_weight, i)]]

\* _to_32 raises a ValueError for the first name that is not 32-byte hex.
to_32_accepts(operators, faulty) ==
    \A i \in kept(operators, faulty) : Account[operators[i].operator_id] # NoAccount

-----------------------------------------------------------------------------
(* SCALE compact integers, as bytes from the lowest on.                     *)

LittleEndian(v, n) == [i \in 1 .. n |-> (v \div pow2[8 * (i - 1)]) % 256]

LittleEndianValue(bytes) ==
    SumFunction([i \in DOMAIN bytes |-> bytes[i] * pow2[8 * (i - 1)]])

\* (v << 2) | mode in n bytes.
WithMode(v, mode, n) == <<(v % 64) * 4 + mode>> \o LittleEndian(v \div 64, n - 1)

\* Mutant: the two-byte form is used one value too far.
encode_compact_late(v) ==
    IF v < 2 ^ 6 THEN WithMode(v, 0, 1)
    ELSE IF v <= 2 ^ 14 THEN WithMode(v, 1, 2)
    ELSE WithMode(v, 2, 4)

encode_compact(v) ==
    IF v < 2 ^ 6 THEN WithMode(v, 0, 1)
    ELSE IF v < 2 ^ 14 THEN WithMode(v, 1, 2)
    ELSE IF v < 2 ^ 30 THEN WithMode(v, 2, 4)
    ELSE LET n == (BitLength(v) + 7) \div 8
         IN  <<(n - 4) * 4 + 3>> \o LittleEndian(v, n)

\* chain._decode_compact: the value and the number of bytes it took.
decode_compact(buf) ==
    LET first == buf[1]
        mode == first % 4
        n == first \div 4 + 4
        shifted(k) == first \div 4 + 64 * LittleEndianValue(SubSeq(buf, 2, k))
    IN  CASE mode = 0 -> <<first \div 4, 1>>
          [] mode = 1 -> <<shifted(2), 2>>
          [] mode = 2 -> <<shifted(4), 4>>
          [] mode = 3 -> <<LittleEndianValue(SubSeq(buf, 2, n + 1)), n + 1>>

\* int.to_bytes(epoch, 8) raises an OverflowError beyond u64.
epoch_fits(epoch) == epoch \in 0 .. MAX_EPOCH

encode_submit_weights_call(epoch, vector) ==
    [epoch |-> epoch,
     length |-> encode_compact(Cardinality(DOMAIN vector)),
     entries |-> vector]
=============================================================================
