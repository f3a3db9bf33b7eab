------------------------- MODULE ReplayCasesProofs --------------------------
(***************************************************************************)
(* Theorems about replay_receipt for every configuration: both modes, any  *)
(* tolerance, with or without a worker, stub mode on or off, and receipts, *)
(* inputs and answers of any kind.                                         *)
(***************************************************************************)
EXTENDS ReplayCases, FiniteSetTheorems, TLAPS

\* A comparison ends in match or mismatch, whichever of the two decides.
LEMMA CompareDecides ==
  ASSUME NEW r, NEW claimed, NEW response, NEW recomputed
  PROVE  Compare(r, claimed, response, recomputed) \in {Match, Mismatch}
  BY DEF Compare, tolerant_verdict, exact_verdict

\* Where a verdict may come from: a match needs a worker that answered, or stub
\* mode, and so does a mismatch, except that the worker may also refuse.
LEMMA VerdictSource ==
  ASSUME NEW r, NEW in, NEW ans
  PROVE  LET res == replay_receipt(r, in, ans)
             asked == WorkerConfigured /\ in.present
             stub == ~WorkerConfigured /\ AllowStubReplay
         IN  /\ res \in Verdicts \cup {Raised}
             /\ res = Match => (asked /\ ans.status = "ok") \/ stub
             /\ res = Mismatch => (asked /\ ans.status \in {"ok", "rejected"}) \/ stub
  <1> DEFINE res == replay_receipt(r, in, ans)
  <1>0. Match # Mismatch /\ Match # Skipped /\ Match # Raised /\ Mismatch # Skipped
          /\ Mismatch # Raised
    BY DEF Match, Mismatch, Skipped, Raised
  <1>1. CASE WorkerConfigured /\ in.present
    <2>1. res = worker_verdict(r, in, ans)
      BY <1>1 DEF replay_receipt
    <2>2. CASE ans.status = "ok"
      BY <1>1, <2>1, <2>2, CompareDecides DEF worker_verdict, Verdicts
    <2>3. CASE ans.status = "rejected"
      BY <1>0, <1>1, <2>1, <2>3 DEF worker_verdict, Verdicts
    <2>4. CASE ans.status \notin {"ok", "rejected"}
      <3>1. res \in {Skipped, Raised}
        BY <2>1, <2>4 DEF worker_verdict
      <3> QED BY <1>0, <3>1 DEF Verdicts
    <2> QED BY <2>2, <2>3, <2>4
  <1>2. CASE ~WorkerConfigured /\ AllowStubReplay
    <2>1. res = Compare(r, in.claimed, r.response_hash, NoMapping)
      BY <1>2 DEF replay_receipt
    <2> QED BY <1>2, <2>1, CompareDecides DEF Verdicts
  <1>3. CASE ~(WorkerConfigured /\ in.present) /\ ~(~WorkerConfigured /\ AllowStubReplay)
    <2>1. res = Skipped
      BY <1>3 DEF replay_receipt
    <2> QED BY <1>0, <2>1 DEF Verdicts
  <1> QED BY <1>1, <1>2, <1>3

\* In stub mode the receipt is compared with itself and matches: there is no
\* evidence a mapping without keys could contradict.
LEMMA StubMatches ==
  ASSUME NEW r, NEW in, NEW ans
  PROVE  ~WorkerConfigured /\ AllowStubReplay => replay_receipt(r, in, ans) = Match
  <1> SUFFICES ASSUME ~WorkerConfigured /\ AllowStubReplay
               PROVE  replay_receipt(r, in, ans) = Match
    OBVIOUS
  <1>1. replay_receipt(r, in, ans) = Compare(r, in.claimed, r.response_hash, NoMapping)
    BY DEF replay_receipt
  <1>2. ~IsEvidence(NoMapping)
    BY DEF IsEvidence, NoMapping
  <1> QED BY <1>1, <1>2 DEF Compare, exact_verdict

\* The result is a verdict or an exception, and the arguments are what they were.
THEOREM ReplayTypeCorrect == Spec => []TypeOK
  <1>1. Init => TypeOK
    BY DEF Init, TypeOK
  <1>2. TypeOK /\ [Return]_vars => TypeOK'
    BY VerdictSource DEF TypeOK, Return, vars
  <1> QED BY <1>1, <1>2, PTL DEF Spec

\* replay_receipt never confirms a receipt on its own word: a match needs an
\* answer of the worker, or the stub mode.
THEOREM SelfAttestationExcluded == Spec => []NeverSelfAttests
  <1>1. Init => NeverSelfAttests
    BY DEF Init, NeverSelfAttests, Pending, Match
  <1>2. NeverSelfAttests /\ [Return]_vars => NeverSelfAttests'
    BY VerdictSource DEF NeverSelfAttests, Recomputed, Return, vars
  <1> QED BY <1>1, <1>2, PTL DEF Spec

\* replay_receipt faults an operator only on what its own worker said: neither
\* an outage nor stub mode ever does.
THEOREM OutageHarmless == Spec => []OutageNeverFaults
  <1>1. Init => OutageNeverFaults
    BY DEF Init, OutageNeverFaults, Pending
  <1>2. OutageNeverFaults /\ [Return]_vars => OutageNeverFaults'
    <2> SUFFICES ASSUME OutageNeverFaults, Return PROVE OutageNeverFaults'
      BY DEF OutageNeverFaults, vars
    <2>1. result' = replay_receipt(receipt, input, answer)
            /\ UNCHANGED <<receipt, input, answer>>
      BY DEF Return
    <2>2. result' \in Verdicts \cup {Raised}
      BY <2>1, VerdictSource
    <2>3. result'.fault # NoFault => result' = Mismatch
      BY <2>2 DEF Verdicts, Match, Mismatch, Skipped, Raised, NoFault
    <2>4. CASE result' = Mismatch
      <3>1. ~(~WorkerConfigured /\ AllowStubReplay)
        <4>1. Match # Mismatch
          BY DEF Match, Mismatch
        <4> QED BY <2>1, <2>4, <4>1, StubMatches
      <3> QED BY <2>1, <2>4, <3>1, VerdictSource DEF OutageNeverFaults
    <2> QED BY <2>3, <2>4 DEF OutageNeverFaults
  <1> QED BY <1>1, <1>2, PTL DEF Spec

-----------------------------------------------------------------------------
(* The two comparisons against their references.                             *)

\* Two lists agree at some positions and diverge at the others.
LEMMA AgreeOrDiverge ==
  ASSUME NEW a \in Seq(Int), NEW b \in Seq(Int), NEW apart \in Nat
  PROVE  LET agreeing == {i \in SharedPositions(a, b) : a[i] - b[i] \in -apart .. apart}
             divergent == Divergent(a, b, apart)
         IN  /\ Cardinality(agreeing) \in Nat
             /\ Cardinality(divergent) \in Nat
             /\ Longer(a, b) \in Nat
             /\ Longer(a, b) = Cardinality(DOMAIN a \cup DOMAIN b)
             /\ Cardinality(agreeing) + Cardinality(divergent) = Longer(a, b)
  <1> DEFINE agreeing == {i \in SharedPositions(a, b) : a[i] - b[i] \in -apart .. apart}
             divergent == Divergent(a, b, apart)
             longest == Longer(a, b)
             positions == DOMAIN a \cup DOMAIN b
  <1>1. /\ Len(a) \in Nat /\ DOMAIN a = 1 .. Len(a)
        /\ Len(b) \in Nat /\ DOMAIN b = 1 .. Len(b)
    OBVIOUS
  <1>2. longest \in Nat /\ positions = 1 .. longest
    BY <1>1 DEF Longer
  <1>3. IsFiniteSet(positions) /\ Cardinality(positions) = longest
    <2>1. ASSUME NEW n \in Nat PROVE IsFiniteSet(1 .. n) /\ Cardinality(1 .. n) = n
      BY FS_Interval
    <2> QED
      BY <1>2, <2>1
  <1>4. agreeing \subseteq positions /\ divergent \subseteq positions
    BY DEF SharedPositions, Divergent
  <1>5. \A i \in positions : i \in agreeing <=> i \notin divergent
    <2> SUFFICES ASSUME NEW i \in DOMAIN a \cap DOMAIN b
                 PROVE  i \in agreeing <=> i \notin divergent
      BY DEF SharedPositions, Divergent
    <2>1. a[i] \in Int /\ b[i] \in Int
      OBVIOUS
    <2>2. a[i] - b[i] \in -apart .. apart <=> ~(a[i] - b[i] > apart \/ b[i] - a[i] > apart)
      BY <2>1
    <2> QED
      BY <2>2 DEF SharedPositions, Divergent
  <1> HIDE DEF agreeing, divergent, positions
  <1>6. agreeing \cup divergent = positions /\ agreeing \cap divergent = {}
    BY <1>4, <1>5
  <1>7. /\ IsFiniteSet(agreeing) /\ Cardinality(agreeing) \in Nat
        /\ IsFiniteSet(divergent) /\ Cardinality(divergent) \in Nat
    BY <1>3, <1>4, FS_Subset, FS_CardinalityType
  <1>8. Cardinality(positions) =
          Cardinality(agreeing) + Cardinality(divergent) - Cardinality({})
    BY <1>6, <1>7, FS_Union
  <1>9. Cardinality({}) = 0
    BY FS_EmptySet
  <1>10. Cardinality(agreeing) + Cardinality(divergent) = longest
    BY <1>2, <1>3, <1>7, <1>8, <1>9
  <1> QED
    BY <1>2, <1>3, <1>7, <1>10 DEF agreeing, divergent, positions

\* A share of agreement below the tolerance is a share of divergence beyond what
\* the tolerance leaves.
LEMMA SharesComplement ==
  ASSUME NEW agree \in Nat, NEW diverge \in Nat, NEW longest \in Nat,
         agree + diverge = longest,
         NEW num \in Nat, NEW den \in Nat
  PROVE  agree * den < num * longest <=> diverge * den > (den - num) * longest
  <1>1. diverge = longest - agree
    OBVIOUS
  <1>2. diverge * den = longest * den - agree * den
    BY <1>1
  <1>3. (den - num) * longest = longest * den - num * longest
    OBVIOUS
  <1>4. /\ longest * den \in Int /\ agree * den \in Int /\ num * longest \in Int
    OBVIOUS
  <1> QED
    BY <1>2, <1>3, <1>4

\* The code's test on a ratio is the reference's on the count of divergences.
LEMMA BelowIsMaterial ==
  ASSUME NEW a \in Seq(Int), NEW b \in Seq(Int), NEW apart \in Nat
  PROVE  LET agreeing == {i \in SharedPositions(a, b) : a[i] - b[i] \in -apart .. apart}
         IN  BelowTolerance(Ratio(agreeing, Longer(a, b))) <=> Material(a, b, apart)
  <1> DEFINE agreeing == {i \in SharedPositions(a, b) : a[i] - b[i] \in -apart .. apart}
             A == Cardinality(agreeing)
             D == Cardinality(Divergent(a, b, apart))
             L == Longer(a, b)
             num == resolved_tolerance[1]
             den == Tolerance[2]
             spare == IF Tolerance[1] > Tolerance[2] THEN 0 ELSE Tolerance[2] - Tolerance[1]
  <1>1. A \in Nat /\ D \in Nat /\ L \in Nat /\ A + D = L
    BY AgreeOrDiverge
  <1>2. Material(a, b, apart) <=> D * den > spare * L
    BY AgreeOrDiverge DEF Material
  <1>3. /\ Tolerance[1] \in Int /\ den \in Nat \ {0}
        /\ num = IF Tolerance[1] < 0 THEN 0
                 ELSE IF Tolerance[1] > den THEN den ELSE Tolerance[1]
        /\ resolved_tolerance[2] = den
    BY ReplayAssumption DEF resolved_tolerance
  <1>4. num \in 0 .. den
    BY <1>3
  <1> HIDE DEF A, D, L, num, den, spare
  <1>5. CASE L = 0
    <2>1. ~BelowTolerance(Ratio(agreeing, L))
      BY <1>3, <1>4, <1>5 DEF BelowTolerance, Ratio, num
    <2>2. D = 0
      BY <1>1, <1>5
    <2>3. spare \in Int
      BY <1>3 DEF spare, den
    <2>4. D * den = 0 /\ spare * L = 0
      BY <1>3, <1>5, <2>2, <2>3
    <2> QED
      BY <1>2, <2>1, <2>4 DEF L
  <1>6. CASE L # 0
    <2>1. BelowTolerance(Ratio(agreeing, L)) <=> A * den < num * L
      BY <1>3, <1>6 DEF BelowTolerance, Ratio, A, num
    <2>2. num \in Nat /\ den \in Nat
      BY <1>3, <1>4
    <2>3. A * den < num * L <=> D * den > (den - num) * L
      BY <1>1, <2>2, SharesComplement
    <2>4. CASE Tolerance[1] < 0
      <3>1. num = 0 /\ spare = den - Tolerance[1]
        BY <1>3, <2>4 DEF spare, den
      <3>2. A * den \in Nat /\ D * den <= L * den
        BY <1>1, <2>2, <3>1
      <3>3. L * den < spare * L
        BY <1>1, <1>3, <1>6, <2>4, <3>1, SMTT(30)
      <3>4. ~(A * den < num * L)
        BY <1>1, <3>1, <3>2
      <3>5. D * den \in Int /\ L * den \in Int /\ spare * L \in Int
        BY <1>1, <1>3, <3>1
      <3>6. ~(D * den > spare * L)
        BY <3>2, <3>3, <3>5
      <3> QED
        BY <1>2, <2>1, <3>4, <3>6 DEF L
    <2>5. CASE Tolerance[1] >= 0
      <3>1. spare = den - num
        BY <1>3, <2>5 DEF spare, den
      <3> QED
        BY <1>2, <2>1, <2>3, <3>1 DEF L
    <2> QED
      BY <1>3, <2>4, <2>5
  <1> QED
    BY <1>5, <1>6 DEF L

\* So a tolerant verdict is a mismatch exactly on material divergence.
LEMMA TolerantDecides ==
  ASSUME NEW claimed, NEW recomputed,
         claimed.token_ids \in Seq(Int) /\ claimed.top_logprobs \in Seq(Int),
         recomputed.token_ids \in Seq(Int) /\ recomputed.top_logprobs \in Seq(Int)
  PROVE  tolerant_verdict(claimed, recomputed) = Mismatch <=>
           \/ Material(claimed.token_ids, recomputed.token_ids, 0)
           \/ Material(claimed.top_logprobs, recomputed.top_logprobs, 1)
  <1>1. ASSUME NEW a \in Seq(Int), NEW b \in Seq(Int)
        PROVE  BelowTolerance(token_overlap_ratio(a, b)) <=> Material(a, b, 0)
    <2>1. \A i \in SharedPositions(a, b) : a[i] = b[i] <=> a[i] - b[i] \in -0 .. 0
      <3> SUFFICES ASSUME NEW i \in DOMAIN a, i \in DOMAIN b
                   PROVE  a[i] = b[i] <=> a[i] - b[i] \in -0 .. 0
        BY DEF SharedPositions
      <3>1. a[i] \in Int /\ b[i] \in Int
        OBVIOUS
      <3> QED
        BY <3>1
    <2>2. {i \in SharedPositions(a, b) : a[i] = b[i]}
            = {i \in SharedPositions(a, b) : a[i] - b[i] \in -0 .. 0}
      BY <2>1
    <2>3. BelowTolerance(Ratio({i \in SharedPositions(a, b) : a[i] - b[i] \in -0 .. 0},
                               Longer(a, b))) <=> Material(a, b, 0)
      BY BelowIsMaterial
    <2> QED
      BY <2>2, <2>3 DEF token_overlap_ratio
  <1>2. ASSUME NEW a \in Seq(Int), NEW b \in Seq(Int)
        PROVE  BelowTolerance(logprob_agreement(a, b)) <=> Material(a, b, 1)
    BY <1>2, BelowIsMaterial DEF logprob_agreement
  <1>3. Match # Mismatch
    BY DEF Match, Mismatch
  <1> QED
    BY <1>1, <1>2, <1>3 DEF tolerant_verdict

\* What is compared is well formed.
LEMMA EvidenceTyped ==
  ASSUME TypeOK
  PROVE  /\ input.claimed.token_ids \in Seq(Int) /\ input.claimed.top_logprobs \in Seq(Int)
         /\ answer.evidence.token_ids \in Seq(Int) /\ answer.evidence.top_logprobs \in Seq(Int)
  BY CasesAssumption DEF TypeOK

\* With a worker's answer in hand the comparison decides, tolerantly where both
\* sides brought evidence and exactly where not.
LEMMA AnswerDecides ==
  ASSUME Recomputed
  PROVE  /\ BothEvidence => replay_receipt(receipt, input, answer)
                              = tolerant_verdict(input.claimed, answer.evidence)
         /\ ~BothEvidence => replay_receipt(receipt, input, answer)
                              = exact_verdict(receipt, answer.response_hash)
  BY DEF Recomputed, BothEvidence, replay_receipt, worker_verdict, Compare, IsEvidence

\* In tolerant mode, with evidence on both sides, an operator is faulted exactly
\* when more of one signal diverges than the tolerance leaves room for.
THEOREM DivergenceCorrect == Spec => []DivergenceDecides
  <1>1. Init => DivergenceDecides
    BY DEF Init, DivergenceDecides
  <1>2. TypeOK /\ DivergenceDecides /\ [Return]_vars => DivergenceDecides'
    <2> SUFFICES ASSUME TypeOK, DivergenceDecides, [Return]_vars PROVE DivergenceDecides'
      OBVIOUS
    <2>1. CASE Return
      <3>1. result' = replay_receipt(receipt, input, answer)
              /\ UNCHANGED <<receipt, input, answer>>
        BY <2>1 DEF Return
      <3> SUFFICES ASSUME Recomputed, BothEvidence
            PROVE  result' = Mismatch <=>
                     \/ Material(input.claimed.token_ids, answer.evidence.token_ids, 0)
                     \/ Material(input.claimed.top_logprobs, answer.evidence.top_logprobs, 1)
        BY <3>1 DEF DivergenceDecides, Recomputed, BothEvidence, Material, Divergent
      <3> QED
        BY <3>1, AnswerDecides, EvidenceTyped, TolerantDecides
    <2>2. CASE UNCHANGED vars
      BY <2>2 DEF vars, DivergenceDecides, Recomputed, BothEvidence, Material, Divergent
    <2> QED
      BY <2>1, <2>2
  <1> QED BY <1>1, <1>2, ReplayTypeCorrect, PTL DEF Spec

\* Without evidence on both sides tolerant mode is as strict as exact mode.
THEOREM FallbackCorrect == Spec => []FallbackIsExact
  <1>1. Init => FallbackIsExact
    BY DEF Init, FallbackIsExact
  <1>2. FallbackIsExact /\ [Return]_vars => FallbackIsExact'
    <2> SUFFICES ASSUME FallbackIsExact, [Return]_vars PROVE FallbackIsExact'
      OBVIOUS
    <2>1. CASE Return
      <3>1. result' = replay_receipt(receipt, input, answer)
              /\ UNCHANGED <<receipt, input, answer>>
        BY <2>1 DEF Return
      <3>2. Match # Mismatch
        BY DEF Match, Mismatch
      <3> QED
        BY <3>1, <3>2, AnswerDecides
        DEF FallbackIsExact, Recomputed, BothEvidence, exact_verdict
    <2>2. CASE UNCHANGED vars
      BY <2>2 DEF vars, FallbackIsExact, Recomputed, BothEvidence
    <2> QED
      BY <2>1, <2>2
  <1> QED BY <1>1, <1>2, PTL DEF Spec
=============================================================================
