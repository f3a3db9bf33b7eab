---------------------------- MODULE ReplayCases -----------------------------
(***************************************************************************)
(* One call of replay_receipt on every receipt, input and worker answer of *)
(* a bounded set, against reference definitions stated independently of    *)
(* the code: a divergence count instead of ratios, and who may cause which *)
(* verdict.                                                                *)
(***************************************************************************)
EXTENDS Replay

CONSTANTS
    ReceiptCases,   \* receipts: records with a response_hash
    InputCases,     \* what replay_inputs.get(job_id) may return
    AnswerCases     \* what the worker may answer

\* TokenEvidence.from_mapping converts: ids are integers, and log-probabilities
\* are numbers, here whole units.
ASSUME CasesAssumption ==
    \A mapping \in {i.claimed : i \in InputCases} \cup {a.evidence : a \in AnswerCases} :
        mapping.token_ids \in Seq(Int) /\ mapping.top_logprobs \in Seq(Int)

VARIABLES receipt, input, answer, result

vars == <<receipt, input, answer, result>>

Pending == [verdict |-> "pending", fault |-> NoFault]

TypeOK ==
    /\ receipt \in ReceiptCases
    /\ input \in InputCases
    /\ answer \in AnswerCases
    /\ result \in Verdicts \cup {Raised, Pending}

Init ==
    /\ receipt \in ReceiptCases
    /\ input \in InputCases
    /\ answer \in AnswerCases
    /\ result = Pending

Return ==
    /\ result = Pending
    /\ result' = replay_receipt(receipt, input, answer)
    /\ UNCHANGED <<receipt, input, answer>>

Spec == Init /\ [][Return]_vars

-----------------------------------------------------------------------------
\* The worker took part: it was asked and gave a usable answer.
Recomputed == WorkerConfigured /\ input.present /\ answer.status = "ok"

\* Both sides brought token evidence, so the tolerant comparison applies.
BothEvidence ==
    /\ Mode = "tolerant"
    /\ input.claimed.given # {}
    /\ answer.evidence.given # {}

\* Positions, up to the longer list, on which two lists do not agree: one of
\* them lacks the position or the values differ by more than `apart'.
Divergent(a, b, apart) ==
    {i \in DOMAIN a \cup DOMAIN b :
        \/ i \notin DOMAIN a \cap DOMAIN b
        \/ a[i] - b[i] > apart
        \/ b[i] - a[i] > apart}

\* More positions diverge than the tolerance allows: a share of 1 - tolerance, and
\* none if full agreement, or more than that, is asked for.
Material(a, b, apart) ==
    LET longest == Cardinality(DOMAIN a \cup DOMAIN b)
        spare == IF Tolerance[1] > Tolerance[2] THEN 0 ELSE Tolerance[2] - Tolerance[1]
    IN  Cardinality(Divergent(a, b, apart)) * Tolerance[2] > spare * longest

\* "Only divergence beyond `tolerance' is a MISMATCH" (ReplayMode.TOLERANT):
\* with evidence on both sides a receipt is faulted exactly when more than the
\* tolerated share of the positions of one of the two signals diverges.
DivergenceDecides ==
    (result # Pending /\ Recomputed /\ BothEvidence) =>
        ( result = Mismatch <=>
            \/ Material(input.claimed.token_ids, answer.evidence.token_ids, 0)
            \/ Material(input.claimed.top_logprobs, answer.evidence.top_logprobs, 1) )

\* Without evidence on both sides, and always in exact mode, the byte-identical
\* comparison decides (replay_receipt's fallback: "never weaker than exact mode").
FallbackIsExact ==
    (result # Pending /\ Recomputed /\ ~BothEvidence) =>
        (result = Match <=> answer.response_hash = receipt.response_hash)

\* A receipt is confirmed only by an independent recomputation, or by the
\* explicit stub mode: "otherwise fail closed with a skipped verdict; never
\* self-attest" (replay_receipt, decision order 4).
NeverSelfAttests ==
    result = Match => Recomputed \/ (~WorkerConfigured /\ AllowStubReplay)

\* An outage of the validator's own worker is no evidence against an operator:
\* a fault needs an answer the worker gave on purpose (200, 400 or 422).
OutageNeverFaults ==
    result.fault # NoFault =>
        /\ WorkerConfigured /\ input.present
        /\ answer.status \in {"ok", "rejected"}

-----------------------------------------------------------------------------
\* "Tolerant mode with no token evidence must not be weaker than exact" (the
\* docstring of test_tolerant_falls_back_to_exact_without_evidence), also when
\* the keys are there and the lists are empty: no position on either side, and
\* the recomputed response differs.
NeverWeakerThanExact ==
    ( /\ Recomputed
      /\ input.claimed.token_ids = << >> /\ input.claimed.top_logprobs = << >>
      /\ answer.evidence.token_ids = << >> /\ answer.evidence.top_logprobs = << >>
      /\ answer.response_hash # receipt.response_hash )
        => result # Match
=============================================================================
