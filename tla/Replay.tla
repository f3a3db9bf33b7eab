------------------------------- MODULE Replay -------------------------------
(***************************************************************************)
(* replay_receipt (replay.py): the verdict on one receipt, computed from   *)
(* the receipt, the replay input the caller supplied for its job and what  *)
(* the validator's own worker answered.  These are pure operators: the     *)
(* daemon calls them in a worker thread and only their result matters.     *)
(*                                                                         *)
(* Data abstraction.  A response hash is an uninterpreted value.  A token  *)
(* evidence mapping is a record: `given' says which of its two keys are    *)
(* present, an absent key has the empty sequence, and a mapping without    *)
(* keys stands for None, {} and an absent mapping, which the code does not *)
(* tell apart.  Log-probabilities are in units of the tolerance abs_tol    *)
(* (0.5), and a ratio is a record [agree, longest] compared with the       *)
(* tolerance <<numerator, denominator>> by cross-multiplication.           *)
(***************************************************************************)
EXTENDS Integers, Sequences, FiniteSets

CONSTANTS
    WorkerConfigured,   \* worker_replay_url is not empty
    AllowStubReplay,    \* VALIDATOR_ALLOW_STUB_REPLAY
    Mode,               \* VALIDATOR_REPLAY_MODE: "exact" or "tolerant"
    Tolerance           \* VALIDATOR_REPLAY_TOLERANCE, a pair <<num, den>>

ASSUME ReplayAssumption ==
    /\ WorkerConfigured \in BOOLEAN
    /\ AllowStubReplay \in BOOLEAN
    /\ Mode \in {"exact", "tolerant"}
    /\ Tolerance \in Int \X (Nat \ {0})

NoFault == "none"

Match == [verdict |-> "match", fault |-> NoFault]
Mismatch == [verdict |-> "mismatch", fault |-> "WrongResponse"]
Skipped == [verdict |-> "skipped", fault |-> NoFault]

\* Not a verdict: an exception other than httpx.HTTPError left replay_receipt.
Raised == [verdict |-> "raised", fault |-> NoFault]

Verdicts == {Match, Mismatch, Skipped}

-----------------------------------------------------------------------------
(* The agreement of two token lists, or of two log-probability lists, over *)
(* the positions both have, relative to the longer one.                    *)

Longer(a, b) == IF Len(a) >= Len(b) THEN Len(a) ELSE Len(b)

SharedPositions(a, b) == DOMAIN a \cap DOMAIN b

Ratio(agreeing, longest) ==
    IF longest = 0 THEN [agree |-> 1, longest |-> 1]
    ELSE [agree |-> Cardinality(agreeing), longest |-> longest]

token_overlap_ratio(claimed, recomputed) ==
    Ratio({i \in SharedPositions(claimed, recomputed) : claimed[i] = recomputed[i]},
          Longer(claimed, recomputed))

logprob_agreement(claimed, recomputed) ==
    Ratio({i \in SharedPositions(claimed, recomputed) :
              claimed[i] - recomputed[i] \in -1 .. 1},
          Longer(claimed, recomputed))

\* resolved_tolerance clamps to [0, 1].
resolved_tolerance ==
    LET num == Tolerance[1]
        den == Tolerance[2]
    IN  <<IF num < 0 THEN 0 ELSE IF num > den THEN den ELSE num, den>>

\* Mutant: a score equal to the tolerance is a mismatch.
AtOrBelowTolerance(ratio) ==
    ratio.agree * resolved_tolerance[2] <= resolved_tolerance[1] * ratio.longest

BelowTolerance(ratio) ==
    ratio.agree * resolved_tolerance[2] < resolved_tolerance[1] * ratio.longest

\* The score is the worse of the two ratios, so it is below the tolerance as
\* soon as one of them is.
tolerant_verdict(claimed, recomputed) ==
    IF \/ BelowTolerance(token_overlap_ratio(claimed.token_ids, recomputed.token_ids))
       \/ BelowTolerance(logprob_agreement(claimed.top_logprobs,
                                           recomputed.top_logprobs))
    THEN Mismatch
    ELSE Match

-----------------------------------------------------------------------------
(* Which of the two comparisons decides.                                   *)

NoMapping == [given |-> {}, token_ids |-> << >>, top_logprobs |-> << >>]

\* Mutant: from_mapping turns a mapping without keys into empty evidence.
AnyMappingIsEvidence(mapping) == mapping.given \subseteq {"token_ids", "top_logprobs"}

\* TokenEvidence.from_mapping returns None unless one of the keys is there.
IsEvidence(mapping) == mapping.given # {}

\* Mutant: a mismatch without its fault.
exact_verdict_faultless(receipt, response) ==
    IF response = receipt.response_hash THEN Match
    ELSE [Mismatch EXCEPT !.fault = NoFault]

exact_verdict(receipt, response) ==
    IF response = receipt.response_hash THEN Match ELSE Mismatch

Compare(receipt, claimed, response, recomputed) ==
    IF Mode = "tolerant" /\ IsEvidence(claimed) /\ IsEvidence(recomputed)
    THEN tolerant_verdict(claimed, recomputed)
    ELSE exact_verdict(receipt, response)

\* replay_via_worker and the except clauses around it.  "rejected" is HTTP 400
\* or 422, "http_error" any other error status, "unreachable" a transport error
\* or the 10 s timeout, "malformed" a body without a usable response_hash.
WorkerStatuses == {"ok", "rejected", "http_error", "unreachable", "malformed"}

\* Mutant: a worker that cannot be reached counts against the operator.
worker_verdict_outage(receipt, input, answer) ==
    CASE answer.status = "ok" ->
            Compare(receipt, input.claimed, answer.response_hash, answer.evidence)
      [] answer.status = "malformed" -> Raised
      [] OTHER -> Mismatch

worker_verdict(receipt, input, answer) ==
    CASE answer.status = "ok" ->
            Compare(receipt, input.claimed, answer.response_hash, answer.evidence)
      [] answer.status = "rejected" -> Mismatch
      [] answer.status \in {"http_error", "unreachable"} -> Skipped
      [] OTHER -> Raised

\* Mutant: without a replay the receipt vouches for itself.
replay_receipt_self_attesting(receipt, input, answer) ==
    IF WorkerConfigured /\ input.present THEN worker_verdict(receipt, input, answer)
    ELSE Compare(receipt, input.claimed, receipt.response_hash, NoMapping)

\* Called as the daemon calls it: without expected_* and *_evidence arguments.
replay_receipt(receipt, input, answer) ==
    CASE WorkerConfigured /\ input.present -> worker_verdict(receipt, input, answer)
      [] ~WorkerConfigured /\ AllowStubReplay ->
            Compare(receipt, input.claimed, receipt.response_hash, NoMapping)
      [] OTHER -> Skipped
=============================================================================
