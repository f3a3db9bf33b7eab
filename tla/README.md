# Verification of validator-replay

validator-replay is a FastAPI daemon. Per epoch it draws a sample of the
receipts operators handed out, replays each sampled receipt on the validator's
own worker pool, and turns every mismatch into slashing evidence that it keeps
in memory, submits to the chain node and posts to a secondary HTTP sink. For an
epoch it also votes: it computes a weight for each operator, signs the vector and
submits it. This directory models the daemon in TLA+, checks it with TLC and
proves its core invariants with TLAPS. `PROJECT.json` holds the index: the
components, the runs, the source lines behind every definition, the hazards,
the findings and the theorems.

## The system

| Component | Source | State | Operations |
|---|---|---|---|
| request handlers | `app.py` `/sample`, `/replay`, `/run_epoch` | `app.state.slashing_submitted`, `salts_by_epoch`, `sink_status_counts`; locals of each running handler | verify, sample, replay, record, submit, post to the sink |
| read-only handlers | `app.py` `/healthz`, `/internal/slashings` | none | report the state above |
| vote and listing | `app.py` `/submit_weights`, `/internal/operators` | the chain client's | read operators, compute, encode, submit |
| replay verdict | `replay.py` | none | `replay_receipt`: exact or tolerant comparison |
| mismatch tracker | `replay.py` `MaterialMismatchTracker` | a count per operator | `record`, `is_material`, `reset`; never called |
| sampler, commitment | `sampler.py` | none between calls | `sample`, `commit`, `reveal` |
| chain client | `chain.py`, `weights.py` | cached substrate connection | probe with retries, read stakes, submit evidence, submit weights |
| SCALE encoding | `chain.py`, `weights.py` | none | compact integers, 32-byte ids, extrinsic bodies |
| weight vector | `weights.py` | none | who is faulty, who is listed with which weight, the call body |
| body limiter, authentication | `app.py` | bytes seen by one request, whether its response has started | count chunks, answer 413, compare a token |
| registry, configuration | `registry.py`, `config.py` | fixed after start | look up |

How they interact. All handlers run on one asyncio event loop and share
`app.state`. A handler runs undisturbed until it awaits, which is in two
places: the replay of a receipt, in a worker thread (`app.py:400`, `:347`), and
the POST to the sink (`app.py:436`). The chain client is synchronous: while it
waits for the node, the event loop stands still, so no other handler moves; the
vote and the listing are synchronous from end to end. Request bodies arrive in
chunks, and while one is awaited other requests move. The
outside world - the node, the worker, the sink, the death of the process - moves
at any time. Nothing is persisted.

What makes it hard:

- *interleaving*: two epoch runs, or an epoch run and a `/replay`, alternate at
  every receipt and share the evidence list and the sink counters;
- *partial failure*: three exceptions leave the loop over the receipts in the
  middle of an epoch (a malformed worker answer, an id that is not 32-byte hex,
  a node answer that is not JSON), after some evidence was recorded and sent;
- *unreliable delivery*: a submission that timed out may still land, and so may
  the vote of a request that was answered with an error or died;
- *crashes*: a restart empties the list, the salts and the counters, but cannot
  recall what is on the wire;
- *stale state*: the commitment to an epoch's sample is a cached salt, while the
  sample depends on the receipts and stakes of each call as well; the substrate
  connection is opened once, and what a vote is about is read before it is sent;
- *ordering*: the limiter may refuse a body after the application began to answer;
- *numeric edges*: sample sizes, ratios equal to the tolerance, empty lists,
  stakes below one, float division, the points where a compact integer grows, a
  body of exactly the limit.

What makes each part correct:

- handlers: evidence is listed before anything is told to the node; the list
  holds exactly what was found; the counters never claim more than happened; a
  response has a verdict for each sampled receipt; only receipts with a verified
  signature lead to evidence; an epoch's commitment does not change;
- verdict: a fault needs divergence beyond the tolerance, or a differing hash;
  an outage of the worker is no fault; nothing is confirmed without a replay;
- sampler: distinct receipts, the right number, every entry of the bag reachable,
  each with its share of the weight in the bag (that a receipt keeps the weight of
  its operator does not hold: `SamplerPairs`);
- vote: the clean active operators, each once, with a share that follows its
  stake; nothing is sent that was not vetted; what is reported as submitted is on
  the chain and nothing older replaces it; the stub only where it was asked for;
- limiter: no more than the limit reaches the application, nothing else is
  noticed, one response per request.

## Modules

```
Replay ──┬── ReplayCases ──┬── MCReplayCases
         │                 └── ReplayCasesProofs
         └── ValidatorDaemon ── DaemonProperties ──┬── MCValidatorDaemon
                                   │               └── ValidatorDaemonProofs
             EvidenceLedger ───────┘ (INSTANCE)
Floats ────────┬── SamplingRate ──┬── ValidatorDaemon (above)
               │                  └── StakeSampler ──┬── MCStakeSampler
               │                                     └── StakeSamplerProofs
               └── WeightVector ──┬── ChainClient ── ClientProperties ──┬── MCChainClient
                                  └── WeightVectorProofs ───────────────┴── ChainClientProofs
BodyLimit ─────┬── MCBodyLimit
               └── BodyLimitProofs
SumTheorems ────── FloatTheorems, BodyLimitProofs
FloatTheorems ──── ValidatorDaemonProofs, WeightVectorProofs, StakeSamplerProofs
```

**`Replay`** is `replay_receipt` as pure operators. `Compare` chooses between
`tolerant_verdict` and `exact_verdict`, `worker_verdict` covers the `except`
clauses around the call to the worker, `replay_receipt` the order in which the
sources are tried. A hash is an uninterpreted value; token ids and
log-probabilities are short integer lists, log-probabilities in units of
`abs_tol`; a score is a fraction, compared by cross-multiplication. Left out:
the `expected_*` and `recomputed_token_evidence` arguments (only tests pass
them) and bodies whose lists hold something other than numbers.

**`ReplayCases`** applies `replay_receipt` once to every input of a bounded set
and compares it with definitions stated independently: a count of diverging
positions instead of a score.

**`Floats`** is what `int` makes of a float product or quotient. The operands are
exact integers, or integers over a power of two; the result is rounded once, to
`MANTISSA` significant bits (53 in the code), to the nearest and in a tie to the
even mantissa, and then cut. Rounding shows only where it reaches the next
integer (`RoundsUp`). **`SamplingRate`** is the size of a sample,
`max(1, int(n * sample_rate))`. The rate is a float, so `SampleRate` is a pair
`<<m, k>>` that stands for m / 2^k with at most `MANTISSA` bits, never a decimal
fraction: the float written 0.29 is a little less than 0.29, and 100 receipts
give 28.

**`StakeSampler`** is `StakeWeightedSampler.sample` over an oracle for the
generator: `Shuffle` is any permutation, `Draw` any target, then the scan of the
running sums (`acc`, `drawn`) and the pop. A real-valued target draws the same
entry as the next integer above it, so integer targets stand for all of them;
float rounding above 2^53 is left out, except that a target beyond the last sum
makes the loop go round again, which is a stuttering step.

**`ValidatorDaemon`** is the process. Each element of `Requests` is one HTTP
call, with its content in `Call`; a client's retry is another element. `pc[q]`
says where the handler of `q` is:

| `pc` | the handler | actions that leave it |
|---|---|---|
| `unsent` | has not started | `Sample`, `StartReplay`, `StartRunEpoch`, `StakesUnavailable` (503), `RejectOversized` (413) |
| `replaying` | awaits the worker thread | `ReplayReturns`: `VerdictOnly`, `EvidenceFound`, `ReplayRaises` |
| `submitting` | is in `submit_slashing_evidence`, before the POST | `NodeUnreachable`, `EncodeRaises`, `PostExtrinsic` |
| `posted` | waits for the node's answer | `PostConfirmed`, `PostUnconfirmed`, `PostRaises` |
| `sinking` | awaits the sink | `SinkReturns` |
| `ok`, `413`, `503`, `replay_raised`, `submit_raised`, `lost` | is over | none |

`loop` is the request whose handler holds the event loop in a synchronous call;
handler steps need it to be free. `wire` and `landed` are what the node was sent
and what it took; `NodeTakes` happens before, after or without an answer.
`Crash` ends every running handler and resets `app.state`; it leaves the chain
and the ended requests' variables alone, which are history from then on.

Abstractions: a piece of evidence is the pair of its request and the position of
its receipt (two requests about one job make two pieces, as in the code, where
every append is a new object); a salt is named after the request that drew it,
so salts do not collide; a stake map is a value; the generator is an oracle that
answers alike for the same seed, receipts and stakes (`Samples`), with any
result of the right size, which is what `StakeSampler` returns
(`SampleIsDrawable`). A stub or an on-chain stake set counts as one of a set of
maps. Verdict details and the echo of receipts in responses are left out.

**`EvidenceLedger`** is the abstract specification: evidence is produced once
and listed in that step, the node takes only produced evidence and takes it
once, only a restart empties the list. **`DaemonProperties`** states the
properties, the refinement (`Ledger`), the inductive invariant, and what
comments and documents claim.

**`WeightVector`** is `compute_weight_vector`, `faulty_operators_from_verdicts`,
`encode_submit_weights_call` and the compact integers as pure operators. A name
is not an account: `Account` gives two hex names of one operator the same
account and refuses ss58 texts, while the code compares names. The text of a
verdict is any string: `Lower` is `str.lower`, and what it takes to "mismatch"
is one (`IsMismatch`). The float division is `Truncated` of `Floats`, with
`MANTISSA = 6` in the runs, where quotients near an integer are common. The
fixed-width fields of a body are records.

**`ChainClient`** is `/internal/operators` and `/submit_weights` over
`get_operator_stakes`, `_probe_with_retry` and `submit_weights`. As handlers are
synchronous, at most one request runs (`Arrives`), and the rest of the state is
what the world does to it:

| `pc` | the request | actions that leave it |
|---|---|---|
| `unsent` | has not started | `RequestOperators`; `SubmitWeights`: no key (400), operators from the request, or the probe |
| `probing_read`, `probing_submit` | probes the node, `attempts` left | `ProbeAnswers`, `ProbeFails`, `Unreachable` |
| `querying` | reads the storage map | `QueryAnswers`, `QueryUndecodable`, `QueryFails` |
| `composing` | composes and signs | `ComposeFails`, `SubmitExtrinsic` |
| `waiting` | waits for inclusion | `InclusionSeen`, `WaitFails` |
| `ok`, `400`, `503`, `raised`, `lost` | is over | none |

Once a request has operators (`WithOperators`) it lists them, or builds a body,
or raises because a name or the epoch cannot be encoded. `conn` is the cached
connection: it may be dead without anybody noticing, and a dead one works again
only if the library reconnects by itself, so both are possible. `pool` and
`chain` are external: the library signs with the nonce of the chain's state, so
the extrinsics of the validator in the pool compete for one place, and
`NodeIncludes` makes the others stale; `NodeDrops` forgets one. A request in the
model carries the receipts and verdicts its sender derived `faulty_operators`
from, so that the derivation is part of what is checked.

**`ClientProperties`** states what the two handlers guarantee and the inductive
invariant; `CleanListedOnce` and `SharesProportional` are reference definitions
of the vector that use neither its loops nor its division.

**`BodyLimit`** is the middleware, the application as it reads through it,
authentication and the size policy, one action per ASGI message. The application
is external and does what an ASGI application may: answer before it has read
everything, read on afterwards, turn the limiter's exception into a 400 (FastAPI
does) or let it through. The size of the `replay_inputs` that are written again
as JSON is independent of the size they had in the body.

Operators marked "Mutant" next to a definition are faulty variants of it; they
are used by no specification and show that a property notices the fault.

## Runs

| Run | Instance | Shows |
|---|---|---|
| `DaemonMixed` | any two of: two epoch runs over four receipts (one forged, one of an unknown operator, one operator with an id that cannot be encoded), on the caller's, the chain's or the stub's stakes, a `/sample` for the same epoch, a `/replay`, an oversized request; four worker answers, the node in all its moods, a sink, one crash; 294 650 states | the safety invariants, the inductive invariant, `SampleStable`, `SaltsFixed`, `LedgerSpec`, `RequestsEnd` |
| `ReplayTolerant` | evidence lists up to length 2, tolerance 1/2; 17 680 states | the verdict's properties |
| `SamplerDraw` | up to four receipts, two operators, stakes missing, -1, 0 or 3, rate 5/8 at `MANTISSA = 3`; 113 072 states | the sampler's properties |
| `ChainVotes` | one of twelve votes (stakes from the request or the chain, two names of one account, an ss58 name, nobody, a name, a receipt or the other name of an account accused, "mismatch" in two spellings, no valid epoch) beside a second vote or a listing, four storage maps, with and without stub and key, two probes, one outage, one crash; 553 640 states | the properties of the client and the vector, `ProbesEnd` |
| `BodyChunks` | two requests out of ten bodies around a limit of two bytes, three settings of the token; 66 910 states | the limiter's properties |

The bounds and why they are enough: two requests (`MaxCalls`) are the least that
interleave, and a handler cannot tell a third from a second; of four receipts two
are accepted, so a run has a first and a last receipt and can fail between them;
one crash separates two lives of the process, and a request may arrive in
either; two list positions distinguish equal length, different length, and
agreement above, at and below a tolerance of 1/2. With three significant bits the
product 3 * 5/8 rounds up to two and 4 * 5/8 is cut to two, one receipt gets the
`max(1, ...)` and two are cut to one, so that each way to arrive at a size of the
sample occurs within four receipts. Two votes are the least that
compete for a nonce, and one of them may be left in the pool by an error or a
crash before the other starts; one retry of the probe has a first and a last; a
vector of three operators has a largest, a smallest and a middle stake, and with
`U16_MAX = 15` and `MANTISSA = 6` quotients fall on, just below and half a unit
below an integer. `Lengths` takes the compact integers to the points where their
form changes. Two bodies of up to three chunks are counted at the same time, with
chunks that end at the limit, above it and empty. Deadlock checking is off in all
runs: the daemon is idle when its clients are, and `replay_receipt` and `sample`
return.

Seven more runs end in a counterexample. Each checks what a comment, docstring,
test or document says:

| Run | Claim | What the code does |
|---|---|---|
| `SamplerPairs` | entries are (operator, stake) pairs, `sampler.py:6` | the shuffle separates indices from weights, `sampler.py:72` |
| `SamplerCeil` | the sample size is a ceiling, `sampler.py:8` | `int` rounds it down, `sampler.py:67` |
| `DaemonReroll` | later `/sample` calls return the same set, `app.py:247` | other stakes give another set, `app.py:322` |
| `DaemonBreakdown` | what landed and what is just queued are told apart, `app.py:455` | `queued_locally` counts every mismatch, landed or not, `app.py:420` |
| `DaemonRpcFailure` | RPC failure raises `ChainUnreachableError`, `chain.py:216` | a non-JSON answer raises something else, `chain.py:244` |
| `ReplayWeaker` | tolerant is never weaker than exact, `test_validator.py:213` | two empty lists match, `replay.py:85` |
| `ChainStubVote` | after an RPC failure in stub mode nothing is submitted, `app.py:473` | the second probe may succeed and the vote over the stub's operators is sent, `app.py:507` |

More divergences need no run, or follow from a property that holds:

- the salt of an epoch is "generated once per `epoch_seed`" (`app.py:246`) and lost in
  a restart (`Crash`), after which the epoch gets another one;
- `/internal/slashings` is commented "only the slashings from the most recent run"
  (`app.py:525`) and lists all of the process (`RetainedIsProduced`);
- "a one-off borderline divergence does not slash" (`README.md:54-56` of the
  repository), and the tracker that would see to it is never consulted: the first
  mismatch goes to the node (`EvidenceFound`, `app.py:411`);
- the operators of a vote come "from `ChainRpcClient.get_operator_stakes`"
  (`weights.py:81`), whose names may be ss58 texts (`chain.py:305`): `_to_32` refuses
  these and the request ends in an uncaught exception (`WithOperators`, `BodyRaises`);
- faulty operators "get weight 0" (`weights.py:84`) and are left out
  (`CleanListedOnce`), but names are compared (`weights.py:98`): an account accused
  with 0x stays in the vector if it is also listed without, as `_to_32` takes both
  (`chain.py:401`); a vote of `ChainVotes` is of this kind;
- the chain client "is created per-call to avoid a long-lived connection"
  (`chain.py:87`), and one client with one cached connection serves the process
  (`conn`);
- a streamed body above the limit is meant to be a 413 (`app.py:170`); FastAPI
  turns the exception into a 400 before the middleware sees it
  (`TooLargeTranslated`).

## Fairness

`FairSpec` assumes, per request, that a replay returns, that a step of the
submission happens and that the sink's POST returns. The code bounds each wait:
10 s for the worker, 0.1 s for each of four probes, 5 s for the submission, 2 s
for the sink, and a timeout is one of the outcomes. The event loop resumes
whatever is ready, and a synchronous call that holds it ends by the same
timeouts. Weak fairness is enough: while a handler waits for the loop, the
holder's own step stays enabled, and every request that takes the loop has
finitely many receipts left. Clients (no fairness on arrivals), the node
(`NodeTakes`) and crashes owe nothing. The library's timeouts are per
network operation, so a peer that trickles bytes for ever is outside this
assumption.

In `ChainClient` only the probes are fair: each ends after 0.1 s and each pause
after its time. The calls over the substrate connection, and the wait for
inclusion above all, have no limit in the code, so that nothing is assumed of
them and a vote need not end (hazard `weights.py:242`). `BodyLimit` assumes
nothing: a client may stop in the middle of a body.

## Proofs

`ValidatorDaemonProofs` proves, for every set of requests, receipts, answers and
stakes, every rate, and any bound on calls and crashes:

- `Invariance`: `IndInv` is invariant;
- `TypeCorrect`, `RetentionCorrect`, `CountersCorrect`, `VerificationCorrect`,
  `CompletenessCorrect`, `SinkCorrect`, `SampleStability`: the safety properties
  of `DaemonMixed`;
- `SaltsCorrect`: the action property `SaltsFixed`;
- `LedgerImplemented`: the daemon implements `EvidenceLedger`.

The proofs assume `ReplayAssumption`, `DaemonAssumption`, `RateAssumption` and
`MantissaAssumption`: the types of the constants, distinct markers for "nobody"
and "no salt", a sample rate that is a float of at most one
(`StakeWeightedSampler.__init__` checks the latter), and finitely many sink
statuses (an HTTP status is a number below 600, or an error). They use the
library's facts about finite sets.

Why the inductive invariant has its parts. `RetainedIsProduced` alone is not
inductive: that the list stays free of repetition needs that the receipt being
replayed has not been replayed before, which is `SampleInv` (a sample has no
repetition, and a handler has one verdict per replayed receipt). That a crash
may reset the list and the set of served requests together needs `ServedInv`:
what still runs belongs to this process. `CountersHonest` allows a count up to
the number of items that landed, but counting the current item once more is
sound only if it was not counted before: `Countable` leaves it out as long as
its handler holds the loop, and `LoopInv` says when that is. That the evidence a
request found is as much as its mismatches, which `queued_locally` counts, is
`EvidenceCounted`. `ChainInv` excludes
that an item is sent twice, which the ledger's "at most once" needs. `SaltInv`
ties the salt of every sample drawn in this process to the cached one.
`SinkAccounts` relates a sum over the buckets to the size of a set: a handler that
leaves the sink adds one to a bucket and one element to the set, every other step
leaves both alone. With `SinkInv`, that a handler is at the sink only where one is
configured, it is inductive.

Each part has a lemma of its own with one step per action (`TypeStep`,
`LoopStep`, `ServedStep`, `SampleStep`, `RetainedStep`, `ChainStep`,
`CountStep`, `SaltStep`, `SinkStep`). `ArriveEffect` and `SubmitEffect` sum up what the
actions of these two groups do, so that most lemmas need not look into them.
`SampleStable` and `AnsweredIsComplete` are proved on top of the invariant.

`SumTheorems` is what makes sums and recursive functions provable. The library's
induction theorems take a predicate as a parameter, which the provers cannot
instantiate, so an induction here is an argument about a minimal counterexample:
a set of natural numbers has a least element (`MinimalNat`), a family of subsets
of a finite set a minimal one (`MinimalSubset`). `Recursion` constructs the
function a recursive definition speaks of, over any well-founded order; the sums
of the community modules are such functions (`SumUnfolds`). From there: a sum does not depend on the order (`SumRemove`), grows with
its set (`SumGrows`), follows a change of one summand (`SumChanges`), and over
the positions of a list can be taken one by one (`SumPrefix`).

`FloatTheorems` has the same for `pow2` and `bits` (`PowersOfTwo`, `BitsUnfold`):
`bits` is the least exponent of a power of two above a number (`BitsBound`), a
quotient below 2^`MANTISSA` has a bit left below the units (`RoundingPlace`), and so
`Truncated` is within half a unit in the last place of the true quotient, from
above and from below (`TruncationBounds`). The sampler's size and the vote's
weights both rest on it.

`ReplayCasesProofs` proves of `replay_receipt`, for every mode, tolerance and
stub setting, with and without a worker: `ReplayTypeCorrect`,
`SelfAttestationExcluded` and `OutageHarmless`. The argument is `VerdictSource`,
a case split over the order of the sources. `DivergenceCorrect` and
`FallbackCorrect` state for evidence lists of any length, where the runs have two
positions, that with evidence on both sides the share of diverging positions
decides, and that without it tolerant mode is exact mode:
positions agree or diverge (`AgreeOrDiverge`), so the two counts add up to the
longer list (`SharesComplement`), which turns the score of the code into the count
of the reference (`BelowIsMaterial`). They assume `CasesAssumption`, that evidence
holds lists of numbers. The code clamps the tolerance into 0 .. 1, and so must the
reference: with a tolerance above one the spare share is zero, as with one.

`StakeSamplerProofs` proves of the sampler, for every list of receipts, every
stake map, every precision and every float rate up to one: `SamplerTypeCorrect`, `PartitionCorrect`,
`SampleCorrect`, `DrawCorrect` and `EveryEntryDrawable`.
`SampleIsDrawable` speaks about the end of the loop; the inductive part is
`BagPartition`: drawn and remaining entries make up the list, so the bag can run
dry only when the whole list is drawn, and the size bound then fixes the number.
`SampleSizeBounds` does the arithmetic of the rounded product: it is at most all,
and no further from the exact product than a float's precision, which the property
states by multiplication alone, without the definition of `Truncated`. It needs
that the lists are shorter than 2^`MANTISSA`. `DrawCorrect`
needs that the running sum is that of the entries scanned so far; as the weights
are at least one, every entry has a target that draws it (`EveryEntryDrawable`),
whatever the stakes. This discharges what `ValidatorDaemon` assumes of its oracle
about sizes and distinctness.

`WeightVectorProofs` has the lemmas about the vector, for any list of operators:
a name is listed once (`KeptOnce`), every clean name is (`KeptCovers`), whoever
is accused is faulty and nobody else (`AccusedIsFaulty`), and a weight is in `1 .. U16_MAX`
whatever the stakes, the maximum and the rounding (`WeightInRange`). Weights
follow stakes (`WeightsFollowStakes`) because the rounded quotient grows with its
dividend (`QuotientGrows`), and are shares of the largest one (`WeightIsShare`)
because it is less than one away from the true quotient (`QuotientBounds`). Both
need that floats up to `U16_MAX` are exact integers (`WeightsAreExact`), which is
what `WeightAssumption` says of `MANTISSA`; for 53 and 65535 it is so by far. `CompactReadBack` is the round trip of a compact integer of
any size: the lowest n bytes of a number make up what is left of it below 2^8n
(`SumOfBytes`), and by `BitsBound` nothing is cut off in any of the four forms.

`ChainClientProofs` proves for every set of requests, contents of requests and
storage, stub, settings, number of retries, outages and crashes that `ClientInv`
is invariant, and from it `ClientTypeCorrect`, `ConfirmationCorrect`,
`VettingCorrect`, `OptInCorrect`, `ListingCorrect`, `SharesCorrect` and
`DecodingCorrect`. `ConfirmedVoteStands` is
not inductive: that nothing older follows a confirmed vote later needs that
whatever is in the pool started after it (`StandsInv`); that a vote is last on the chain at
the time it is confirmed needs that its inclusion emptied the pool and nobody
else could send while it waited (`SentInv`); and that needs that the request that
holds the event loop is the last that started (`OrderInv`). `SourceInv` and
`BodyInv` tie a body to the operators its request read, which do not change under
it (`ReadingFixed`). `StepKind` sorts the seventeen actions into the nine kinds
the invariant can tell apart, so that each part has one step per kind; `NothingSent`
covers those that leave the chain alone.

`BodyLimitProofs` proves of the limiter, for any number of concurrent requests,
any bodies and any limit, that `LimitInv` is invariant, and from it
`LimitTypeCorrect`, `CapCorrect`, `OneResponseCorrect` and `TransparencyCorrect`.
`CapInv` says that what the application holds was counted; `Told` says for every
place what was sent so far and that the middleware knows of a response that has
begun. That a body within the limit is never refused needs that the middleware's
count is the sum of the chunks received (`CountedInv`), which a whole body bounds.

These proofs assume `SamplerAssumption`, `WeightAssumption`, `ClientAssumption`,
`LengthsAssumption` and `LimitAssumption`, with `RateAssumption` and
`MantissaAssumption` where floats are involved: the types of the constants, and markers for missing values
that are no values.

Every safety invariant and action property the runs check is proved. Only
model-checked: `RequestsEnd` and `ProbesEnd`, as liveness is beyond the prover,
and the seven claims that do not hold.

## Not modelled, and what is left

Not modelled, with the reason:

- `MaterialMismatchTracker`: nothing in the package constructs or calls it, so it
  has no reachable state;
- `config.py`, `registry.py` loading and `_enforce_ws_safety`: checks when the
  process starts, before there is any behaviour; their results are constants;
- the BLAKE2 commitment is a hash, and no handler reveals it;
- the fixed-width bytes of the evidence extrinsic and of the weight call, log
  lines, the layout of responses: no branch depends on them;
- `replay_receipt`'s arguments that only tests pass.

Left to do: an identity of evidence by job and operator, with retried
`/run_epoch` calls, to state what a chain that deduplicates would have to do; an
abstract ledger of votes that `ChainClient` implements, as `EvidenceLedger` is for
the daemon; and the daemon's oracle for the sample as a refinement by the sampler.
