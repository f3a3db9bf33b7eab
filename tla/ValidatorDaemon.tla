-------------------------- MODULE ValidatorDaemon ---------------------------
(***************************************************************************)
(* The HTTP handlers of app.py that sample, replay and slash, as they run  *)
(* on one asyncio event loop.                                              *)
(*                                                                         *)
(* A handler runs alone until it awaits: once per receipt, for the replay  *)
(* in a worker thread, and once per piece of evidence, for the secondary   *)
(* sink.  The calls to the chain node are synchronous: they hold the event *)
(* loop (`loop'), so that only the outside world - the node, a crash - can *)
(* move meanwhile.  Every HTTP call is one element of Requests; a client   *)
(* that retries sends another request with the same content.               *)
(*                                                                         *)
(* Data abstraction.  A piece of evidence is the pair of the request and   *)
(* the position, in its receipts, of the receipt it accuses; a salt is the *)
(* name of the request that drew it (secrets.token_hex is taken to be      *)
(* fresh); a stake map is an uninterpreted value; a sample is a sequence   *)
(* of positions in the receipts of the request.  The pseudo-random         *)
(* generator is an oracle: any sample of the right size, the same one for  *)
(* the same seed and arguments.  StakeSampler models how it is drawn.      *)
(*                                                                         *)
(* A request that ended keeps its variables: they say what it answered     *)
(* with or, after a crash, how far it had come.                            *)
(***************************************************************************)
EXTENDS Replay, SamplingRate, Functions

CONSTANTS
    Requests,           \* the HTTP calls clients make
    Call,               \* the content of each request
    Epochs,             \* epoch_seed values
    Stakes,             \* operator -> stake maps
    NoStakes,           \* the empty map: the caller left operator_stake out
    ChainStakes,        \* the maps the chain node may report
    StubStakes,         \* the map of the stub data file
    Registry,           \* registered operator ids
    HexIds,             \* the operator and job ids that are 32-byte hex
    AllowUnsigned,      \* VALIDATOR_ALLOW_UNSIGNED_INGEST
    AllowStubChain,     \* VALIDATOR_ALLOW_STUB_CHAIN
    WorkerAnswers,      \* what the worker may answer
    SlashingEndpoint,   \* a secondary sink is configured
    SinkStatuses,       \* HTTP statuses of the sink
    MaxCalls,           \* bound on the requests clients make
    MaxCrashes,         \* bound on the number of crashes
    Idle,               \* nobody holds the event loop
    NoSalt              \* no salt drawn for the epoch

Handlers == {"sample", "replay", "run_epoch"}

ASSUME DaemonAssumption ==
    /\ \A q \in Requests :
         /\ Call[q].handler \in Handlers
         /\ Call[q].epoch \in Epochs
         /\ Call[q].operator_stake \in Stakes
         /\ Call[q].receipts \in Seq(Range(Call[q].receipts))
    /\ NoStakes \in Stakes /\ StubStakes \in Stakes /\ ChainStakes \subseteq Stakes
    /\ AllowUnsigned \in BOOLEAN
    /\ AllowStubChain \in BOOLEAN
    /\ SlashingEndpoint \in BOOLEAN
    /\ IsFiniteSet(SinkStatuses) /\ "error" \notin SinkStatuses
    /\ MaxCalls \in Nat /\ MaxCrashes \in Nat
    /\ Idle \notin Requests
    /\ NoSalt \notin Requests

VARIABLES
    (* one value per request: the local variables of its handler *)
    pc,                 \* where the handler is, or how it answered
    stakes,             \* the stake map the sampler was given
    salt,               \* the salt of the commitment
    chosen,             \* positions of the receipts to replay, in order
    verdicts,           \* the results so far, one per replayed receipt
    queued_locally,
    submitted_to_chain,
    (* the process *)
    loop,               \* the request whose handler holds the event loop, or Idle
    slashing_submitted, \* app.state.slashing_submitted
    salts_by_epoch,
    sink_status_counts,
    served,             \* the requests the running process started to handle
    crashes,
    (* outside the process *)
    wire,               \* evidence sent to the node, which may still take it
    landed              \* evidence the node took

handler_vars == <<stakes, salt, chosen, verdicts, queued_locally, submitted_to_chain>>
process_vars == <<loop, slashing_submitted, salts_by_epoch, sink_status_counts,
                  served, crashes>>
chain_vars == <<wire, landed>>
vars == <<pc, handler_vars, process_vars, chain_vars>>

\* Suspended at an await, or inside a call to the node.
Running == {"replaying", "submitting", "posted", "sinking"}

\* "replay_raised" and "submit_raised" are the two exceptions that leave a
\* handler as an HTTP 500; "lost" is a request the process died under.
Ended == {"ok", "413", "503", "replay_raised", "submit_raised", "lost"}

Buckets == SinkStatuses \cup {"error"}

EvidenceIds == UNION {{q} \X DOMAIN Call[q].receipts : q \in Requests}

TypeOK ==
    /\ pc \in [Requests -> {"unsent"} \cup Running \cup Ended]
    /\ stakes \in [Requests -> Stakes]
    /\ salt \in [Requests -> Requests \cup {NoSalt}]
    /\ chosen \in [Requests -> Seq(Nat \ {0})]
    /\ verdicts \in [Requests -> Seq(Verdicts)]
    /\ queued_locally \in [Requests -> Nat]
    /\ submitted_to_chain \in [Requests -> Nat]
    /\ loop \in Requests \cup {Idle}
    /\ slashing_submitted \in Seq(EvidenceIds)
    /\ salts_by_epoch \in [Epochs -> Requests \cup {NoSalt}]
    /\ sink_status_counts \in [Buckets -> Nat]
    /\ served \subseteq Requests
    /\ crashes \in 0 .. MaxCrashes
    /\ wire \subseteq EvidenceIds
    /\ landed \subseteq EvidenceIds

Init ==
    /\ pc = [q \in Requests |-> "unsent"]
    /\ stakes = [q \in Requests |-> NoStakes]
    /\ salt = [q \in Requests |-> NoSalt]
    /\ chosen = [q \in Requests |-> << >>]
    /\ verdicts = [q \in Requests |-> << >>]
    /\ queued_locally = [q \in Requests |-> 0]
    /\ submitted_to_chain = [q \in Requests |-> 0]
    /\ loop = Idle
    /\ slashing_submitted = << >>
    /\ salts_by_epoch = [e \in Epochs |-> NoSalt]
    /\ sink_status_counts = [b \in Buckets |-> 0]
    /\ served = {}
    /\ crashes = 0
    /\ wire = {}
    /\ landed = {}

-----------------------------------------------------------------------------
(* Sampling. *)

\* Mutant: any receipt of a registered operator, signed or not.
VerifiedByName(r) == AllowUnsigned \/ r.operator_id \in Registry

\* _verify_receipts: a receipt counts if its operator is registered and its
\* signature verifies, or if unsigned ingest is allowed.
Verified(r) ==
    \/ AllowUnsigned
    \/ r.operator_id \in Registry /\ r.genuine

Accepted(q) == {i \in DOMAIN Call[q].receipts : Verified(Call[q].receipts[i])}

\* Nothing from nothing, and n_sample from anything else.
SampleSize(n) == IF n = 0 THEN 0 ELSE n_sample(n)

\* StakeWeightedSampler.sample draws distinct receipts among the accepted ones.
Drawable(q) == Injection(1 .. SampleSize(Cardinality(Accepted(q))), Accepted(q))

\* Two draws that agree in seed (epoch, validator and salt), receipts and
\* stakes give the same sample.
SameDraw(p, q, st, sa) ==
    /\ salt[p] = sa
    /\ Call[p].epoch = Call[q].epoch
    /\ Call[p].receipts = Call[q].receipts
    /\ stakes[p] = st

Samples(q, st, sa) ==
    {s \in Drawable(q) : \A p \in Requests : SameDraw(p, q, st, sa) => s = chosen[p]}

\* Mutant: a fresh salt for every request.
salt_per_request(epoch, q) == IF epoch \in Epochs THEN q ELSE NoSalt

get_or_create_salt(epoch, q) ==
    IF salts_by_epoch[epoch] # NoSalt THEN salts_by_epoch[epoch] ELSE q

\* CommitReveal and the sampler, given the stakes st.
Draw(q, st) ==
    LET sa == get_or_create_salt(Call[q].epoch, q)
    IN  /\ stakes' = [stakes EXCEPT ![q] = st]
        /\ salt' = [salt EXCEPT ![q] = sa]
        /\ salts_by_epoch' = [salts_by_epoch EXCEPT ![Call[q].epoch] = sa]
        /\ \E s \in Samples(q, st, sa) : chosen' = [chosen EXCEPT ![q] = s]

\* What the node reports or, when it fails and the stub is allowed, the stub.
get_operator_stakes == ChainStakes \cup (IF AllowStubChain THEN {StubStakes} ELSE {})

\* run_epoch samples with the caller's stakes if there are any.
StakesFor(q) ==
    IF Call[q].operator_stake # NoStakes THEN {Call[q].operator_stake}
    ELSE get_operator_stakes

-----------------------------------------------------------------------------
(* A request arrives. *)

\* The event loop is free to start one more handler.
Arrives(q) ==
    /\ pc[q] = "unsent" /\ loop = Idle
    /\ Cardinality({p \in Requests : pc[p] # "unsent"}) < MaxCalls

Oversized(q) == Call[q].handler \in {"replay", "run_epoch"} /\ Call[q].oversized

\* The loop over the receipts goes on, or the handler returns its response.
NextReceipt(replayed, todo) ==
    IF Len(replayed) < Len(todo) THEN "replaying" ELSE "ok"

Serve(q, at) ==
    /\ pc' = [pc EXCEPT ![q] = at]
    /\ served' = served \cup {q}

\* 413 from the body limiter or from _enforce_replay_input_policy.
RejectOversized(q) ==
    /\ Arrives(q) /\ Oversized(q)
    /\ Serve(q, "413")
    /\ UNCHANGED <<handler_vars, loop, slashing_submitted, salts_by_epoch,
                   sink_status_counts, crashes, chain_vars>>

\* POST /sample: no await, no replay.
Sample(q) ==
    /\ Arrives(q) /\ Call[q].handler = "sample"
    /\ Draw(q, Call[q].operator_stake)
    /\ Serve(q, "ok")
    /\ UNCHANGED <<verdicts, queued_locally, submitted_to_chain, loop,
                   slashing_submitted, sink_status_counts, crashes, chain_vars>>

\* POST /replay replays every accepted receipt, in the order of the request.
StartReplay(q) ==
    /\ Arrives(q) /\ ~Oversized(q) /\ Call[q].handler = "replay"
    /\ \E s \in Injection(1 .. Cardinality(Accepted(q)), Accepted(q)) :
         /\ \A i, j \in DOMAIN s : i < j => s[i] < s[j]
         /\ chosen' = [chosen EXCEPT ![q] = s]
         /\ Serve(q, NextReceipt(verdicts[q], s))
    /\ UNCHANGED <<stakes, salt, verdicts, queued_locally, submitted_to_chain, loop,
                   slashing_submitted, salts_by_epoch, sink_status_counts, crashes,
                   chain_vars>>

\* POST /run_epoch up to the first await.
StartRunEpoch(q) ==
    /\ Arrives(q) /\ ~Oversized(q) /\ Call[q].handler = "run_epoch"
    /\ \E st \in StakesFor(q) : Draw(q, st)
    /\ Serve(q, NextReceipt(verdicts[q], chosen'[q]))
    /\ UNCHANGED <<verdicts, queued_locally, submitted_to_chain, loop,
                   slashing_submitted, sink_status_counts, crashes, chain_vars>>

\* 503: no stakes given, and ChainUnreachableError: the node cannot be read and
\* there is no stub, or it answers but names an account get_operator_stakes
\* cannot decode, which the stub does not soften.  The exception leaves the
\* handler before a salt is drawn.
StakesUnavailable(q) ==
    /\ Arrives(q) /\ ~Oversized(q) /\ Call[q].handler = "run_epoch"
    /\ Call[q].operator_stake = NoStakes
    /\ Serve(q, "503")
    /\ UNCHANGED <<handler_vars, loop, slashing_submitted, salts_by_epoch,
                   sink_status_counts, crashes, chain_vars>>

-----------------------------------------------------------------------------
(* A replay thread is done and the handler goes on with its result. *)

ReceiptOf(e) == Call[e[1]].receipts[e[2]]

\* The receipt being replayed, as the evidence it may become.
Replayed(q) == <<q, chosen[q][Len(verdicts[q]) + 1]>>

\* The evidence of the latest verdict.
Current(q) == <<q, chosen[q][Len(verdicts[q])]>>

\* "verdict == MISMATCH and fault is not None", in run_epoch only.
Slashes(q, res) ==
    /\ Call[q].handler = "run_epoch"
    /\ res.verdict = "mismatch" /\ res.fault # NoFault

\* Mutant: the exception ends the loop, and the handler answers with what it has.
ReplayRaisesSwallowed(q, res) ==
    /\ res = Raised
    /\ pc' = [pc EXCEPT ![q] = "ok"]
    /\ UNCHANGED <<verdicts, queued_locally, loop, slashing_submitted>>

\* An exception leaves the handler: the rest of the loop is abandoned.
ReplayRaises(q, res) ==
    /\ res = Raised
    /\ pc' = [pc EXCEPT ![q] = "replay_raised"]
    /\ UNCHANGED <<verdicts, queued_locally, loop, slashing_submitted>>

\* Mutant: a failed replay is taken for a verdict.
AnyResultIsVerdict(q, res) ==
    /\ ~Slashes(q, res)
    /\ verdicts' = [verdicts EXCEPT ![q] = Append(@, res)]
    /\ pc' = [pc EXCEPT ![q] = NextReceipt(verdicts'[q], chosen[q])]
    /\ UNCHANGED <<queued_locally, loop, slashing_submitted>>

VerdictOnly(q, res) ==
    /\ res \in Verdicts /\ ~Slashes(q, res)
    /\ verdicts' = [verdicts EXCEPT ![q] = Append(@, res)]
    /\ pc' = [pc EXCEPT ![q] = NextReceipt(verdicts'[q], chosen[q])]
    /\ UNCHANGED <<queued_locally, loop, slashing_submitted>>

\* Mutant: the list is replaced, as if it were local to one run.
EvidenceReplacesList(q, res) ==
    /\ res \in Verdicts /\ Slashes(q, res)
    /\ verdicts' = [verdicts EXCEPT ![q] = Append(@, res)]
    /\ slashing_submitted' = <<Replayed(q)>>
    /\ queued_locally' = [queued_locally EXCEPT ![q] = @ + 1]
    /\ pc' = [pc EXCEPT ![q] = "submitting"]
    /\ loop' = q

\* Without an await the handler goes on into submit_slashing_evidence.
EvidenceFound(q, res) ==
    /\ res \in Verdicts /\ Slashes(q, res)
    /\ verdicts' = [verdicts EXCEPT ![q] = Append(@, res)]
    /\ slashing_submitted' = Append(slashing_submitted, Replayed(q))
    /\ queued_locally' = [queued_locally EXCEPT ![q] = @ + 1]
    /\ pc' = [pc EXCEPT ![q] = "submitting"]
    /\ loop' = q

ReplayReturns(q) ==
    /\ pc[q] = "replaying" /\ loop = Idle
    /\ \E answer \in WorkerAnswers :
         LET r   == ReceiptOf(Replayed(q))
             res == replay_receipt(r, Call[q].replay_inputs[r.job_id], answer)
         IN  ReplayRaises(q, res) \/ VerdictOnly(q, res) \/ EvidenceFound(q, res)
    /\ UNCHANGED <<stakes, salt, chosen, submitted_to_chain, salts_by_epoch,
                   sink_status_counts, served, crashes, chain_vars>>

-----------------------------------------------------------------------------
(* submit_slashing_evidence: probe, encode, post, answer.  The handler holds *)
(* the event loop throughout.                                                *)

\* After the submission: the sink if there is one, else the next receipt.
AfterSubmission(q) ==
    IF SlashingEndpoint THEN "sinking" ELSE NextReceipt(verdicts[q], chosen[q])

\* Mutant: the event loop stays blocked.
ReleaseNothing(q, at) == pc' = [pc EXCEPT ![q] = at] /\ UNCHANGED loop

Release(q, at) ==
    /\ pc' = [pc EXCEPT ![q] = at]
    /\ loop' = Idle

\* _encode_slashing_extrinsic puts the operator and the job id through _to_32.
Encodable(e) == ReceiptOf(e).operator_id \in HexIds /\ ReceiptOf(e).job_id \in HexIds

\* No probe was answered: ChainUnreachableError, or None in stub mode.
NodeUnreachable(q) ==
    /\ pc[q] = "submitting"
    /\ Release(q, AfterSubmission(q))
    /\ UNCHANGED <<handler_vars, slashing_submitted, salts_by_epoch,
                   sink_status_counts, served, crashes, chain_vars>>

\* A probe was answered, and the ValueError of _to_32 is caught by nobody.
EncodeRaises(q) ==
    /\ pc[q] = "submitting" /\ ~Encodable(Current(q))
    /\ Release(q, "submit_raised")
    /\ UNCHANGED <<handler_vars, slashing_submitted, salts_by_epoch,
                   sink_status_counts, served, crashes, chain_vars>>

PostExtrinsic(q) ==
    /\ pc[q] = "submitting" /\ Encodable(Current(q))
    /\ pc' = [pc EXCEPT ![q] = "posted"]
    /\ wire' = wire \cup {Current(q)}
    /\ UNCHANGED <<handler_vars, process_vars, landed>>

\* The node takes the extrinsic into its pool, in time or after the client has
\* given up on the answer.  Nothing forces it to.
NodeTakes(e) ==
    /\ e \in wire
    /\ wire' = wire \ {e}
    /\ landed' = landed \cup {e}
    /\ UNCHANGED <<pc, handler_vars, process_vars>>

\* Mutant: any answer counts as a confirmation.
PostAssumed(q) ==
    /\ pc[q] = "posted"
    /\ submitted_to_chain' = [submitted_to_chain EXCEPT ![q] = @ + 1]
    /\ Release(q, AfterSubmission(q))
    /\ UNCHANGED <<stakes, salt, chosen, verdicts, queued_locally, slashing_submitted,
                   salts_by_epoch, sink_status_counts, served, crashes, chain_vars>>

\* Mutant: confirmed evidence is taken off the list.
PostConfirmedForgets(q) ==
    /\ pc[q] = "posted" /\ Current(q) \in landed
    /\ submitted_to_chain' = [submitted_to_chain EXCEPT ![q] = @ + 1]
    /\ slashing_submitted' = SelectSeq(slashing_submitted, LAMBDA e : e # Current(q))
    /\ Release(q, AfterSubmission(q))
    /\ UNCHANGED <<stakes, salt, chosen, verdicts, queued_locally, salts_by_epoch,
                   sink_status_counts, served, crashes, chain_vars>>

\* A result that is not null: the transaction hash.
PostConfirmed(q) ==
    /\ pc[q] = "posted" /\ Current(q) \in landed
    /\ submitted_to_chain' = [submitted_to_chain EXCEPT ![q] = @ + 1]
    /\ Release(q, AfterSubmission(q))
    /\ UNCHANGED <<stakes, salt, chosen, verdicts, queued_locally, slashing_submitted,
                   salts_by_epoch, sink_status_counts, served, crashes, chain_vars>>

\* An error envelope, an HTTP error, a null result, or no answer within 5 s: the
\* handler learns nothing about what became of the extrinsic.
PostUnconfirmed(q) ==
    /\ pc[q] = "posted"
    /\ Release(q, AfterSubmission(q))
    /\ UNCHANGED <<handler_vars, slashing_submitted, salts_by_epoch,
                   sink_status_counts, served, crashes, chain_vars>>

\* A 200 whose body is not JSON: the JSONDecodeError is caught by nobody.
PostRaises(q) ==
    /\ pc[q] = "posted"
    /\ Release(q, "submit_raised")
    /\ UNCHANGED <<handler_vars, slashing_submitted, salts_by_epoch,
                   sink_status_counts, served, crashes, chain_vars>>

-----------------------------------------------------------------------------
\* Mutant: a sink that cannot be reached leaves no count.
SinkErrorUncounted(q) ==
    /\ pc[q] = "sinking" /\ loop = Idle
    /\ \/ UNCHANGED sink_status_counts
       \/ \E status \in SinkStatuses :
            sink_status_counts' = [sink_status_counts EXCEPT ![status] = @ + 1]
    /\ pc' = [pc EXCEPT ![q] = NextReceipt(verdicts[q], chosen[q])]
    /\ UNCHANGED <<handler_vars, loop, slashing_submitted, salts_by_epoch, served,
                   crashes, chain_vars>>

\* The sink answered, or httpx.HTTPError (the 2 s timeout included).
SinkReturns(q) ==
    /\ pc[q] = "sinking" /\ loop = Idle
    /\ \E bucket \in Buckets :
         sink_status_counts' = [sink_status_counts EXCEPT ![bucket] = @ + 1]
    /\ pc' = [pc EXCEPT ![q] = NextReceipt(verdicts[q], chosen[q])]
    /\ UNCHANGED <<handler_vars, loop, slashing_submitted, salts_by_epoch, served,
                   crashes, chain_vars>>

\* The process dies and comes back: nothing of app.state is persisted.
Crash ==
    /\ served # {} /\ crashes < MaxCrashes
    /\ crashes' = crashes + 1
    /\ pc' = [q \in Requests |-> IF pc[q] \in Running THEN "lost" ELSE pc[q]]
    /\ loop' = Idle
    /\ slashing_submitted' = << >>
    /\ salts_by_epoch' = [e \in Epochs |-> NoSalt]
    /\ sink_status_counts' = [b \in Buckets |-> 0]
    /\ served' = {}
    /\ UNCHANGED <<handler_vars, chain_vars>>

Arrive(q) ==
    \/ RejectOversized(q) \/ Sample(q) \/ StartReplay(q)
    \/ StartRunEpoch(q) \/ StakesUnavailable(q)

Submit(q) ==
    \/ NodeUnreachable(q) \/ EncodeRaises(q) \/ PostExtrinsic(q)
    \/ PostConfirmed(q) \/ PostUnconfirmed(q) \/ PostRaises(q)

Next ==
    \/ \E q \in Requests : Arrive(q) \/ ReplayReturns(q) \/ Submit(q) \/ SinkReturns(q)
    \/ \E e \in wire : NodeTakes(e)
    \/ Crash

Spec == Init /\ [][Next]_vars

\* Every wait of a handler ends: the worker call times out after 10 s, the
\* probes after 0.1 s, the submission after 5 s and the sink after 2 s, and the
\* event loop resumes what is ready.  Clients, the node and crashes owe nothing.
Fairness ==
    \A q \in Requests :
        WF_vars(ReplayReturns(q)) /\ WF_vars(Submit(q)) /\ WF_vars(SinkReturns(q))

FairSpec == Spec /\ Fairness
=============================================================================
