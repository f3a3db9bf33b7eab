-------------------------- MODULE DaemonProperties --------------------------
(***************************************************************************)
(* What the handlers of ValidatorDaemon guarantee, and what the comments   *)
(* and documents of the repository say they guarantee.                     *)
(***************************************************************************)
EXTENDS ValidatorDaemon

\* The evidence the verdicts of a run_epoch call for.
Mismatched(q) ==
    {i \in DOMAIN verdicts[q] :
        Call[q].handler = "run_epoch" /\ verdicts[q][i].verdict = "mismatch"}

EvidenceOf(q) == {<<q, chosen[q][i]>> : i \in Mismatched(q)}

Produced == UNION {EvidenceOf(q) : q \in Requests}

Retained == Range(slashing_submitted)

-----------------------------------------------------------------------------
(* Safety. *)

\* The in-memory list holds the evidence of every mismatch the running process
\* found, of nothing else, and each item once - whatever happened to the
\* submission, to the sink, or to the rest of the epoch (run_epoch appends
\* before it submits).
RetainedIsProduced ==
    /\ Retained = UNION {EvidenceOf(q) : q \in served}
    /\ IsInjective(slashing_submitted)

\* `submitted_to_chain' never counts evidence of the request the node did not
\* take, and `queued_locally' counts what it leaves: all evidence that did not
\* land is in their difference, which may also hold some that landed after its
\* submission had failed.
CountersHonest ==
    \A q \in Requests :
        /\ submitted_to_chain[q] <= Cardinality(EvidenceOf(q) \cap landed)
        /\ Cardinality(EvidenceOf(q) \ landed) <=
              queued_locally[q] - submitted_to_chain[q]

\* A response with verdicts has one for every receipt of the sample: an
\* exception or a crash never turns into a shorter 200 response.
AnsweredIsComplete ==
    \A q \in Requests :
        (pc[q] = "ok" /\ Call[q].handler # "sample") =>
            Len(verdicts[q]) = Len(chosen[q])

\* N-W-01: what reaches the node accuses the operator of a receipt whose
\* signature verifies under a registered key, also when the request mixed forged
\* receipts in and other handlers ran in between.
OnlyVerifiedSlashed ==
    AllowUnsigned \/
    \A e \in wire \cup landed :
        ReceiptOf(e).operator_id \in Registry /\ ReceiptOf(e).genuine

\* M-04, as far as the cached salt carries: two samples the running process drew
\* for one epoch from the same receipts and stakes are the same.
SampleStable ==
    \A p, q \in served :
        ( /\ salt[p] # NoSalt /\ salt[q] # NoSalt
          /\ Call[p].epoch = Call[q].epoch
          /\ Call[p].receipts = Call[q].receipts
          /\ stakes[p] = stakes[q] )
            => chosen[p] = chosen[q]

\* Evidence whose handler has not yet passed the sink, or never will because
\* the submission raised.
BeforeSink(e) ==
    /\ e = Current(e[1])
    /\ pc[e[1]] \in {"submitting", "posted", "sinking", "submit_raised"}

\* M-02: every piece of evidence a handler got past the sink with is in exactly
\* one bucket of /healthz, delivered or not.
SinkAccounts ==
    SumFunction(sink_status_counts) =
        Cardinality({e \in Retained : SlashingEndpoint /\ ~BeforeSink(e)})

-----------------------------------------------------------------------------
(* Steps. *)

\* M-04: within one life of the process a salt, once drawn, is never replaced.
SaltsFixed ==
    [][ crashes' = crashes =>
          \A e \in Epochs : salts_by_epoch[e] # NoSalt =>
                              salts_by_epoch'[e] = salts_by_epoch[e] ]_vars

\* The daemon implements the ledger: evidence is retained in the step that
\* produces it, only produced evidence lands, once, and nothing but a restart
\* empties the list.
Ledger == INSTANCE EvidenceLedger WITH
    Evidence <- EvidenceIds, produced <- Produced, retained <- Retained

LedgerSpec == Ledger!Init /\ [][Ledger!Next]_(Ledger!vars)

-----------------------------------------------------------------------------
(* Liveness, under FairSpec. *)

\* Every request a handler is working on ends - in a response, an exception or
\* a crash - although submissions stall the event loop under the others.
RequestsEnd ==
    \A q \in Requests : pc[q] \in Running ~> pc[q] \in Ended

-----------------------------------------------------------------------------
(* The inductive invariant behind the safety properties. *)

\* The event loop is held by the one handler that is inside a call to the node.
LoopInv ==
    \A q \in Requests : pc[q] \in {"submitting", "posted"} <=> loop = q

\* A running handler belongs to this process, and a request not sent yet has
\* left no trace.
ServedInv ==
    \A q \in Requests :
        /\ pc[q] \in Running => q \in served
        /\ pc[q] = "unsent" =>
              /\ q \notin served
              /\ salt[q] = NoSalt /\ chosen[q] = << >> /\ verdicts[q] = << >>
              /\ queued_locally[q] = 0 /\ submitted_to_chain[q] = 0

\* What is replayed are distinct accepted receipts, one verdict each, in order;
\* the handler goes to the node and the sink with the evidence of its last one.
SampleInv ==
    \A q \in Requests :
        /\ IsInjective(chosen[q])
        /\ Range(chosen[q]) \subseteq Accepted(q)
        /\ Len(verdicts[q]) <= Len(chosen[q])
        /\ pc[q] = "replaying" => Len(verdicts[q]) < Len(chosen[q])
        /\ pc[q] \in {"submitting", "posted", "sinking"} =>
              Len(verdicts[q]) \in Mismatched(q)

\* Only produced evidence is sent or taken, and what a handler is about to send
\* is neither.
ChainInv ==
    /\ wire \cap landed = {}
    /\ wire \cup landed \subseteq Produced
    /\ \A q \in Requests : pc[q] = "submitting" => Current(q) \notin wire \cup landed

\* What submitted_to_chain may count: landed evidence of the request, but the
\* evidence being submitted only once its answer is in.
Countable(q) == {e \in landed : e[1] = q /\ (loop = q => e # Current(q))}

CountInv ==
    \A q \in Requests :
        /\ queued_locally[q] = Cardinality(Mismatched(q))
        /\ submitted_to_chain[q] <= Cardinality(Countable(q))

\* A handler goes to the sink only where there is one.
SinkInv == \A q \in Requests : pc[q] = "sinking" => SlashingEndpoint

\* Whoever drew a sample in this process used the epoch's salt.
SaltInv ==
    \A q \in served :
        salt[q] # NoSalt => salts_by_epoch[Call[q].epoch] = salt[q]

IndInv ==
    /\ TypeOK
    /\ LoopInv
    /\ ServedInv
    /\ SampleInv
    /\ RetainedIsProduced
    /\ ChainInv
    /\ CountInv
    /\ SinkInv
    /\ SaltInv

-----------------------------------------------------------------------------
(* What comments and documents say. *)

\* "subsequent /sample calls return the same sampled set (or refuse to
\* re-roll)" (app.py, M-04): whatever stakes the caller passes along.
SampleFixedPerEpoch ==
    \A p, q \in served :
        ( /\ Call[p].handler = "sample" /\ Call[q].handler = "sample"
          /\ Call[p].epoch = Call[q].epoch
          /\ Call[p].receipts = Call[q].receipts )
            => chosen[p] = chosen[q]

\* "per-epoch breakdown so callers can tell what actually landed on chain vs.
\* what is just queued locally" (app.py, C-04): no evidence is in both numbers.
BreakdownExclusive ==
    \A q \in Requests :
        queued_locally[q] + submitted_to_chain[q] <= Cardinality(EvidenceOf(q))

\* "Raises `ChainUnreachableError' on RPC failure" (chain.py,
\* submit_slashing_evidence), which run_epoch catches: a failing node never
\* aborts the epoch; only evidence that cannot be encoded could.
RpcFailureHandled ==
    \A q \in Requests : pc[q] = "submit_raised" => ~Encodable(Current(q))
=============================================================================
