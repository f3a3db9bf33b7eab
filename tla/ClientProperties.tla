-------------------------- MODULE ClientProperties --------------------------
(***************************************************************************)
(* What the chain client and its two handlers guarantee, and what the      *)
(* repository says of them.                                                *)
(***************************************************************************)
EXTENDS ChainClient

CONSTANT Lengths    \* sizes of longer lists

ASSUME LengthsAssumption == Lengths \subseteq Nat

\* The request put an extrinsic on the wire at some time, and it was not dropped.
OnChain(q) == \E k \in DOMAIN chain : chain[k].req = q

Sent(q) == q \in pool \/ OnChain(q)

StartedBefore(p, q) ==
    \E i, j \in DOMAIN started : i < j /\ started[i] = p /\ started[j] = q

\* The list a request read its operators from.
OperatorsOf(q) ==
    CASE source[q] = "override" -> override(q)
      [] source[q] = "chain" -> rows
      [] source[q] = "stub" -> Stub

-----------------------------------------------------------------------------
(* Safety of the submission. *)

\* submitted_to_chain is never a guess: the extrinsic was included and its
\* dispatch succeeded, and no vote of an earlier request replaces it afterwards,
\* one left behind in the pool by a timeout or a crash included.
ConfirmedVoteStands ==
    \A q \in Requests : tx[q] =>
        \E k \in DOMAIN chain :
            /\ chain[k] = [req |-> q, ok |-> TRUE]
            /\ \A m \in DOMAIN chain : m > k => StartedBefore(q, chain[m].req)

\* A request is refused before anything of it reaches the node, or not at all: a
\* vote on the wire was made with a key, of operators that were all read, and
\* names every one of them that is active and not faulty, none being left out
\* because its name cannot be encoded; and no 400 and no exception follows.
OnlyVettedSent ==
    \A q \in Requests : Sent(q) =>
        /\ config.key
        /\ q \in DOMAIN body
        /\ pc[q] \notin {"unsent", "400", "raised"}
        /\ source[q] # "unread" /\ (source[q] = "chain" => Decodable)
        /\ \A i \in clean(OperatorsOf(q), faulty_operators(q)) :
              Account[OperatorsOf(q)[i].operator_id] # NoAccount

\* C-04: stub operators are never reported or voted on unless opted into, and a
\* 200 says no more than what happened: operators that were read, and a vector
\* that is null-submitted only in stub mode.  (Whether a vote over stub operators
\* stays local is the question of StubVoteWithheld.)
StubOptIn ==
    \A q \in Requests :
        /\ source[q] = "stub" => config.stub
        /\ (pc[q] = "ok" /\ ~config.stub) =>
               source[q] \in {"override", "chain"} /\ (q \in DOMAIN body => tx[q])

-----------------------------------------------------------------------------
(* The vector. *)

Listed(q) == DOMAIN body[q].entries

\* The verdicts of a request accuse the operator they name or, where they name
\* none, the one of the last receipt of their job, however they spell "mismatch".
Accused(q, n) ==
    \E v \in Range(content[q].verdicts) :
        /\ Lower[v.verdict] = "mismatch"
        /\ \/ v.operator_id = n
           \/ /\ v.operator_id = NoName
              /\ \E k \in DOMAIN content[q].receipts :
                   /\ content[q].receipts[k].job_id = v.job_id
                   /\ content[q].receipts[k].operator_id = n
                   /\ \A m \in DOMAIN content[q].receipts :
                         m > k => content[q].receipts[m].job_id # v.job_id

\* A vector lists the active operators nobody accused, each name once, with a
\* weight above zero, and nobody else.
CleanListedOnce ==
    \A q \in DOMAIN body :
        LET operators == OperatorsOf(q)
            name(i) == operators[i].operator_id
        IN  /\ \A i \in Listed(q) :
                 /\ operators[i].active /\ ~Accused(q, name(i))
                 /\ body[q].entries[i].account = Account[name(i)]
                 /\ body[q].entries[i].weight \in 1 .. U16_MAX
                 /\ \A j \in Listed(q) : name(i) = name(j) => i = j
            /\ \A i \in DOMAIN operators :
                 (operators[i].active /\ ~Accused(q, name(i))) =>
                     \E j \in Listed(q) : name(i) = name(j)

\* Without equal_weight, weights follow stakes: more stake never means less
\* weight, and where the largest stake is above zero it has the full weight and
\* every other stake its share of it, cut to an integer and at least one, give or
\* take the rounding of one float division.
SharesProportional ==
    \A q \in DOMAIN body :
        LET operators == OperatorsOf(q)
            stake(i) == operators[i].stake
            w(i) == body[q].entries[i].weight
            candidates == {i \in DOMAIN operators :
                             /\ operators[i].active
                             /\ operators[i].operator_id \notin faulty_operators(q)}
        IN  IF content[q].equal_weight THEN \A i \in Listed(q) : w(i) = U16_MAX
            ELSE /\ \A i, j \in Listed(q) : stake(i) <= stake(j) => w(i) <= w(j)
                 /\ \A top \in candidates :
                      (stake(top) > 0 /\ \A i \in candidates : stake(i) <= stake(top)) =>
                          \A i \in Listed(q) :
                              /\ stake(i) = stake(top) => w(i) = U16_MAX
                              /\ w(i) = 1 \/
                                   /\ w(i) * stake(top) < (stake(i) * U16_MAX) + stake(top)
                                   /\ (w(i) + 1) * stake(top) > stake(i) * U16_MAX

\* What the chain decodes is what was computed: the length in front of the
\* entries is read back as their number, in whatever form it was written, and so
\* would be a longer one at the points where the form changes.
BodyDecodes ==
    \A q \in DOMAIN body :
        LET length == body[q].length
        IN  /\ decode_compact(length) = <<Cardinality(Listed(q)), Len(length)>>
            /\ body[q].epoch = content[q].epoch
            /\ \A n \in Lengths :
                 decode_compact(encode_compact(n)) = <<n, Len(encode_compact(n))>>

-----------------------------------------------------------------------------
(* Liveness. *)

\* The retries of the probe come to an end: the node is asked, or the request is
\* answered, or the process dies.
ProbesEnd ==
    \A q \in Requests :
        pc[q] \in {"probing_read", "probing_submit"} ~>
            pc[q] \notin {"probing_read", "probing_submit"}

-----------------------------------------------------------------------------
(* The inductive invariant behind the safety properties. *)

\* A request is in `started' from its first step on, and the one that holds the
\* event loop started last.
OrderInv ==
    \A q \in Requests :
        /\ q \in Range(started) <=> pc[q] # "unsent"
        /\ pc[q] \in Running =>
              started # << >> /\ started[Len(started)] = q

\* The stub stands for the operators of a request only if that was opted into, the
\* chain only if its keys were decoded; a vote is not begun without a key, and has
\* a body once the operators were read.
SourceInv ==
    \A q \in Requests :
        /\ source[q] = "stub" => config.stub
        /\ source[q] = "chain" => Decodable
        /\ pc[q] \in {"probing_read", "querying"} =>
              config.key \/ content[q].path = "/internal/operators"
        /\ pc[q] \in {"unsent", "probing_read", "querying"} => q \notin DOMAIN body
        /\ pc[q] \in {"probing_submit", "composing", "waiting"} => q \in DOMAIN body

\* A body is the vector of the operators its request read, and the request had a
\* key and passed the encoding.
BodyInv ==
    \A q \in DOMAIN body :
        /\ content[q].path = "/submit_weights"
        /\ config.key
        /\ source[q] # "unread"
        /\ pc[q] \notin {"400", "raised"}
        /\ BuildsBody(q, OperatorsOf(q))
        /\ body[q] = encode_submit_weights_call(content[q].epoch,
                         compute_weight_vector(OperatorsOf(q), faulty_operators(q),
                                               content[q].equal_weight))

\* What was sent was built before, is in one place, and while its request still
\* waits for it nothing follows it.
SentInv ==
    \A q \in Requests :
        /\ Sent(q) => q \in DOMAIN body /\ pc[q] \notin {"probing_submit", "composing"}
        /\ q \in pool => ~OnChain(q)
        /\ \A k \in DOMAIN chain :
              (chain[k].req = q /\ pc[q] = "waiting") => k = Len(chain) /\ pool = {}

\* A confirmed vote is on the chain, and what follows it, or still may, started
\* after it.
StandsInv ==
    \A q \in Requests : tx[q] =>
        /\ pc[q] = "ok"
        /\ \A r \in pool : StartedBefore(q, r)
        /\ \E k \in DOMAIN chain :
              /\ chain[k] = [req |-> q, ok |-> TRUE]
              /\ \A m \in DOMAIN chain : m > k => StartedBefore(q, chain[m].req)

ClientInv ==
    /\ TypeOK
    /\ OrderInv
    /\ SourceInv
    /\ BodyInv
    /\ SentInv
    /\ StandsInv
    /\ StubOptIn

-----------------------------------------------------------------------------
(* Said of the code, and not so. *)

\* "the vector is computed + returned but not submitted" (app.py:474), said of
\* what follows when the chain could not be read and the stub was opted into.
StubVoteWithheld == \A q \in Requests : source[q] = "stub" => ~Sent(q)
=============================================================================
