----------------------------- MODULE ChainClient ----------------------------
(***************************************************************************)
(* The two requests that live off the chain client: GET                    *)
(* /internal/operators and POST /submit_weights (app.py), over             *)
(* ChainRpcClient (chain.py) and submit_weights (weights.py).              *)
(*                                                                         *)
(* Both handlers are synchronous from end to end: a request that started   *)
(* holds the event loop until it is answered, and only the node, the       *)
(* network and the death of the process interfere.  The probe is a fresh   *)
(* HTTP call each time; everything else goes over one substrate connection *)
(* (`conn'), which is opened on first use, kept for the life of the        *)
(* process, and never replaced by the code.  The library may or may not    *)
(* reconnect a dead one by itself.                                         *)
(*                                                                         *)
(* The chain takes the extrinsics of the validator one nonce after the     *)
(* other.  The library signs with the nonce of the chain's state, so that  *)
(* all extrinsics still in the pool compete for one place.                 *)
(***************************************************************************)
EXTENDS WeightVector

CONSTANTS
    Requests,       \* the HTTP calls clients make
    Jobs,           \* job ids
    Contents,       \* request -> what it may contain
    Storages,       \* contents of the OperatorStake.Operators map, as rows
    Stub,           \* the operators of the stub data file
    Configs,        \* settings of the stub flag and of the validator's key
    Absent,         \* a field or key form the library does not give
    BACKOFFS,       \* probes after the first one, 3
    MaxFlaps,       \* bound on how often the node goes away
    MaxCrashes      \* bound on the number of crashes

Paths == {"/internal/operators", "/submit_weights"}

ASSUME ClientAssumption ==
    /\ DOMAIN Contents = Requests
    /\ \A q \in Requests : \A c \in Contents[q] :
         /\ c.path \in Paths
         /\ c.operator_stake \in Seq(Names \X Int)
         /\ c.receipts \in Seq([job_id : Jobs, operator_id : Names])
         /\ c.verdicts \in Seq([job_id : Jobs, operator_id : Names \cup {NoName},
                                verdict : VerdictTexts])
         /\ c.equal_weight \in BOOLEAN
         /\ c.epoch \in Int
    /\ \A s \in Storages :
         s \in Seq([params : Names \cup {Absent}, suffix : Names \cup {Absent},
                   stake : Int \cup {Absent}, frozen : BOOLEAN \cup {Absent}])
    /\ Absent \notin Int
    /\ Stub \in Seq(Operators)
    /\ Configs \subseteq [stub : BOOLEAN, key : BOOLEAN]
    /\ BACKOFFS \in Nat /\ MaxFlaps \in Nat /\ MaxCrashes \in Nat

VARIABLES
    (* fixed from the start *)
    content,        \* what each request contains
    storage,        \* the rows of the storage map
    config,         \* the stub flag and whether a key is configured
    (* the handlers *)
    pc,
    source,         \* where the operators of a request came from
    body,           \* the call bodies built so far
    tx,             \* the response says submitted_to_chain
    attempts,       \* probes the running _probe_with_retry still has
    started,        \* history: the requests in the order they started
    (* the network and the chain *)
    conn,           \* client._substrate: "none", "open" or "dead"
    node,           \* "up" or "down"
    flaps,
    crashes,
    pool,           \* requests whose extrinsic may still be included
    chain           \* included extrinsics, oldest first

fixed_vars == <<content, storage, config>>
answer_vars == <<source, body, tx>>
world_vars == <<node, flaps, crashes, pool, chain>>
vars == <<fixed_vars, pc, answer_vars, attempts, started, conn, world_vars>>

Running == {"probing_read", "querying", "probing_submit", "composing", "waiting"}

\* "raised" is an exception nothing catches, an HTTP 500; "lost" is a request
\* the process died under.
Ended == {"ok", "400", "503", "raised", "lost"}

Sources == {"unread", "override", "chain", "stub"}

TypeOK ==
    /\ \A q \in Requests : content[q] \in Contents[q]
    /\ storage \in Storages
    /\ config \in Configs
    /\ pc \in [Requests -> {"unsent"} \cup Running \cup Ended]
    /\ source \in [Requests -> Sources]
    /\ DOMAIN body \subseteq Requests
    /\ \A q \in DOMAIN body :
         /\ body[q].epoch \in 0 .. MAX_EPOCH
         /\ \A i \in DOMAIN body[q].entries :
              /\ body[q].entries[i].account # NoAccount
              /\ body[q].entries[i].weight \in 1 .. U16_MAX
    /\ tx \in [Requests -> BOOLEAN]
    /\ attempts \in 0 .. BACKOFFS + 1
    /\ started \in Seq(Requests)
    /\ conn \in {"none", "open", "dead"}
    /\ node \in {"up", "down"}
    /\ flaps \in 0 .. MaxFlaps
    /\ crashes \in 0 .. MaxCrashes
    /\ pool \subseteq Requests
    /\ chain \in Seq([req : Requests, ok : BOOLEAN])

Init ==
    /\ content \in [Requests -> UNION Range(Contents)]
    /\ \A q \in Requests : content[q] \in Contents[q]
    /\ storage \in Storages
    /\ config \in Configs
    /\ pc = [q \in Requests |-> "unsent"]
    /\ source = [q \in Requests |-> "unread"]
    /\ body = << >>
    /\ tx = [q \in Requests |-> FALSE]
    /\ attempts = 0
    /\ started = << >>
    /\ conn = "none"
    /\ node = "up"
    /\ flaps = 0
    /\ crashes = 0
    /\ pool = {}
    /\ chain = << >>

-----------------------------------------------------------------------------
(* The operators. *)

\* The operator_stake of a request: everybody in it is active.
override(q) ==
    [i \in DOMAIN content[q].operator_stake |->
        [operator_id |-> content[q].operator_stake[i][1],
         stake |-> content[q].operator_stake[i][2],
         active |-> TRUE]]

\* The name in the decoded key, else the hex of its last 32 bytes; Absent where
\* _account_from_key raises.
account_from_key(row) == IF row.params # Absent THEN row.params ELSE row.suffix

Decodable == \A i \in DOMAIN storage : account_from_key(storage[i]) # Absent

\* The rows of the storage map; a missing field counts as no stake or not frozen.
rows ==
    [i \in DOMAIN storage |->
        [operator_id |-> account_from_key(storage[i]),
         stake |-> IF storage[i].stake = Absent THEN 0 ELSE storage[i].stake,
         active |-> storage[i].frozen # TRUE]]

\* The request carries what its sender found out in the epoch.
faulty_operators(q) ==
    faulty_operators_from_verdicts(content[q].receipts, content[q].verdicts)

-----------------------------------------------------------------------------
(* What the handlers do once the operators are known, or cannot be.         *)

Arrives(q) ==
    /\ pc[q] = "unsent"
    /\ \A r \in Requests : pc[r] \notin Running

Goto(q, at) == pc' = [pc EXCEPT ![q] = at]

ReportOperators(q) ==
    /\ content[q].path = "/internal/operators"
    /\ Goto(q, "ok")
    /\ UNCHANGED <<body, attempts>>

BuildsBody(q, operators) ==
    /\ to_32_accepts(operators, faulty_operators(q))
    /\ epoch_fits(content[q].epoch)

BuildBody(q, operators) ==
    /\ content[q].path = "/submit_weights"
    /\ BuildsBody(q, operators)
    /\ LET vector == compute_weight_vector(operators, faulty_operators(q),
                                           content[q].equal_weight)
           built == encode_submit_weights_call(content[q].epoch, vector)
       IN  body' = [r \in DOMAIN body \cup {q} |-> IF r = q THEN built ELSE body[r]]
    /\ attempts' = BACKOFFS + 1
    /\ Goto(q, "probing_submit")

\* Mutant: an id that cannot be encoded goes out as it is.
BodyAsIs(q, operators) ==
    /\ content[q].path = "/submit_weights"
    /\ ~BuildsBody(q, operators)
    /\ Goto(q, "probing_submit")
    /\ attempts' = BACKOFFS + 1
    /\ UNCHANGED body

\* The ValueError of _to_32 or the OverflowError of the epoch.
BodyRaises(q, operators) ==
    /\ content[q].path = "/submit_weights"
    /\ ~BuildsBody(q, operators)
    /\ Goto(q, "raised")
    /\ UNCHANGED <<body, attempts>>

WithOperators(q, from, operators) ==
    /\ source' = [source EXCEPT ![q] = from]
    /\ \/ ReportOperators(q)
       \/ BuildBody(q, operators)
       \/ BodyRaises(q, operators)

Refuse(q) ==
    /\ Goto(q, "503")
    /\ UNCHANGED <<source, body, attempts>>

\* Mutant: the stub stands in whether it was asked for or not.
StubAnyway(q) == WithOperators(q, "stub", Stub)

\* C-04: the stub, if it was opted into, else ChainUnreachableError.
StubOrRefuse(q) ==
    \/ config.stub /\ WithOperators(q, "stub", Stub)
    \/ ~config.stub /\ Refuse(q)

\* In submit_weights: None, if the stub was opted into, else ChainUnreachableError.
KeepLocalOrRefuse(q) ==
    /\ Goto(q, IF config.stub THEN "ok" ELSE "503")
    /\ UNCHANGED <<source, body, attempts>>

-----------------------------------------------------------------------------
(* A request arrives. *)

Start(q) ==
    /\ Arrives(q)
    /\ started' = Append(started, q)

StartProbing(q) ==
    /\ Goto(q, "probing_read")
    /\ attempts' = BACKOFFS + 1
    /\ UNCHANGED <<source, body>>

RequestOperators(q) ==
    /\ content[q].path = "/internal/operators"
    /\ Start(q)
    /\ StartProbing(q)
    /\ UNCHANGED <<fixed_vars, tx, conn, world_vars>>

NoKey(q) ==
    /\ ~config.key
    /\ Goto(q, "400")
    /\ UNCHANGED <<source, body, attempts>>

SubmitWeights(q) ==
    /\ content[q].path = "/submit_weights"
    /\ Start(q)
    /\ \/ NoKey(q)
       \/ config.key /\ override(q) # << >> /\ WithOperators(q, "override", override(q))
       \/ config.key /\ override(q) = << >> /\ StartProbing(q)
    /\ UNCHANGED <<fixed_vars, tx, conn, world_vars>>

-----------------------------------------------------------------------------
(* _probe_with_retry *)

ProbeAnswers(q) ==
    /\ node = "up"
    /\ \/ pc[q] = "probing_read" /\ Goto(q, "querying")
       \/ pc[q] = "probing_submit" /\ Goto(q, "composing")
    /\ UNCHANGED <<fixed_vars, answer_vars, attempts, started, conn, world_vars>>

\* Mutant: the failure is not counted.
ProbeFailsForever(q) ==
    /\ pc[q] \in {"probing_read", "probing_submit"}
    /\ UNCHANGED <<fixed_vars, pc, answer_vars, attempts, started, conn, world_vars>>

\* A probe may time out although the node is up; the next one comes after a pause.
ProbeFails(q) ==
    /\ pc[q] \in {"probing_read", "probing_submit"}
    /\ attempts > 1
    /\ attempts' = attempts - 1
    /\ UNCHANGED <<fixed_vars, pc, answer_vars, started, conn, world_vars>>

Unreachable(q) ==
    /\ attempts <= 1
    /\ \/ pc[q] = "probing_read" /\ StubOrRefuse(q)
       \/ pc[q] = "probing_submit" /\ KeepLocalOrRefuse(q)
    /\ UNCHANGED <<fixed_vars, tx, started, conn, world_vars>>

-----------------------------------------------------------------------------
(* get_operator_stakes after the probe. *)

\* _substrate_client opens the connection on first use; a dead one works again
\* only if the library reconnects.
Connected == node = "up" /\ conn' = "open"

\* The constructor fails and nothing is kept, or the call over the connection
\* fails, which may be its end.
CallFails ==
    \/ conn = "none" /\ conn' = "none"
    \/ conn = "none" /\ node = "up" /\ conn' \in {"open", "dead"}
    \/ conn # "none" /\ conn' \in {conn, "dead"}

QueryAnswers(q) ==
    /\ pc[q] = "querying"
    /\ Connected
    /\ Decodable
    /\ WithOperators(q, "chain", rows)
    /\ UNCHANGED <<fixed_vars, tx, started, world_vars>>

\* _account_from_key raises ChainUnreachableError itself, which the stub does
\* not soften.
QueryUndecodable(q) ==
    /\ pc[q] = "querying"
    /\ Connected
    /\ ~Decodable
    /\ Refuse(q)
    /\ UNCHANGED <<fixed_vars, tx, started, world_vars>>

QueryFails(q) ==
    /\ pc[q] = "querying"
    /\ CallFails
    /\ StubOrRefuse(q)
    /\ UNCHANGED <<fixed_vars, tx, started, world_vars>>

-----------------------------------------------------------------------------
(* submit_weights after the probe: compose, sign, submit, wait.             *)

\* Anything before the extrinsic is out, a key that is no key included.
ComposeFails(q) ==
    /\ pc[q] = "composing"
    /\ CallFails
    /\ KeepLocalOrRefuse(q)
    /\ UNCHANGED <<fixed_vars, tx, started, world_vars>>

\* Mutant: wait_for_inclusion = False.
SubmitExtrinsicUnwaited(q) ==
    /\ pc[q] = "composing"
    /\ Connected
    /\ pool' = pool \cup {q}
    /\ Goto(q, "ok")
    /\ tx' = [tx EXCEPT ![q] = TRUE]
    /\ UNCHANGED <<fixed_vars, source, body, attempts, started, node, flaps, crashes, chain>>

SubmitExtrinsic(q) ==
    /\ pc[q] = "composing"
    /\ Connected
    /\ pool' = pool \cup {q}
    /\ Goto(q, "waiting")
    /\ UNCHANGED <<fixed_vars, answer_vars, attempts, started, node, flaps, crashes, chain>>

\* wait_for_inclusion returns a receipt: is_ok, or a dispatch error.
InclusionSeen(q) ==
    /\ pc[q] = "waiting" /\ conn = "open" /\ node = "up"
    /\ \E k \in DOMAIN chain :
         /\ chain[k].req = q
         /\ \/ /\ chain[k].ok
               /\ Goto(q, "ok")
               /\ tx' = [tx EXCEPT ![q] = TRUE]
               /\ UNCHANGED <<source, body, attempts>>
            \/ ~chain[k].ok /\ KeepLocalOrRefuse(q) /\ UNCHANGED tx
    /\ UNCHANGED <<fixed_vars, started, conn, world_vars>>

\* The connection breaks or the node reports the extrinsic invalid; it may have
\* been included, and may still be.
WaitFails(q) ==
    /\ pc[q] = "waiting"
    /\ conn' \in {conn, "dead"}
    /\ KeepLocalOrRefuse(q)
    /\ UNCHANGED <<fixed_vars, tx, started, world_vars>>

-----------------------------------------------------------------------------
(* The chain, the network, the process. *)

\* One extrinsic of the pool gets the nonce, the others become stale.  The
\* dispatch fails if the validator is not permitted or the epoch is computed.
NodeIncludes ==
    \E q \in pool, ok \in BOOLEAN :
        /\ chain' = Append(chain, [req |-> q, ok |-> ok])
        /\ pool' = {}
        /\ UNCHANGED <<fixed_vars, pc, answer_vars, attempts, started, conn,
                       node, flaps, crashes>>

NodeDrops ==
    \E q \in pool :
        /\ pool' = pool \ {q}
        /\ UNCHANGED <<fixed_vars, pc, answer_vars, attempts, started, conn,
                       node, flaps, crashes, chain>>

\* Nobody notices that an open connection is dead until it is used.
NodeGoes ==
    /\ node = "up" /\ flaps < MaxFlaps
    /\ node' = "down"
    /\ flaps' = flaps + 1
    /\ conn' = IF conn = "open" THEN "dead" ELSE conn
    /\ UNCHANGED <<fixed_vars, pc, answer_vars, attempts, started, crashes, pool, chain>>

NodeReturns ==
    /\ node = "down"
    /\ node' = "up"
    /\ UNCHANGED <<fixed_vars, pc, answer_vars, attempts, started, conn, flaps,
                   crashes, pool, chain>>

Crash ==
    /\ crashes < MaxCrashes
    /\ crashes' = crashes + 1
    /\ pc' = [q \in Requests |-> IF pc[q] \in Running THEN "lost" ELSE pc[q]]
    /\ conn' = "none"
    /\ UNCHANGED <<fixed_vars, answer_vars, attempts, started, node, flaps, pool, chain>>

-----------------------------------------------------------------------------
Arrive(q) == RequestOperators(q) \/ SubmitWeights(q)

Probe(q) == ProbeAnswers(q) \/ ProbeFails(q) \/ Unreachable(q)

Read(q) == QueryAnswers(q) \/ QueryUndecodable(q) \/ QueryFails(q)

Submit(q) == ComposeFails(q) \/ SubmitExtrinsic(q) \/ InclusionSeen(q) \/ WaitFails(q)

World == NodeIncludes \/ NodeDrops \/ NodeGoes \/ NodeReturns \/ Crash

Next ==
    \/ \E q \in Requests : Arrive(q) \/ Probe(q) \/ Read(q) \/ Submit(q)
    \/ World

Spec == Init /\ [][Next]_vars

\* Each probe times out after RPC_PROBE_TIMEOUT_S and each pause ends.  The
\* calls over the connection have no time limit in the code, and nothing is
\* assumed of them.
Fairness == \A q \in Requests : WF_vars(Probe(q))

FairSpec == Spec /\ Fairness
=============================================================================
