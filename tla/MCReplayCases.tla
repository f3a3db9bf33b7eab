--------------------------- MODULE MCReplayCases ----------------------------
(* Bounded cases of replay_receipt: token lists over two ids and            *)
(* log-probability lists over two values more than abs_tol apart, up to     *)
(* length MaxLength.                                                        *)
EXTENDS ReplayCases

CONSTANT MaxLength

Lists(S) == UNION {[1 .. n -> S] : n \in 0 .. MaxLength}

Mappings ==
    {m \in [given : SUBSET {"token_ids", "top_logprobs"},
            token_ids : Lists({1, 2}),
            top_logprobs : Lists({0, 2})] :
        /\ "token_ids" \notin m.given => m.token_ids = << >>
        /\ "top_logprobs" \notin m.given => m.top_logprobs = << >>}

MCReceipts == [response_hash : {"h1", "h2"}]

\* replay_inputs.get(job_id) is None, or an input with some claimed evidence.
MCInputs ==
    {[present |-> FALSE, claimed |-> NoMapping]}
        \cup [present : {TRUE}, claimed : Mappings]

\* Only a 200 answer carries a hash and evidence.
MCAnswers ==
    [status : {"ok"}, response_hash : {"h1"}, evidence : Mappings]
        \cup [status : WorkerStatuses \ {"ok"}, response_hash : {"h1"},
              evidence : {NoMapping}]

HalfTolerance == <<1, 2>>
DefaultTolerance == <<98, 100>>
=============================================================================
