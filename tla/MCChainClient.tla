--------------------------- MODULE MCChainClient ----------------------------
(* Small instances of the chain client: which operators, which requests.    *)
EXTENDS ClientProperties

(* Operator a1 has two hex names and an ss58 one.                           *)
MCNames == {"a1", "0xa1", "a1_ss58", "a2", "a3"}

MCAccount ==
    [n \in MCNames |->
        IF n = "a1_ss58" THEN "none" ELSE IF n = "0xa1" THEN "a1" ELSE n]

Verdict(job, op, v) == [job_id |-> job, operator_id |-> op, verdict |-> v]
Receipt(job, op) == [job_id |-> job, operator_id |-> op]

\* Two receipts claim j2.
MCReceipts == <<Receipt("j1", "a1"), Receipt("j2", "a3"), Receipt("j2", "a2")>>

MCVerdictTexts == {"match", "mismatch", "Mismatch"}
MCLower == [t \in MCVerdictTexts |-> IF t = "Mismatch" THEN "mismatch" ELSE t]

\* No mismatch; a2 by name; a2 by its receipt, and a1 cleared; a1 by its other name.
Nobody == << >>
ByName == <<Verdict("j2", "a2", "mismatch")>>
ByReceipt == <<Verdict("j1", "a1", "match"), Verdict("j2", "none", "Mismatch")>>
ByOtherName == <<Verdict("j1", "0xa1", "mismatch")>>

Vote(stakes, verdicts, equal) ==
    [path |-> "/submit_weights", operator_stake |-> stakes, receipts |-> MCReceipts,
     verdicts |-> verdicts, equal_weight |-> equal, epoch |-> 1]

FromChain == Vote(<< >>, ByName, FALSE)

Listing == [FromChain EXCEPT !.path = "/internal/operators"]

\* No u64, so that the epoch cannot be encoded.
BadEpoch == [FromChain EXCEPT !.epoch = -1]

Three(s, t, u) == <<<<"a1", s>>, <<"a2", t>>, <<"a3", u>>>>

\* Stakes around the points where a quotient is rounded, none above zero, a
\* faulty operator with the largest one, two names of one account, an ss58 name.
MCVotes ==
    {Vote(Three(s, 0, 64), Nobody, FALSE) : s \in {1, 41, 63}} \cup
    {Vote(Three(-7, -3, 0), Nobody, FALSE),
     Vote(Three(-7, -7, -3), Nobody, FALSE),
     Vote(Three(7, 64, 5), ByName, FALSE),
     Vote(Three(7, 64, 5), ByReceipt, FALSE),
     Vote(<<<<"a1", 5>>, <<"0xa1", 7>>>>, Nobody, TRUE),
     Vote(<<<<"a1", 5>>, <<"0xa1", 7>>>>, ByOtherName, TRUE),
     Vote(<<<<"a1_ss58", 5>>, <<"a2", 9>>>>, Nobody, FALSE)}

MCContents ==
    [q \in {"w", "v"} |->
        IF q = "v" THEN {FromChain, Listing} ELSE MCVotes \cup {FromChain, BadEpoch}]

MCConfigs ==
    {[stub |-> FALSE, key |-> TRUE], [stub |-> TRUE, key |-> TRUE],
     [stub |-> FALSE, key |-> FALSE]}

MCLengths == {0, 63, 64, 16383, 16384, 2 ^ 30 - 1, 2 ^ 30}

Row(params, suffix, stake, frozen) ==
    [params |-> params, suffix |-> suffix, stake |-> stake, frozen |-> frozen]

\* Decoded hex keys, one of them doubled; a raw key, a frozen operator and one
\* without fields; an ss58 key; a key that cannot be decoded.
MCStorages ==
    {<<Row("a1", Absent, 8, FALSE), Row("a2", Absent, 4, FALSE), Row("a1", Absent, 16, FALSE)>>,
     <<Row(Absent, "a1", 8, FALSE), Row(Absent, "a2", 4, TRUE), Row("a3", Absent, Absent, Absent)>>,
     <<Row("a1_ss58", "a1", 8, FALSE), Row("a2", "a2", 4, FALSE)>>,
     <<Row(Absent, Absent, 8, FALSE)>>}

MCStub == <<[operator_id |-> "a3", stake |-> 1, active |-> TRUE]>>
=============================================================================
