------------------------- MODULE MCValidatorDaemon --------------------------
(* Small instances of the daemon: who calls what, with which receipts.      *)
EXTENDS DaemonProperties

Receipt(job, op, gen) ==
    [job_id |-> job, operator_id |-> op, genuine |-> gen, response_hash |-> "claimed"]

Input(mapping) == [present |-> TRUE, claimed |-> mapping]
NoInput == [present |-> FALSE, claimed |-> NoMapping]

Request(handler, epoch, receipts, given_stakes, inputs) ==
    [handler |-> handler, epoch |-> epoch, receipts |-> receipts,
     operator_stake |-> given_stakes, oversized |-> FALSE, replay_inputs |-> inputs]

Inputs == [job \in {"j1", "j2", "j3"} |-> Input(NoMapping)]

\* Two honest-looking receipts of registered operators around a forged one and
\* one of an unknown operator.
MixedReceipts ==
    <<Receipt("j1", "op1", TRUE), Receipt("j2", "op1", FALSE),
      Receipt("j3", "op2", TRUE), Receipt("j1", "stranger", TRUE)>>

\* op2 has an id that is not 32-byte hex.
MCHexIds == {"op1", "j1", "j2", "j3"}
MCRegistry == {"op1", "op2"}

Answer(st, hash) == [status |-> st, response_hash |-> hash, evidence |-> NoMapping]

\* The answer agrees, differs, is refused, does not come, or is no answer.
MCAnswers ==
    {Answer("ok", "claimed"), Answer("ok", "other"), Answer("unreachable", "other"),
     Answer("malformed", "other")}

FullRate == <<1, 0>>
HalfRate == <<1, 1>>
DefaultTolerance == <<98, 100>>

\* Two concurrent epoch runs over the same receipts, one with the chain's stakes.
EpochCalls ==
    [q \in {"a", "b"} |->
        Request("run_epoch", "e1", MixedReceipts,
                IF q = "a" THEN "none" ELSE "s1", Inputs)]

\* Two epoch runs, a commitment, a replay with an input missing and a request
\* that is too big: MaxCalls picks any two of them.
MixedCalls ==
    [q \in {"a", "b", "s", "r", "big"} |->
        CASE q \in {"a", "b"} -> EpochCalls[q]
          [] q = "s" -> Request("sample", "e1", MixedReceipts, "s1", Inputs)
          [] q = "r" -> Request("replay", "e1", MixedReceipts, "none",
                                [Inputs EXCEPT !["j3"] = NoInput])
          [] OTHER -> [EpochCalls["a"] EXCEPT !.oversized = TRUE]]

\* Two commitments for one epoch with different stakes.
RerollCalls ==
    [q \in {"s", "t"} |->
        Request("sample", "e1", MixedReceipts, IF q = "s" THEN "s1" ELSE "s2", Inputs)]
=============================================================================
