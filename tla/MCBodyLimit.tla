---------------------------- MODULE MCBodyLimit -----------------------------
(* Small instances of the body limiter: which bodies, behind which token.    *)
EXTENDS BodyLimit

Body(limited, content_length, chunks, replay_inputs, credentials) ==
    [limited |-> limited, content_length |-> content_length, chunks |-> chunks,
     replay_inputs |-> replay_inputs, credentials |-> credentials]

\* With a limit of two: bodies at it and above it, whole, in pieces and empty,
\* declared, undeclared and declared wrongly; one whose inputs grow when they
\* are written again; one on another path; one without credentials.
MCContents ==
    {Body(TRUE, Missing, chunks, 1, "token") :
        chunks \in {<<2>>, <<3>>, <<1, 1>>, <<2, 1>>, <<1, 0, 2>>}} \cup
    {Body(TRUE, 2, <<1, 1>>, 3, "token"), Body(TRUE, 3, <<2, 1>>, 1, "token"),
     Body(TRUE, Malformed, <<1, 2>>, 1, "token"), Body(TRUE, Missing, << >>, 0, Missing),
     Body(FALSE, 3, <<2, 1>>, 0, "token")}

MCConfigs ==
    {[production |-> TRUE, token |-> "token"], [production |-> TRUE, token |-> Missing],
     [production |-> FALSE, token |-> Missing]}
=============================================================================
