------------------------------ MODULE BodyLimit ------------------------------
(***************************************************************************)
(* The way of an HTTP request to a handler (app.py): the middleware        *)
(* ReplayInputBodyLimitMiddleware around the application, the application  *)
(* reading the body through it, authentication, and the size policy.       *)
(*                                                                         *)
(* The application is external: FastAPI reads the body to its end, parses  *)
(* it, and turns an exception of the reading into a 400; an ASGI           *)
(* application in general may also answer before it has read everything,   *)
(* go on reading after that, and let the exception through.  Requests are  *)
(* served concurrently, chunk by chunk.                                    *)
(***************************************************************************)
EXTENDS Integers, Sequences, FiniteSets, Functions

CONSTANTS
    Requests,               \* the HTTP calls clients make
    Contents,               \* what a call may consist of
    Configs,                \* settings of the environment
    max_bytes,              \* replay_input_max_bytes
    Missing,                \* no content-length, token or credentials
    Malformed               \* a content-length that is no integer

\* A body is the list of its chunks' sizes; `replay_inputs' is the size of the
\* field written again as JSON, which is not the size it had in the body.
ASSUME LimitAssumption ==
    /\ \A c \in Contents :
         /\ c.limited \in BOOLEAN
         /\ c.content_length \in Nat \cup {Missing, Malformed}
         /\ c.chunks \in Seq(Nat)
         /\ c.replay_inputs \in Nat
    /\ \A g \in Configs : g.production \in BOOLEAN
    /\ max_bytes \in Nat
    /\ Missing \notin Nat /\ Malformed \notin Nat

VARIABLES
    content,                \* what each call consists of
    config,
    pc,                     \* where each call is
    next,                   \* the next chunk to be received
    seen,                   \* bytes the middleware counted
    buffered,               \* bytes the application was given
    response_started,       \* as the middleware sees it
    sent                    \* the messages that went to the client

fixed_vars == <<content, config>>
reading_vars == <<next, seen, buffered>>
vars == <<fixed_vars, pc, reading_vars, response_started, sent>>

Running == {"reading", "parsed", "handling", "responding", "refusing"}

Ended == {"answered", "cut", "gone"}

Start(code) == [type |-> "http.response.start", status |-> code]
End == [type |-> "http.response.body"]

Statuses == {200, 400, 401, 404, 413, 422}

Message == {Start(code) : code \in Statuses} \cup {End}

TypeOK ==
    /\ content \in [Requests -> Contents]
    /\ config \in Configs
    /\ pc \in [Requests -> {"unsent"} \cup Running \cup Ended]
    /\ next \in [Requests -> Nat \ {0}]
    /\ seen \in [Requests -> Nat]
    /\ buffered \in [Requests -> Nat]
    /\ response_started \in [Requests -> BOOLEAN]
    /\ sent \in [Requests -> Seq(Message)]

Init ==
    /\ content \in [Requests -> Contents]
    /\ config \in Configs
    /\ pc = [q \in Requests |-> "unsent"]
    /\ next = [q \in Requests |-> 1]
    /\ seen = [q \in Requests |-> 0]
    /\ buffered = [q \in Requests |-> 0]
    /\ response_started = [q \in Requests |-> FALSE]
    /\ sent = [q \in Requests |-> << >>]

-----------------------------------------------------------------------------
(* Helpers. *)

Goto(q, at) == pc' = [pc EXCEPT ![q] = at]

SendDirectly(q, message) == sent' = [sent EXCEPT ![q] = Append(@, message)]

\* tracking_send: the start of a response is noted, on the limited paths.
StartResponse(q, code) ==
    /\ response_started' = [response_started EXCEPT ![q] = @ \/ content[q].limited]
    /\ SendDirectly(q, Start(code))
    /\ Goto(q, "responding")

\* The application has more of the body to read, and may read it.
Unread(q) == next[q] <= Len(content[q].chunks)

Receiving(q) == pc[q] \in {"reading", "responding"} /\ Unread(q)

Chunk(q) == content[q].chunks[next[q]]

\* Mutant: the limit applies to a chunk.
count_per_chunk(q) == Chunk(q)

\* Mutant: one counter for all requests.
count_shared(q) == Chunk(q) + SumFunction(seen)

count(q) == seen[q] + Chunk(q)

DeclaredTooLarge(q) ==
    /\ content[q].limited
    /\ content[q].content_length \notin {Missing, Malformed}
    /\ content[q].content_length > max_bytes

-----------------------------------------------------------------------------
(* The middleware. *)

RefuseDeclared(q) ==
    /\ pc[q] = "unsent"
    /\ DeclaredTooLarge(q)
    /\ SendDirectly(q, Start(413))
    /\ Goto(q, "refusing")
    /\ UNCHANGED <<fixed_vars, reading_vars, response_started>>

\* Mutant: int(content_length) is not guarded.
EnterOrRaise(q) ==
    /\ pc[q] = "unsent"
    /\ ~DeclaredTooLarge(q)
    /\ Goto(q, IF content[q].content_length = Malformed THEN "raised" ELSE "reading")
    /\ UNCHANGED <<fixed_vars, reading_vars, response_started, sent>>

\* Other paths, and bodies of an acceptable or unknown length.
Enter(q) ==
    /\ pc[q] = "unsent"
    /\ ~DeclaredTooLarge(q)
    /\ Goto(q, "reading")
    /\ UNCHANGED <<fixed_vars, reading_vars, response_started, sent>>

\* limited_receive passes the chunk on.
Receive(q) ==
    /\ Receiving(q)
    /\ content[q].limited => count(q) <= max_bytes
    /\ next' = [next EXCEPT ![q] = @ + 1]
    /\ seen' = IF content[q].limited THEN [seen EXCEPT ![q] = count(q)] ELSE seen
    /\ buffered' = [buffered EXCEPT ![q] = @ + Chunk(q)]
    /\ UNCHANGED <<fixed_vars, pc, response_started, sent>>

\* limited_receive raises ReplayInputTooLarge ...
TooLarge(q) ==
    /\ Receiving(q)
    /\ content[q].limited
    /\ count(q) > max_bytes
    /\ next' = [next EXCEPT ![q] = @ + 1]
    /\ seen' = [seen EXCEPT ![q] = count(q)]

\* ... and the application makes a 400 of it ...
TooLargeTranslated(q) ==
    /\ pc[q] = "reading"
    /\ TooLarge(q)
    /\ StartResponse(q, 400)
    /\ UNCHANGED <<fixed_vars, buffered>>

\* Mutant: whether a response has started is not looked at.
TooLargeAlwaysAnswered(q) ==
    /\ TooLarge(q)
    /\ SendDirectly(q, Start(413))
    /\ Goto(q, "refusing")
    /\ UNCHANGED <<fixed_vars, buffered, response_started>>

\* ... or lets it through to the middleware, which answers if it still can.
TooLargePropagated(q) ==
    /\ TooLarge(q)
    /\ \/ /\ response_started[q]
          /\ Goto(q, "cut")
          /\ UNCHANGED sent
       \/ /\ ~response_started[q]
          /\ SendDirectly(q, Start(413))
          /\ Goto(q, "refusing")
    /\ UNCHANGED <<fixed_vars, buffered, response_started>>

FinishRefusal(q) ==
    /\ pc[q] = "refusing"
    /\ SendDirectly(q, End)
    /\ Goto(q, "answered")
    /\ UNCHANGED <<fixed_vars, reading_vars, response_started>>

-----------------------------------------------------------------------------
(* The application. *)

\* No such route, say, or no such method.
AnswerUnread(q) ==
    /\ pc[q] = "reading"
    /\ StartResponse(q, 404)
    /\ UNCHANGED <<fixed_vars, reading_vars>>

ClientGone(q) ==
    /\ Receiving(q)
    /\ Goto(q, "gone")
    /\ UNCHANGED <<fixed_vars, reading_vars, response_started, sent>>

\* The whole body is there; a body that is no JSON is a 422.
ParseBody(q) ==
    /\ pc[q] = "reading"
    /\ ~Unread(q)
    /\ \/ Goto(q, "parsed") /\ UNCHANGED <<response_started, sent>>
       \/ StartResponse(q, 422)
    /\ UNCHANGED <<fixed_vars, reading_vars>>

\* require_validator_auth: without a token everybody is let in, but nobody in
\* production.
Authorised(q) ==
    IF config.token = Missing THEN ~config.production
    ELSE content[q].credentials = config.token

\* _enforce_replay_input_policy, in the handlers of the limited paths.
WithinPolicy(q) == content[q].limited => content[q].replay_inputs <= max_bytes

\* The body parses before anybody is authenticated, and the handler begins with
\* the policy.
Dispatch(q) ==
    /\ pc[q] = "parsed"
    /\ \/ ~Authorised(q) /\ StartResponse(q, 401)
       \/ Authorised(q) /\ StartResponse(q, 422)
       \/ Authorised(q) /\ ~WithinPolicy(q) /\ StartResponse(q, 413)
       \/ /\ Authorised(q) /\ WithinPolicy(q)
          /\ Goto(q, "handling")
          /\ UNCHANGED <<response_started, sent>>
    /\ UNCHANGED <<fixed_vars, reading_vars>>

Respond(q) ==
    /\ pc[q] = "handling"
    /\ StartResponse(q, 200)
    /\ UNCHANGED <<fixed_vars, reading_vars>>

FinishResponse(q) ==
    /\ pc[q] = "responding"
    /\ SendDirectly(q, End)
    /\ Goto(q, "answered")
    /\ UNCHANGED <<fixed_vars, reading_vars, response_started>>

-----------------------------------------------------------------------------
Middleware(q) ==
    RefuseDeclared(q) \/ Enter(q) \/ Receive(q) \/ TooLargePropagated(q) \/ FinishRefusal(q)

Application(q) ==
    \/ TooLargeTranslated(q) \/ AnswerUnread(q) \/ ClientGone(q) \/ ParseBody(q)
    \/ Dispatch(q) \/ Respond(q) \/ FinishResponse(q)

Next == \E q \in Requests : Middleware(q) \/ Application(q)

Spec == Init /\ [][Next]_vars

-----------------------------------------------------------------------------
(* Properties. *)

\* "replay request bodies are capped before JSON parsing by
\* replay_input_max_bytes" (README): of a body for a limited path the application
\* never holds more than that, however it is cut into chunks, whatever length was
\* declared, and whoever else sends at the time; and no handler works on inputs
\* that are larger once they are written again, or for a stranger.
CappedBeforeParsing ==
    \A q \in Requests :
        /\ content[q].limited => buffered[q] <= max_bytes
        /\ pc[q] = "handling" => Authorised(q) /\ WithinPolicy(q)

BodySize(q) == SumFunction(content[q].chunks)

\* Below the limit the middleware is not noticed: what is parsed is the whole
\* body, and who is refused for size sent too much, as declared or as received,
\* or inputs that grow beyond the limit, on a limited path.
LimiterTransparent ==
    \A q \in Requests :
        /\ pc[q] \in {"parsed", "handling"} => buffered[q] = BodySize(q)
        /\ {Start(400), Start(413)} \cap Range(sent[q]) # {} =>
             /\ content[q].limited
             /\ DeclaredTooLarge(q) \/ BodySize(q) > max_bytes \/ ~WithinPolicy(q)

Begun(q) == \E code \in Statuses : sent[q] = <<Start(code)>>

Complete(q) == \E code \in Statuses : sent[q] = <<Start(code), End>>

\* The middleware and the application send through the same channel, and the
\* client never sees two responses mixed: one start, then one end.
OneResponse ==
    \A q \in Requests : sent[q] = << >> \/ Begun(q) \/ Complete(q)

-----------------------------------------------------------------------------
(* The inductive invariant behind the safety properties. *)

\* Nothing reaches the application uncounted.
CapInv ==
    \A q \in Requests : content[q].limited =>
        buffered[q] <= seen[q] /\ buffered[q] <= max_bytes

\* What was sent, by the place a call is at; a limited call whose response has
\* begun is known to the middleware.
Told(q) ==
    /\ pc[q] \in {"unsent", "reading", "parsed", "handling"} => sent[q] = << >>
    /\ pc[q] \in {"responding", "refusing"} => Begun(q)
    /\ pc[q] \in {"cut", "gone"} => sent[q] = << >> \/ Begun(q)
    /\ pc[q] = "answered" => Complete(q)
    /\ (pc[q] = "responding" /\ content[q].limited) => response_started[q]

ResponseInv == \A q \in Requests : Told(q)

\* The bytes of the chunks received so far.
ReceivedSize(q) == SumFunctionOnSet(content[q].chunks, 1 .. next[q] - 1)

\* The counter is the size of what was received, and so is what the application
\* was given as long as it reads; it parses only what it read to the end.
Counted(q) ==
    /\ next[q] <= Len(content[q].chunks) + 1
    /\ content[q].limited => seen[q] = ReceivedSize(q)
    /\ pc[q] \in {"unsent", "reading"} => buffered[q] = ReceivedSize(q)
    /\ pc[q] \in {"parsed", "handling"} => buffered[q] = BodySize(q)

CountedInv == \A q \in Requests : Counted(q)

LimitInv ==
    /\ TypeOK
    /\ CapInv
    /\ CountedInv
    /\ ResponseInv
    /\ CappedBeforeParsing
    /\ LimiterTransparent
=============================================================================
