------------------------- MODULE ChainClientProofs --------------------------
(***************************************************************************)
(* The vote is what it is reported to be, for any requests, contents of    *)
(* the chain, settings, numbers of retries, of outages and of crashes.     *)
(***************************************************************************)
EXTENDS ClientProperties, WeightVectorProofs, SequenceTheorems

-----------------------------------------------------------------------------
(* The operators a request reads, and the body it builds of them. *)

LEMMA ContentTyped ==
    ASSUME TypeOK, NEW q \in Requests
    PROVE  /\ content[q].path \in Paths
           /\ content[q].operator_stake \in Seq(Names \X Int)
           /\ content[q].receipts \in Seq([job_id : Jobs, operator_id : Names])
           /\ content[q].verdicts \in Seq([job_id : Jobs, operator_id : Names \cup {NoName},
                                           verdict : VerdictTexts])
           /\ content[q].equal_weight \in BOOLEAN
           /\ content[q].epoch \in Int
<1>1. content[q] \in Contents[q]
  BY DEF TypeOK
<1> QED
  BY <1>1, ClientAssumption

\* Positions of a list are a finite set of integers.
LEMMA PositionsFinite ==
    ASSUME NEW S, NEW s \in Seq(S)
    PROVE  /\ DOMAIN s \subseteq Int /\ IsFiniteSet(DOMAIN s)
           /\ \A i \in DOMAIN s : s[i] \in S
<1>1. DOMAIN s = 1 .. Len(s) /\ Len(s) \in Int
  OBVIOUS
<1> QED
  BY <1>1, FS_Interval

LEMMA OverrideIsList ==
    ASSUME TypeOK, NEW q \in Requests
    PROVE  IsOperatorList(override(q))
<1>1. content[q].operator_stake \in Seq(Names \X Int)
  BY ContentTyped
<1>2. DOMAIN override(q) = DOMAIN content[q].operator_stake
  BY DEF override
<1>3. \A i \in DOMAIN override(q) : override(q)[i].stake \in Int
  BY <1>1, <1>2 DEF override
<1> QED
  BY <1>1, <1>2, <1>3, PositionsFinite DEF IsOperatorList

LEMMA RowsAreList ==
    ASSUME TypeOK
    PROVE  IsOperatorList(rows)
<1> DEFINE Row == [params : Names \cup {Absent}, suffix : Names \cup {Absent},
                   stake : Int \cup {Absent}, frozen : BOOLEAN \cup {Absent}]
<1>1. storage \in Seq(Row)
  BY ClientAssumption DEF TypeOK
<1>2. DOMAIN rows = DOMAIN storage
  BY DEF rows
<1>3. \A i \in DOMAIN storage : storage[i].stake \in Int \cup {Absent}
  <2> HIDE DEF Row
  <2>1. \A i \in DOMAIN storage : storage[i] \in Row
    BY <1>1, PositionsFinite
  <2> USE DEF Row
  <2> QED
    BY <2>1
<1>4. \A i \in DOMAIN rows : rows[i].stake \in Int
  BY <1>2, <1>3 DEF rows
<1> QED
  BY <1>1, <1>2, <1>4, PositionsFinite DEF IsOperatorList

LEMMA StubIsList == IsOperatorList(Stub)
<1>1. Stub \in Seq(Operators)
  BY ClientAssumption
<1>2. \A i \in DOMAIN Stub : Stub[i].stake \in Int
  <2>1. \A i \in DOMAIN Stub : Stub[i] \in Operators
    BY <1>1
  <2> QED
    BY <2>1 DEF Operators
<1> QED
  BY <1>1, <1>2, PositionsFinite DEF IsOperatorList

\* The body TypeOK asks for.
IsBody(b) ==
    /\ b.epoch \in 0 .. MAX_EPOCH
    /\ \A i \in DOMAIN b.entries :
         /\ b.entries[i].account # NoAccount
         /\ b.entries[i].weight \in 1 .. U16_MAX

built(q, operators) ==
    encode_submit_weights_call(content[q].epoch,
        compute_weight_vector(operators, faulty_operators(q), content[q].equal_weight))

LEMMA BuiltIsBody ==
    ASSUME TypeOK, NEW q \in Requests, NEW operators, IsOperatorList(operators),
           BuildsBody(q, operators)
    PROVE  IsBody(built(q, operators))
<1> DEFINE faulty == faulty_operators(q)
           vector == compute_weight_vector(operators, faulty, content[q].equal_weight)
<1>1. content[q].equal_weight \in BOOLEAN
  BY ContentTyped
<1>2. DOMAIN vector = kept(operators, faulty)
  BY DEF compute_weight_vector
<1>3. ASSUME NEW i \in kept(operators, faulty)
      PROVE  vector[i].account # NoAccount /\ vector[i].weight \in 1 .. U16_MAX
  <2>1. /\ vector[i].account = Account[operators[i].operator_id]
        /\ vector[i].weight = weight(operators, faulty, content[q].equal_weight, i)
    BY DEF compute_weight_vector
  <2>2. Account[operators[i].operator_id] # NoAccount
    BY DEF BuildsBody, to_32_accepts
  <2> QED
    BY <1>1, <2>1, <2>2, WeightInRange
<1> HIDE DEF vector
<1>4. built(q, operators).epoch = content[q].epoch /\ built(q, operators).entries = vector
  BY DEF built, encode_submit_weights_call, vector
<1>5. content[q].epoch \in 0 .. MAX_EPOCH
  BY DEF BuildsBody, epoch_fits
<1> QED
  BY <1>2, <1>3, <1>4, <1>5 DEF IsBody

\* Nothing a request has read changes under it.
LEMMA ReadingFixed ==
    ASSUME NEW q \in Requests, UNCHANGED fixed_vars
    PROVE  /\ override(q)' = override(q)
           /\ rows' = rows
           /\ Decodable' = Decodable
           /\ faulty_operators(q)' = faulty_operators(q)
           /\ \A operators : BuildsBody(q, operators)' = BuildsBody(q, operators)
           /\ source'[q] = source[q] => OperatorsOf(q)' = OperatorsOf(q)
<1>1. content' = content /\ storage' = storage /\ config' = config
  BY DEF fixed_vars
<1>2. override(q)' = override(q)
  BY <1>1 DEF override
<1>3. rows' = rows /\ Decodable' = Decodable
  BY <1>1 DEF rows, Decodable
<1>4. faulty_operators(q)' = faulty_operators(q)
  BY <1>1 DEF faulty_operators
<1>5. \A operators : BuildsBody(q, operators)' = BuildsBody(q, operators)
  BY <1>1, <1>4 DEF BuildsBody
<1>6. source'[q] = source[q] => OperatorsOf(q)' = OperatorsOf(q)
  BY <1>2, <1>3 DEF OperatorsOf
<1> QED
  BY <1>2, <1>3, <1>4, <1>5, <1>6

-----------------------------------------------------------------------------
(* The kinds of steps, as far as the invariant can tell them apart. *)

answering_vars == <<source, body, tx>>
sent_vars == <<pool, chain>>

\* The request that holds the event loop went on, without touching its answer.
MovesFrom(q, to) ==
    \/ pc[q] = "probing_read" /\ to \in {"querying", "503"}
    \/ pc[q] = "querying" /\ to = "503"
    \/ pc[q] = "probing_submit" /\ to = "composing"
    \/ /\ pc[q] \in {"probing_submit", "composing", "waiting"}
       /\ to = IF config.stub THEN "ok" ELSE "503"

Moves(q, to) ==
    /\ MovesFrom(q, to)
    /\ pc' = [pc EXCEPT ![q] = to]
    /\ UNCHANGED <<answering_vars, started, sent_vars>>

\* A request started, and is refused or goes on to the probe.
Begins(q, to) ==
    /\ Start(q)
    /\ \/ to = "400"
       \/ to = "probing_read" /\ (config.key \/ content[q].path = "/internal/operators")
    /\ pc' = [pc EXCEPT ![q] = to]
    /\ UNCHANGED <<answering_vars, sent_vars>>

\* A request has its operators.
Loads(q, from, operators) ==
    /\ \/ from = "override" /\ operators = override(q) /\ Start(q) /\ config.key
       \/ /\ from = "chain" /\ operators = rows /\ Decodable
          /\ pc[q] = "querying" /\ UNCHANGED started
       \/ /\ from = "stub" /\ operators = Stub /\ config.stub
          /\ pc[q] \in {"probing_read", "querying"} /\ UNCHANGED started
    /\ WithOperators(q, from, operators)
    /\ UNCHANGED <<tx, sent_vars>>

\* A request put its extrinsic on the wire.
Sends(q) ==
    /\ pc[q] = "composing"
    /\ pool' = pool \cup {q}
    /\ pc' = [pc EXCEPT ![q] = "waiting"]
    /\ UNCHANGED <<answering_vars, started, chain>>

\* A request saw its extrinsic included, and successful.
Confirms(q) ==
    /\ pc[q] = "waiting"
    /\ \E k \in DOMAIN chain : chain[k].req = q /\ chain[k].ok
    /\ pc' = [pc EXCEPT ![q] = "ok"]
    /\ tx' = [tx EXCEPT ![q] = TRUE]
    /\ UNCHANGED <<source, body, started, sent_vars>>

Kind ==
    \/ UNCHANGED <<pc, answering_vars, started, sent_vars>>
    \/ \E q \in Requests, to \in {"querying", "composing", "503", "ok"} : Moves(q, to)
    \/ \E q \in Requests, to \in {"400", "probing_read"} : Begins(q, to)
    \/ \E q \in Requests, from \in {"override", "chain", "stub"} :
           \E operators \in {override(q), rows, Stub} : Loads(q, from, operators)
    \/ \E q \in Requests : Sends(q) \/ Confirms(q)
    \/ NodeIncludes \/ NodeDrops \/ Crash

LEMMA KeepLocalMoves ==
    ASSUME NEW q \in Requests, KeepLocalOrRefuse(q),
           pc[q] \in {"probing_submit", "composing", "waiting"},
           UNCHANGED <<tx, started, pool, chain>>
    PROVE  Kind
<1> DEFINE to == IF config.stub THEN "ok" ELSE "503"
<1>1. Moves(q, to) /\ to \in {"querying", "composing", "503", "ok"}
  BY DEF KeepLocalOrRefuse, Goto, Moves, MovesFrom, answering_vars, sent_vars
<1> QED
  BY <1>1 DEF Kind

LEMMA RefuseMoves ==
    ASSUME NEW q \in Requests, Refuse(q), pc[q] \in {"probing_read", "querying"},
           UNCHANGED <<tx, started, pool, chain>>
    PROVE  Kind
<1>1. Moves(q, "503")
  BY DEF Refuse, Goto, Moves, MovesFrom, answering_vars, sent_vars
<1> QED
  BY <1>1 DEF Kind

LEMMA StubLoads ==
    ASSUME NEW q \in Requests, StubOrRefuse(q), pc[q] \in {"probing_read", "querying"},
           UNCHANGED <<tx, started, pool, chain>>
    PROVE  Kind
<1>1. CASE config.stub /\ WithOperators(q, "stub", Stub)
  <2>1. Loads(q, "stub", Stub)
    BY <1>1 DEF Loads, sent_vars
  <2> QED
    BY <2>1 DEF Kind
<1>2. CASE ~config.stub /\ Refuse(q)
  BY <1>2, RefuseMoves
<1> QED
  BY <1>1, <1>2 DEF StubOrRefuse

\* Every step is of one of the kinds, and leaves the settings alone.
LEMMA StepKind ==
    ASSUME Next
    PROVE  Kind /\ UNCHANGED fixed_vars
<1>1. ASSUME NEW q \in Requests, RequestOperators(q)
      PROVE  Kind /\ UNCHANGED fixed_vars
  <2>1. Begins(q, "probing_read")
    BY <1>1 DEF RequestOperators, StartProbing, Goto, Begins, answering_vars, sent_vars,
                world_vars
  <2> QED
    BY <1>1, <2>1 DEF Kind, RequestOperators
<1>2. ASSUME NEW q \in Requests, SubmitWeights(q)
      PROVE  Kind /\ UNCHANGED fixed_vars
  <2>1. Start(q) /\ UNCHANGED fixed_vars /\ UNCHANGED <<tx, pool, chain>>
    BY <1>2 DEF SubmitWeights, world_vars
  <2>2. CASE NoKey(q)
    <3>1. Begins(q, "400")
      BY <2>1, <2>2 DEF NoKey, Goto, Begins, answering_vars, sent_vars
    <3> QED
      BY <2>1, <3>1 DEF Kind
  <2>3. CASE config.key /\ WithOperators(q, "override", override(q))
    <3>1. Loads(q, "override", override(q))
      BY <2>1, <2>3 DEF Loads, sent_vars
    <3> QED
      BY <2>1, <3>1 DEF Kind
  <2>4. CASE config.key /\ StartProbing(q)
    <3>1. Begins(q, "probing_read")
      BY <2>1, <2>4 DEF StartProbing, Goto, Begins, answering_vars, sent_vars
    <3> QED
      BY <2>1, <3>1 DEF Kind
  <2> QED
    BY <1>2, <2>2, <2>3, <2>4 DEF SubmitWeights
<1>3. ASSUME NEW q \in Requests, ProbeAnswers(q)
      PROVE  Kind /\ UNCHANGED fixed_vars
  <2>1. Moves(q, "querying") \/ Moves(q, "composing")
    BY <1>3 DEF ProbeAnswers, Goto, Moves, MovesFrom, answering_vars, answer_vars,
                sent_vars, world_vars
  <2> QED
    BY <1>3, <2>1 DEF Kind, ProbeAnswers
<1>4. ASSUME NEW q \in Requests, ProbeFails(q)
      PROVE  Kind /\ UNCHANGED fixed_vars
  BY <1>4 DEF ProbeFails, Kind, answering_vars, answer_vars, sent_vars, world_vars
<1>5. ASSUME NEW q \in Requests, Unreachable(q)
      PROVE  Kind /\ UNCHANGED fixed_vars
  BY <1>5, StubLoads, KeepLocalMoves DEF Unreachable, world_vars
<1>6. ASSUME NEW q \in Requests, QueryAnswers(q)
      PROVE  Kind /\ UNCHANGED fixed_vars
  <2>1. Loads(q, "chain", rows)
    BY <1>6 DEF QueryAnswers, Loads, sent_vars, world_vars
  <2> QED
    BY <1>6, <2>1 DEF Kind, QueryAnswers
<1>7. ASSUME NEW q \in Requests, QueryUndecodable(q)
      PROVE  Kind /\ UNCHANGED fixed_vars
  BY <1>7, RefuseMoves DEF QueryUndecodable, world_vars
<1>8. ASSUME NEW q \in Requests, QueryFails(q)
      PROVE  Kind /\ UNCHANGED fixed_vars
  BY <1>8, StubLoads DEF QueryFails, world_vars
<1>9. ASSUME NEW q \in Requests, ComposeFails(q)
      PROVE  Kind /\ UNCHANGED fixed_vars
  BY <1>9, KeepLocalMoves DEF ComposeFails, world_vars
<1>10. ASSUME NEW q \in Requests, SubmitExtrinsic(q)
       PROVE  Kind /\ UNCHANGED fixed_vars
  <2>1. Sends(q)
    BY <1>10 DEF SubmitExtrinsic, Goto, Sends, answering_vars, answer_vars
  <2> QED
    BY <1>10, <2>1 DEF Kind, SubmitExtrinsic
<1>11. ASSUME NEW q \in Requests, InclusionSeen(q)
       PROVE  Kind /\ UNCHANGED fixed_vars
  <2>1. pc[q] = "waiting" /\ UNCHANGED fixed_vars /\ UNCHANGED <<started, pool, chain>>
    BY <1>11 DEF InclusionSeen, world_vars
  <2>2. PICK k \in DOMAIN chain :
          /\ chain[k].req = q
          /\ \/ /\ chain[k].ok
                /\ Goto(q, "ok")
                /\ tx' = [tx EXCEPT ![q] = TRUE]
                /\ UNCHANGED <<source, body, attempts>>
             \/ ~chain[k].ok /\ KeepLocalOrRefuse(q) /\ UNCHANGED tx
    BY <1>11 DEF InclusionSeen
  <2>3. Confirms(q) \/ (KeepLocalOrRefuse(q) /\ UNCHANGED tx)
    BY <2>1, <2>2 DEF Confirms, Goto, sent_vars
  <2> QED
    BY <2>1, <2>3, KeepLocalMoves DEF Kind
<1>12. ASSUME NEW q \in Requests, WaitFails(q)
       PROVE  Kind /\ UNCHANGED fixed_vars
  BY <1>12, KeepLocalMoves DEF WaitFails, world_vars
<1>13. ASSUME World
       PROVE  Kind /\ UNCHANGED fixed_vars
  BY <1>13 DEF World, NodeIncludes, NodeDrops, NodeGoes, NodeReturns, Crash, Kind,
               answering_vars, answer_vars, sent_vars
<1> QED
  BY <1>1, <1>2, <1>3, <1>4, <1>5, <1>6, <1>7, <1>8, <1>9, <1>10, <1>11, <1>12, <1>13
     DEF Next, Arrive, Probe, Read, Submit

-----------------------------------------------------------------------------
(* What each kind of step does to the parts of the type invariant.          *)

\* What a request does once it has its operators.
LoadOutcome(q, operators) ==
    \/ /\ content[q].path = "/internal/operators"
       /\ pc' = [pc EXCEPT ![q] = "ok"]
       /\ body' = body
    \/ /\ content[q].path = "/submit_weights"
       /\ pc' = [pc EXCEPT ![q] = "raised"]
       /\ body' = body
    \/ /\ content[q].path = "/submit_weights"
       /\ BuildsBody(q, operators)
       /\ pc' = [pc EXCEPT ![q] = "probing_submit"]
       /\ DOMAIN body' = DOMAIN body \cup {q}
       /\ body'[q] = built(q, operators)
       /\ \A r \in DOMAIN body : r # q => body'[r] = body[r]

LEMMA LoadEffect ==
    ASSUME NEW q \in Requests, NEW from, NEW operators, WithOperators(q, from, operators)
    PROVE  source' = [source EXCEPT ![q] = from] /\ LoadOutcome(q, operators)
<1>1. CASE ReportOperators(q)
  BY <1>1 DEF WithOperators, ReportOperators, LoadOutcome, Goto
<1>2. CASE BuildBody(q, operators)
  <2>1. body' = [r \in DOMAIN body \cup {q} |-> IF r = q THEN built(q, operators) ELSE body[r]]
    BY <1>2 DEF BuildBody, built
  <2>2. /\ DOMAIN body' = DOMAIN body \cup {q}
        /\ body'[q] = built(q, operators)
        /\ \A r \in DOMAIN body : r # q => body'[r] = body[r]
    BY <2>1
  <2> QED
    BY <1>2, <2>2 DEF WithOperators, BuildBody, LoadOutcome, Goto
<1>3. CASE BodyRaises(q, operators)
  BY <1>3 DEF WithOperators, BodyRaises, LoadOutcome, Goto
<1> QED
  BY <1>1, <1>2, <1>3 DEF WithOperators

\* The operators of a request are a list, wherever they come from.
LEMMA LoadedIsList ==
    ASSUME TypeOK, NEW q \in Requests, NEW operators \in {override(q), rows, Stub}
    PROVE  IsOperatorList(operators)
  BY OverrideIsList, RowsAreList, StubIsList

Places == {"unsent"} \cup Running \cup Ended

TypeOfAnswers ==
    /\ pc \in [Requests -> Places]
    /\ source \in [Requests -> Sources]
    /\ DOMAIN body \subseteq Requests
    /\ \A q \in DOMAIN body : IsBody(body[q])
    /\ tx \in [Requests -> BOOLEAN]
    /\ started \in Seq(Requests)
    /\ pool \subseteq Requests
    /\ chain \in Seq([req : Requests, ok : BOOLEAN])

TypeOfRest ==
    /\ attempts \in 0 .. BACKOFFS + 1
    /\ conn \in {"none", "open", "dead"}
    /\ node \in {"up", "down"}
    /\ flaps \in 0 .. MaxFlaps
    /\ crashes \in 0 .. MaxCrashes

LEMMA TypeParts ==
    TypeOK <=> /\ \A q \in Requests : content[q] \in Contents[q]
               /\ storage \in Storages
               /\ config \in Configs
               /\ TypeOfAnswers
               /\ TypeOfRest
  BY DEF TypeOK, TypeOfAnswers, TypeOfRest, Places, IsBody

LEMMA AnswersTyped ==
    ASSUME TypeOK, Kind, UNCHANGED fixed_vars
    PROVE  TypeOfAnswers'
<1>1. TypeOfAnswers
  BY TypeParts
<1>2. {"ok", "400", "503", "raised", "lost", "unsent", "probing_read", "querying",
       "probing_submit", "composing", "waiting"} \subseteq Places
  BY DEF Places, Running, Ended
<1>3. \A q \in Requests, to \in Places :
          pc' = [pc EXCEPT ![q] = to] => pc' \in [Requests -> Places]
  BY <1>1 DEF TypeOfAnswers
<1>4. \A q \in Requests : Start(q) => started' \in Seq(Requests)
  BY <1>1 DEF TypeOfAnswers, Start
<1> HIDE DEF Places
<1>5. CASE UNCHANGED <<pc, answering_vars, started, sent_vars>>
  BY <1>1, <1>5 DEF TypeOfAnswers, answering_vars, sent_vars
<1>6. ASSUME NEW q \in Requests, NEW to \in {"querying", "composing", "503", "ok"},
             Moves(q, to)
      PROVE  TypeOfAnswers'
  BY <1>1, <1>2, <1>3, <1>6 DEF Moves, TypeOfAnswers, answering_vars, sent_vars
<1>7. ASSUME NEW q \in Requests, NEW to \in {"400", "probing_read"}, Begins(q, to)
      PROVE  TypeOfAnswers'
  BY <1>1, <1>2, <1>3, <1>4, <1>7 DEF Begins, TypeOfAnswers, answering_vars, sent_vars
<1>8. ASSUME NEW q \in Requests, NEW from \in {"override", "chain", "stub"},
             NEW operators \in {override(q), rows, Stub}, Loads(q, from, operators)
      PROVE  TypeOfAnswers'
  <2>1. source' = [source EXCEPT ![q] = from] /\ LoadOutcome(q, operators)
    BY <1>8, LoadEffect DEF Loads
  <2>2. source' \in [Requests -> Sources]
    BY <1>1, <2>1 DEF TypeOfAnswers, Sources
  <2>3. pc' \in [Requests -> Places]
    BY <1>2, <1>3, <2>1 DEF LoadOutcome
  <2>4. BuildsBody(q, operators) => IsBody(built(q, operators))
    BY LoadedIsList, BuiltIsBody
  <2>5. DOMAIN body' \subseteq Requests /\ \A r \in DOMAIN body' : IsBody(body'[r])
    BY <1>1, <2>1, <2>4 DEF TypeOfAnswers, LoadOutcome
  <2>6. started' \in Seq(Requests)
    BY <1>1, <1>4, <1>8 DEF Loads, TypeOfAnswers
  <2>7. UNCHANGED <<tx, pool, chain>>
    BY <1>8 DEF Loads, sent_vars
  <2>8. \A r \in DOMAIN body' : IsBody(body[r])'
    BY <2>5 DEF IsBody
  <2> QED
    BY <1>1, <2>2, <2>3, <2>5, <2>6, <2>7, <2>8 DEF TypeOfAnswers
<1>9. ASSUME NEW q \in Requests, Sends(q)
      PROVE  TypeOfAnswers'
  BY <1>1, <1>2, <1>3, <1>9 DEF Sends, TypeOfAnswers, answering_vars
<1>10. ASSUME NEW q \in Requests, Confirms(q)
       PROVE  TypeOfAnswers'
  BY <1>1, <1>2, <1>3, <1>10 DEF Confirms, TypeOfAnswers, sent_vars
<1>11. CASE NodeIncludes
  <2>1. UNCHANGED <<pc, source, body, tx, started>>
    BY <1>11 DEF NodeIncludes, answer_vars
  <2>2. pool' \subseteq Requests /\ chain' \in Seq([req : Requests, ok : BOOLEAN])
    BY <1>1, <1>11 DEF NodeIncludes, TypeOfAnswers
  <2> QED
    BY <1>1, <2>1, <2>2 DEF TypeOfAnswers
<1>12. CASE NodeDrops
  BY <1>1, <1>12 DEF NodeDrops, TypeOfAnswers, answer_vars
<1>13. CASE Crash
  <2>1. UNCHANGED <<source, body, tx, started, pool, chain>>
    BY <1>13 DEF Crash, answer_vars
  <2>2. pc' \in [Requests -> Places]
    BY <1>1, <1>2, <1>13 DEF Crash, TypeOfAnswers
  <2> QED
    BY <1>1, <2>1, <2>2 DEF TypeOfAnswers
<1> QED
  BY <1>5, <1>6, <1>7, <1>8, <1>9, <1>10, <1>11, <1>12, <1>13 DEF Kind

Attempts == 0 .. BACKOFFS + 1

LEMMA RestTyped ==
    ASSUME TypeOK, Next
    PROVE  TypeOfRest'
<1>1. TypeOfRest
  BY TypeParts
<1>2. BACKOFFS + 1 \in Attempts
  BY ClientAssumption DEF Attempts
<1> DEFINE Counting == attempts' \in Attempts
           Connecting == conn' \in {"none", "open", "dead"}
           Elsewhere == UNCHANGED <<node, flaps, crashes>>
<1>3. attempts \in Attempts /\ conn \in {"none", "open", "dead"}
  BY <1>1 DEF TypeOfRest, Attempts
<1>4. Counting /\ Connecting /\ Elsewhere => TypeOfRest'
  BY <1>1 DEF TypeOfRest, Attempts
<1>5. \A q, from, operators : WithOperators(q, from, operators) => Counting
  BY <1>2, <1>3 DEF WithOperators, ReportOperators, BuildBody, BodyRaises
<1>6. \A q : (Refuse(q) \/ KeepLocalOrRefuse(q)) => Counting
  BY <1>3 DEF Refuse, KeepLocalOrRefuse
<1>7. \A q : StubOrRefuse(q) => Counting
  BY <1>5, <1>6 DEF StubOrRefuse
<1>8. \A q : StartProbing(q) => Counting
  BY <1>2 DEF StartProbing
<1>9. Connected \/ CallFails => Connecting
  BY <1>3 DEF Connected, CallFails
<1>10. UNCHANGED attempts => Counting
  BY <1>3
<1>11. UNCHANGED conn => Connecting
  BY <1>3
<1> HIDE DEF Counting, Connecting
<1>12. UNCHANGED world_vars => Elsewhere
  BY DEF world_vars
<1>13. ASSUME NEW q \in Requests, Arrive(q)
       PROVE  TypeOfRest'
  <2>1. CASE RequestOperators(q)
    BY <1>4, <1>8, <1>11, <1>12, <2>1 DEF RequestOperators
  <2>2. CASE SubmitWeights(q)
    BY <1>4, <1>5, <1>8, <1>10, <1>11, <1>12, <2>2 DEF SubmitWeights, NoKey
  <2> QED
    BY <1>13, <2>1, <2>2 DEF Arrive
<1>14. ASSUME NEW q \in Requests, Probe(q)
       PROVE  TypeOfRest'
  <2>1. CASE ProbeAnswers(q)
    BY <1>4, <1>10, <1>11, <1>12, <2>1 DEF ProbeAnswers
  <2>2. CASE ProbeFails(q)
    <3>1. attempts' = attempts - 1 /\ attempts > 1 /\ UNCHANGED <<conn, world_vars>>
      BY <2>2 DEF ProbeFails
    <3>2. attempts' \in Attempts
      BY <1>3, <3>1, ClientAssumption DEF Attempts
    <3>3. Counting /\ Connecting /\ Elsewhere
      BY <1>11, <1>12, <3>1, <3>2 DEF Counting
    <3> QED
      BY <1>4, <3>3
  <2>3. CASE Unreachable(q)
    BY <1>4, <1>6, <1>7, <1>11, <1>12, <2>3 DEF Unreachable
  <2> QED
    BY <1>14, <2>1, <2>2, <2>3 DEF Probe
<1>15. ASSUME NEW q \in Requests, Read(q)
       PROVE  TypeOfRest'
  BY <1>4, <1>5, <1>6, <1>7, <1>9, <1>12, <1>15
     DEF Read, QueryAnswers, QueryUndecodable, QueryFails
<1>16. ASSUME NEW q \in Requests, Submit(q)
       PROVE  TypeOfRest'
  <2>1. CASE ComposeFails(q)
    BY <1>4, <1>6, <1>9, <1>12, <2>1 DEF ComposeFails
  <2>2. CASE SubmitExtrinsic(q)
    BY <1>4, <1>9, <1>10, <2>2 DEF SubmitExtrinsic
  <2>3. CASE InclusionSeen(q)
    <3>1. Counting
      BY <1>6, <1>10, <2>3 DEF InclusionSeen
    <3> QED
      BY <1>4, <1>11, <1>12, <2>3, <3>1 DEF InclusionSeen
  <2>4. CASE WaitFails(q)
    <3>1. Connecting
      BY <1>3, <2>4 DEF WaitFails, Connecting
    <3> QED
      BY <1>4, <1>6, <1>12, <2>4, <3>1 DEF WaitFails
  <2> QED
    BY <1>16, <2>1, <2>2, <2>3, <2>4 DEF Submit
<1>17. ASSUME World
       PROVE  TypeOfRest'
  <2>1. CASE NodeIncludes \/ NodeDrops
    BY <1>4, <1>10, <1>11, <2>1 DEF NodeIncludes, NodeDrops
  <2>2. CASE NodeGoes
    <3>1. /\ node' = "down" /\ flaps' = flaps + 1 /\ flaps < MaxFlaps
          /\ UNCHANGED <<attempts, crashes>> /\ conn' \in {conn, "dead"}
      BY <2>2 DEF NodeGoes
    <3>2. flaps' \in 0 .. MaxFlaps
      BY <1>1, <3>1, ClientAssumption DEF TypeOfRest
    <3> QED
      BY <1>1, <3>1, <3>2 DEF TypeOfRest
  <2>3. CASE NodeReturns
    BY <1>1, <2>3 DEF NodeReturns, TypeOfRest
  <2>4. CASE Crash
    <3>1. /\ conn' = "none" /\ crashes' = crashes + 1 /\ crashes < MaxCrashes
          /\ UNCHANGED <<attempts, node, flaps>>
      BY <2>4 DEF Crash
    <3>2. crashes' \in 0 .. MaxCrashes
      BY <1>1, <3>1, ClientAssumption DEF TypeOfRest
    <3> QED
      BY <1>1, <3>1, <3>2 DEF TypeOfRest
  <2> QED
    BY <1>17, <2>1, <2>2, <2>3, <2>4 DEF World
<1> QED
  BY <1>13, <1>14, <1>15, <1>16, <1>17 DEF Next

LEMMA TypeStep ==
    ASSUME TypeOK, Next
    PROVE  TypeOK'
<1>1. Kind /\ UNCHANGED fixed_vars
  BY StepKind
<1>2. TypeOfAnswers' /\ TypeOfRest'
  BY <1>1, AnswersTyped, RestTyped
<1> QED
  BY <1>1, <1>2 DEF TypeOK, TypeOfAnswers, TypeOfRest, Places, IsBody, fixed_vars

-----------------------------------------------------------------------------
(* The order of the requests. *)

LEMMA AppendToStarted ==
    ASSUME started \in Seq(Requests), NEW q \in Requests, started' = Append(started, q)
    PROVE  /\ Len(started') = Len(started) + 1
           /\ started' # << >>
           /\ started'[Len(started')] = q
           /\ \A i \in DOMAIN started : i \in DOMAIN started' /\ started'[i] = started[i]
           /\ \A i \in DOMAIN started' : i \in DOMAIN started \/ started'[i] = q
           /\ DOMAIN started = 1 .. Len(started)
           /\ DOMAIN started' = 1 .. Len(started')
  OBVIOUS

LEMMA OrderStep ==
    ASSUME TypeOK, OrderInv, Kind
    PROVE  OrderInv'
<1>1. pc \in [Requests -> Places] /\ started \in Seq(Requests)
  BY TypeParts DEF TypeOfAnswers
<1>2. ASSUME NEW q \in Requests, NEW to, to # "unsent", pc' = [pc EXCEPT ![q] = to],
             UNCHANGED started, pc[q] \in Running
      PROVE  OrderInv'
  <2>1. pc[q] # "unsent"
    BY <1>2 DEF Running
  <2>2. pc'[q] = to /\ \A r \in Requests : r # q => pc'[r] = pc[r]
    BY <1>1, <1>2
  <2>3. ASSUME NEW r \in Requests
        PROVE  /\ r \in Range(started) <=> pc'[r] # "unsent"
               /\ pc'[r] \in Running => started # << >> /\ started[Len(started)] = r
    <3>1. CASE r = q
      BY <1>2, <2>1, <2>2, <3>1 DEF OrderInv
    <3>2. CASE r # q
      BY <2>2, <3>2 DEF OrderInv
    <3> QED
      BY <3>1, <3>2
  <2> QED
    BY <1>2, <2>3 DEF OrderInv, Range
<1>3. ASSUME NEW q \in Requests, NEW to, to # "unsent", pc' = [pc EXCEPT ![q] = to], Start(q)
      PROVE  OrderInv'
  <2>1. pc'[q] = to /\ \A r \in Requests : r # q => pc'[r] = pc[r]
    BY <1>1, <1>3
  <2>2. started' = Append(started, q) /\ \A r \in Requests : pc[r] \notin Running
    BY <1>3 DEF Start, Arrives
  <2>3. q \in Range(started')
    BY <1>1, <2>2, AppendToStarted DEF Range
  <2>4. \A r \in Requests : r # q => (r \in Range(started') <=> r \in Range(started))
    BY <1>1, <2>2, AppendToStarted DEF Range
  <2>5. started' # << >> /\ started'[Len(started')] = q
    BY <1>1, <2>2, AppendToStarted
  <2>6. ASSUME NEW r \in Requests
        PROVE  /\ r \in Range(started') <=> pc'[r] # "unsent"
               /\ pc'[r] \in Running => started' # << >> /\ started'[Len(started')] = r
    <3>1. CASE r = q
      BY <1>3, <2>1, <2>3, <2>5, <3>1
    <3>2. CASE r # q
      BY <2>1, <2>2, <2>4, <3>2 DEF OrderInv
    <3> QED
      BY <3>1, <3>2
  <2> QED
    BY <2>6 DEF OrderInv, Range
<1>4. CASE UNCHANGED <<pc, started>>
  BY <1>4 DEF OrderInv, Range
<1>5. ASSUME NEW q \in Requests, NEW to \in {"querying", "composing", "503", "ok"},
             Moves(q, to)
      PROVE  OrderInv'
  BY <1>2, <1>5 DEF Moves, MovesFrom, Running
<1>6. ASSUME NEW q \in Requests, NEW to \in {"400", "probing_read"}, Begins(q, to)
      PROVE  OrderInv'
  BY <1>3, <1>6 DEF Begins
<1>7. ASSUME NEW q \in Requests, NEW from \in {"override", "chain", "stub"},
             NEW operators \in {override(q), rows, Stub}, Loads(q, from, operators)
      PROVE  OrderInv'
  <2>1. LoadOutcome(q, operators)
    BY <1>7, LoadEffect DEF Loads
  <2>2. PICK to \in {"ok", "raised", "probing_submit"} : pc' = [pc EXCEPT ![q] = to]
    BY <2>1 DEF LoadOutcome
  <2>3. Start(q) \/ (UNCHANGED started /\ pc[q] \in Running)
    BY <1>7 DEF Loads, Running
  <2> QED
    BY <1>2, <1>3, <2>2, <2>3
<1>8. ASSUME NEW q \in Requests, Sends(q)
      PROVE  OrderInv'
  BY <1>2, <1>8 DEF Sends, Running
<1>9. ASSUME NEW q \in Requests, Confirms(q)
      PROVE  OrderInv'
  BY <1>2, <1>9 DEF Confirms, Running
<1>10. CASE Crash
  <2>1. UNCHANGED started
    BY <1>10 DEF Crash
  <2>2. \A r \in Requests : /\ pc'[r] \notin Running
                            /\ pc'[r] = "unsent" <=> pc[r] = "unsent"
    BY <1>10 DEF Crash, Running
  <2> QED
    BY <2>1, <2>2 DEF OrderInv, Range
<1> QED
  BY <1>4, <1>5, <1>6, <1>7, <1>8, <1>9, <1>10 DEF Kind, NodeIncludes, NodeDrops

\* The request that holds the loop started after every other that has started.
LEMMA HolderIsLast ==
    ASSUME TypeOK, OrderInv, NEW q \in Requests, pc[q] \in Running,
           NEW p \in Requests, p # q, pc[p] # "unsent"
    PROVE  StartedBefore(p, q) /\ pc[p] \notin Running
<1>1. started \in Seq(Requests)
  BY TypeParts DEF TypeOfAnswers
<1>2. started # << >> /\ started[Len(started)] = q /\ p \in Range(started)
  BY DEF OrderInv
<1>3. PICK i \in DOMAIN started : started[i] = p
  BY <1>2 DEF Range
<1>4. i < Len(started) /\ Len(started) \in DOMAIN started
  BY <1>1, <1>2, <1>3
<1>5. pc[p] \notin Running
  BY <1>2 DEF OrderInv
<1> QED
  BY <1>2, <1>3, <1>4, <1>5 DEF StartedBefore

\* Who started before whom is settled.
LEMMA StartedBeforeStays ==
    ASSUME TypeOK, Kind, NEW p, NEW r, StartedBefore(p, r)
    PROVE  StartedBefore(p, r)'
<1>1. started \in Seq(Requests)
  BY TypeParts DEF TypeOfAnswers
<1>2. started' = started \/ \E q \in Requests : started' = Append(started, q)
  BY DEF Kind, Moves, Begins, Loads, Sends, Confirms, NodeIncludes, NodeDrops, Crash, Start
<1>3. \A i \in DOMAIN started : i \in DOMAIN started' /\ started'[i] = started[i]
  BY <1>1, <1>2, AppendToStarted
<1> QED
  BY <1>3 DEF StartedBefore

-----------------------------------------------------------------------------
(* Where the operators came from, and the body that was built of them.      *)

\* The parts of the invariant about one request.
SourceOf(q) ==
    /\ source[q] = "stub" => config.stub
    /\ source[q] = "chain" => Decodable
    /\ pc[q] \in {"probing_read", "querying"} =>
          config.key \/ content[q].path = "/internal/operators"
    /\ pc[q] \in {"unsent", "probing_read", "querying"} => q \notin DOMAIN body
    /\ pc[q] \in {"probing_submit", "composing", "waiting"} => q \in DOMAIN body

BodyOf(q) ==
    /\ content[q].path = "/submit_weights"
    /\ config.key
    /\ source[q] # "unread"
    /\ pc[q] \notin {"400", "raised"}
    /\ BuildsBody(q, OperatorsOf(q))
    /\ body[q] = built(q, OperatorsOf(q))

OptInOf(q) ==
    (pc[q] = "ok" /\ ~config.stub) =>
        source[q] \in {"override", "chain"} /\ (q \in DOMAIN body => tx[q])

AnswerOf(q) == SourceOf(q) /\ (q \in DOMAIN body => BodyOf(q)) /\ OptInOf(q)

LEMMA AnswerParts ==
    (SourceInv /\ BodyInv /\ StubOptIn /\ DOMAIN body \subseteq Requests)
        <=> (DOMAIN body \subseteq Requests /\ \A q \in Requests : AnswerOf(q))
  BY DEF SourceInv, BodyInv, StubOptIn, AnswerOf, SourceOf, BodyOf, OptInOf, built

\* A request nothing happens to keeps its answer.
LEMMA AnswerStays ==
    ASSUME NEW q \in Requests, UNCHANGED fixed_vars,
           source'[q] = source[q], tx'[q] = tx[q],
           q \in DOMAIN body' <=> q \in DOMAIN body,
           q \in DOMAIN body => body'[q] = body[q],
           AnswerOf(q),
           \/ pc'[q] = pc[q]
           \/ pc'[q] = "lost"
           \/ pc'[q] = "503"
           \/ pc[q] \notin {"unsent", "querying"} /\ pc'[q] = "ok" /\ config.stub
           \/ pc[q] = "probing_read" /\ pc'[q] = "querying"
           \/ pc[q] = "probing_submit" /\ pc'[q] = "composing"
           \/ pc[q] = "composing" /\ pc'[q] = "waiting"
           \/ pc[q] = "unsent" /\ pc'[q] = "400"
           \/ /\ pc[q] = "unsent" /\ pc'[q] = "probing_read"
              /\ config.key \/ content[q].path = "/internal/operators"
    PROVE  AnswerOf(q)'
<1>1. content' = content /\ config' = config
  BY DEF fixed_vars
<1>2. SourceOf(q)'
  BY <1>1, ReadingFixed DEF AnswerOf, SourceOf
<1>3. OptInOf(q)'
  BY <1>1 DEF AnswerOf, OptInOf
<1>4. ASSUME q \in DOMAIN body'
      PROVE  BodyOf(q)'
  <2>1. BodyOf(q) /\ pc[q] # "unsent"
    BY <1>4 DEF AnswerOf, SourceOf
  <2>2. OperatorsOf(q)' = OperatorsOf(q) /\ faulty_operators(q)' = faulty_operators(q)
    BY ReadingFixed
  <2>3. BuildsBody(q, OperatorsOf(q))'
    BY <1>1, <2>1, <2>2 DEF BodyOf, BuildsBody
  <2>4. (body[q] = built(q, OperatorsOf(q)))'
    BY <1>1, <1>4, <2>1, <2>2 DEF BodyOf, built
  <2>5. /\ content'[q].path = "/submit_weights"
        /\ config'.key
        /\ source'[q] # "unread"
        /\ pc'[q] \notin {"400", "raised"}
    BY <1>1, <2>1 DEF BodyOf
  <2> QED
    BY <2>3, <2>4, <2>5 DEF BodyOf
<1> QED
  BY <1>2, <1>3, <1>4 DEF AnswerOf

LEMMA AnswerStep ==
    ASSUME TypeOK, Kind, UNCHANGED fixed_vars, NEW q \in Requests, AnswerOf(q)
    PROVE  AnswerOf(q)'
<1>1. /\ pc \in [Requests -> Places] /\ source \in [Requests -> Sources]
      /\ tx \in [Requests -> BOOLEAN]
  BY TypeParts DEF TypeOfAnswers
<1>2. content' = content /\ config' = config
  BY DEF fixed_vars
<1>3. CASE UNCHANGED <<pc, source, body, tx>>
  BY <1>3, AnswerStays
<1>4. ASSUME NEW p \in Requests, NEW to \in {"querying", "composing", "503", "ok"},
             Moves(p, to)
      PROVE  AnswerOf(q)'
  <2>1. UNCHANGED <<source, body, tx>>
    BY <1>4 DEF Moves, answering_vars
  <2>2. CASE p # q
    <3>1. pc'[q] = pc[q]
      BY <1>1, <1>4, <2>2 DEF Moves
    <3> QED
      BY <2>1, <3>1, AnswerStays
  <2>3. CASE p = q
    <3>1. pc'[q] = to /\ MovesFrom(q, to)
      BY <1>1, <1>4, <2>3 DEF Moves
    <3> QED
      BY <2>1, <3>1, AnswerStays DEF MovesFrom
  <2> QED
    BY <2>2, <2>3
<1>5. ASSUME NEW p \in Requests, NEW to \in {"400", "probing_read"}, Begins(p, to)
      PROVE  AnswerOf(q)'
  <2>1. UNCHANGED <<source, body, tx>>
    BY <1>5 DEF Begins, answering_vars
  <2>2. CASE p # q
    <3>1. pc'[q] = pc[q]
      BY <1>1, <1>5, <2>2 DEF Begins
    <3> QED
      BY <2>1, <3>1, AnswerStays
  <2>3. CASE p = q
    <3>1. pc'[q] = to /\ pc[q] = "unsent"
      BY <1>1, <1>5, <2>3 DEF Begins, Start, Arrives
    <3> QED
      BY <1>5, <2>1, <2>3, <3>1, AnswerStays DEF Begins
  <2> QED
    BY <2>2, <2>3
<1>6. ASSUME NEW p \in Requests, NEW from \in {"override", "chain", "stub"},
             NEW operators \in {override(p), rows, Stub}, Loads(p, from, operators)
      PROVE  AnswerOf(q)'
  <2>1. source' = [source EXCEPT ![p] = from] /\ LoadOutcome(p, operators) /\ tx' = tx
    BY <1>6, LoadEffect DEF Loads
  <2>2. CASE p # q
    <3>1. source'[q] = source[q] /\ pc'[q] = pc[q]
      BY <1>1, <2>1, <2>2 DEF LoadOutcome
    <3>2. /\ q \in DOMAIN body' <=> q \in DOMAIN body
          /\ q \in DOMAIN body => body'[q] = body[q]
      BY <2>1, <2>2 DEF LoadOutcome
    <3> QED
      BY <2>1, <3>1, <3>2, AnswerStays
  <2>3. CASE p = q
    <3>1. source'[q] = from
      BY <1>1, <2>1, <2>3
    <3>2. OperatorsOf(q)' = operators
      <4>1. override(q)' = override(q) /\ rows' = rows
        BY ReadingFixed
      <4> QED
        BY <1>6, <2>3, <3>1, <4>1 DEF OperatorsOf, Loads
    <3>3. q \notin DOMAIN body
      BY <1>6, <2>3 DEF AnswerOf, SourceOf, Loads, Start, Arrives
    <3>4. (from = "stub" => config.stub) /\ (from = "chain" => Decodable')
      BY <1>6, ReadingFixed DEF Loads
    <3>5. from # "unread"
      BY <1>6
    <3>6. ASSUME content[q].path = "/submit_weights" PROVE config.key
      BY <1>6, <2>3, <3>6 DEF AnswerOf, SourceOf, Loads
    <3>7. CASE /\ body' = body
               /\ pc' = [pc EXCEPT ![q] = "ok"]
      <4>1. pc'[q] = "ok" /\ q \notin DOMAIN body'
        BY <1>1, <3>3, <3>7
      <4> QED
        BY <1>2, <3>1, <3>4, <4>1 DEF AnswerOf, SourceOf, OptInOf
    <3>8. CASE /\ body' = body
               /\ pc' = [pc EXCEPT ![q] = "raised"]
      <4>1. pc'[q] = "raised" /\ q \notin DOMAIN body'
        BY <1>1, <3>3, <3>8
      <4> QED
        BY <1>2, <3>1, <3>4, <4>1 DEF AnswerOf, SourceOf, OptInOf
    <3>9. CASE /\ content[q].path = "/submit_weights"
               /\ BuildsBody(q, operators)
               /\ pc' = [pc EXCEPT ![q] = "probing_submit"]
               /\ DOMAIN body' = DOMAIN body \cup {q}
               /\ body'[q] = built(q, operators)
      <4>1. pc'[q] = "probing_submit" /\ q \in DOMAIN body'
        BY <1>1, <3>9
      <4>2. faulty_operators(q)' = faulty_operators(q)
        BY ReadingFixed
      <4>3. BuildsBody(q, OperatorsOf(q))'
        BY <1>2, <3>2, <3>9, <4>2 DEF BuildsBody
      <4>4. (body[q] = built(q, OperatorsOf(q)))'
        BY <1>2, <3>2, <3>9, <4>2 DEF built
      <4>5. BodyOf(q)'
        BY <1>2, <3>1, <3>5, <3>6, <3>9, <4>1, <4>3, <4>4 DEF BodyOf
      <4> QED
        BY <1>2, <3>1, <3>4, <4>1, <4>5 DEF AnswerOf, SourceOf, OptInOf
    <3> QED
      BY <2>1, <2>3, <3>7, <3>8, <3>9 DEF LoadOutcome
  <2> QED
    BY <2>2, <2>3
<1>7. ASSUME NEW p \in Requests, Sends(p)
      PROVE  AnswerOf(q)'
  <2>1. UNCHANGED <<source, body, tx>>
    BY <1>7 DEF Sends, answering_vars
  <2>2. pc'[q] = pc[q] \/ (pc[q] = "composing" /\ pc'[q] = "waiting")
    BY <1>1, <1>7 DEF Sends
  <2> QED
    BY <2>1, <2>2, AnswerStays
<1>8. ASSUME NEW p \in Requests, Confirms(p)
      PROVE  AnswerOf(q)'
  <2>1. UNCHANGED <<source, body>>
    BY <1>8 DEF Confirms
  <2>2. CASE p # q
    <3>1. pc'[q] = pc[q] /\ tx'[q] = tx[q]
      BY <1>1, <1>8, <2>2 DEF Confirms
    <3> QED
      BY <2>1, <3>1, AnswerStays
  <2>3. CASE p = q
    <3>1. pc[q] = "waiting" /\ pc'[q] = "ok" /\ tx'[q]
      BY <1>1, <1>8, <2>3 DEF Confirms
    <3>2. q \in DOMAIN body /\ BodyOf(q) /\ SourceOf(q)
      BY <3>1 DEF AnswerOf, SourceOf
    <3>3. source[q] \in {"override", "chain", "stub"}
      BY <1>1, <3>2 DEF BodyOf, Sources
    <3>4. SourceOf(q)' /\ OptInOf(q)'
      BY <1>2, <2>1, <3>1, <3>2, <3>3, ReadingFixed DEF SourceOf, OptInOf
    <3>5. BodyOf(q)'
      <4>1. OperatorsOf(q)' = OperatorsOf(q) /\ faulty_operators(q)' = faulty_operators(q)
        BY <2>1, ReadingFixed
      <4>2. BuildsBody(q, OperatorsOf(q))'
        BY <1>2, <3>2, <4>1 DEF BodyOf, BuildsBody
      <4>3. (body[q] = built(q, OperatorsOf(q)))'
        BY <1>2, <2>1, <3>2, <4>1 DEF BodyOf, built
      <4> QED
        BY <1>2, <2>1, <3>1, <3>2, <4>2, <4>3 DEF BodyOf
    <3> QED
      BY <3>4, <3>5 DEF AnswerOf
  <2> QED
    BY <2>2, <2>3
<1>9. CASE Crash
  <2>1. UNCHANGED <<source, body, tx>>
    BY <1>9 DEF Crash, answer_vars
  <2>2. pc'[q] = pc[q] \/ pc'[q] = "lost"
    BY <1>9 DEF Crash
  <2> QED
    BY <2>1, <2>2, AnswerStays
<1> QED
  BY <1>3, <1>4, <1>5, <1>6, <1>7, <1>8, <1>9
     DEF Kind, NodeIncludes, NodeDrops, answering_vars, answer_vars

-----------------------------------------------------------------------------
(* What was sent, and what became of it. *)

\* Nothing is sent, and nothing is confirmed: what is left to see is that no
\* request comes to wait, and none goes back to where it has not sent yet.
LEMMA NothingSent ==
    ASSUME TypeOK, SentInv, StandsInv, Kind, UNCHANGED <<tx, chain>>, pool' \subseteq pool,
           \A q \in DOMAIN body : q \in DOMAIN body',
           \A q \in Requests :
             /\ pc'[q] = "waiting" => pc[q] = "waiting"
             /\ pc'[q] = "composing" => pc[q] \in {"probing_submit", "composing"}
             /\ pc'[q] = "probing_submit" => q \notin DOMAIN body \/ pc[q] = "probing_submit"
             /\ pc[q] = "ok" => pc'[q] = "ok"
    PROVE  SentInv' /\ StandsInv'
<1>1. SentInv'
  BY DEF SentInv, Sent, OnChain
<1>2. \A p, r : StartedBefore(p, r) => StartedBefore(p, r)'
  BY StartedBeforeStays
<1>3. StandsInv'
  <2>1. ASSUME NEW q \in Requests, tx'[q]
        PROVE  /\ pc'[q] = "ok"
               /\ \A r \in pool' : StartedBefore(q, r)'
               /\ \E k \in DOMAIN chain' :
                     /\ chain'[k] = [req |-> q, ok |-> TRUE]
                     /\ \A m \in DOMAIN chain' : m > k => StartedBefore(q, chain[m].req)'
    <3>1. pc[q] = "ok" /\ \A r \in pool : StartedBefore(q, r)
      BY <2>1 DEF StandsInv
    <3>2. PICK k \in DOMAIN chain :
              /\ chain[k] = [req |-> q, ok |-> TRUE]
              /\ \A m \in DOMAIN chain : m > k => StartedBefore(q, chain[m].req)
      BY <2>1 DEF StandsInv
    <3>3. \A m \in DOMAIN chain : m > k => StartedBefore(q, chain[m].req)'
      <4>1. ASSUME NEW m \in DOMAIN chain, m > k PROVE StartedBefore(q, chain[m].req)'
        <5>1. PICK r : r = chain[m].req
          OBVIOUS
        <5>2. StartedBefore(q, r)
          BY <3>2, <4>1, <5>1
        <5>3. StartedBefore(q, r)'
          BY <5>2, StartedBeforeStays
        <5> QED
          BY <5>1, <5>3 DEF StartedBefore
      <4> QED
        BY <4>1
    <3> QED
      BY <1>2, <3>1, <3>2, <3>3
  <2> QED
    BY <2>1 DEF StandsInv, StartedBefore
<1> QED
  BY <1>1, <1>3

\* The clause of StandsInv about the chain.
Last(q) ==
    \E k \in DOMAIN chain :
        /\ chain[k] = [req |-> q, ok |-> TRUE]
        /\ \A m \in DOMAIN chain : m > k => StartedBefore(q, chain[m].req)

LEMMA StandsParts ==
    StandsInv <=>
        \A q \in Requests : tx[q] =>
            pc[q] = "ok" /\ (\A r \in pool : StartedBefore(q, r)) /\ Last(q)
  BY DEF StandsInv, Last

LEMMA SendStep ==
    ASSUME TypeOK, OrderInv, SourceInv, SentInv, StandsInv, Kind, NEW q \in Requests, Sends(q)
    PROVE  SentInv' /\ StandsInv'
<1>1. /\ pc \in [Requests -> Places] /\ started \in Seq(Requests)
      /\ pool \subseteq Requests /\ tx \in [Requests -> BOOLEAN]
  BY TypeParts DEF TypeOfAnswers
<1>2. /\ pc[q] = "composing" /\ pc' = [pc EXCEPT ![q] = "waiting"] /\ pool' = pool \cup {q}
      /\ UNCHANGED <<body, tx, started, chain>>
  BY DEF Sends, answering_vars
<1>3. pc'[q] = "waiting" /\ \A p \in Requests : p # q => pc'[p] = pc[p]
  BY <1>1, <1>2
<1>4. ~Sent(q) /\ q \in DOMAIN body
  BY <1>2 DEF SentInv, SourceInv
<1>5. \A p \in Requests : (p # q /\ pc[p] # "unsent") =>
          StartedBefore(p, q) /\ pc[p] # "waiting"
  BY <1>2, HolderIsLast DEF Running
<1>6. SentInv'
  <2>1. ASSUME NEW p \in Requests
        PROVE  /\ Sent(p)' => p \in DOMAIN body' /\ pc'[p] \notin {"probing_submit", "composing"}
               /\ p \in pool' => ~OnChain(p)'
               /\ \A k \in DOMAIN chain' :
                     (chain'[k].req = p /\ pc'[p] = "waiting") =>
                         k = Len(chain') /\ pool' = {}
    <3>1. CASE p = q
      BY <1>2, <1>3, <1>4, <3>1 DEF Sent, OnChain
    <3>2. CASE p # q
      BY <1>2, <1>3, <1>5, <3>2 DEF SentInv, Sent, OnChain
    <3> QED
      BY <3>1, <3>2
  <2> QED
    BY <2>1 DEF SentInv
<1>7. ASSUME NEW p \in Requests, tx'[p]
      PROVE  pc'[p] = "ok" /\ (\A r \in pool' : StartedBefore(p, r)') /\ Last(p)'
  <2>1. pc[p] = "ok" /\ (\A r \in pool : StartedBefore(p, r)) /\ Last(p)
    BY <1>2, <1>7, StandsParts
  <2>2. p # q
    BY <1>2, <2>1
  <2>3. \A r \in pool' : StartedBefore(p, r)
    BY <1>2, <1>5, <2>1, <2>2
  <2> QED
    BY <1>2, <1>3, <2>1, <2>2, <2>3 DEF StartedBefore, Last
<1>8. StandsInv'
  BY <1>7 DEF StandsInv, Last
<1> QED
  BY <1>6, <1>8

LEMMA ConfirmStep ==
    ASSUME TypeOK, SentInv, StandsInv, NEW q \in Requests, Confirms(q)
    PROVE  SentInv' /\ StandsInv'
<1>1. /\ pc \in [Requests -> Places] /\ tx \in [Requests -> BOOLEAN]
      /\ chain \in Seq([req : Requests, ok : BOOLEAN])
  BY TypeParts DEF TypeOfAnswers
<1>2. /\ pc[q] = "waiting" /\ pc' = [pc EXCEPT ![q] = "ok"] /\ tx' = [tx EXCEPT ![q] = TRUE]
      /\ UNCHANGED <<body, started, pool, chain>>
  BY DEF Confirms, sent_vars
<1>3. pc'[q] = "ok" /\ \A p \in Requests : p # q => pc'[p] = pc[p] /\ tx'[p] = tx[p]
  BY <1>1, <1>2
<1>4. SentInv'
  BY <1>2, <1>3 DEF SentInv, Sent, OnChain
<1>5. PICK k \in DOMAIN chain : chain[k].req = q /\ chain[k].ok
  BY DEF Confirms
<1>6. k = Len(chain) /\ pool = {}
  BY <1>2, <1>5 DEF SentInv
<1>7. chain[k] = [req |-> q, ok |-> TRUE]
  <2>1. chain[k] \in [req : Requests, ok : BOOLEAN]
    BY <1>1, <1>5, PositionsFinite
  <2> QED
    BY <1>5, <2>1
<1>8. \A m \in DOMAIN chain : ~(m > k)
  BY <1>1, <1>6
<1>9. Last(q)
  BY <1>5, <1>7, <1>8 DEF Last
<1>10. ASSUME NEW p \in Requests, tx'[p]
       PROVE  pc'[p] = "ok" /\ (\A r \in pool' : StartedBefore(p, r)') /\ Last(p)'
  <2>1. CASE p = q
    BY <1>2, <1>3, <1>6, <1>9, <2>1 DEF Last, StartedBefore
  <2>2. CASE p # q
    <3>1. pc[p] = "ok" /\ (\A r \in pool : StartedBefore(p, r)) /\ Last(p)
      BY <1>3, <1>10, <2>2, StandsParts
    <3> QED
      BY <1>2, <1>3, <1>6, <2>2, <3>1 DEF Last, StartedBefore
  <2> QED
    BY <2>1, <2>2
<1>11. StandsInv'
  BY <1>10 DEF StandsInv, Last
<1> QED
  BY <1>4, <1>11

LEMMA IncludeStep ==
    ASSUME TypeOK, SentInv, StandsInv, NodeIncludes
    PROVE  SentInv' /\ StandsInv'
<1>1. chain \in Seq([req : Requests, ok : BOOLEAN]) /\ pool \subseteq Requests
  BY TypeParts DEF TypeOfAnswers
<1>2. UNCHANGED <<pc, body, tx, started>>
  BY DEF NodeIncludes, answer_vars
<1>3. PICK r \in pool, ok \in BOOLEAN :
          chain' = Append(chain, [req |-> r, ok |-> ok]) /\ pool' = {}
  BY DEF NodeIncludes
<1>4. /\ Len(chain') = Len(chain) + 1 /\ DOMAIN chain' = DOMAIN chain \cup {Len(chain')}
      /\ chain'[Len(chain')].req = r
      /\ \A k \in DOMAIN chain : chain'[k] = chain[k] /\ k < Len(chain')
  BY <1>1, <1>3
<1>5. SentInv'
  <2>1. ASSUME NEW p \in Requests
        PROVE  /\ Sent(p)' => p \in DOMAIN body' /\ pc'[p] \notin {"probing_submit", "composing"}
               /\ p \in pool' => ~OnChain(p)'
               /\ \A k \in DOMAIN chain' :
                     (chain'[k].req = p /\ pc'[p] = "waiting") =>
                         k = Len(chain') /\ pool' = {}
    <3>1. Sent(p)' => Sent(p)
      BY <1>3, <1>4 DEF Sent, OnChain
    <3>2. \A k \in DOMAIN chain : chain[k].req = p /\ pc[p] = "waiting" => FALSE
      BY <1>3 DEF SentInv
    <3>3. \A k \in DOMAIN chain' :
              (chain'[k].req = p /\ pc'[p] = "waiting") => k = Len(chain')
      BY <1>2, <1>4, <3>2
    <3> QED
      BY <1>2, <1>3, <3>1, <3>3 DEF SentInv
  <2> QED
    BY <2>1 DEF SentInv
<1>6. ASSUME NEW p \in Requests, tx'[p]
      PROVE  pc'[p] = "ok" /\ (\A s \in pool' : StartedBefore(p, s)') /\ Last(p)'
  <2>1. pc[p] = "ok" /\ StartedBefore(p, r) /\ Last(p)
    BY <1>2, <1>3, <1>6, StandsParts
  <2>2. PICK k \in DOMAIN chain :
            /\ chain[k] = [req |-> p, ok |-> TRUE]
            /\ \A m \in DOMAIN chain : m > k => StartedBefore(p, chain[m].req)
    BY <2>1 DEF Last
  <2>3. \A m \in DOMAIN chain' : m > k => StartedBefore(p, chain'[m].req)
    BY <1>4, <2>1, <2>2
  <2>4. k \in DOMAIN chain' /\ chain'[k] = [req |-> p, ok |-> TRUE]
    BY <1>4, <2>2
  <2>5. Last(p)'
    BY <1>2, <2>3, <2>4 DEF Last, StartedBefore
  <2> QED
    BY <1>2, <1>3, <2>1, <2>5
<1>7. StandsInv'
  BY <1>6 DEF StandsInv, Last
<1> QED
  BY <1>5, <1>7

LEMMA SentStep ==
    ASSUME TypeOK, OrderInv, SourceInv, SentInv, StandsInv, Kind
    PROVE  SentInv' /\ StandsInv'
<1>1. pc \in [Requests -> Places]
  BY TypeParts DEF TypeOfAnswers
<1>2. CASE UNCHANGED <<pc, answering_vars, started, sent_vars>>
  BY <1>2, NothingSent DEF answering_vars, sent_vars
<1>3. ASSUME NEW q \in Requests, NEW to \in {"querying", "composing", "503", "ok"},
             Moves(q, to)
      PROVE  SentInv' /\ StandsInv'
  <2>1. UNCHANGED <<tx, chain, pool, body>>
    BY <1>3 DEF Moves, answering_vars, sent_vars
  <2>2. /\ \A p \in Requests : p # q => pc'[p] = pc[p]
        /\ pc'[q] = to /\ to = "composing" => pc[q] = "probing_submit"
        /\ pc[q] # "ok"
    BY <1>1, <1>3 DEF Moves, MovesFrom
  <2>3. ASSUME NEW p \in Requests
        PROVE  /\ pc'[p] = "waiting" => pc[p] = "waiting"
               /\ pc'[p] = "composing" => pc[p] \in {"probing_submit", "composing"}
               /\ pc'[p] = "probing_submit" => p \notin DOMAIN body \/ pc[p] = "probing_submit"
               /\ pc[p] = "ok" => pc'[p] = "ok"
    BY <1>1, <1>3, <2>2 DEF Moves, MovesFrom
  <2> QED
    BY <2>1, <2>3, NothingSent
<1>4. ASSUME NEW q \in Requests, NEW to \in {"400", "probing_read"}, Begins(q, to)
      PROVE  SentInv' /\ StandsInv'
  <2>1. UNCHANGED <<tx, chain, pool, body>>
    BY <1>4 DEF Begins, answering_vars, sent_vars
  <2>2. pc' = [pc EXCEPT ![q] = to] /\ pc[q] = "unsent"
    BY <1>4 DEF Begins, Start, Arrives
  <2>3. ASSUME NEW p \in Requests
        PROVE  /\ pc'[p] = "waiting" => pc[p] = "waiting"
               /\ pc'[p] = "composing" => pc[p] \in {"probing_submit", "composing"}
               /\ pc'[p] = "probing_submit" => p \notin DOMAIN body \/ pc[p] = "probing_submit"
               /\ pc[p] = "ok" => pc'[p] = "ok"
    BY <1>1, <1>4, <2>2
  <2> QED
    BY <2>1, <2>3, NothingSent
<1>5. ASSUME NEW q \in Requests, NEW from \in {"override", "chain", "stub"},
             NEW operators \in {override(q), rows, Stub}, Loads(q, from, operators)
      PROVE  SentInv' /\ StandsInv'
  <2>1. UNCHANGED <<tx, chain, pool>>
    BY <1>5 DEF Loads, sent_vars
  <2>2. LoadOutcome(q, operators)
    BY <1>5, LoadEffect DEF Loads
  <2>3. \A p \in DOMAIN body : p \in DOMAIN body'
    BY <2>2 DEF LoadOutcome
  <2>4. pc[q] \in {"unsent", "probing_read", "querying"}
    BY <1>5 DEF Loads, Start, Arrives
  <2>5. q \notin DOMAIN body
    BY <2>4 DEF SourceInv
  <2>6. PICK to \in {"ok", "raised", "probing_submit"} : pc' = [pc EXCEPT ![q] = to]
    BY <2>2 DEF LoadOutcome
  <2>7. ASSUME NEW p \in Requests
        PROVE  /\ pc'[p] = "waiting" => pc[p] = "waiting"
               /\ pc'[p] = "composing" => pc[p] \in {"probing_submit", "composing"}
               /\ pc'[p] = "probing_submit" => p \notin DOMAIN body \/ pc[p] = "probing_submit"
               /\ pc[p] = "ok" => pc'[p] = "ok"
    BY <1>1, <2>4, <2>5, <2>6
  <2> QED
    BY <2>1, <2>3, <2>7, NothingSent
<1>6. ASSUME NEW q \in Requests, Sends(q)
      PROVE  SentInv' /\ StandsInv'
  BY <1>6, SendStep
<1>7. ASSUME NEW q \in Requests, Confirms(q)
      PROVE  SentInv' /\ StandsInv'
  BY <1>7, ConfirmStep
<1>8. CASE NodeIncludes
  BY <1>8, IncludeStep
<1>9. CASE NodeDrops
  <2>1. UNCHANGED <<pc, tx, chain, body>> /\ pool' \subseteq pool
    BY <1>9 DEF NodeDrops, answer_vars
  <2> QED
    BY <2>1, NothingSent
<1>10. CASE Crash
  <2>1. UNCHANGED <<tx, chain, body, pool>>
    BY <1>10 DEF Crash, answer_vars
  <2>2. \A p \in Requests : pc'[p] = pc[p] \/ (pc'[p] = "lost" /\ pc[p] \in Running)
    BY <1>10 DEF Crash
  <2>3. ASSUME NEW p \in Requests
        PROVE  /\ pc'[p] = "waiting" => pc[p] = "waiting"
               /\ pc'[p] = "composing" => pc[p] \in {"probing_submit", "composing"}
               /\ pc'[p] = "probing_submit" => p \notin DOMAIN body \/ pc[p] = "probing_submit"
               /\ pc[p] = "ok" => pc'[p] = "ok"
    BY <2>2 DEF Running
  <2> QED
    BY <2>1, <2>3, NothingSent
<1> QED
  BY <1>2, <1>3, <1>4, <1>5, <1>6, <1>7, <1>8, <1>9, <1>10 DEF Kind

-----------------------------------------------------------------------------
(* The invariant. *)

LEMMA InitEstablishes == Init => ClientInv
<1> SUFFICES ASSUME Init PROVE ClientInv
  OBVIOUS
<1>1. /\ pc = [q \in Requests |-> "unsent"] /\ source = [q \in Requests |-> "unread"]
      /\ DOMAIN body = {} /\ tx = [q \in Requests |-> FALSE]
      /\ started = << >> /\ pool = {} /\ chain = << >>
  BY DEF Init
<1>2. TypeOfAnswers
  BY <1>1 DEF TypeOfAnswers, Places, Running, Ended, Sources
<1>3. TypeOfRest
  BY ClientAssumption DEF Init, TypeOfRest
<1>4. TypeOK
  BY <1>2, <1>3, TypeParts DEF Init
<1>5. OrderInv
  BY <1>1 DEF OrderInv, Running, Range
<1>6. SourceInv /\ BodyInv /\ StubOptIn
  BY <1>1 DEF SourceInv, BodyInv, StubOptIn
<1>7. SentInv /\ StandsInv
  BY <1>1 DEF SentInv, StandsInv, Sent, OnChain
<1> QED
  BY <1>4, <1>5, <1>6, <1>7 DEF ClientInv

LEMMA StepPreserves == ClientInv /\ [Next]_vars => ClientInv'
<1> SUFFICES ASSUME ClientInv, [Next]_vars PROVE ClientInv'
  OBVIOUS
<1>1. TypeOK /\ OrderInv /\ SourceInv /\ BodyInv /\ SentInv /\ StandsInv /\ StubOptIn
  BY DEF ClientInv
<1>2. CASE Next
  <2>1. Kind /\ UNCHANGED fixed_vars
    BY <1>2, StepKind
  <2>2. TypeOK' /\ OrderInv'
    BY <1>1, <1>2, <2>1, TypeStep, OrderStep
  <2>3. \A q \in Requests : AnswerOf(q)
    BY <1>1, AnswerParts, TypeParts DEF TypeOfAnswers
  <2>4. \A q \in Requests : AnswerOf(q)'
    BY <1>1, <2>1, <2>3, AnswerStep
  <2>5. (DOMAIN body \subseteq Requests)'
    BY <2>2 DEF TypeOK
  <2>6. SourceInv' /\ BodyInv' /\ StubOptIn'
    BY <2>4, <2>5 DEF SourceInv, BodyInv, StubOptIn, AnswerOf, SourceOf, BodyOf, OptInOf, built
  <2>7. SentInv' /\ StandsInv'
    BY <1>1, <2>1, SentStep
  <2> QED
    BY <2>2, <2>6, <2>7 DEF ClientInv
<1>3. CASE UNCHANGED vars
  <2>1. UNCHANGED <<content, storage, config, pc, source, body, tx, attempts, started, conn,
                    node, flaps, crashes, pool, chain>>
    BY <1>3 DEF vars, fixed_vars, answer_vars, world_vars
  <2>2. Kind /\ UNCHANGED fixed_vars
    BY <2>1 DEF Kind, answering_vars, sent_vars, fixed_vars
  <2>3. TypeOK'
    BY <1>1, <2>1 DEF TypeOK
  <2>4. OrderInv' /\ SentInv' /\ StandsInv'
    BY <1>1, <2>2, OrderStep, SentStep
  <2>5. \A q \in Requests : AnswerOf(q)
    BY <1>1, AnswerParts, TypeParts DEF TypeOfAnswers
  <2>6. \A q \in Requests : AnswerOf(q)'
    BY <1>1, <2>2, <2>5, AnswerStep
  <2>7. (DOMAIN body \subseteq Requests)'
    BY <2>3 DEF TypeOK
  <2>8. SourceInv' /\ BodyInv' /\ StubOptIn'
    BY <2>6, <2>7 DEF SourceInv, BodyInv, StubOptIn, AnswerOf, SourceOf, BodyOf, OptInOf, built
  <2> QED
    BY <2>3, <2>4, <2>8 DEF ClientInv
<1> QED
  BY <1>2, <1>3

\* The inductive invariant holds in every reachable state.
THEOREM ClientInvariance == Spec => []ClientInv
<1> QED
  BY InitEstablishes, StepPreserves, PTL DEF Spec

\* Types: in particular no body holds an account that _to_32 refused, a weight of
\* zero or an epoch beyond a u64.
THEOREM ClientTypeCorrect == Spec => []TypeOK
<1>1. ClientInv => TypeOK
  BY DEF ClientInv
<1> QED
  BY <1>1, ClientInvariance, PTL

\* A response with submitted_to_chain stands for an extrinsic that was included
\* and succeeded, and nothing that started earlier follows it.
THEOREM ConfirmationCorrect == Spec => []ConfirmedVoteStands
<1>1. ClientInv => ConfirmedVoteStands
  BY DEF ClientInv, StandsInv, ConfirmedVoteStands
<1> QED
  BY <1>1, ClientInvariance, PTL

\* The stub never stands in unasked (C-04).
THEOREM OptInCorrect == Spec => []StubOptIn
<1>1. ClientInv => StubOptIn
  BY DEF ClientInv
<1> QED
  BY <1>1, ClientInvariance, PTL

-----------------------------------------------------------------------------
(* Every body is the vector of the operators its request read. *)

LEMMA ReadIsList ==
    ASSUME ClientInv, NEW q \in DOMAIN body
    PROVE  q \in Requests /\ IsOperatorList(OperatorsOf(q))
<1>1. TypeOK /\ q \in Requests /\ source[q] \in {"override", "chain", "stub"}
  BY DEF ClientInv, TypeOK, BodyInv, Sources
<1>2. OperatorsOf(q) \in {override(q), rows, Stub}
  BY <1>1 DEF OperatorsOf
<1> QED
  BY <1>1, <1>2, LoadedIsList

LEMMA ReadNames ==
    ASSUME ClientInv, NEW q \in DOMAIN body, NEW i \in DOMAIN OperatorsOf(q)
    PROVE  OperatorsOf(q)[i].operator_id # NoName
<1>1. TypeOK /\ q \in Requests /\ source[q] \in {"override", "chain", "stub"}
  BY DEF ClientInv, TypeOK, BodyInv, Sources
<1>2. CASE source[q] = "override"
  <2>1. OperatorsOf(q) = override(q)
    BY <1>2 DEF OperatorsOf
  <2>2. content[q].operator_stake \in Seq(Names \X Int)
    BY <1>1, ContentTyped
  <2>3. i \in DOMAIN content[q].operator_stake
    BY <2>1 DEF override
  <2>4. content[q].operator_stake[i] \in Names \X Int
    BY <2>2, <2>3, PositionsFinite
  <2>5. OperatorsOf(q)[i].operator_id \in Names
    BY <2>1, <2>3, <2>4 DEF override
  <2> QED
    BY <2>5, WeightAssumption
<1>3. CASE source[q] = "chain"
  <2> DEFINE Row == [params : Names \cup {Absent}, suffix : Names \cup {Absent},
                     stake : Int \cup {Absent}, frozen : BOOLEAN \cup {Absent}]
  <2>1. OperatorsOf(q) = rows
    BY <1>3 DEF OperatorsOf
  <2>2. storage \in Seq(Row)
    BY <1>1, ClientAssumption DEF TypeOK
  <2>3. i \in DOMAIN storage
    BY <2>1 DEF rows
  <2> HIDE DEF Row
  <2>4. storage[i] \in Row
    BY <2>2, <2>3, PositionsFinite
  <2>5. account_from_key(storage[i]) \in Names \cup {Absent}
    BY <2>4 DEF Row, account_from_key
  <2>6. account_from_key(storage[i]) # Absent
    BY <1>1, <1>3, <2>3 DEF ClientInv, SourceInv, Decodable
  <2>7. OperatorsOf(q)[i].operator_id = account_from_key(storage[i])
    BY <2>1, <2>3 DEF rows
  <2> QED
    BY <2>5, <2>6, <2>7, WeightAssumption
<1>4. CASE source[q] = "stub"
  <2>1. OperatorsOf(q) = Stub /\ Stub \in Seq(Operators)
    BY <1>4, ClientAssumption DEF OperatorsOf
  <2>2. OperatorsOf(q)[i] \in Operators
    BY <2>1, PositionsFinite
  <2> QED
    BY <2>2, WeightAssumption DEF Operators
<1> QED
  BY <1>1, <1>2, <1>3, <1>4

\* A body lists the kept operators of what its request read, with their weights.
LEMMA BodyIsVector ==
    ASSUME ClientInv, NEW q \in DOMAIN body
    PROVE  /\ IsOperatorList(OperatorsOf(q))
           /\ Listed(q) = kept(OperatorsOf(q), faulty_operators(q))
           /\ \A i \in Listed(q) :
                 body[q].entries[i].weight =
                     weight(OperatorsOf(q), faulty_operators(q), content[q].equal_weight, i)
<1> DEFINE vector == compute_weight_vector(OperatorsOf(q), faulty_operators(q),
                                           content[q].equal_weight)
<1>1. body[q].entries = vector
  BY DEF ClientInv, BodyInv, encode_submit_weights_call
<1>2. Listed(q) = kept(OperatorsOf(q), faulty_operators(q))
  BY <1>1 DEF Listed, compute_weight_vector
<1>3. \A i \in kept(OperatorsOf(q), faulty_operators(q)) :
         vector[i].weight =
             weight(OperatorsOf(q), faulty_operators(q), content[q].equal_weight, i)
  BY DEF compute_weight_vector
<1> QED
  BY <1>1, <1>2, <1>3, ReadIsList

\* What was sent had a key, its operators were read, and none of those that were
\* active and not faulty was left out.
THEOREM VettingCorrect == Spec => []OnlyVettedSent
<1>1. ASSUME ClientInv, NEW q \in Requests, Sent(q)
      PROVE  /\ config.key /\ q \in DOMAIN body
             /\ pc[q] \notin {"unsent", "400", "raised"}
             /\ source[q] # "unread" /\ (source[q] = "chain" => Decodable)
             /\ \A i \in clean(OperatorsOf(q), faulty_operators(q)) :
                   Account[OperatorsOf(q)[i].operator_id] # NoAccount
  <2>1. q \in DOMAIN body
    BY <1>1 DEF ClientInv, SentInv
  <2>2. config.key /\ source[q] # "unread" /\ pc[q] \notin {"400", "raised"}
    BY <1>1, <2>1 DEF ClientInv, BodyInv
  <2>3. pc[q] # "unsent" /\ (source[q] = "chain" => Decodable)
    BY <1>1, <2>1 DEF ClientInv, SourceInv
  <2>4. ASSUME NEW i \in clean(OperatorsOf(q), faulty_operators(q))
        PROVE  Account[OperatorsOf(q)[i].operator_id] # NoAccount
    <3>1. IsOperatorList(OperatorsOf(q))
      BY <1>1, <2>1, ReadIsList
    <3>2. PICK j \in kept(OperatorsOf(q), faulty_operators(q)) :
            OperatorsOf(q)[j].operator_id = OperatorsOf(q)[i].operator_id
      BY <3>1, KeptCovers
    <3>3. to_32_accepts(OperatorsOf(q), faulty_operators(q))
      BY <1>1, <2>1 DEF ClientInv, BodyInv, BuildsBody
    <3> QED
      BY <3>2, <3>3 DEF to_32_accepts
  <2> QED
    BY <2>1, <2>2, <2>3, <2>4
<1>2. ClientInv => OnlyVettedSent
  BY <1>1 DEF OnlyVettedSent
<1> QED
  BY <1>2, ClientInvariance, PTL

\* The operators of a vote that its verdicts accuse are the faulty ones.
LEMMA FaultyAreAccused ==
    ASSUME ClientInv, NEW q \in DOMAIN body, NEW i \in DOMAIN OperatorsOf(q)
    PROVE  OperatorsOf(q)[i].operator_id \in faulty_operators(q) <=>
               Accused(q, OperatorsOf(q)[i].operator_id)
<1> DEFINE n == OperatorsOf(q)[i].operator_id
<1>1. q \in Requests /\ TypeOK
  BY ReadIsList DEF ClientInv
<1>2. content[q].receipts \in Seq([job_id : Jobs, operator_id : Names])
  BY <1>1, ContentTyped
<1>3. content[q].receipts \in Seq(Range(content[q].receipts))
  BY <1>2 DEF Range
<1>4. n # NoName
  BY ReadNames
<1> HIDE DEF n
<1>5. n \in faulty_operators(q) <=> Accused(q, n)
  BY <1>3, <1>4, AccusedIsFaulty DEF faulty_operators, Accused
<1> QED
  BY <1>5 DEF n

\* The active operators nobody's mismatch is held against are listed, each name
\* once and with a weight, and nobody else.
THEOREM ListingCorrect == Spec => []CleanListedOnce
<1>1. ASSUME ClientInv, NEW q \in DOMAIN body
      PROVE  LET operators == OperatorsOf(q)
                 name(i) == operators[i].operator_id
             IN  /\ \A i \in Listed(q) :
                      /\ operators[i].active /\ ~Accused(q, name(i))
                      /\ body[q].entries[i].account = Account[name(i)]
                      /\ body[q].entries[i].weight \in 1 .. U16_MAX
                      /\ \A j \in Listed(q) : name(i) = name(j) => i = j
                 /\ \A i \in DOMAIN operators :
                      (operators[i].active /\ ~Accused(q, name(i))) =>
                          \E j \in Listed(q) : name(i) = name(j)
  <2> DEFINE operators == OperatorsOf(q)
             faulty == faulty_operators(q)
             vector == compute_weight_vector(operators, faulty, content[q].equal_weight)
  <2>1. q \in Requests /\ IsOperatorList(operators) /\ TypeOK
    BY <1>1, ReadIsList DEF ClientInv
  <2>2. body[q].entries = vector
    BY <1>1 DEF ClientInv, BodyInv, encode_submit_weights_call
  <2>3. Listed(q) = kept(operators, faulty)
    BY <2>2 DEF Listed, compute_weight_vector
  <2>4. content[q].equal_weight \in BOOLEAN
    BY <2>1, ContentTyped
  <2>5. ASSUME NEW i \in kept(operators, faulty)
        PROVE  /\ body[q].entries[i].account = Account[operators[i].operator_id]
               /\ body[q].entries[i].weight \in 1 .. U16_MAX
    <3>1. /\ vector[i].account = Account[operators[i].operator_id]
          /\ vector[i].weight = weight(operators, faulty, content[q].equal_weight, i)
      BY DEF compute_weight_vector
    <3> HIDE DEF vector, operators, faulty
    <3>2. weight(operators, faulty, content[q].equal_weight, i) \in 1 .. U16_MAX
      BY <2>1, <2>4, WeightInRange
    <3> QED
      BY <2>2, <3>1, <3>2
  <2>6. \A i \in DOMAIN operators :
            operators[i].operator_id \in faulty <=> Accused(q, operators[i].operator_id)
    BY <1>1, FaultyAreAccused
  <2> HIDE DEF operators, faulty
  <2>7. \A i \in kept(operators, faulty) :
            /\ i \in DOMAIN operators /\ operators[i].active
            /\ operators[i].operator_id \notin faulty
    BY DEF kept, clean
  <2>8. \A i, j \in kept(operators, faulty) :
            operators[i].operator_id = operators[j].operator_id => i = j
    BY <2>1, KeptOnce
  <2>9. \A i \in DOMAIN operators :
            (operators[i].active /\ operators[i].operator_id \notin faulty) =>
                \E j \in kept(operators, faulty) :
                    operators[i].operator_id = operators[j].operator_id
    BY <2>1, KeptCovers DEF clean
  <2> QED
    BY <2>3, <2>5, <2>6, <2>7, <2>8, <2>9 DEF operators
<1>2. ClientInv => CleanListedOnce
  BY <1>1 DEF CleanListedOnce
<1> QED
  BY <1>2, ClientInvariance, PTL

\* Without equal_weight, weights follow stakes and are shares of the largest one.
THEOREM SharesCorrect == Spec => []SharesProportional
<1>1. ASSUME ClientInv, NEW q \in DOMAIN body
      PROVE  LET operators == OperatorsOf(q)
                 stake(i) == operators[i].stake
                 w(i) == body[q].entries[i].weight
                 candidates == {i \in DOMAIN operators :
                                  /\ operators[i].active
                                  /\ operators[i].operator_id \notin faulty_operators(q)}
             IN  IF content[q].equal_weight THEN \A i \in Listed(q) : w(i) = U16_MAX
                 ELSE /\ \A i, j \in Listed(q) : stake(i) <= stake(j) => w(i) <= w(j)
                      /\ \A top \in candidates :
                           (stake(top) > 0 /\ \A i \in candidates : stake(i) <= stake(top)) =>
                               \A i \in Listed(q) :
                                   /\ stake(i) = stake(top) => w(i) = U16_MAX
                                   /\ w(i) = 1 \/
                                        /\ w(i) * stake(top) < (stake(i) * U16_MAX) + stake(top)
                                        /\ (w(i) + 1) * stake(top) > stake(i) * U16_MAX
  <2> DEFINE operators == OperatorsOf(q)
             faulty == faulty_operators(q)
             w(i) == body[q].entries[i].weight
             candidates == clean(operators, faulty)
  <2>1. /\ IsOperatorList(operators)
        /\ Listed(q) = kept(operators, faulty)
        /\ \A i \in Listed(q) : w(i) = weight(operators, faulty, content[q].equal_weight, i)
    BY <1>1, BodyIsVector
  <2>2. content[q].equal_weight \in BOOLEAN
    BY <1>1, ReadIsList, ContentTyped DEF ClientInv
  <2>3. candidates = {i \in DOMAIN OperatorsOf(q) :
                        /\ OperatorsOf(q)[i].active
                        /\ OperatorsOf(q)[i].operator_id \notin faulty_operators(q)}
    BY DEF clean
  <2> HIDE DEF operators, faulty, w, candidates
  <2>4. CASE content[q].equal_weight
    <3>1. \A i \in Listed(q) : w(i) = U16_MAX
      BY <2>1, <2>4 DEF weight
    <3> QED
      BY <2>4, <3>1 DEF w
  <2>5. CASE ~content[q].equal_weight
    <3>1. \A i \in Listed(q) : w(i) = weight(operators, faulty, FALSE, i)
      BY <2>1, <2>2, <2>5
    <3>2. ASSUME NEW i \in Listed(q), NEW j \in Listed(q),
                 operators[i].stake <= operators[j].stake
          PROVE  w(i) <= w(j)
      <4>1. i \in kept(operators, faulty) /\ j \in kept(operators, faulty)
        BY <2>1
      <4>2. weight(operators, faulty, FALSE, i) <= weight(operators, faulty, FALSE, j)
        BY <2>1, <3>2, <4>1, WeightsFollowStakes
      <4> QED
        BY <3>1, <4>2
    <3>3. ASSUME NEW top \in candidates, operators[top].stake > 0,
                 \A i \in candidates : operators[i].stake <= operators[top].stake,
                 NEW i \in Listed(q)
          PROVE  IsShare(w(i), operators[i].stake, operators[top].stake)
      <4>1. i \in kept(operators, faulty) /\ top \in clean(operators, faulty)
        BY <2>1 DEF candidates
      <4>2. IsShare(weight(operators, faulty, FALSE, i), operators[i].stake, operators[top].stake)
        BY <2>1, <3>3, <4>1, WeightIsShare DEF candidates
      <4> QED
        BY <3>1, <4>2
    <3> QED
      BY <2>3, <2>5, <3>2, <3>3, ZenonT(60) DEF w, operators, IsShare
  <2> QED
    BY <2>4, <2>5
<1>2. ClientInv => SharesProportional
  BY <1>1 DEF SharesProportional
<1> QED
  BY <1>2, ClientInvariance, PTL

\* The length in front of the entries is read back as their number, and the epoch
\* is the one asked for.
THEOREM DecodingCorrect == Spec => []BodyDecodes
<1>1. ASSUME ClientInv, NEW q \in DOMAIN body
      PROVE  /\ decode_compact(body[q].length) = <<Cardinality(Listed(q)), Len(body[q].length)>>
             /\ body[q].epoch = content[q].epoch
  <2> DEFINE vector == compute_weight_vector(OperatorsOf(q), faulty_operators(q),
                                             content[q].equal_weight)
  <2>1. /\ body[q].epoch = content[q].epoch
        /\ body[q].entries = vector
        /\ body[q].length = encode_compact(Cardinality(DOMAIN vector))
    BY <1>1 DEF ClientInv, BodyInv, encode_submit_weights_call
  <2>2. Listed(q) = DOMAIN vector
    BY <2>1 DEF Listed
  <2>3. Listed(q) = kept(OperatorsOf(q), faulty_operators(q)) /\ IsOperatorList(OperatorsOf(q))
    BY <1>1, BodyIsVector
  <2>4. kept(OperatorsOf(q), faulty_operators(q)) \in SUBSET (DOMAIN OperatorsOf(q))
    BY DEF kept, clean
  <2>5. IsFiniteSet(Listed(q))
    BY <2>3, <2>4, FS_Subset DEF IsOperatorList
  <2> HIDE DEF vector
  <2>6. Cardinality(Listed(q)) \in Nat
    BY <2>5, FS_CardinalityType
  <2>7. decode_compact(encode_compact(Cardinality(Listed(q)))) =
            <<Cardinality(Listed(q)), Len(encode_compact(Cardinality(Listed(q))))>>
    BY <2>6, CompactReadBack
  <2> QED
    BY <2>1, <2>2, <2>7
<1>2. \A n \in Lengths : decode_compact(encode_compact(n)) = <<n, Len(encode_compact(n))>>
  BY LengthsAssumption, CompactReadBack
<1>3. ClientInv => BodyDecodes
  BY <1>1, <1>2 DEF BodyDecodes
<1> QED
  BY <1>3, ClientInvariance, PTL
=============================================================================
