--------------------------- MODULE BodyLimitProofs --------------------------
(***************************************************************************)
(* The limit on replay inputs holds for any number of concurrent calls,    *)
(* any bodies, however they are cut into chunks, and any limit.            *)
(***************************************************************************)
EXTENDS BodyLimit, SequenceTheorems, SumTheorems

\* Appending to a list of one.
LEMMA AppendSecond ==
    ASSUME NEW x, NEW y
    PROVE  Append(<<x>>, y) = <<x, y>>
<1> DEFINE both == {x, y}
<1>1. <<x>> \in Seq(both) /\ <<x, y>> \in Seq(both) /\ Append(<<x>>, y) \in Seq(both)
  OBVIOUS
<1>2. Len(Append(<<x>>, y)) = 2 /\ Len(<<x, y>>) = 2
  OBVIOUS
<1>3. \A i \in 1 .. 2 : Append(<<x>>, y)[i] = <<x, y>>[i]
  OBVIOUS
<1> QED
  BY <1>1, <1>2, <1>3, SeqEqual

\* A call that can receive has a chunk to receive, of some size.
LEMMA ChunkSize ==
    ASSUME TypeOK, NEW q \in Requests, Receiving(q)
    PROVE  Chunk(q) \in Nat
<1>1. content[q] \in Contents
  BY DEF TypeOK
<1>2. content[q].chunks \in Seq(Nat)
  BY <1>1, LimitAssumption
<1>3. next[q] \in Nat \ {0} /\ next[q] <= Len(content[q].chunks)
  BY DEF TypeOK, Receiving, Unread
<1> QED
  BY <1>2, <1>3 DEF Chunk

LEMMA MessagesInType ==
    /\ End \in Message
    /\ \A code \in Statuses : Start(code) \in Message
  BY DEF Message

\* What a message to the client of q does.
LEMMA SendEffect ==
    ASSUME TypeOK, NEW q \in Requests, NEW message \in Message, SendDirectly(q, message)
    PROVE  /\ sent' \in [Requests -> Seq(Message)]
           /\ sent'[q] = Append(sent[q], message)
           /\ \A r \in Requests : r # q => sent'[r] = sent[r]
  BY DEF TypeOK, SendDirectly

\* What the start of a response to q does.
LEMMA StartEffect ==
    ASSUME TypeOK, NEW q \in Requests, NEW code \in Statuses, StartResponse(q, code)
    PROVE  /\ sent' \in [Requests -> Seq(Message)]
           /\ sent'[q] = Append(sent[q], Start(code))
           /\ \A r \in Requests : r # q => sent'[r] = sent[r]
           /\ response_started' \in [Requests -> BOOLEAN]
           /\ content[q].limited => response_started'[q]
           /\ \A r \in Requests : response_started[r] => response_started'[r]
           /\ pc' = [pc EXCEPT ![q] = "responding"]
<1>1. SendDirectly(q, Start(code)) /\ Start(code) \in Message
  BY MessagesInType DEF StartResponse
<1>2. content[q].limited \in BOOLEAN
  BY LimitAssumption DEF TypeOK
<1>3. response_started' = [response_started EXCEPT ![q] = @ \/ content[q].limited]
  BY DEF StartResponse
<1>4. response_started' \in [Requests -> BOOLEAN]
  BY <1>2, <1>3 DEF TypeOK
<1>5. /\ content[q].limited => response_started'[q]
      /\ \A r \in Requests : response_started[r] => response_started'[r]
  BY <1>2, <1>3 DEF TypeOK
<1>6. pc' = [pc EXCEPT ![q] = "responding"]
  BY DEF StartResponse, Goto
<1> QED
  BY <1>1, <1>4, <1>5, <1>6, SendEffect

-----------------------------------------------------------------------------
(* Each part of the invariant is preserved by each action.                  *)

\* What is left alone is what the action does not name.
LEMMA TypeStep ==
    ASSUME TypeOK, NEW q \in Requests, Middleware(q) \/ Application(q)
    PROVE  TypeOK'
<1> DEFINE Places == {"unsent"} \cup Running \cup Ended
           Responded == /\ pc' \in [Requests -> Places]
                        /\ response_started' \in [Requests -> BOOLEAN]
                        /\ sent' \in [Requests -> Seq(Message)]
           Read == /\ next' \in [Requests -> Nat \ {0}]
                   /\ seen' \in [Requests -> Nat]
                   /\ buffered' \in [Requests -> Nat]
<1>1. \A code \in Statuses : StartResponse(q, code) => Responded
  BY StartEffect DEF TypeOK, Running, Ended
<1>2. \A message \in Message : SendDirectly(q, message) => sent' \in [Requests -> Seq(Message)]
  BY SendEffect
<1>3. \A place \in Places : Goto(q, place) => pc' \in [Requests -> Places]
  BY DEF Goto, TypeOK
<1>4. "reading" \in Places /\ "parsed" \in Places /\ "handling" \in Places /\
      "responding" \in Places /\ "refusing" \in Places /\ "answered" \in Places /\
      "cut" \in Places /\ "gone" \in Places
  BY DEF Running, Ended
<1>5. {200, 400, 401, 404, 413, 422} \subseteq Statuses
  BY DEF Statuses
<1>6. Receiving(q) => count(q) \in Nat
  BY ChunkSize DEF count, TypeOK
<1>6a. TooLarge(q) => next' \in [Requests -> Nat \ {0}] /\ seen' \in [Requests -> Nat]
  BY <1>6 DEF TooLarge, TypeOK
<1>6b. Receive(q) => next' \in [Requests -> Nat \ {0}] /\ seen' \in [Requests -> Nat]
  <2>1. CASE content[q].limited
    BY <1>6, <2>1 DEF Receive, TypeOK
  <2>2. CASE ~content[q].limited
    BY <2>2 DEF Receive, TypeOK
  <2> QED
    BY <2>1, <2>2
<1>7. Receive(q) => buffered' \in [Requests -> Nat]
  BY ChunkSize DEF Receive, TypeOK
<1>8. Responded /\ Read /\ UNCHANGED fixed_vars => TypeOK'
  BY DEF TypeOK, fixed_vars
<1> HIDE DEF Places
<1>9. CASE RefuseDeclared(q)
  <2>1. Start(413) \in Message
    BY <1>5, MessagesInType
  <2> QED
    BY <1>2, <1>3, <1>4, <1>8, <1>9, <2>1 DEF RefuseDeclared, TypeOK, reading_vars
<1>10. CASE Enter(q)
  BY <1>3, <1>4, <1>8, <1>10 DEF Enter, TypeOK, reading_vars
<1>11. CASE Receive(q)
  <2>1. Read
    BY <1>6b, <1>7, <1>11
  <2>2. Responded /\ UNCHANGED fixed_vars
    BY <1>11 DEF Receive, TypeOK, Places
  <2> QED
    BY <1>8, <2>1, <2>2
<1>12. CASE TooLargePropagated(q)
  <2>1. Start(413) \in Message
    BY <1>5, MessagesInType
  <2>2. pc' \in [Requests -> Places] /\ sent' \in [Requests -> Seq(Message)]
    BY <1>2, <1>3, <1>4, <1>12, <2>1 DEF TooLargePropagated, TypeOK
  <2> QED
    BY <1>6a, <1>8, <1>12, <2>2 DEF TooLargePropagated, TypeOK
<1>13. CASE FinishRefusal(q)
  BY <1>2, <1>3, <1>4, MessagesInType, <1>8, <1>13 DEF FinishRefusal, TypeOK, reading_vars
<1>14. CASE TooLargeTranslated(q)
  <2>1. Responded
    BY <1>1, <1>5, <1>14 DEF TooLargeTranslated
  <2>2. Read /\ UNCHANGED fixed_vars
    BY <1>6a, <1>14 DEF TooLargeTranslated, TypeOK
  <2> QED
    BY <1>8, <2>1, <2>2
<1>15. CASE AnswerUnread(q)
  BY <1>1, <1>5, <1>8, <1>15, SMTT(30) DEF AnswerUnread, TypeOK, reading_vars
<1>16. CASE ClientGone(q)
  BY <1>3, <1>4, <1>8, <1>16 DEF ClientGone, TypeOK, reading_vars
<1>17. CASE ParseBody(q)
  <2>1. Responded
    <3>1. CASE Goto(q, "parsed") /\ UNCHANGED <<response_started, sent>>
      BY <1>3, <1>4, <3>1 DEF TypeOK
    <3>2. CASE StartResponse(q, 422)
      BY <1>1, <1>5, <3>2
    <3> QED
      BY <1>17, <3>1, <3>2 DEF ParseBody
  <2>2. Read /\ UNCHANGED fixed_vars
    BY <1>17 DEF ParseBody, TypeOK, reading_vars
  <2> QED
    BY <1>8, <2>1, <2>2
<1>18. CASE Dispatch(q)
  BY <1>1, <1>3, <1>4, <1>5, <1>8, <1>18, SMTT(30) DEF Dispatch, TypeOK, reading_vars
<1>19. CASE Respond(q)
  BY <1>1, <1>5, <1>8, <1>19, SMTT(30) DEF Respond, TypeOK, reading_vars
<1>20. CASE FinishResponse(q)
  BY <1>2, <1>3, <1>4, MessagesInType, <1>8, <1>20 DEF FinishResponse, TypeOK, reading_vars
<1> QED
  BY <1>9, <1>10, <1>11, <1>12, <1>13, <1>14, <1>15, <1>16, <1>17, <1>18, <1>19, <1>20 DEF Middleware, Application

\* A step of one call leaves the others where they are.
LEMMA OthersStay ==
    ASSUME TypeOK, NEW q \in Requests, Middleware(q) \/ Application(q),
           NEW r \in Requests, r # q
    PROVE  /\ pc'[r] = pc[r] /\ sent'[r] = sent[r]
           /\ next'[r] = next[r]
           /\ seen'[r] = seen[r] /\ buffered'[r] = buffered[r]
           /\ response_started'[r] = response_started[r]
<1> DEFINE Same == /\ pc'[r] = pc[r] /\ sent'[r] = sent[r]
                   /\ response_started'[r] = response_started[r]
<1>1. \A code : StartResponse(q, code) => Same
  BY DEF StartResponse, SendDirectly, Goto, TypeOK
<1>2. \A message : SendDirectly(q, message) => sent'[r] = sent[r]
  BY DEF SendDirectly, TypeOK
<1>3. \A place : Goto(q, place) => pc'[r] = pc[r]
  BY DEF Goto, TypeOK
<1>4. TooLarge(q) \/ Receive(q) => next'[r] = next[r] /\ seen'[r] = seen[r]
  BY DEF TooLarge, Receive, TypeOK
<1>5. CASE RefuseDeclared(q)
  BY <1>1, <1>2, <1>3, <1>4, <1>5 DEF RefuseDeclared, TypeOK, reading_vars
<1>6. CASE Enter(q)
  BY <1>1, <1>2, <1>3, <1>4, <1>6 DEF Enter, TypeOK, reading_vars
<1>7. CASE Receive(q)
  BY <1>1, <1>2, <1>3, <1>4, <1>7 DEF Receive, TypeOK, reading_vars
<1>8. CASE TooLargePropagated(q)
  BY <1>1, <1>2, <1>3, <1>4, <1>8 DEF TooLargePropagated, TypeOK, reading_vars
<1>9. CASE FinishRefusal(q)
  BY <1>1, <1>2, <1>3, <1>4, <1>9 DEF FinishRefusal, TypeOK, reading_vars
<1>10. CASE TooLargeTranslated(q)
  BY <1>1, <1>2, <1>3, <1>4, <1>10 DEF TooLargeTranslated, TypeOK, reading_vars
<1>11. CASE AnswerUnread(q)
  BY <1>1, <1>2, <1>3, <1>4, <1>11 DEF AnswerUnread, TypeOK, reading_vars
<1>12. CASE ClientGone(q)
  BY <1>1, <1>2, <1>3, <1>4, <1>12 DEF ClientGone, TypeOK, reading_vars
<1>13. CASE ParseBody(q)
  BY <1>1, <1>2, <1>3, <1>4, <1>13 DEF ParseBody, TypeOK, reading_vars
<1>14. CASE Dispatch(q)
  BY <1>1, <1>2, <1>3, <1>4, <1>14 DEF Dispatch, TypeOK, reading_vars
<1>15. CASE Respond(q)
  BY <1>1, <1>2, <1>3, <1>4, <1>15 DEF Respond, TypeOK, reading_vars
<1>16. CASE FinishResponse(q)
  BY <1>1, <1>2, <1>3, <1>4, <1>16 DEF FinishResponse, TypeOK, reading_vars
<1> QED
  BY <1>5, <1>6, <1>7, <1>8, <1>9, <1>10, <1>11, <1>12, <1>13, <1>14, <1>15, <1>16 DEF Middleware, Application

\* What a call consists of, and the configuration, never change.
LEMMA FixedStay ==
    ASSUME NEW q \in Requests, Middleware(q) \/ Application(q)
    PROVE  content' = content /\ config' = config
  BY DEF Middleware, Application, fixed_vars, RefuseDeclared, Enter, Receive, TooLargePropagated, FinishRefusal, TooLargeTranslated, AnswerUnread, ClientGone, ParseBody, Dispatch, Respond, FinishResponse

\* Counting and passing on keep step: a chunk is counted before it is passed on,
\* and one that would exceed the limit is not passed on.
LEMMA CapStep ==
    ASSUME TypeOK, CapInv, NEW q \in Requests, Middleware(q) \/ Application(q)
    PROVE  CapInv'
<1> SUFFICES ASSUME NEW r \in Requests, content'[r].limited
             PROVE  buffered'[r] <= seen'[r] /\ buffered'[r] <= max_bytes
  BY DEF CapInv
<1>1. content[r].limited
  BY FixedStay
<1>2. buffered[r] <= seen[r] /\ buffered[r] <= max_bytes
  BY <1>1 DEF CapInv
<1>3. CASE r # q
  BY <1>2, <1>3, OthersStay
<1>4. CASE r = q
  <2>1. CASE Receive(q)
    <3>1. Chunk(q) \in Nat /\ seen[q] \in Nat /\ buffered[q] \in Nat /\ max_bytes \in Nat
      BY <2>1, ChunkSize, LimitAssumption DEF Receive, TypeOK
    <3>2. count(q) <= max_bytes
      BY <1>1, <1>4, <2>1 DEF Receive
    <3>3. seen'[q] = count(q) /\ buffered'[q] = buffered[q] + Chunk(q)
      BY <1>1, <1>4, <2>1 DEF Receive, TypeOK
    <3> QED
      BY <1>2, <1>4, <3>1, <3>2, <3>3 DEF count
  <2>2. CASE TooLarge(q) /\ UNCHANGED buffered
    <3>1. Chunk(q) \in Nat /\ seen[q] \in Nat /\ buffered[q] \in Nat
      BY <2>2, ChunkSize DEF TooLarge, TypeOK
    <3>2. seen'[q] = seen[q] + Chunk(q)
      BY <2>2 DEF TooLarge, TypeOK, count
    <3> QED
      BY <1>2, <1>4, <2>2, <3>1, <3>2
  <2>3. CASE UNCHANGED <<seen, buffered>>
    BY <1>2, <2>3
  <2> QED
    BY <2>1, <2>2, <2>3 DEF Middleware, Application, reading_vars, RefuseDeclared, Enter, TooLargePropagated, FinishRefusal, TooLargeTranslated, AnswerUnread, ClientGone, ParseBody, Dispatch, Respond, FinishResponse
<1> QED
  BY <1>3, <1>4

\* Authentication and the size policy stand in front of every handler.
LEMMA CappedStep ==
    ASSUME TypeOK, CapInv', CappedBeforeParsing,
           NEW q \in Requests, Middleware(q) \/ Application(q)
    PROVE  CappedBeforeParsing'
<1>1. content' = content /\ config' = config
  BY FixedStay
<1>2. \A r \in Requests : Authorised(r)' = Authorised(r) /\ WithinPolicy(r)' = WithinPolicy(r)
  BY <1>1 DEF Authorised, WithinPolicy
<1>3. \A r \in Requests : pc'[r] = "handling" => pc[r] = "handling" \/ (Authorised(r) /\ WithinPolicy(r))
  <2> SUFFICES ASSUME NEW r \in Requests, pc'[r] = "handling", pc[r] # "handling"
               PROVE  Authorised(r) /\ WithinPolicy(r)
    OBVIOUS
  <2>1. r = q
    BY OthersStay
  <2> DEFINE NotHandling == pc'[q] # "handling"
  <2>2. \A code : StartResponse(q, code) => NotHandling
    BY DEF StartResponse, Goto, TypeOK
  <2>3. \A place : Goto(q, place) /\ place # "handling" => NotHandling
    BY DEF Goto, TypeOK
  <2>4. UNCHANGED pc => NotHandling
    BY <2>1
  <2>5. CASE RefuseDeclared(q)
    BY <2>1, <2>2, <2>3, <2>4, <2>5 DEF RefuseDeclared
  <2>6. CASE Enter(q)
    BY <2>1, <2>2, <2>3, <2>4, <2>6 DEF Enter
  <2>7. CASE Receive(q)
    BY <2>1, <2>2, <2>3, <2>4, <2>7 DEF Receive
  <2>8. CASE TooLargePropagated(q)
    BY <2>1, <2>2, <2>3, <2>4, <2>8 DEF TooLargePropagated
  <2>9. CASE FinishRefusal(q)
    BY <2>1, <2>2, <2>3, <2>4, <2>9 DEF FinishRefusal
  <2>10. CASE TooLargeTranslated(q)
    BY <2>1, <2>2, <2>3, <2>4, <2>10 DEF TooLargeTranslated
  <2>11. CASE AnswerUnread(q)
    BY <2>1, <2>2, <2>3, <2>4, <2>11 DEF AnswerUnread
  <2>12. CASE ClientGone(q)
    BY <2>1, <2>2, <2>3, <2>4, <2>12 DEF ClientGone
  <2>13. CASE ParseBody(q)
    BY <2>1, <2>2, <2>3, <2>4, <2>13 DEF ParseBody
  <2>14. CASE Dispatch(q)
    BY <2>1, <2>2, <2>14 DEF Dispatch
  <2>15. CASE Respond(q)
    BY <2>1, <2>2, <2>3, <2>4, <2>15 DEF Respond
  <2>16. CASE FinishResponse(q)
    BY <2>1, <2>2, <2>3, <2>4, <2>16 DEF FinishResponse
  <2> QED
    BY <2>5, <2>6, <2>7, <2>8, <2>9, <2>10, <2>11, <2>12, <2>13, <2>14, <2>15, <2>16 DEF Middleware, Application
<1> QED
  BY <1>1, <1>2, <1>3 DEF CappedBeforeParsing, CapInv

\* A start is sent to a client that was sent nothing, an end to one that was
\* sent a start: the middleware keeps silent once a response has begun.
LEMMA ResponseStep ==
    ASSUME TypeOK, ResponseInv, NEW q \in Requests, Middleware(q) \/ Application(q)
    PROVE  ResponseInv'
<1>1. \A r \in Requests : Told(r)
  BY DEF ResponseInv
<1>2. ASSUME NEW r \in Requests, r # q PROVE Told(r)'
  BY <1>1, <1>2, OthersStay, FixedStay DEF Told, Begun, Complete
<1>3. Told(q)'
  <2> DEFINE Silent == {"unsent", "reading", "parsed", "handling"}
  <2>1. /\ pc[q] \in Silent => sent[q] = << >>
        /\ pc[q] \in {"responding", "refusing"} => Begun(q)
    BY <1>1 DEF Told
  <2>2. content' = content
    BY FixedStay
  <2>3. ASSUME pc[q] \in Silent, NEW code \in Statuses, StartResponse(q, code)
        PROVE  Told(q)'
    <3>1. sent'[q] = <<Start(code)>>
      BY <2>1, <2>3, StartEffect
    <3>2. Begun(q)'
      BY <3>1 DEF Begun
    <3>3. pc'[q] = "responding"
      BY <2>3, StartEffect DEF TypeOK
    <3>4. content[q].limited => response_started'[q]
      BY <2>3, StartEffect
    <3> QED
      BY <2>2, <3>2, <3>3, <3>4 DEF Told
  <2>4. ASSUME sent[q] = << >>, SendDirectly(q, Start(413)), Goto(q, "refusing")
        PROVE  Told(q)'
    <3>1. sent'[q] = <<Start(413)>>
      BY <2>4 DEF SendDirectly, TypeOK
    <3>2. Begun(q)'
      BY <3>1 DEF Begun, Statuses
    <3>3. pc'[q] = "refusing"
      BY <2>4 DEF Goto, TypeOK
    <3> QED
      BY <3>2, <3>3 DEF Told
  <2>5. ASSUME pc[q] \in {"responding", "refusing"}, SendDirectly(q, End), Goto(q, "answered")
        PROVE  Told(q)'
    <3>1. PICK code \in Statuses : sent[q] = <<Start(code)>>
      BY <2>1, <2>5 DEF Begun
    <3>2. sent'[q] = <<Start(code), End>>
      <4>1. sent'[q] = Append(<<Start(code)>>, End)
        BY <2>5, <3>1 DEF SendDirectly, TypeOK
      <4> QED
        BY <4>1, AppendSecond
    <3>3. Complete(q)'
      BY <3>2 DEF Complete
    <3>4. pc'[q] = "answered"
      BY <2>5 DEF Goto, TypeOK
    <3> QED
      BY <3>3, <3>4 DEF Told
  <2>6. ASSUME UNCHANGED <<sent, response_started>>,
               \/ pc[q] \in Silent /\ pc'[q] \in Silent
               \/ pc[q] \in {"reading", "responding"} /\ pc'[q] \in {pc[q], "cut", "gone"}
        PROVE  Told(q)'
    <3>1. sent' = sent /\ response_started' = response_started /\ (Begun(q) <=> Begun(q)')
      BY <2>6 DEF Begun
    <3>2. CASE pc[q] \in Silent /\ pc'[q] \in Silent
      BY <2>1, <3>1, <3>2 DEF Told
    <3>3. CASE pc[q] \in {"reading", "responding"} /\ pc'[q] = pc[q]
      BY <1>1, <2>2, <3>1, <3>3 DEF Told
    <3>4. CASE pc[q] \in {"reading", "responding"} /\ pc'[q] \in {"cut", "gone"}
      BY <2>1, <3>1, <3>4 DEF Told
    <3> QED
      BY <2>6, <3>2, <3>3, <3>4
  <2>7. \A place : Goto(q, place) => pc'[q] = place
    BY DEF Goto, TypeOK
  <2>8. {200, 400, 401, 404, 413, 422} \subseteq Statuses
    BY DEF Statuses
  <2>9. CASE RefuseDeclared(q)
    BY <2>1, <2>4, <2>9 DEF RefuseDeclared
  <2>10. CASE Enter(q)
    BY <2>6, <2>7, <2>10 DEF Enter
  <2>11. CASE Receive(q)
    BY <2>6, <2>11 DEF Receive, Receiving
  <2>12. CASE TooLargePropagated(q)
    <3>1. pc[q] \in {"reading", "responding"} /\ content[q].limited
      BY <2>12 DEF TooLargePropagated, TooLarge, Receiving
    <3>2. CASE response_started[q] /\ Goto(q, "cut") /\ UNCHANGED <<sent, response_started>>
      BY <2>6, <2>7, <3>1, <3>2
    <3>3. CASE ~response_started[q] /\ SendDirectly(q, Start(413)) /\ Goto(q, "refusing")
      <4>1. sent[q] = << >>
        BY <1>1, <3>1, <3>3 DEF Told
      <4> QED
        BY <2>4, <3>3, <4>1
    <3> QED
      BY <2>12, <3>2, <3>3 DEF TooLargePropagated
  <2>13. CASE FinishRefusal(q)
    BY <2>5, <2>13 DEF FinishRefusal
  <2>14. CASE TooLargeTranslated(q)
    BY <2>3, <2>8, <2>14 DEF TooLargeTranslated
  <2>15. CASE AnswerUnread(q)
    BY <2>3, <2>8, <2>15 DEF AnswerUnread
  <2>16. CASE ClientGone(q)
    BY <2>6, <2>7, <2>16 DEF ClientGone, Receiving
  <2>17. CASE ParseBody(q)
    BY <2>3, <2>6, <2>7, <2>8, <2>17 DEF ParseBody
  <2>18. CASE Dispatch(q)
    BY <2>3, <2>6, <2>7, <2>8, <2>18 DEF Dispatch
  <2>19. CASE Respond(q)
    BY <2>3, <2>8, <2>19 DEF Respond
  <2>20. CASE FinishResponse(q)
    BY <2>5, <2>20 DEF FinishResponse
  <2> QED
    BY <2>9, <2>10, <2>11, <2>12, <2>13, <2>14, <2>15, <2>16, <2>17, <2>18, <2>19, <2>20
    DEF Middleware, Application
<1> QED
  BY <1>2, <1>3 DEF ResponseInv

-----------------------------------------------------------------------------
(* What was counted is what was received.                                    *)

\* The sizes of a call's chunks, and their sums.
LEMMA ChunkSums ==
    ASSUME TypeOK, NEW q \in Requests
    PROVE  /\ Len(content[q].chunks) \in Nat
           /\ DOMAIN content[q].chunks = 1 .. Len(content[q].chunks)
           /\ \A i \in 1 .. Len(content[q].chunks) : content[q].chunks[i] \in Nat
           /\ BodySize(q) = SumFunctionOnSet(content[q].chunks, 1 .. Len(content[q].chunks))
           /\ BodySize(q) \in Int
<1> DEFINE chunks == content[q].chunks
           size == Len(chunks)
<1>1. chunks \in Seq(Nat)
  BY LimitAssumption DEF TypeOK
<1>2. /\ size \in Nat /\ DOMAIN chunks = 1 .. size
      /\ \A i \in 1 .. size : chunks[i] \in Nat
  BY <1>1
<1>3. IsFiniteSet(1 .. size)
  BY <1>2, FS_Interval
<1>4. BodySize(q) = SumFunctionOnSet(chunks, 1 .. size)
  BY <1>2 DEF BodySize, SumFunction
<1> HIDE DEF chunks
<1>5. BodySize(q) \in Int
  BY <1>2, <1>3, <1>4, SumIsInt
<1> QED
  BY <1>2, <1>4, <1>5 DEF chunks

\* Receiving a chunk adds its size, and what was received is part of the body.
LEMMA ReceivedGrows ==
    ASSUME TypeOK, NEW q \in Requests, Receiving(q)
    PROVE  /\ SumFunctionOnSet(content[q].chunks, 1 .. next[q]) = ReceivedSize(q) + Chunk(q)
           /\ ReceivedSize(q) + Chunk(q) <= BodySize(q)
<1> DEFINE chunks == content[q].chunks
           size == Len(chunks)
           n == next[q] - 1
<1>1. /\ size \in Nat /\ \A i \in 1 .. size : chunks[i] \in Nat
      /\ BodySize(q) = SumFunctionOnSet(chunks, 1 .. size)
  BY ChunkSums
<1>2. n \in Nat /\ n + 1 = next[q] /\ n + 1 <= size
  BY DEF TypeOK, Receiving, Unread
<1>3. Chunk(q) = chunks[n + 1] /\ ReceivedSize(q) = SumFunctionOnSet(chunks, 1 .. n)
  BY <1>2 DEF Chunk, ReceivedSize
<1> HIDE DEF chunks, size, n
<1>4. 1 .. n + 1 \subseteq 1 .. size
  BY <1>1, <1>2
<1>5. SumFunctionOnSet(chunks, 1 .. n + 1) = SumFunctionOnSet(chunks, 1 .. n) + chunks[n + 1]
  BY <1>1, <1>2, <1>4, SumPrefix
<1>6. IsFiniteSet(1 .. size)
  BY <1>1, FS_Interval
<1>7. SumFunctionOnSet(chunks, 1 .. n + 1) <= SumFunctionOnSet(chunks, 1 .. size)
  BY <1>1, <1>4, <1>6, SumGrows
<1> QED
  BY <1>1, <1>2, <1>3, <1>5, <1>7 DEF chunks

\* A chunk is counted, and given to the application, in full; a body is parsed
\* when no chunk is left.
LEMMA CountedStep ==
    ASSUME TypeOK, CountedInv, NEW q \in Requests, Middleware(q) \/ Application(q)
    PROVE  CountedInv'
<1>1. content' = content
  BY FixedStay
<1>2. \A r \in Requests : Counted(r)
  BY DEF CountedInv
<1>3. ASSUME NEW r \in Requests, r # q PROVE Counted(r)'
  <2>1. /\ pc'[r] = pc[r] /\ next'[r] = next[r]
        /\ seen'[r] = seen[r] /\ buffered'[r] = buffered[r]
    BY <1>3, OthersStay
  <2>2. ReceivedSize(r)' = ReceivedSize(r) /\ BodySize(r)' = BodySize(r)
    BY <1>1, <2>1 DEF ReceivedSize, BodySize
  <2> QED
    BY <1>1, <1>2, <2>1, <2>2 DEF Counted
<1>4. Counted(q)'
  <2>1. BodySize(q)' = BodySize(q)
    BY <1>1 DEF BodySize
  <2>2. ASSUME UNCHANGED next PROVE ReceivedSize(q)' = ReceivedSize(q)
    BY <1>1, <2>2 DEF ReceivedSize
  <2>3. ASSUME Receiving(q), next' = [next EXCEPT ![q] = @ + 1]
        PROVE  /\ ReceivedSize(q)' = ReceivedSize(q) + Chunk(q)
               /\ next'[q] <= Len(content[q].chunks) + 1
    <3>1. next'[q] = next[q] + 1 /\ next[q] \in Nat /\ next[q] <= Len(content[q].chunks)
      BY <2>3 DEF TypeOK, Receiving, Unread
    <3>2. next'[q] - 1 = next[q]
      BY <3>1
    <3>3. ReceivedSize(q)' = SumFunctionOnSet(content[q].chunks, 1 .. next[q])
      BY <1>1, <3>2 DEF ReceivedSize
    <3>4. Len(content[q].chunks) \in Nat
      BY ChunkSums
    <3> QED
      BY <2>3, <3>1, <3>3, <3>4, ReceivedGrows
  <2>4. ASSUME UNCHANGED <<next, seen, buffered>>,
               pc'[q] \notin {"unsent", "reading", "parsed", "handling"}
        PROVE  Counted(q)'
    BY <1>1, <1>2, <2>1, <2>2, <2>4 DEF Counted
  <2>5. \A place : Goto(q, place) => pc'[q] = place
    BY DEF Goto, TypeOK
  <2>6. \A code : StartResponse(q, code) => pc'[q] = "responding"
    BY DEF StartResponse, Goto, TypeOK
  <2>7. CASE RefuseDeclared(q)
    BY <2>4, <2>5, <2>7 DEF RefuseDeclared, reading_vars
  <2>8. CASE Enter(q)
    BY <1>1, <1>2, <2>1, <2>2, <2>5, <2>8 DEF Enter, reading_vars, Counted
  <2>9. CASE Receive(q)
    <3>1. Receiving(q) /\ next' = [next EXCEPT ![q] = @ + 1] /\ UNCHANGED pc
      BY <2>9 DEF Receive
    <3>2. buffered'[q] = buffered[q] + Chunk(q)
      BY <2>9 DEF Receive, TypeOK
    <3>3. content[q].limited => seen'[q] = seen[q] + Chunk(q)
      BY <2>9 DEF Receive, TypeOK, count
    <3>4. pc[q] \in {"reading", "responding"}
      BY <3>1 DEF Receiving
    <3> QED
      BY <1>1, <1>2, <2>3, <3>1, <3>2, <3>3, <3>4 DEF Counted
  <2>10. ASSUME TooLarge(q), pc'[q] \in {"responding", "cut", "refusing"}
         PROVE  Counted(q)'
    <3>1. Receiving(q) /\ next' = [next EXCEPT ![q] = @ + 1]
      BY <2>10 DEF TooLarge
    <3>2. content[q].limited => seen'[q] = seen[q] + Chunk(q)
      BY <2>10 DEF TooLarge, TypeOK, count
    <3> QED
      BY <1>1, <1>2, <2>3, <2>10, <3>1, <3>2 DEF Counted
  <2>11. CASE TooLargePropagated(q)
    BY <2>5, <2>10, <2>11 DEF TooLargePropagated
  <2>12. CASE TooLargeTranslated(q)
    BY <2>6, <2>10, <2>12 DEF TooLargeTranslated
  <2>13. CASE FinishRefusal(q)
    BY <2>4, <2>5, <2>13 DEF FinishRefusal, reading_vars
  <2>14. CASE AnswerUnread(q)
    BY <2>4, <2>6, <2>14 DEF AnswerUnread, reading_vars
  <2>15. CASE ClientGone(q)
    BY <2>4, <2>5, <2>15 DEF ClientGone, reading_vars
  <2>16. CASE ParseBody(q)
    <3>1. next[q] = Len(content[q].chunks) + 1
      <4>1. next[q] \in Nat /\ Len(content[q].chunks) \in Nat
        BY ChunkSums DEF TypeOK
      <4> QED
        BY <1>2, <2>16, <4>1 DEF ParseBody, Unread, Counted
    <3>2. ReceivedSize(q) = BodySize(q)
      <4>1. Len(content[q].chunks) \in Nat
        BY ChunkSums
      <4>2. next[q] - 1 = Len(content[q].chunks)
        BY <3>1, <4>1
      <4> QED
        BY <4>2, ChunkSums DEF ReceivedSize
    <3>3. pc'[q] \in {"parsed", "responding"} /\ pc[q] = "reading"
      BY <2>5, <2>6, <2>16 DEF ParseBody
    <3> QED
      BY <1>1, <1>2, <2>1, <2>2, <2>16, <3>2, <3>3 DEF ParseBody, reading_vars, Counted
  <2>17. CASE Dispatch(q)
    <3>1. pc[q] = "parsed" /\ pc'[q] \in {"responding", "handling"}
      BY <2>5, <2>6, <2>17 DEF Dispatch
    <3> QED
      BY <1>1, <1>2, <2>1, <2>2, <2>17, <3>1 DEF Dispatch, reading_vars, Counted
  <2>18. CASE Respond(q)
    BY <2>4, <2>6, <2>18 DEF Respond, reading_vars
  <2>19. CASE FinishResponse(q)
    BY <2>4, <2>5, <2>19 DEF FinishResponse, reading_vars
  <2> QED
    BY <2>7, <2>8, <2>9, <2>11, <2>12, <2>13, <2>14, <2>15, <2>16, <2>17, <2>18, <2>19
    DEF Middleware, Application
<1> QED
  BY <1>3, <1>4 DEF CountedInv

\* Why a call may be refused for its size.
Refusable(q) ==
    /\ content[q].limited
    /\ DeclaredTooLarge(q) \/ BodySize(q) > max_bytes \/ ~WithinPolicy(q)

Refusals == {Start(400), Start(413)}

\* A message is added to what was sent, and stays.
LEMMA SentRange ==
    ASSUME TypeOK, NEW q \in Requests, NEW message \in Message, SendDirectly(q, message)
    PROVE  Range(sent'[q]) = Range(sent[q]) \cup {message}
<1> DEFINE s == sent[q]
           t == Append(s, message)
<1>1. s \in Seq(Message) /\ sent'[q] = t
  BY SendEffect DEF TypeOK
<1>2. /\ Len(s) \in Nat
      /\ DOMAIN s = 1 .. Len(s)
      /\ DOMAIN t = 1 .. Len(s) + 1
      /\ t[Len(s) + 1] = message
      /\ \A i \in 1 .. Len(s) : t[i] = s[i]
  BY <1>1
<1>3. DOMAIN t = DOMAIN s \cup {Len(s) + 1}
  BY <1>2
<1>4. Range(t) = Range(s) \cup {message}
  BY <1>2, <1>3 DEF Range
<1> QED
  BY <1>1, <1>4

\* A call is refused where it was found too large: declared, received, or written
\* again.
LEMMA TransparentStep ==
    ASSUME TypeOK, CountedInv, CountedInv', LimiterTransparent,
           NEW q \in Requests, Middleware(q) \/ Application(q)
    PROVE  LimiterTransparent'
<1>1. content' = content
  BY FixedStay
<1>2. \A r \in Requests : Refusable(r)' <=> Refusable(r)
  BY <1>1 DEF Refusable, DeclaredTooLarge, BodySize, WithinPolicy
<1>3. \A r \in Requests : Refusals \cap Range(sent[r]) # {} => Refusable(r)
  BY DEF LimiterTransparent, Refusals, Refusable
<1>4. Refusals \cap Range(sent'[q]) # {} => Refusable(q)
  <2>1. ASSUME NEW message \in Message, SendDirectly(q, message),
               message \in Refusals => Refusable(q)
        PROVE  Refusals \cap Range(sent'[q]) # {} => Refusable(q)
    BY <1>3, <2>1, SentRange
  <2>2. {200, 400, 401, 404, 413, 422} \subseteq Statuses
    BY DEF Statuses
  <2>3. ASSUME NEW code \in Statuses, SendDirectly(q, Start(code)),
               code \in {400, 413} => Refusable(q)
        PROVE  Refusals \cap Range(sent'[q]) # {} => Refusable(q)
    <3>1. Start(code) \in Refusals => code \in {400, 413}
      BY DEF Refusals, Start
    <3> QED
      BY <2>1, <2>3, <3>1, MessagesInType
  <2>4. End \notin Refusals
    <3>1. "status" \notin DOMAIN End /\ \A code : "status" \in DOMAIN Start(code)
      BY DEF End, Start
    <3> QED
      BY <3>1 DEF Refusals
  <2>5. SendDirectly(q, End) => (Refusals \cap Range(sent'[q]) # {} => Refusable(q))
    BY <2>1, <2>4, MessagesInType
  <2>6. \A code : StartResponse(q, code) => SendDirectly(q, Start(code))
    BY DEF StartResponse
  <2>7. UNCHANGED sent => (Refusals \cap Range(sent'[q]) # {} => Refusable(q))
    BY <1>3
  <2>8. TooLarge(q) => Refusable(q)
    <3> SUFFICES ASSUME TooLarge(q) PROVE BodySize(q) > max_bytes
      BY DEF TooLarge, Refusable
    <3>1. Receiving(q) /\ content[q].limited /\ seen[q] + Chunk(q) > max_bytes
      BY DEF TooLarge, count
    <3>2. seen[q] = ReceivedSize(q)
      BY <3>1 DEF CountedInv, Counted
    <3>3. seen[q] + Chunk(q) <= BodySize(q)
      BY <3>1, <3>2, ReceivedGrows
    <3>4. seen[q] \in Nat /\ Chunk(q) \in Nat /\ max_bytes \in Nat /\ BodySize(q) \in Int
      BY <3>1, ChunkSize, ChunkSums, LimitAssumption DEF TypeOK
    <3> QED
      BY <3>1, <3>3, <3>4
  <2>9. CASE RefuseDeclared(q)
    BY <2>2, <2>3, <2>9 DEF RefuseDeclared, Refusable, DeclaredTooLarge
  <2>10. CASE Enter(q) \/ Receive(q) \/ ClientGone(q)
    BY <2>7, <2>10 DEF Enter, Receive, ClientGone
  <2>11. CASE TooLargePropagated(q)
    BY <2>2, <2>3, <2>7, <2>8, <2>11 DEF TooLargePropagated
  <2>12. CASE TooLargeTranslated(q)
    BY <2>2, <2>3, <2>6, <2>8, <2>12 DEF TooLargeTranslated
  <2>13. CASE FinishRefusal(q) \/ FinishResponse(q)
    BY <2>5, <2>13 DEF FinishRefusal, FinishResponse
  <2>14. CASE AnswerUnread(q) \/ Respond(q)
    BY <2>2, <2>3, <2>6, <2>14 DEF AnswerUnread, Respond
  <2>15. CASE ParseBody(q)
    BY <2>2, <2>3, <2>6, <2>7, <2>15 DEF ParseBody
  <2>16. CASE Dispatch(q)
    <3>1. ~WithinPolicy(q) => Refusable(q)
      BY DEF WithinPolicy, Refusable
    <3> QED
      BY <2>2, <2>3, <2>6, <2>7, <2>16, <3>1 DEF Dispatch
  <2> QED
    BY <2>9, <2>10, <2>11, <2>12, <2>13, <2>14, <2>15, <2>16 DEF Middleware, Application
<1>5. \A r \in Requests : Refusals \cap Range(sent'[r]) # {} => Refusable(r)'
  <2>1. \A r \in Requests \ {q} : sent'[r] = sent[r]
    BY OthersStay
  <2> QED
    BY <1>2, <1>3, <1>4, <2>1
<1> QED
  BY <1>5 DEF LimiterTransparent, CountedInv, Counted, Refusals, Refusable

-----------------------------------------------------------------------------
(* The invariant, and what follows from it.                                 *)

LEMMA InitInv == Init => LimitInv
<1> SUFFICES ASSUME Init PROVE LimitInv
  OBVIOUS
<1>1. max_bytes \in Nat
  BY LimitAssumption
<1>2. TypeOK
  BY DEF Init, TypeOK
<1>3. CapInv /\ CappedBeforeParsing
  BY <1>1 DEF Init, CapInv, CappedBeforeParsing
<1>4. ResponseInv
  BY DEF Init, ResponseInv, Told
<1>5. CountedInv
  <2> SUFFICES ASSUME NEW q \in Requests
               PROVE  next[q] <= Len(content[q].chunks) + 1 /\ ReceivedSize(q) = 0
    BY DEF Init, CountedInv, Counted
  <2>1. next[q] = 1 /\ Len(content[q].chunks) \in Nat
    BY LimitAssumption DEF Init
  <2>2. 1 .. next[q] - 1 = {}
    BY <2>1
  <2> QED
    BY <2>1, <2>2, SumOfNone DEF ReceivedSize
<1>6. LimiterTransparent
  BY DEF Init, LimiterTransparent, Range
<1> QED
  BY <1>2, <1>3, <1>4, <1>5, <1>6 DEF LimitInv

\* The inductive invariant of the limiter, for every instance.
THEOREM LimitInvariance == Spec => []LimitInv
<1>1. LimitInv /\ [Next]_vars => LimitInv'
  <2> SUFFICES ASSUME LimitInv, [Next]_vars PROVE LimitInv'
    OBVIOUS
  <2>1. CASE Next
    <3>1. PICK q \in Requests : Middleware(q) \/ Application(q)
      BY <2>1 DEF Next
    <3>2. TypeOK' /\ CapInv' /\ ResponseInv' /\ CountedInv' /\ LimiterTransparent'
      BY <3>1, TypeStep, CapStep, ResponseStep, CountedStep, TransparentStep DEF LimitInv
    <3> QED
      BY <3>1, <3>2, CappedStep DEF LimitInv
  <2>2. CASE UNCHANGED vars
    BY <2>2 DEF LimitInv, TypeOK, CapInv, ResponseInv, Told, Begun, Complete,
                CappedBeforeParsing, Authorised, WithinPolicy, CountedInv, Counted, ReceivedSize,
                BodySize, LimiterTransparent, DeclaredTooLarge, vars, fixed_vars, reading_vars
  <2> QED
    BY <2>1, <2>2
<1> QED
  BY <1>1, InitInv, PTL DEF Spec

\* Every variable keeps its type: no malformed header, chunk or token leads a
\* call to a place the code does not know.
THEOREM LimitTypeCorrect == Spec => []TypeOK
  BY LimitInvariance, PTL DEF LimitInv

\* "capped before JSON parsing by replay_input_max_bytes": for any chunks, any
\* declared length, any limit and any number of concurrent calls.
THEOREM CapCorrect == Spec => []CappedBeforeParsing
  BY LimitInvariance, PTL DEF LimitInv

\* Whoever stays within the limit does not notice the limiter: for any chunks and
\* any number of concurrent calls, what is parsed is the whole body, and a refusal
\* for size has its reason in the call that was refused.
THEOREM TransparencyCorrect == Spec => []LimiterTransparent
  BY LimitInvariance, PTL DEF LimitInv

\* The client never sees two responses mixed, whether or not the application
\* swallows the limiter's exception.
THEOREM OneResponseCorrect == Spec => []OneResponse
<1>1. LimitInv => OneResponse
  <2> SUFFICES ASSUME LimitInv, NEW q \in Requests
               PROVE  sent[q] = << >> \/ Begun(q) \/ Complete(q)
    BY DEF OneResponse
  <2>1. pc[q] \in {"unsent"} \cup Running \cup Ended
    BY DEF LimitInv, TypeOK
  <2>2. Told(q)
    BY DEF LimitInv, ResponseInv
  <2> QED
    BY <2>1, <2>2 DEF Told, Running, Ended
<1> QED
  BY <1>1, LimitInvariance, PTL
=============================================================================
