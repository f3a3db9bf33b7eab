------------------------ MODULE ValidatorDaemonProofs ------------------------
(***************************************************************************)
(* Proofs about ValidatorDaemon, for every value of its constants.         *)
(***************************************************************************)
EXTENDS DaemonProperties, FloatTheorems

-----------------------------------------------------------------------------
(* What the constants give. *)

\* The receipts of a request are a sequence, so that its positions, and the
\* accepted ones among them, are finitely many positive numbers.
LEMMA Positions ==
    ASSUME NEW q \in Requests
    PROVE  /\ DOMAIN Call[q].receipts \subseteq Nat \ {0}
           /\ IsFiniteSet(DOMAIN Call[q].receipts)
           /\ Accepted(q) \subseteq DOMAIN Call[q].receipts
           /\ IsFiniteSet(Accepted(q))
           /\ Cardinality(Accepted(q)) \in Nat
  <1>1. PICK n \in Nat : DOMAIN Call[q].receipts = 1 .. n
    BY DaemonAssumption
  <1>2. IsFiniteSet(1 .. n)
    BY FS_Interval
  <1>3. Accepted(q) \subseteq DOMAIN Call[q].receipts
    BY DEF Accepted
  <1> QED
    BY <1>1, <1>2, <1>3, FS_Subset, FS_CardinalityType

\* A sample is a sequence of distinct accepted positions.
LEMMA SampleIsSequence ==
    ASSUME NEW q \in Requests, NEW n \in Nat, NEW s \in Injection(1 .. n, Accepted(q))
    PROVE  /\ s \in Seq(Nat \ {0})
           /\ IsInjective(s)
           /\ Range(s) \subseteq Accepted(q)
  <1>1. s \in [1 .. n -> Accepted(q)] /\ IsInjective(s)
    BY DEF Injection
  <1>2. s \in Seq(Accepted(q))
    BY <1>1
  <1>3. Accepted(q) \subseteq Nat \ {0}
    BY Positions
  <1> QED
    BY <1>1, <1>2, <1>3 DEF Range

\* The size of a sample is a natural number.
LEMMA SampleSizeType ==
    ASSUME NEW n \in Nat
    PROVE  SampleSize(n) \in Nat
  <1> DEFINE a == n * SampleRate[1]
             d == pow2[SampleRate[2]]
  <1>1. a \in Nat /\ d \in Nat \ {0}
    BY PowersOfTwo, RateAssumption
  <1> HIDE DEF a, d
  <1>2. a \div d \in Nat
    BY <1>1, Division
  <1>3. Truncated(a, d) \in Nat
    BY <1>2 DEF Truncated
  <1> QED
    BY <1>3 DEF SampleSize, n_sample, a, d

\* So is every sample the draw may return.
LEMMA DrawableIsSequence ==
    ASSUME NEW q \in Requests, NEW s \in Drawable(q)
    PROVE  /\ s \in Seq(Nat \ {0})
           /\ IsInjective(s)
           /\ Range(s) \subseteq Accepted(q)
  <1>1. SampleSize(Cardinality(Accepted(q))) \in Nat
    BY Positions, SampleSizeType
  <1> QED
    BY <1>1, SampleIsSequence DEF Drawable

-----------------------------------------------------------------------------
(* Type correctness.  TypeOK is not inductive alone: that evidence names a   *)
(* position of the receipts needs SampleInv.                                 *)

\* An accepted receipt of a request names a piece of evidence.
LEMMA EvidenceIdType ==
    ASSUME NEW q \in Requests, NEW i \in Accepted(q)
    PROVE  <<q, i>> \in EvidenceIds
  BY Positions DEF EvidenceIds

\* The evidence a handler is about to find, or has just found, is well named.
LEMMA EvidenceType ==
    ASSUME TypeOK, SampleInv, NEW q \in Requests
    PROVE  /\ pc[q] = "replaying" => Replayed(q) \in EvidenceIds
           /\ pc[q] \in {"submitting", "posted", "sinking"} => Current(q) \in EvidenceIds
  <1>1. chosen[q] \in Seq(Nat \ {0}) /\ verdicts[q] \in Seq(Verdicts)
    BY DEF TypeOK
  <1>2. \A i \in 1 .. Len(chosen[q]) : chosen[q][i] \in Accepted(q)
    BY <1>1 DEF SampleInv, Range
  <1>3. Len(verdicts[q]) <= Len(chosen[q])
    BY DEF SampleInv
  <1>4. CASE pc[q] = "replaying"
    <2>1. Len(verdicts[q]) + 1 \in 1 .. Len(chosen[q])
      BY <1>1, <1>4 DEF SampleInv
    <2> QED
      BY <1>2, <1>4, <2>1, EvidenceIdType DEF Replayed
  <1>5. CASE pc[q] \in {"submitting", "posted", "sinking"}
    <2>1. Len(verdicts[q]) \in 1 .. Len(chosen[q])
      BY <1>1, <1>3, <1>5 DEF SampleInv, Mismatched
    <2> QED
      BY <1>2, <1>5, <2>1, EvidenceIdType DEF Current
  <1> QED
    BY <1>4, <1>5

\* The daemon starts with well-typed state.
LEMMA InitType == Init => TypeOK
  <1>1. << >> \in Seq(Nat \ {0}) /\ << >> \in Seq(Verdicts) /\ << >> \in Seq(EvidenceIds)
    OBVIOUS
  <1> QED
    BY <1>1, DaemonAssumption DEF Init, TypeOK

\* After a receipt the handler replays the next one or answers.
LEMMA NextReceiptType ==
    ASSUME NEW s, NEW t
    PROVE  NextReceipt(s, t) \in {"replaying", "ok"}
  BY DEF NextReceipt

\* A draw keeps the types and picks a sample among the drawable ones.
LEMMA DrawType ==
    ASSUME TypeOK, NEW q \in Requests, NEW st \in Stakes, Draw(q, st)
    PROVE  /\ stakes' \in [Requests -> Stakes]
           /\ salt' \in [Requests -> Requests \cup {NoSalt}]
           /\ salts_by_epoch' \in [Epochs -> Requests \cup {NoSalt}]
           /\ chosen' \in [Requests -> Seq(Nat \ {0})]
           /\ \E s \in Drawable(q) : chosen' = [chosen EXCEPT ![q] = s]
  <1>1. get_or_create_salt(Call[q].epoch, q) \in Requests \cup {NoSalt}
    BY DaemonAssumption DEF get_or_create_salt, TypeOK
  <1>2. \E s \in Drawable(q) : chosen' = [chosen EXCEPT ![q] = s]
    BY DEF Draw, Samples
  <1>3. chosen' \in [Requests -> Seq(Nat \ {0})]
    BY <1>2, DrawableIsSequence DEF TypeOK
  <1> QED
    BY <1>1, <1>2, <1>3 DEF Draw, TypeOK

\* run_epoch samples with a stake map.
LEMMA StakesForType ==
    ASSUME NEW q \in Requests
    PROVE  StakesFor(q) \subseteq Stakes
  BY DaemonAssumption DEF StakesFor, get_operator_stakes

\* No step leaves the types; what a handler appends to the list is evidence
\* because it replays accepted receipts only (SampleInv).
LEMMA TypeStep ==
    TypeOK /\ SampleInv /\ [Next]_vars => TypeOK'
  <1> SUFFICES ASSUME TypeOK, SampleInv, [Next]_vars PROVE TypeOK'
    OBVIOUS
  <1> USE DEF handler_vars, process_vars, chain_vars
  <1>1. ASSUME NEW q \in Requests, RejectOversized(q) PROVE TypeOK'
    BY <1>1 DEF RejectOversized, Serve, TypeOK, Ended
  <1>2. ASSUME NEW q \in Requests, Sample(q) PROVE TypeOK'
    <2>1. Call[q].operator_stake \in Stakes
      BY DaemonAssumption
    <2> QED
      BY <1>2, <2>1, DrawType DEF Sample, Serve, TypeOK, Ended
  <1>3. ASSUME NEW q \in Requests, StartReplay(q) PROVE TypeOK'
    <2>1. PICK s \in Injection(1 .. Cardinality(Accepted(q)), Accepted(q)) :
            chosen' = [chosen EXCEPT ![q] = s] /\ Serve(q, NextReceipt(verdicts[q], s))
      BY <1>3 DEF StartReplay
    <2>2. s \in Seq(Nat \ {0})
      BY Positions, SampleIsSequence
    <2> QED
      BY <1>3, <2>1, <2>2, NextReceiptType DEF StartReplay, Serve, TypeOK, Ended, Running
  <1>4. ASSUME NEW q \in Requests, StartRunEpoch(q) PROVE TypeOK'
    <2>1. PICK st \in StakesFor(q) : Draw(q, st)
      BY <1>4 DEF StartRunEpoch
    <2>2. st \in Stakes
      BY StakesForType
    <2> QED
      BY <1>4, <2>1, <2>2, DrawType, NextReceiptType
      DEF StartRunEpoch, Serve, TypeOK, Ended, Running
  <1>5. ASSUME NEW q \in Requests, StakesUnavailable(q) PROVE TypeOK'
    BY <1>5 DEF StakesUnavailable, Serve, TypeOK, Ended
  <1>6. ASSUME NEW q \in Requests, ReplayReturns(q) PROVE TypeOK'
    <2>1. PICK res : ReplayRaises(q, res) \/ VerdictOnly(q, res) \/ EvidenceFound(q, res)
      BY <1>6 DEF ReplayReturns
    <2>2. CASE ReplayRaises(q, res)
      BY <1>6, <2>2 DEF ReplayReturns, ReplayRaises, TypeOK, Ended
    <2>3. CASE VerdictOnly(q, res)
      BY <1>6, <2>3, NextReceiptType DEF ReplayReturns, VerdictOnly, TypeOK, Ended, Running
    <2>4. CASE EvidenceFound(q, res)
      <3>1. Replayed(q) \in EvidenceIds
        BY <1>6, EvidenceType DEF ReplayReturns
      <3> QED
        BY <1>6, <2>4, <3>1 DEF ReplayReturns, EvidenceFound, TypeOK, Running
    <2> QED
      BY <2>1, <2>2, <2>3, <2>4
  <1>7. ASSUME NEW q \in Requests, AfterSubmission(q) \notin {"sinking", "replaying", "ok"}
        PROVE FALSE
    BY <1>7, NextReceiptType DEF AfterSubmission
  <1>8. ASSUME NEW q \in Requests, NodeUnreachable(q) PROVE TypeOK'
    BY <1>7, <1>8 DEF NodeUnreachable, Release, TypeOK, Ended, Running
  <1>9. ASSUME NEW q \in Requests, EncodeRaises(q) PROVE TypeOK'
    BY <1>9 DEF EncodeRaises, Release, TypeOK, Ended
  <1>10. ASSUME NEW q \in Requests, PostExtrinsic(q) PROVE TypeOK'
    BY <1>10, EvidenceType DEF PostExtrinsic, TypeOK, Running
  <1>11. ASSUME NEW q \in Requests, PostConfirmed(q) PROVE TypeOK'
    BY <1>7, <1>11 DEF PostConfirmed, Release, TypeOK, Ended, Running
  <1>12. ASSUME NEW q \in Requests, PostUnconfirmed(q) PROVE TypeOK'
    BY <1>7, <1>12 DEF PostUnconfirmed, Release, TypeOK, Ended, Running
  <1>13. ASSUME NEW q \in Requests, PostRaises(q) PROVE TypeOK'
    BY <1>13 DEF PostRaises, Release, TypeOK, Ended
  <1>14. ASSUME NEW q \in Requests, SinkReturns(q) PROVE TypeOK'
    BY <1>14, NextReceiptType DEF SinkReturns, TypeOK, Ended, Running
  <1>15. ASSUME NEW e \in wire, NodeTakes(e) PROVE TypeOK'
    BY <1>15 DEF NodeTakes, TypeOK
  <1>16. ASSUME Crash PROVE TypeOK'
    <2>1. << >> \in Seq(EvidenceIds)
      OBVIOUS
    <2> QED
      BY <1>16, <2>1, DaemonAssumption DEF Crash, TypeOK, Ended
  <1>17. CASE UNCHANGED vars
    BY <1>17 DEF vars, TypeOK
  <1> QED
    BY <1>1, <1>2, <1>3, <1>4, <1>5, <1>6, <1>8, <1>9, <1>10, <1>11, <1>12, <1>13,
       <1>14, <1>15, <1>16, <1>17
    DEF Next, Arrive, Submit

-----------------------------------------------------------------------------
(* What is known of the handlers' local variables.                           *)

\* At the start nobody holds the event loop and no request has left a trace.
LEMMA InitHandlers == Init => LoopInv /\ ServedInv /\ SampleInv
  BY DaemonAssumption
  DEF Init, LoopInv, ServedInv, SampleInv, Running, IsInjective, Range, Mismatched

\* What the arrival of a request changes: it is served, and a sequence of
\* distinct accepted positions becomes its work.
LEMMA ArriveEffect ==
    ASSUME TypeOK, ServedInv, NEW q \in Requests, Arrive(q)
    PROVE  /\ pc[q] = "unsent" /\ loop = Idle
           /\ UNCHANGED <<verdicts, queued_locally, submitted_to_chain, loop,
                          slashing_submitted, sink_status_counts, crashes, wire, landed>>
           /\ \E at \in {"413", "503", "ok", "replaying"}, s \in Seq(Nat \ {0}) :
                /\ Serve(q, at)
                /\ chosen' = [chosen EXCEPT ![q] = s]
                /\ IsInjective(s) /\ Range(s) \subseteq Accepted(q)
                /\ at = "replaying" => Len(s) > 0
                /\ at = "ok" /\ Call[q].handler # "sample" => Len(s) = 0
  <1> USE DEF handler_vars, process_vars, chain_vars
  <1>1. /\ pc[q] = "unsent" /\ loop = Idle
        /\ UNCHANGED <<verdicts, queued_locally, submitted_to_chain, loop,
                       slashing_submitted, sink_status_counts, crashes, wire, landed>>
    BY DEF Arrive, Arrives, RejectOversized, Sample, StartReplay, StartRunEpoch,
           StakesUnavailable
  <1>2. verdicts[q] = << >> /\ chosen[q] = << >>
    BY <1>1 DEF ServedInv
  <1>3. ASSUME NEW s \in Seq(Nat \ {0}), Serve(q, NextReceipt(verdicts[q], s)),
               chosen' = [chosen EXCEPT ![q] = s],
               IsInjective(s) /\ Range(s) \subseteq Accepted(q)
        PROVE  \E at \in {"413", "503", "ok", "replaying"}, t \in Seq(Nat \ {0}) :
                 /\ Serve(q, at)
                 /\ chosen' = [chosen EXCEPT ![q] = t]
                 /\ IsInjective(t) /\ Range(t) \subseteq Accepted(q)
                 /\ at = "replaying" => Len(t) > 0
                 /\ at = "ok" /\ Call[q].handler # "sample" => Len(t) = 0
    <2>1. CASE Len(s) > 0
      <3>1. NextReceipt(verdicts[q], s) = "replaying"
        BY <1>2, <2>1 DEF NextReceipt
      <3> QED
        BY <1>3, <2>1, <3>1
    <2>2. CASE Len(s) = 0
      <3>1. NextReceipt(verdicts[q], s) = "ok"
        BY <1>2, <2>2 DEF NextReceipt
      <3> QED
        BY <1>3, <2>2, <3>1
    <2>3. Len(s) \in Nat
      BY <1>3
    <2> QED
      BY <2>1, <2>2, <2>3, SMTT(30)
  <1>4. CASE RejectOversized(q) \/ StakesUnavailable(q)
    <2>1. PICK at \in {"413", "503"} : Serve(q, at) /\ chosen' = chosen
      BY <1>4 DEF RejectOversized, StakesUnavailable
    <2>2. << >> \in Seq(Nat \ {0}) /\ IsInjective(<< >>) /\ Range(<< >>) = {}
      BY DEF IsInjective, Range
    <2>3. chosen' = [chosen EXCEPT ![q] = << >>]
      BY <1>2, <2>1 DEF TypeOK
    <2> QED
      BY <1>1, <2>1, <2>2, <2>3
  <1>5. CASE Sample(q)
    <2>1. PICK s \in Drawable(q) : chosen' = [chosen EXCEPT ![q] = s]
      BY <1>5 DEF Sample, Draw, Samples
    <2>2. Serve(q, "ok") /\ Call[q].handler = "sample"
      BY <1>5 DEF Sample
    <2> QED
      BY <1>1, <2>1, <2>2, DrawableIsSequence
  <1>6. CASE StartReplay(q)
    <2>1. PICK s \in Injection(1 .. Cardinality(Accepted(q)), Accepted(q)) :
            chosen' = [chosen EXCEPT ![q] = s] /\ Serve(q, NextReceipt(verdicts[q], s))
      BY <1>6 DEF StartReplay
    <2>2. s \in Seq(Nat \ {0}) /\ IsInjective(s) /\ Range(s) \subseteq Accepted(q)
      BY Positions, SampleIsSequence
    <2> QED
      BY <1>1, <1>3, <2>1, <2>2
  <1>7. CASE StartRunEpoch(q)
    <2>1. PICK s \in Drawable(q) : chosen' = [chosen EXCEPT ![q] = s]
      BY <1>7 DEF StartRunEpoch, Draw, Samples
    <2>2. s \in Seq(Nat \ {0}) /\ IsInjective(s) /\ Range(s) \subseteq Accepted(q)
      BY DrawableIsSequence
    <2>3. chosen'[q] = s
      BY <2>1 DEF TypeOK
    <2>4. Serve(q, NextReceipt(verdicts[q], s))
      BY <1>7, <2>3 DEF StartRunEpoch
    <2> QED
      BY <1>1, <1>3, <2>1, <2>2, <2>4
  <1> QED
    BY <1>4, <1>5, <1>6, <1>7 DEF Arrive

\* Only a draw touches salts and stakes.
LEMMA DrawOrNot ==
    ASSUME NEW q \in Requests, Arrive(q)
    PROVE  \/ UNCHANGED <<stakes, salt, salts_by_epoch>>
           \/ \E st \in Stakes : Draw(q, st)
  <1> USE DEF handler_vars, process_vars, chain_vars
  <1>1. CASE RejectOversized(q) \/ StartReplay(q) \/ StakesUnavailable(q)
    BY <1>1 DEF RejectOversized, StartReplay, StakesUnavailable
  <1>2. CASE Sample(q)
    BY <1>2, DaemonAssumption DEF Sample
  <1>3. CASE StartRunEpoch(q)
    BY <1>3, StakesForType DEF StartRunEpoch
  <1> QED
    BY <1>1, <1>2, <1>3 DEF Arrive

\* What a step of a submission changes: neither the work nor the list.
LEMMA SubmitEffect ==
    ASSUME NEW q \in Requests, Submit(q)
    PROVE  /\ pc[q] \in {"submitting", "posted"}
           /\ UNCHANGED <<stakes, salt, chosen, verdicts, queued_locally,
                          slashing_submitted, salts_by_epoch, sink_status_counts,
                          served, crashes, landed>>
           /\ \/ /\ PostExtrinsic(q)
                 /\ pc[q] = "submitting" /\ pc' = [pc EXCEPT ![q] = "posted"]
                 /\ wire' = wire \cup {Current(q)}
                 /\ UNCHANGED <<loop, submitted_to_chain>>
              \/ /\ \E at \in {"sinking", "submit_raised",
                               NextReceipt(verdicts[q], chosen[q])} :
                       Release(q, at)
                 /\ \/ UNCHANGED submitted_to_chain
                    \/ /\ pc[q] = "posted" /\ Current(q) \in landed
                       /\ submitted_to_chain' = [submitted_to_chain EXCEPT ![q] = @ + 1]
                 /\ UNCHANGED wire
  <1> USE DEF handler_vars, process_vars, chain_vars
  <1>1. AfterSubmission(q) \in {"sinking", NextReceipt(verdicts[q], chosen[q])}
    BY DEF AfterSubmission
  <1>2. CASE NodeUnreachable(q)
    BY <1>1, <1>2 DEF NodeUnreachable
  <1>3. CASE EncodeRaises(q)
    BY <1>3 DEF EncodeRaises
  <1>4. CASE PostExtrinsic(q)
    BY <1>4 DEF PostExtrinsic
  <1>5. CASE PostConfirmed(q)
    BY <1>1, <1>5 DEF PostConfirmed
  <1>6. CASE PostUnconfirmed(q)
    BY <1>1, <1>6 DEF PostUnconfirmed
  <1>7. CASE PostRaises(q)
    BY <1>7 DEF PostRaises
  <1> QED
    BY <1>2, <1>3, <1>4, <1>5, <1>6, <1>7 DEF Submit

\* Taking the loop (a mismatch was found) and releasing it (the submission is
\* over) go with the handler's entry into and exit from the call to the node.
LEMMA LoopStep ==
    TypeOK /\ LoopInv /\ ServedInv /\ [Next]_vars => LoopInv'
  <1> SUFFICES ASSUME TypeOK, LoopInv, ServedInv, [Next]_vars PROVE LoopInv'
    OBVIOUS
  <1>0. pc \in [Requests -> {"unsent"} \cup Running \cup Ended] /\ Idle \notin Requests
    BY DaemonAssumption DEF TypeOK
  <1> USE DEF LoopInv, handler_vars, process_vars, chain_vars
  <1>1. ASSUME NEW q \in Requests, Arrive(q) PROVE LoopInv'
    <2>1. PICK at \in {"413", "503", "ok", "replaying"} : Serve(q, at)
      BY <1>1, ArriveEffect
    <2>2. pc[q] = "unsent" /\ loop' = loop
      BY <1>1, ArriveEffect
    <2> QED
      BY <1>0, <2>1, <2>2 DEF Serve
  <1>2. ASSUME NEW q \in Requests, ReplayReturns(q) PROVE LoopInv'
    BY <1>0, <1>2, NextReceiptType
    DEF ReplayReturns, ReplayRaises, VerdictOnly, EvidenceFound
  <1>3. ASSUME NEW q \in Requests, Submit(q) PROVE LoopInv'
    <2>1. CASE pc' = [pc EXCEPT ![q] = "posted"] /\ loop' = loop
      BY <1>0, <1>3, <2>1, SubmitEffect
    <2>2. CASE \E at \in {"sinking", "submit_raised", "replaying", "ok"} : Release(q, at)
      BY <1>0, <1>3, <2>2, SubmitEffect DEF Release
    <2> QED
      BY <1>3, <2>1, <2>2, SubmitEffect, NextReceiptType
  <1>4. ASSUME NEW q \in Requests, SinkReturns(q) PROVE LoopInv'
    BY <1>0, <1>4, NextReceiptType DEF SinkReturns
  <1>5. ASSUME NEW e \in wire, NodeTakes(e) PROVE LoopInv'
    BY <1>5 DEF NodeTakes
  <1>6. ASSUME Crash PROVE LoopInv'
    BY <1>0, <1>6 DEF Crash, Running
  <1>7. CASE UNCHANGED vars
    BY <1>7 DEF vars
  <1> QED
    BY <1>1, <1>2, <1>3, <1>4, <1>5, <1>6, <1>7 DEF Next

\* Handlers start in this process, and a crash ends all that run.
LEMMA ServedStep ==
    TypeOK /\ ServedInv /\ [Next]_vars => ServedInv'
  <1> SUFFICES ASSUME TypeOK, ServedInv, [Next]_vars PROVE ServedInv'
    OBVIOUS
  <1>0. /\ pc \in [Requests -> {"unsent"} \cup Running \cup Ended]
        /\ \A v \in {salt, chosen, verdicts, queued_locally, submitted_to_chain} :
             v = [q \in Requests |-> v[q]]
    BY DEF TypeOK
  <1> USE DEF ServedInv, Running, handler_vars, process_vars, chain_vars
  <1>1. ASSUME NEW q \in Requests, Arrive(q) PROVE ServedInv'
    <2>1. PICK at \in {"413", "503", "ok", "replaying"}, s \in Seq(Nat \ {0}) :
            Serve(q, at) /\ chosen' = [chosen EXCEPT ![q] = s]
      BY <1>1, ArriveEffect
    <2>2. UNCHANGED <<verdicts, queued_locally, submitted_to_chain>>
      BY <1>1, ArriveEffect
    <2>3. \A p \in Requests \ {q} : salt'[p] = salt[p]
      BY <1>0, <1>1, DrawOrNot DEF Draw
    <2> QED
      BY <1>0, <2>1, <2>2, <2>3 DEF Serve
  <1>2. ASSUME NEW q \in Requests, ReplayReturns(q) PROVE ServedInv'
    BY <1>0, <1>2, NextReceiptType
    DEF ReplayReturns, ReplayRaises, VerdictOnly, EvidenceFound
  <1>3. ASSUME NEW q \in Requests, Submit(q) PROVE ServedInv'
    <2>1. /\ pc[q] \in {"submitting", "posted"}
          /\ UNCHANGED <<salt, chosen, verdicts, queued_locally, served>>
          /\ \A p \in Requests \ {q} : submitted_to_chain'[p] = submitted_to_chain[p]
      BY <1>0, <1>3, SubmitEffect
    <2>2. PICK at \in {"sinking", "replaying", "ok", "submit_raised", "posted"} :
            pc' = [pc EXCEPT ![q] = at]
      BY <1>3, SubmitEffect, NextReceiptType DEF Release
    <2> QED
      BY <1>0, <2>1, <2>2
  <1>4. ASSUME NEW q \in Requests, SinkReturns(q) PROVE ServedInv'
    BY <1>0, <1>4, NextReceiptType DEF SinkReturns
  <1>5. ASSUME NEW e \in wire, NodeTakes(e) PROVE ServedInv'
    BY <1>5 DEF NodeTakes
  <1>6. ASSUME Crash PROVE ServedInv'
    BY <1>0, <1>6 DEF Crash
  <1>7. CASE UNCHANGED vars
    BY <1>7 DEF vars
  <1> QED
    BY <1>1, <1>2, <1>3, <1>4, <1>5, <1>6, <1>7 DEF Next

\* A handler that moves on without a new verdict keeps SampleInv, if it moves on
\* to where its verdicts allow.
LEMMA SampleKept ==
    ASSUME TypeOK, SampleInv, UNCHANGED <<chosen, verdicts>>,
           \A q \in Requests :
             \/ pc'[q] = pc[q]
             \/ pc'[q] \notin {"replaying", "submitting", "posted", "sinking"}
             \/ /\ pc'[q] \in {"posted", "sinking"}
                /\ pc[q] \in {"submitting", "posted", "sinking"}
             \/ pc'[q] = NextReceipt(verdicts[q], chosen[q])
    PROVE  SampleInv'
  <1> SUFFICES ASSUME NEW q \in Requests
      PROVE  /\ IsInjective(chosen[q])
             /\ Range(chosen[q]) \subseteq Accepted(q)
             /\ Len(verdicts[q]) <= Len(chosen[q])
             /\ pc'[q] = "replaying" => Len(verdicts[q]) < Len(chosen[q])
             /\ pc'[q] \in {"submitting", "posted", "sinking"} =>
                  Len(verdicts[q]) \in Mismatched(q)
    BY DEF SampleInv, Mismatched
  <1> QED
    BY DEF SampleInv, NextReceipt

\* A new verdict on the receipt at its turn keeps SampleInv.
LEMMA VerdictKept ==
    ASSUME TypeOK, SampleInv, NEW q \in Requests, pc[q] = "replaying",
           NEW res \in Verdicts, UNCHANGED chosen,
           verdicts' = [verdicts EXCEPT ![q] = Append(@, res)],
           NEW at, pc' = [pc EXCEPT ![q] = at],
           \/ at = NextReceipt(verdicts'[q], chosen[q])
           \/ at = "submitting" /\ Slashes(q, res)
    PROVE  SampleInv'
  <1>1. verdicts[q] \in Seq(Verdicts) /\ chosen[q] \in Seq(Nat \ {0})
    BY DEF TypeOK
  <1>2. verdicts'[q] = Append(verdicts[q], res)
    BY DEF TypeOK
  <1>3. /\ Len(verdicts'[q]) = Len(verdicts[q]) + 1
        /\ Len(verdicts'[q]) \in DOMAIN verdicts'[q]
        /\ verdicts'[q][Len(verdicts'[q])] = res
    BY <1>1, <1>2
  <1>4. Len(verdicts[q]) < Len(chosen[q])
    BY DEF SampleInv
  <1> SUFFICES ASSUME NEW p \in Requests
      PROVE  /\ IsInjective(chosen[p])
             /\ Range(chosen[p]) \subseteq Accepted(p)
             /\ Len(verdicts'[p]) <= Len(chosen[p])
             /\ pc'[p] = "replaying" => Len(verdicts'[p]) < Len(chosen[p])
             /\ pc'[p] \in {"submitting", "posted", "sinking"} =>
                  Len(verdicts'[p]) \in Mismatched(p)'
    BY DEF SampleInv
  <1>5. CASE p # q
    BY <1>5 DEF SampleInv, Mismatched, TypeOK
  <1>6. CASE p = q
    <2>1. pc'[q] = at
      BY DEF TypeOK
    <2>2. Len(verdicts'[q]) <= Len(chosen[q])
      BY <1>1, <1>3, <1>4
    <2>3. at = "replaying" => Len(verdicts'[q]) < Len(chosen[q])
      BY DEF NextReceipt
    <2>4. at \in {"submitting", "posted", "sinking"} => Slashes(q, res)
      BY DEF NextReceipt
    <2>5. Slashes(q, res) => Len(verdicts'[q]) \in Mismatched(q)'
      BY <1>3 DEF Slashes, Mismatched
    <2> QED
      BY <1>6, <2>1, <2>2, <2>3, <2>4, <2>5 DEF SampleInv
  <1> QED
    BY <1>5, <1>6

\* A handler never replays more than its sample and reaches the node only with
\* the evidence of its last verdict.
LEMMA SampleStep ==
    TypeOK /\ ServedInv /\ SampleInv /\ [Next]_vars => SampleInv'
  <1> SUFFICES ASSUME TypeOK, ServedInv, SampleInv, [Next]_vars PROVE SampleInv'
    OBVIOUS
  <1>0. pc = [q \in Requests |-> pc[q]]
    BY DEF TypeOK
  <1> USE DEF handler_vars, process_vars, chain_vars
  <1>1. ASSUME NEW q \in Requests, Arrive(q) PROVE SampleInv'
    <2>1. PICK at \in {"413", "503", "ok", "replaying"}, s \in Seq(Nat \ {0}) :
            /\ Serve(q, at)
            /\ chosen' = [chosen EXCEPT ![q] = s]
            /\ IsInjective(s) /\ Range(s) \subseteq Accepted(q)
            /\ at = "replaying" => Len(s) > 0
      BY <1>1, ArriveEffect
    <2>2. UNCHANGED verdicts /\ Len(verdicts[q]) = 0
      BY <1>1, ArriveEffect DEF ServedInv
    <2>3. Len(s) \in Nat
      BY <2>1
    <2> QED
      BY <1>0, <2>1, <2>2, <2>3 DEF Serve, SampleInv, TypeOK, Mismatched
  <1>2. ASSUME NEW q \in Requests, ReplayReturns(q) PROVE SampleInv'
    <2>1. PICK res : ReplayRaises(q, res) \/ VerdictOnly(q, res) \/ EvidenceFound(q, res)
      BY <1>2 DEF ReplayReturns
    <2>2. UNCHANGED chosen /\ pc[q] = "replaying"
      BY <1>2 DEF ReplayReturns
    <2>3. CASE ReplayRaises(q, res)
      BY <1>0, <2>2, <2>3, SampleKept DEF ReplayRaises
    <2>4. CASE VerdictOnly(q, res)
      BY <2>2, <2>4, VerdictKept DEF VerdictOnly
    <2>5. CASE EvidenceFound(q, res)
      BY <2>2, <2>5, VerdictKept DEF EvidenceFound
    <2> QED
      BY <2>1, <2>3, <2>4, <2>5
  <1>3. ASSUME NEW q \in Requests, Submit(q) PROVE SampleInv'
    <2>1. PICK at \in {"posted", "sinking", "submit_raised",
                       NextReceipt(verdicts[q], chosen[q])} :
            pc' = [pc EXCEPT ![q] = at]
      BY <1>3, SubmitEffect DEF Release
    <2>2. UNCHANGED <<chosen, verdicts>> /\ pc[q] \in {"submitting", "posted"}
      BY <1>3, SubmitEffect
    <2> QED
      BY <1>0, <2>1, <2>2, SampleKept
  <1>4. ASSUME NEW q \in Requests, SinkReturns(q) PROVE SampleInv'
    BY <1>0, <1>4, SampleKept DEF SinkReturns
  <1>5. ASSUME NEW e \in wire, NodeTakes(e) PROVE SampleInv'
    BY <1>5, SampleKept DEF NodeTakes
  <1>6. ASSUME Crash PROVE SampleInv'
    BY <1>0, <1>6, SampleKept DEF Crash
  <1>7. CASE UNCHANGED vars
    BY <1>7, SampleKept DEF vars
  <1> QED
    BY <1>1, <1>2, <1>3, <1>4, <1>5, <1>6, <1>7 DEF Next

-----------------------------------------------------------------------------
(* Evidence: what a step adds to it.                                         *)

\* Steps that give no verdict produce no evidence.
LEMMA SameEvidence ==
    ASSUME UNCHANGED <<chosen, verdicts>>
    PROVE  /\ \A q \in Requests : Mismatched(q)' = Mismatched(q)
           /\ \A q \in Requests : EvidenceOf(q)' = EvidenceOf(q)
           /\ Produced' = Produced
  <1>1. \A q \in Requests : Mismatched(q)' = Mismatched(q)
    BY DEF Mismatched
  <1>2. \A q \in Requests : EvidenceOf(q)' = EvidenceOf(q)
    BY <1>1 DEF EvidenceOf
  <1> QED
    BY <1>1, <1>2 DEF Produced

\* An arriving request had no evidence and has none yet.
LEMMA ArriveEvidence ==
    ASSUME TypeOK, ServedInv, NEW q \in Requests, Arrive(q)
    PROVE  /\ \A p \in Requests : Mismatched(p)' = Mismatched(p)
           /\ \A p \in Requests : EvidenceOf(p)' = EvidenceOf(p)
           /\ EvidenceOf(q) = {}
           /\ Produced' = Produced
  <1>1. UNCHANGED verdicts /\ verdicts[q] = << >>
    BY ArriveEffect DEF ServedInv
  <1>2. \A p \in Requests \ {q} : chosen'[p] = chosen[p]
    BY ArriveEffect, ZenonT(60) DEF TypeOK
  <1>3. \A p \in Requests : Mismatched(p)' = Mismatched(p)
    BY <1>1 DEF Mismatched
  <1>4. Mismatched(q) = {}
    BY <1>1 DEF Mismatched
  <1>5. \A p \in Requests : EvidenceOf(p)' = EvidenceOf(p)
    BY <1>2, <1>3, <1>4 DEF EvidenceOf
  <1> QED
    BY <1>3, <1>4, <1>5 DEF EvidenceOf, Produced

\* A verdict adds the replayed receipt, and adds it as new, if it slashes.
LEMMA VerdictEvidence ==
    ASSUME TypeOK, SampleInv, NEW q \in Requests, pc[q] = "replaying",
           NEW res \in Verdicts, UNCHANGED chosen,
           verdicts' = [verdicts EXCEPT ![q] = Append(@, res)]
    PROVE  /\ \A p \in Requests \ {q} :
                Mismatched(p)' = Mismatched(p) /\ EvidenceOf(p)' = EvidenceOf(p)
           /\ Len(verdicts[q]) + 1 \notin Mismatched(q)
           /\ Replayed(q) \notin Produced
           /\ Slashes(q, res) =>
                /\ Mismatched(q)' = Mismatched(q) \cup {Len(verdicts[q]) + 1}
                /\ EvidenceOf(q)' = EvidenceOf(q) \cup {Replayed(q)}
                /\ Current(q)' = Replayed(q)
           /\ ~Slashes(q, res) =>
                /\ Mismatched(q)' = Mismatched(q)
                /\ EvidenceOf(q)' = EvidenceOf(q)
  <1> DEFINE n == Len(verdicts[q])
  <1>1. /\ verdicts[q] \in Seq(Verdicts) /\ chosen[q] \in Seq(Nat \ {0})
        /\ verdicts'[q] = Append(verdicts[q], res)
        /\ \A p \in Requests \ {q} : verdicts'[p] = verdicts[p]
    BY DEF TypeOK
  <1>2. /\ n \in Nat
        /\ DOMAIN verdicts[q] = 1 .. n
        /\ DOMAIN verdicts'[q] = 1 .. n + 1
        /\ Len(verdicts'[q]) = n + 1
        /\ verdicts'[q][n + 1] = res
        /\ \A i \in 1 .. n : verdicts'[q][i] = verdicts[q][i]
    BY <1>1
  <1>3. \A p \in Requests \ {q} :
          Mismatched(p)' = Mismatched(p) /\ EvidenceOf(p)' = EvidenceOf(p)
    BY <1>1 DEF Mismatched, EvidenceOf
  <1>4. Mismatched(q) \subseteq 1 .. n
    BY <1>2 DEF Mismatched
  <1>5. Replayed(q) \notin Produced
    <2>1. n + 1 \in DOMAIN chosen[q] /\ 1 .. n \subseteq DOMAIN chosen[q]
      BY <1>1, <1>2 DEF SampleInv
    <2>2. \A i \in 1 .. n : chosen[q][i] # chosen[q][n + 1]
      BY <1>2, <2>1 DEF SampleInv, IsInjective
    <2>3. Replayed(q) \notin EvidenceOf(q)
      BY <1>4, <2>2 DEF EvidenceOf, Replayed
    <2>4. \A p \in Requests \ {q} : Replayed(q) \notin EvidenceOf(p)
      BY DEF EvidenceOf, Replayed
    <2> QED
      BY <2>3, <2>4 DEF Produced
  <1>6. Slashes(q, res) <=> (Call[q].handler = "run_epoch" /\ res.verdict = "mismatch")
    BY DEF Slashes, Verdicts, Match, Mismatch, Skipped, NoFault
  <1>7. ASSUME Slashes(q, res)
        PROVE  /\ Mismatched(q)' = Mismatched(q) \cup {n + 1}
               /\ EvidenceOf(q)' = EvidenceOf(q) \cup {Replayed(q)}
               /\ Current(q)' = Replayed(q)
    <2>1. Mismatched(q)' = Mismatched(q) \cup {n + 1}
      BY <1>2, <1>6, <1>7 DEF Mismatched
    <2> QED
      BY <1>2, <2>1 DEF EvidenceOf, Replayed, Current
  <1>8. ASSUME ~Slashes(q, res)
        PROVE  Mismatched(q)' = Mismatched(q) /\ EvidenceOf(q)' = EvidenceOf(q)
    <2>1. Mismatched(q)' = Mismatched(q)
      BY <1>2, <1>6, <1>8 DEF Mismatched
    <2> QED
      BY <2>1 DEF EvidenceOf
  <1> QED
    BY <1>2, <1>3, <1>4, <1>5, <1>7, <1>8

-----------------------------------------------------------------------------
(* The in-memory list.                                                       *)

\* Appending what is not in a list adds it to its elements and no duplicate.
LEMMA AppendNew ==
    ASSUME NEW S, NEW s \in Seq(S), NEW e \in S, e \notin Range(s)
    PROVE  /\ Range(Append(s, e)) = Range(s) \cup {e}
           /\ IsInjective(s) => IsInjective(Append(s, e))
  <1> DEFINE t == Append(s, e)
  <1>1. /\ Len(s) \in Nat
        /\ DOMAIN s = 1 .. Len(s)
        /\ DOMAIN t = 1 .. Len(s) + 1
        /\ t[Len(s) + 1] = e
        /\ \A i \in 1 .. Len(s) : t[i] = s[i]
    OBVIOUS
  <1>2. Range(t) = Range(s) \cup {e}
    <2>1. DOMAIN t = DOMAIN s \cup {Len(s) + 1}
      BY <1>1
    <2> QED
      BY <1>1, <2>1 DEF Range
  <1>3. ASSUME IsInjective(s), NEW i \in DOMAIN t, NEW j \in DOMAIN t, t[i] = t[j]
        PROVE  i = j
    <2>1. CASE i \in 1 .. Len(s) /\ j \in 1 .. Len(s)
      BY <1>1, <1>3, <2>1 DEF IsInjective
    <2>2. ASSUME NEW k \in 1 .. Len(s) PROVE t[k] # e
      BY <1>1, <2>2 DEF Range
    <2>3. CASE i = Len(s) + 1 \/ j = Len(s) + 1
      BY <1>1, <1>3, <2>2, <2>3
    <2> QED
      BY <1>1, <2>1, <2>3
  <1> QED
    BY <1>2, <1>3 DEF IsInjective

\* Only requests this process serves have evidence in its list.
ServedEvidence == UNION {EvidenceOf(q) : q \in served}

\* A mismatch enters the list with its verdict, and a crash forgets both the
\* list and who was served; nothing else touches either.
LEMMA RetainedStep ==
    TypeOK /\ ServedInv /\ SampleInv /\ RetainedIsProduced /\ [Next]_vars
        => RetainedIsProduced'
  <1> SUFFICES ASSUME TypeOK, ServedInv, SampleInv, RetainedIsProduced, [Next]_vars
               PROVE  RetainedIsProduced'
    OBVIOUS
  <1>0. served \subseteq Requests /\ slashing_submitted \in Seq(EvidenceIds)
    BY DEF TypeOK
  <1>k. ASSUME UNCHANGED <<chosen, verdicts, served, slashing_submitted>>
        PROVE  RetainedIsProduced'
    BY <1>0, <1>k, SameEvidence DEF RetainedIsProduced, Retained
  <1> USE DEF handler_vars, process_vars, chain_vars
  <1>1. ASSUME NEW q \in Requests, Arrive(q) PROVE RetainedIsProduced'
    <2>1. served' = served \cup {q} /\ UNCHANGED slashing_submitted
      BY <1>1, ArriveEffect DEF Serve
    <2>2. ServedEvidence' = ServedEvidence
      BY <1>0, <1>1, <2>1, ArriveEvidence DEF ServedEvidence
    <2> QED
      BY <2>1, <2>2 DEF RetainedIsProduced, Retained, ServedEvidence
  <1>2. ASSUME NEW q \in Requests, ReplayReturns(q) PROVE RetainedIsProduced'
    <2>1. PICK res : ReplayRaises(q, res) \/ VerdictOnly(q, res) \/ EvidenceFound(q, res)
      BY <1>2 DEF ReplayReturns
    <2>2. UNCHANGED <<chosen, served>> /\ pc[q] = "replaying"
      BY <1>2 DEF ReplayReturns
    <2>3. CASE ReplayRaises(q, res)
      BY <1>k, <2>2, <2>3 DEF ReplayRaises
    <2>4. CASE VerdictOnly(q, res)
      <3>1. \A p \in Requests : EvidenceOf(p)' = EvidenceOf(p)
        BY <2>2, <2>4, VerdictEvidence DEF VerdictOnly
      <3>2. UNCHANGED slashing_submitted
        BY <2>4 DEF VerdictOnly
      <3> QED
        BY <1>0, <2>2, <3>1, <3>2 DEF RetainedIsProduced, Retained
    <2>5. CASE EvidenceFound(q, res)
      <3>1. /\ \A p \in Requests \ {q} : EvidenceOf(p)' = EvidenceOf(p)
            /\ EvidenceOf(q)' = EvidenceOf(q) \cup {Replayed(q)}
            /\ Replayed(q) \notin Produced
        BY <2>2, <2>5, VerdictEvidence DEF EvidenceFound
      <3>2. slashing_submitted' = Append(slashing_submitted, Replayed(q))
        BY <2>5 DEF EvidenceFound
      <3>3. q \in served
        BY <2>2 DEF ServedInv, Running
      <3>4. ServedEvidence' = ServedEvidence \cup {Replayed(q)}
        BY <1>0, <2>2, <3>1, <3>3 DEF ServedEvidence
      <3>5. Replayed(q) \notin Range(slashing_submitted)
        BY <1>0, <3>1 DEF RetainedIsProduced, Retained, Produced
      <3>6. Replayed(q) \in EvidenceIds
        BY <2>2, EvidenceType
      <3> QED
        BY <1>0, <3>2, <3>4, <3>5, <3>6, AppendNew
        DEF RetainedIsProduced, Retained, ServedEvidence
    <2> QED
      BY <2>1, <2>3, <2>4, <2>5
  <1>3. ASSUME NEW q \in Requests, Submit(q) PROVE RetainedIsProduced'
    BY <1>k, <1>3, SubmitEffect
  <1>4. ASSUME NEW q \in Requests, SinkReturns(q) PROVE RetainedIsProduced'
    BY <1>k, <1>4 DEF SinkReturns
  <1>5. ASSUME NEW e \in wire, NodeTakes(e) PROVE RetainedIsProduced'
    BY <1>k, <1>5 DEF NodeTakes
  <1>6. ASSUME Crash PROVE RetainedIsProduced'
    BY <1>6 DEF Crash, RetainedIsProduced, Retained, Range, IsInjective
  <1>7. CASE UNCHANGED vars
    BY <1>k, <1>7 DEF vars
  <1> QED
    BY <1>1, <1>2, <1>3, <1>4, <1>5, <1>6, <1>7 DEF Next

-----------------------------------------------------------------------------
(* The way to the node.                                                      *)

\* Only the evidence at hand is sent, at its first and only submission, and the
\* node moves it from the wire to what it took.
LEMMA ChainStep ==
    /\ TypeOK /\ LoopInv /\ ServedInv /\ SampleInv /\ ChainInv /\ [Next]_vars
    => ChainInv'
  <1> SUFFICES ASSUME TypeOK, LoopInv, ServedInv, SampleInv, ChainInv, [Next]_vars
               PROVE  ChainInv'
    OBVIOUS
  <1>0. pc = [q \in Requests |-> pc[q]] /\ Idle \notin Requests
    BY DaemonAssumption DEF TypeOK
  <1>k. ASSUME UNCHANGED <<chosen, verdicts, wire, landed>>,
               \A q \in Requests : pc'[q] = "submitting" => pc[q] = "submitting"
        PROVE  ChainInv'
    BY <1>k, SameEvidence DEF ChainInv, Current
  <1> USE DEF handler_vars, process_vars, chain_vars
  <1>1. ASSUME NEW q \in Requests, Arrive(q) PROVE ChainInv'
    <2>1. PICK at \in {"413", "503", "ok", "replaying"}, s \in Seq(Nat \ {0}) :
            Serve(q, at) /\ chosen' = [chosen EXCEPT ![q] = s]
      BY <1>1, ArriveEffect
    <2>2. UNCHANGED <<verdicts, wire, landed>>
      BY <1>1, ArriveEffect
    <2>3. \A p \in Requests :
            pc'[p] = "submitting" => pc[p] = "submitting" /\ Current(p)' = Current(p)
      BY <1>0, <2>1, <2>2 DEF Serve, Current, TypeOK
    <2> QED
      BY <1>1, <2>2, <2>3, ArriveEvidence DEF ChainInv
  <1>2. ASSUME NEW q \in Requests, ReplayReturns(q) PROVE ChainInv'
    <2>1. PICK res : ReplayRaises(q, res) \/ VerdictOnly(q, res) \/ EvidenceFound(q, res)
      BY <1>2 DEF ReplayReturns
    <2>2. UNCHANGED <<chosen, wire, landed>> /\ pc[q] = "replaying" /\ loop = Idle
      BY <1>2 DEF ReplayReturns
    <2>3. \A p \in Requests : pc[p] # "submitting"
      BY <1>0, <2>2 DEF LoopInv
    <2>4. CASE ReplayRaises(q, res)
      BY <1>0, <1>k, <2>2, <2>4 DEF ReplayRaises
    <2>5. CASE VerdictOnly(q, res)
      <3>1. \A p \in Requests : EvidenceOf(p)' = EvidenceOf(p)
        BY <2>2, <2>5, VerdictEvidence DEF VerdictOnly
      <3>2. Produced' = Produced
        BY <3>1 DEF Produced
      <3>3. \A p \in Requests : pc'[p] # "submitting"
        BY <1>0, <2>3, <2>5, NextReceiptType DEF VerdictOnly
      <3> QED
        BY <2>2, <3>2, <3>3 DEF ChainInv
    <2>6. CASE EvidenceFound(q, res)
      <3>1. /\ \A p \in Requests \ {q} : EvidenceOf(p)' = EvidenceOf(p)
            /\ EvidenceOf(q)' = EvidenceOf(q) \cup {Replayed(q)}
            /\ Replayed(q) \notin Produced
            /\ Current(q)' = Replayed(q)
        BY <2>2, <2>6, VerdictEvidence DEF EvidenceFound
      <3>2. Produced \subseteq Produced'
        BY <3>1 DEF Produced
      <3>3. \A p \in Requests : pc'[p] = "submitting" => p = q
        BY <1>0, <2>3, <2>6 DEF EvidenceFound
      <3> QED
        BY <2>2, <3>1, <3>2, <3>3 DEF ChainInv
    <2> QED
      BY <2>1, <2>4, <2>5, <2>6
  <1>3. ASSUME NEW q \in Requests, Submit(q) PROVE ChainInv'
    <2>1. UNCHANGED <<chosen, verdicts, landed>> /\ pc[q] \in {"submitting", "posted"}
      BY <1>3, SubmitEffect
    <2>2. CASE PostExtrinsic(q)
      <3>1. /\ pc[q] = "submitting" /\ pc' = [pc EXCEPT ![q] = "posted"]
            /\ wire' = wire \cup {Current(q)}
        BY <2>2 DEF PostExtrinsic
      <3>2. \A p \in Requests : pc'[p] # "submitting"
        BY <1>0, <3>1 DEF LoopInv
      <3>3. Current(q) \in Produced
        BY <3>1 DEF SampleInv, Produced, EvidenceOf, Current
      <3>4. Current(q) \notin landed
        BY <3>1 DEF ChainInv
      <3> QED
        BY <2>1, <3>1, <3>2, <3>3, <3>4, SameEvidence DEF ChainInv
    <2>3. CASE ~PostExtrinsic(q)
      <3>1. PICK at \in {"sinking", "submit_raised", "replaying", "ok"} : Release(q, at)
        BY <1>3, <2>3, SubmitEffect, NextReceiptType
      <3>2. UNCHANGED wire
        BY <1>3, <2>3, SubmitEffect
      <3> QED
        BY <1>0, <1>k, <2>1, <3>1, <3>2 DEF Release
    <2> QED
      BY <2>2, <2>3
  <1>4. ASSUME NEW q \in Requests, SinkReturns(q) PROVE ChainInv'
    BY <1>0, <1>k, <1>4, NextReceiptType DEF SinkReturns
  <1>5. ASSUME NEW e \in wire, NodeTakes(e) PROVE ChainInv'
    BY <1>5, SameEvidence DEF NodeTakes, ChainInv, Current
  <1>6. ASSUME Crash PROVE ChainInv'
    BY <1>0, <1>k, <1>6 DEF Crash, Running
  <1>7. CASE UNCHANGED vars
    BY <1>k, <1>7 DEF vars
  <1> QED
    BY <1>1, <1>2, <1>3, <1>4, <1>5, <1>6, <1>7 DEF Next

-----------------------------------------------------------------------------
(* The counters of the response.                                             *)

\* A request has finitely much evidence.
LEMMA FiniteEvidence ==
    ASSUME NEW q \in Requests, NEW S, S \subseteq EvidenceIds
    PROVE  IsFiniteSet({e \in S : e[1] = q})
  <1>1. IsFiniteSet({q} \X DOMAIN Call[q].receipts)
    BY Positions, FS_Singleton, FS_Product
  <1>2. {e \in S : e[1] = q} \subseteq {q} \X DOMAIN Call[q].receipts
    BY DEF EvidenceIds
  <1> QED
    BY <1>1, <1>2, FS_Subset

\* What the counters count is finite.
LEMMA FiniteCounts ==
    ASSUME TypeOK, NEW q \in Requests
    PROVE  /\ IsFiniteSet(Mismatched(q))
           /\ IsFiniteSet({e \in landed : e[1] = q})
           /\ IsFiniteSet(Countable(q))
  <1>1. IsFiniteSet(Mismatched(q))
    <2>1. PICK n \in Nat : DOMAIN verdicts[q] = 1 .. n
      BY DEF TypeOK
    <2>2. IsFiniteSet(1 .. n)
      BY FS_Interval
    <2>3. Mismatched(q) \subseteq 1 .. n
      BY <2>1 DEF Mismatched
    <2> QED
      BY <2>2, <2>3, FS_Subset
  <1>2. IsFiniteSet({e \in landed : e[1] = q})
    BY FiniteEvidence DEF TypeOK
  <1>3. Countable(q) \subseteq {e \in landed : e[1] = q}
    BY DEF Countable
  <1> QED
    BY <1>1, <1>2, <1>3, FS_Subset

\* The count stays an under-estimate while what it may count only grows.
LEMMA CountKept ==
    ASSUME TypeOK, TypeOK', CountInv, NEW q \in Requests,
           Mismatched(q)' = Mismatched(q), queued_locally'[q] = queued_locally[q],
           Countable(q) \subseteq Countable(q)',
           submitted_to_chain'[q] = submitted_to_chain[q]
    PROVE  /\ queued_locally'[q] = Cardinality(Mismatched(q)')
           /\ submitted_to_chain'[q] <= Cardinality(Countable(q)')
  <1>1. IsFiniteSet(Countable(q)')
    <2>1. IsFiniteSet({e \in landed' : e[1] = q})
      BY FiniteEvidence DEF TypeOK
    <2>2. Countable(q)' \subseteq {e \in landed' : e[1] = q}
      BY DEF Countable
    <2> QED
      BY <2>1, <2>2, FS_Subset
  <1>2. /\ IsFiniteSet(Countable(q))
        /\ Cardinality(Countable(q)) <= Cardinality(Countable(q)')
    BY <1>1, FS_Subset
  <1>3. Cardinality(Countable(q)) \in Nat /\ Cardinality(Countable(q)') \in Nat
    BY <1>1, <1>2, FS_CardinalityType
  <1> QED
    BY <1>2, <1>3 DEF CountInv, TypeOK

\* The counters keep in step with what they count: queued_locally with the
\* mismatches, submitted_to_chain with landed evidence whose answer is in.
LEMMA CountStep ==
    /\ TypeOK /\ TypeOK' /\ LoopInv /\ ServedInv /\ SampleInv /\ ChainInv
    /\ CountInv /\ [Next]_vars
    => CountInv'
  <1> SUFFICES ASSUME TypeOK, TypeOK', LoopInv, ServedInv, SampleInv, ChainInv,
                      CountInv, [Next]_vars
               PROVE  CountInv'
    OBVIOUS
  <1> DEFINE Kept(p) == /\ Mismatched(p)' = Mismatched(p)
                        /\ queued_locally'[p] = queued_locally[p]
                        /\ Countable(p) \subseteq Countable(p)'
                        /\ submitted_to_chain'[p] = submitted_to_chain[p]
             Counted(p) == /\ queued_locally'[p] = Cardinality(Mismatched(p)')
                           /\ submitted_to_chain'[p] <= Cardinality(Countable(p)')
  <1>0. /\ Idle \notin Requests
        /\ submitted_to_chain = [q \in Requests |-> submitted_to_chain[q]]
        /\ queued_locally = [q \in Requests |-> queued_locally[q]]
    BY DaemonAssumption DEF TypeOK
  <1>k. ASSUME NEW p \in Requests, Kept(p) PROVE Counted(p)
    BY <1>k, CountKept
  <1>l. ASSUME UNCHANGED <<chosen, verdicts, landed, queued_locally, submitted_to_chain>>,
               loop' = loop \/ loop' = Idle
        PROVE  CountInv'
    <2>1. ASSUME NEW p \in Requests PROVE Kept(p)
      BY <1>0, <1>l, <2>1, SameEvidence DEF Countable, Current
    <2> QED
      BY <1>k, <2>1 DEF CountInv
  <1> USE DEF handler_vars, process_vars, chain_vars
  <1>1. ASSUME NEW q \in Requests, Arrive(q) PROVE CountInv'
    <2>1. UNCHANGED <<queued_locally, submitted_to_chain, landed, loop>> /\ loop = Idle
      BY <1>1, ArriveEffect
    <2>2. ASSUME NEW p \in Requests PROVE Kept(p)
      BY <1>0, <1>1, <2>1, <2>2, ArriveEvidence DEF Countable
    <2> QED
      BY <1>k, <2>2 DEF CountInv
  <1>2. ASSUME NEW q \in Requests, ReplayReturns(q) PROVE CountInv'
    <2>1. PICK res : ReplayRaises(q, res) \/ VerdictOnly(q, res) \/ EvidenceFound(q, res)
      BY <1>2 DEF ReplayReturns
    <2>2. /\ UNCHANGED <<chosen, submitted_to_chain, wire, landed>>
          /\ pc[q] = "replaying" /\ loop = Idle
      BY <1>2 DEF ReplayReturns
    <2>3. CASE ReplayRaises(q, res)
      BY <1>l, <2>2, <2>3 DEF ReplayRaises
    <2>4. CASE VerdictOnly(q, res)
      <3>1. \A p \in Requests : Mismatched(p)' = Mismatched(p)
        BY <2>2, <2>4, VerdictEvidence DEF VerdictOnly
      <3>2. ASSUME NEW p \in Requests PROVE Kept(p)
        BY <1>0, <2>2, <2>4, <3>1, <3>2 DEF VerdictOnly, Countable
      <3> QED
        BY <1>k, <3>2 DEF CountInv
    <2>5. CASE EvidenceFound(q, res)
      <3>1. /\ \A p \in Requests \ {q} : Mismatched(p)' = Mismatched(p)
            /\ Mismatched(q)' = Mismatched(q) \cup {Len(verdicts[q]) + 1}
            /\ Len(verdicts[q]) + 1 \notin Mismatched(q)
            /\ Replayed(q) \notin Produced
            /\ Current(q)' = Replayed(q)
        BY <2>2, <2>5, VerdictEvidence DEF EvidenceFound
      <3>2. loop' = q /\ queued_locally' = [queued_locally EXCEPT ![q] = @ + 1]
        BY <2>5 DEF EvidenceFound
      <3>3. Replayed(q) \notin landed
        BY <3>1 DEF ChainInv
      <3>4. \A p \in Requests : Countable(p)' = Countable(p)
        BY <1>0, <2>2, <3>1, <3>2, <3>3 DEF Countable
      <3>5. ASSUME NEW p \in Requests \ {q} PROVE Counted(p)
        BY <1>0, <1>k, <2>2, <3>1, <3>2, <3>4, <3>5
      <3>6. Counted(q)
        <4>1. Cardinality(Mismatched(q)') = Cardinality(Mismatched(q)) + 1
          BY <3>1, FiniteCounts, FS_AddElement, ZenonT(60)
        <4> QED
          BY <1>0, <2>2, <3>2, <3>4, <4>1 DEF CountInv
      <3> QED
        BY <3>5, <3>6 DEF CountInv
    <2> QED
      BY <2>1, <2>3, <2>4, <2>5
  <1>3. ASSUME NEW q \in Requests, Submit(q) PROVE CountInv'
    <2>1. UNCHANGED <<chosen, verdicts, queued_locally, landed>>
      BY <1>3, SubmitEffect
    <2>2. loop = q
      BY <1>3, SubmitEffect DEF LoopInv
    <2>3. loop' = loop \/ loop' = Idle
      BY <1>3, SubmitEffect DEF Release
    <2>4. CASE UNCHANGED submitted_to_chain
      BY <1>l, <2>1, <2>3, <2>4
    <2>5. CASE ~UNCHANGED submitted_to_chain
      <3>1. /\ Current(q) \in landed /\ loop' = Idle
            /\ submitted_to_chain' = [submitted_to_chain EXCEPT ![q] = @ + 1]
        BY <1>3, <2>5, SubmitEffect DEF Release
      <3>2. ASSUME NEW p \in Requests \ {q} PROVE Kept(p)
        BY <1>0, <2>1, <2>2, <3>1, <3>2, SameEvidence DEF Countable
      <3>3. Counted(q)
        <4>1. /\ Countable(q)' = Countable(q) \cup {Current(q)}
              /\ Current(q) \notin Countable(q)
          BY <1>0, <2>1, <2>2, <3>1 DEF Countable, Current
        <4>2. /\ Cardinality(Countable(q)') = Cardinality(Countable(q)) + 1
              /\ Cardinality(Countable(q)) \in Nat
          BY <4>1, FiniteCounts, FS_AddElement, FS_CardinalityType
        <4> QED
          BY <1>0, <2>1, <3>1, <4>2, SameEvidence DEF CountInv, TypeOK
      <3> QED
        BY <1>k, <3>2, <3>3 DEF CountInv
    <2> QED
      BY <2>4, <2>5
  <1>4. ASSUME NEW q \in Requests, SinkReturns(q) PROVE CountInv'
    BY <1>l, <1>4 DEF SinkReturns
  <1>5. ASSUME NEW e \in wire, NodeTakes(e) PROVE CountInv'
    <2>1. ASSUME NEW p \in Requests PROVE Kept(p)
      BY <1>5, <2>1, SameEvidence DEF NodeTakes, Countable, Current
    <2> QED
      BY <1>k, <2>1 DEF CountInv
  <1>6. ASSUME Crash PROVE CountInv'
    BY <1>l, <1>6 DEF Crash
  <1>7. CASE UNCHANGED vars
    BY <1>l, <1>7 DEF vars
  <1> QED
    BY <1>1, <1>2, <1>3, <1>4, <1>5, <1>6, <1>7 DEF Next

-----------------------------------------------------------------------------
(* Salts and samples.                                                        *)

\* A salt drawn for an epoch serves all its samples until a crash.
LEMMA SaltStep ==
    TypeOK /\ ServedInv /\ SaltInv /\ [Next]_vars => SaltInv'
  <1> SUFFICES ASSUME TypeOK, ServedInv, SaltInv, [Next]_vars PROVE SaltInv'
    OBVIOUS
  <1>0. /\ salt = [q \in Requests |-> salt[q]]
        /\ salts_by_epoch = [e \in Epochs |-> salts_by_epoch[e]]
        /\ served \subseteq Requests
    BY DEF TypeOK
  <1>k. ASSUME UNCHANGED <<salt, salts_by_epoch, served>> PROVE SaltInv'
    BY <1>k DEF SaltInv
  <1> USE DEF handler_vars, process_vars, chain_vars
  <1>1. ASSUME NEW q \in Requests, Arrive(q) PROVE SaltInv'
    <2>1. served' = served \cup {q} /\ salt[q] = NoSalt
      BY <1>1, ArriveEffect DEF Serve, ServedInv
    <2>2. CASE UNCHANGED <<salt, salts_by_epoch>>
      BY <2>1, <2>2 DEF SaltInv
    <2>3. ASSUME NEW st \in Stakes, Draw(q, st) PROVE SaltInv'
      <3> DEFINE sa == get_or_create_salt(Call[q].epoch, q)
      <3>1. /\ salt' = [salt EXCEPT ![q] = sa]
            /\ salts_by_epoch' = [salts_by_epoch EXCEPT ![Call[q].epoch] = sa]
        BY <2>3 DEF Draw
      <3>2. Call[q].epoch \in Epochs
        BY DaemonAssumption
      <3>3. ASSUME NEW p \in served, salt[p] # NoSalt, Call[p].epoch = Call[q].epoch
            PROVE  sa = salt[p]
        BY <3>3 DEF SaltInv, get_or_create_salt
      <3> QED
        BY <1>0, <2>1, <3>1, <3>2, <3>3 DEF SaltInv
    <2> QED
      BY <1>1, <2>2, <2>3, DrawOrNot
  <1>2. ASSUME NEW q \in Requests, ReplayReturns(q) PROVE SaltInv'
    BY <1>k, <1>2 DEF ReplayReturns
  <1>3. ASSUME NEW q \in Requests, Submit(q) PROVE SaltInv'
    BY <1>k, <1>3, SubmitEffect
  <1>4. ASSUME NEW q \in Requests, SinkReturns(q) PROVE SaltInv'
    BY <1>k, <1>4 DEF SinkReturns
  <1>5. ASSUME NEW e \in wire, NodeTakes(e) PROVE SaltInv'
    BY <1>k, <1>5 DEF NodeTakes
  <1>6. ASSUME Crash PROVE SaltInv'
    BY <1>6 DEF Crash, SaltInv
  <1>7. CASE UNCHANGED vars
    BY <1>k, <1>7 DEF vars
  <1> QED
    BY <1>1, <1>2, <1>3, <1>4, <1>5, <1>6, <1>7 DEF Next

\* A new sample equals every earlier one of the same seed, receipts and stakes.
LEMMA StableStep ==
    TypeOK /\ ServedInv /\ SaltInv /\ SampleStable /\ [Next]_vars => SampleStable'
  <1> SUFFICES ASSUME TypeOK, ServedInv, SaltInv, SampleStable, [Next]_vars
               PROVE  SampleStable'
    OBVIOUS
  <1>0. /\ salt = [q \in Requests |-> salt[q]]
        /\ stakes = [q \in Requests |-> stakes[q]]
        /\ chosen = [q \in Requests |-> chosen[q]]
        /\ served \subseteq Requests
    BY DEF TypeOK
  <1>k. ASSUME UNCHANGED <<salt, stakes, chosen, served>> PROVE SampleStable'
    BY <1>k DEF SampleStable
  <1> USE DEF handler_vars, process_vars, chain_vars
  <1>1. ASSUME NEW q \in Requests, Arrive(q) PROVE SampleStable'
    <2>1. served' = served \cup {q} /\ salt[q] = NoSalt
      BY <1>1, ArriveEffect DEF Serve, ServedInv
    <2>2. \A p \in Requests \ {q} : chosen'[p] = chosen[p]
      BY <1>0, <1>1, ArriveEffect
    <2>3. CASE UNCHANGED <<stakes, salt>>
      BY <1>0, <2>1, <2>2, <2>3 DEF SampleStable
    <2>4. ASSUME NEW st \in Stakes, Draw(q, st) PROVE SampleStable'
      <3> DEFINE sa == get_or_create_salt(Call[q].epoch, q)
      <3>1. /\ stakes' = [stakes EXCEPT ![q] = st]
            /\ salt' = [salt EXCEPT ![q] = sa]
            /\ chosen'[q] \in Samples(q, st, sa)
        BY <1>0, <2>4 DEF Draw
      <3>2. ASSUME NEW p \in served, salt[p] # NoSalt, Call[p].epoch = Call[q].epoch,
                   Call[p].receipts = Call[q].receipts, stakes[p] = st
            PROVE  chosen[p] = chosen'[q]
        <4>1. sa = salt[p]
          BY <3>2 DEF SaltInv, get_or_create_salt
        <4>2. SameDraw(p, q, st, sa)
          BY <3>2, <4>1 DEF SameDraw
        <4> QED
          BY <1>0, <3>1, <4>2 DEF Samples
      <3> QED
        BY <1>0, <2>1, <2>2, <3>1, <3>2, SMTT(30) DEF SampleStable
    <2> QED
      BY <1>1, <2>3, <2>4, DrawOrNot
  <1>2. ASSUME NEW q \in Requests, ReplayReturns(q) PROVE SampleStable'
    BY <1>k, <1>2 DEF ReplayReturns
  <1>3. ASSUME NEW q \in Requests, Submit(q) PROVE SampleStable'
    BY <1>k, <1>3, SubmitEffect
  <1>4. ASSUME NEW q \in Requests, SinkReturns(q) PROVE SampleStable'
    BY <1>k, <1>4 DEF SinkReturns
  <1>5. ASSUME NEW e \in wire, NodeTakes(e) PROVE SampleStable'
    BY <1>k, <1>5 DEF NodeTakes
  <1>6. ASSUME Crash PROVE SampleStable'
    BY <1>6 DEF Crash, SampleStable
  <1>7. CASE UNCHANGED vars
    BY <1>k, <1>7 DEF vars
  <1> QED
    BY <1>1, <1>2, <1>3, <1>4, <1>5, <1>6, <1>7 DEF Next

-----------------------------------------------------------------------------
(* The sink and its counts.                                                  *)

\* A submission ends at the sink if there is one.
LEMMA SubmitMoves ==
    ASSUME NEW q \in Requests, Submit(q)
    PROVE  \E at \in {"posted", "submit_raised", AfterSubmission(q)} :
             pc' = [pc EXCEPT ![q] = at]
  BY DEF Submit, NodeUnreachable, EncodeRaises, PostExtrinsic, PostConfirmed,
         PostUnconfirmed, PostRaises, Release

\* Nothing but the end of a submission sends a handler to the sink.
LEMMA SinkInvStep ==
    TypeOK /\ ServedInv /\ SinkInv /\ [Next]_vars => SinkInv'
  <1> SUFFICES ASSUME TypeOK, ServedInv, SinkInv, [Next]_vars PROVE SinkInv'
    OBVIOUS
  <1>0. pc = [q \in Requests |-> pc[q]]
    BY DEF TypeOK
  <1>k. ASSUME \A p \in Requests : pc'[p] = "sinking" => pc[p] = "sinking"
        PROVE  SinkInv'
    BY <1>k DEF SinkInv
  <1> USE DEF handler_vars, process_vars, chain_vars
  <1>1. ASSUME NEW q \in Requests, Arrive(q) PROVE SinkInv'
    BY <1>0, <1>1, <1>k, ArriveEffect DEF Serve
  <1>2. ASSUME NEW q \in Requests, ReplayReturns(q) PROVE SinkInv'
    BY <1>0, <1>2, <1>k, NextReceiptType
    DEF ReplayReturns, ReplayRaises, VerdictOnly, EvidenceFound
  <1>3. ASSUME NEW q \in Requests, Submit(q) PROVE SinkInv'
    <2>1. AfterSubmission(q) = "sinking" => SlashingEndpoint
      BY NextReceiptType DEF AfterSubmission
    <2>2. PICK at \in {"posted", "submit_raised", AfterSubmission(q)} :
            pc' = [pc EXCEPT ![q] = at]
      BY <1>3, SubmitMoves
    <2> QED
      BY <1>0, <2>1, <2>2 DEF SinkInv
  <1>4. ASSUME NEW q \in Requests, SinkReturns(q) PROVE SinkInv'
    BY <1>0, <1>4, <1>k, NextReceiptType DEF SinkReturns
  <1>5. ASSUME NEW e \in wire, NodeTakes(e) PROVE SinkInv'
    BY <1>5, <1>k DEF NodeTakes
  <1>6. ASSUME Crash PROVE SinkInv'
    BY <1>0, <1>6, <1>k DEF Crash
  <1>7. CASE UNCHANGED vars
    BY <1>7, <1>k DEF vars
  <1> QED
    BY <1>1, <1>2, <1>3, <1>4, <1>5, <1>6, <1>7 DEF Next

\* The evidence the sink has to account for.
Accounted == {e \in Retained : SlashingEndpoint /\ ~BeforeSink(e)}

\* A piece of retained evidence is that of one request of this process.
LEMMA RetainedOwner ==
    ASSUME TypeOK, RetainedIsProduced, NEW e \in Retained
    PROVE  e[1] \in served /\ e[1] \in Requests
  BY DEF RetainedIsProduced, EvidenceOf, TypeOK

\* The list is finite, and so is what of it the sink accounts for.
LEMMA FiniteAccounted ==
    ASSUME TypeOK
    PROVE  /\ IsFiniteSet(Accounted)
           /\ IsFiniteSet(Buckets)
           /\ DOMAIN sink_status_counts = Buckets
           /\ \A b \in Buckets : sink_status_counts[b] \in Nat
  <1> DEFINE n == Len(slashing_submitted)
  <1>1. slashing_submitted \in Seq(EvidenceIds)
    BY DEF TypeOK
  <1>2. n \in Nat /\ DOMAIN slashing_submitted = 1 .. n
    BY <1>1
  <1>3. IsFiniteSet(1 .. n)
    BY <1>2, FS_Interval
  <1>4. IsFiniteSet({slashing_submitted[i] : i \in 1 .. n})
    BY <1>3, FiniteImage
  <1>5. Retained = {slashing_submitted[i] : i \in 1 .. n}
    BY <1>2 DEF Retained, Range
  <1>6. IsFiniteSet(Accounted)
    BY <1>4, <1>5, FS_Subset DEF Accounted
  <1>7. IsFiniteSet(Buckets)
    BY DaemonAssumption, FS_AddElement DEF Buckets
  <1> QED
    BY <1>6, <1>7 DEF TypeOK

\* If no evidence passes the sink and no count changes, the accounts agree.
LEMMA SinkKept ==
    ASSUME SinkAccounts, UNCHANGED sink_status_counts, Accounted' = Accounted
    PROVE  SinkAccounts'
  BY DEF SinkAccounts, Accounted

\* Evidence enters the list before the sink and leaves for it with the step that
\* counts the outcome; a crash forgets the list and the counts together.
LEMMA SinkStep ==
    /\ TypeOK /\ TypeOK' /\ ServedInv /\ SampleInv /\ SinkInv
    /\ RetainedIsProduced /\ SinkAccounts /\ [Next]_vars
    => SinkAccounts'
  <1> SUFFICES ASSUME TypeOK, TypeOK', ServedInv, SampleInv, SinkInv,
                      RetainedIsProduced, SinkAccounts, [Next]_vars
               PROVE  SinkAccounts'
    OBVIOUS
  <1>0. pc = [q \in Requests |-> pc[q]] /\ chosen = [q \in Requests |-> chosen[q]]
        /\ verdicts = [q \in Requests |-> verdicts[q]]
    BY DEF TypeOK
  <1>k. ASSUME UNCHANGED <<sink_status_counts, slashing_submitted>>,
               \A e \in Retained :
                 SlashingEndpoint => (BeforeSink(e)' <=> BeforeSink(e))
        PROVE  SinkAccounts'
    <2>1. Retained' = Retained
      BY <1>k DEF Retained
    <2>2. \A e \in Retained :
            (SlashingEndpoint /\ ~BeforeSink(e)) <=> (SlashingEndpoint /\ ~BeforeSink(e)')
      BY <1>k
    <2>3. Accounted' = Accounted
      BY <2>1, <2>2 DEF Accounted
    <2> QED
      BY <1>k, <2>3, SinkKept
  <1>o. ASSUME NEW q \in Requests, NEW e \in Retained, e[1] # q,
               \A p \in Requests \ {q} :
                 pc'[p] = pc[p] /\ chosen'[p] = chosen[p] /\ verdicts'[p] = verdicts[p]
        PROVE  BeforeSink(e)' <=> BeforeSink(e)
    BY <1>o, RetainedOwner DEF BeforeSink, Current
  <1> USE DEF handler_vars, process_vars, chain_vars
  <1>1. ASSUME NEW q \in Requests, Arrive(q) PROVE SinkAccounts'
    <2>1. /\ pc[q] = "unsent"
          /\ UNCHANGED <<verdicts, sink_status_counts, slashing_submitted>>
      BY <1>1, ArriveEffect
    <2>2. \A p \in Requests \ {q} : pc'[p] = pc[p] /\ chosen'[p] = chosen[p]
      BY <1>0, <1>1, ArriveEffect DEF Serve
    <2>3. \A e \in Retained : e[1] # q
      BY <2>1, RetainedOwner DEF ServedInv
    <2> QED
      BY <1>k, <1>o, <2>1, <2>2, <2>3
  <1>2. ASSUME NEW q \in Requests, ReplayReturns(q) PROVE SinkAccounts'
    <2>1. PICK res : ReplayRaises(q, res) \/ VerdictOnly(q, res) \/ EvidenceFound(q, res)
      BY <1>2 DEF ReplayReturns
    <2>2. UNCHANGED <<chosen, sink_status_counts>> /\ pc[q] = "replaying"
      BY <1>2 DEF ReplayReturns
    <2>3. \A p \in Requests \ {q} : pc'[p] = pc[p] /\ verdicts'[p] = verdicts[p]
      BY <1>0, <2>1 DEF ReplayRaises, VerdictOnly, EvidenceFound
    <2>4. ASSUME NEW e, e[1] = q PROVE ~BeforeSink(e)
      BY <2>2, <2>4 DEF BeforeSink
    <2>5. CASE ReplayRaises(q, res) \/ VerdictOnly(q, res)
      <3>1. pc'[q] \in {"replay_raised", "replaying", "ok"} /\ UNCHANGED slashing_submitted
        BY <1>0, <2>5, NextReceiptType DEF ReplayRaises, VerdictOnly
      <3>2. ASSUME NEW e, e[1] = q PROVE ~BeforeSink(e)'
        BY <3>1, <3>2 DEF BeforeSink
      <3>3. \A e \in Retained : BeforeSink(e)' <=> BeforeSink(e)
        BY <1>o, <2>2, <2>3, <2>4, <3>2
      <3> QED
        BY <1>k, <2>2, <3>1, <3>3
    <2>6. CASE EvidenceFound(q, res)
      <3>1. /\ Current(q)' = Replayed(q)
            /\ Replayed(q) \notin Produced
            /\ Replayed(q) \in EvidenceIds
        BY <2>2, <2>6, VerdictEvidence, EvidenceType DEF EvidenceFound
      <3>2. /\ slashing_submitted' = Append(slashing_submitted, Replayed(q))
            /\ pc'[q] = "submitting"
        BY <1>0, <2>6 DEF EvidenceFound
      <3>3. Retained \subseteq Produced
        BY DEF RetainedIsProduced, Produced, TypeOK
      <3>4. Retained' = Retained \cup {Replayed(q)}
        BY <3>1, <3>2, <3>3, AppendNew DEF Retained, TypeOK
      <3>5. ASSUME NEW e, e = Replayed(q) PROVE BeforeSink(e)'
        <4>1. e[1] = q
          BY <3>5 DEF Replayed
        <4> QED
          BY <3>1, <3>2, <3>5, <4>1 DEF BeforeSink
      <3>6. ASSUME NEW e \in Retained PROVE BeforeSink(e)' <=> BeforeSink(e)
        <4>1. CASE e[1] = q
          <5>1. e # Replayed(q)
            BY <3>1, <3>3
          <5>2. ~BeforeSink(e)'
            BY <3>1, <4>1, <5>1 DEF BeforeSink
          <5> QED
            BY <2>4, <4>1, <5>2
        <4>2. CASE e[1] # q
          BY <1>o, <2>2, <2>3, <4>2
        <4> QED
          BY <4>1, <4>2
      <3>7. Accounted' = Accounted
        <4>1. Accounted' = {e \in Retained' : SlashingEndpoint /\ ~BeforeSink(e)'}
          BY DEF Accounted
        <4>2. \A e \in Retained' :
                ~BeforeSink(e)' <=> (e \in Retained /\ ~BeforeSink(e))
          <5>1. ASSUME NEW e \in Retained', e = Replayed(q)
                PROVE  ~BeforeSink(e)' <=> (e \in Retained /\ ~BeforeSink(e))
            BY <3>1, <3>3, <3>5, <5>1
          <5>2. ASSUME NEW e \in Retained', e # Replayed(q)
                PROVE  ~BeforeSink(e)' <=> (e \in Retained /\ ~BeforeSink(e))
            BY <3>4, <3>6, <5>2
          <5> QED
            BY <5>1, <5>2
        <4>3. Retained \subseteq Retained'
          BY <3>4
        <4> QED
          BY <4>1, <4>2, <4>3 DEF Accounted
      <3> QED
        BY <2>2, <3>7, SinkKept
    <2> QED
      BY <2>1, <2>5, <2>6
  <1>3. ASSUME NEW q \in Requests, Submit(q) PROVE SinkAccounts'
    <2>1. /\ pc[q] \in {"submitting", "posted"}
          /\ UNCHANGED <<chosen, verdicts, sink_status_counts, slashing_submitted>>
      BY <1>3, SubmitEffect
    <2>2. PICK at \in {"posted", "submit_raised", AfterSubmission(q)} :
            pc' = [pc EXCEPT ![q] = at]
      BY <1>3, SubmitMoves
    <2>3. SlashingEndpoint => at \in {"posted", "submit_raised", "sinking"}
      BY <2>2 DEF AfterSubmission
    <2>4. \A e : SlashingEndpoint => (BeforeSink(e)' <=> BeforeSink(e))
      BY <1>0, <2>1, <2>2, <2>3 DEF BeforeSink, Current
    <2> QED
      BY <1>k, <2>1, <2>4
  <1>4. ASSUME NEW q \in Requests, SinkReturns(q) PROVE SinkAccounts'
    <2> DEFINE c == Current(q)
    <2>1. /\ pc[q] = "sinking"
          /\ UNCHANGED <<chosen, verdicts, slashing_submitted>>
          /\ pc' = [pc EXCEPT ![q] = NextReceipt(verdicts[q], chosen[q])]
      BY <1>4 DEF SinkReturns
    <2>2. SlashingEndpoint
      BY <2>1 DEF SinkInv
    <2>3. c \in Retained
      <3>1. q \in served
        BY <2>1 DEF ServedInv, Running
      <3>2. c \in EvidenceOf(q)
        BY <2>1 DEF SampleInv, EvidenceOf, Current
      <3> QED
        BY <3>1, <3>2 DEF RetainedIsProduced
    <2>4. Retained' = Retained
      BY <2>1 DEF Retained
    <2>5. c[1] = q /\ pc'[q] \in {"replaying", "ok"}
      BY <1>0, <2>1, NextReceiptType DEF Current
    <2>6. ASSUME NEW e, e = c PROVE BeforeSink(e) /\ ~BeforeSink(e)'
      BY <2>1, <2>5, <2>6 DEF BeforeSink
    <2>7. ASSUME NEW e \in Retained, e # c PROVE BeforeSink(e)' <=> BeforeSink(e)
      <3>1. CASE e[1] = q
        BY <2>1, <2>5, <2>7, <3>1 DEF BeforeSink, Current
      <3>2. CASE e[1] # q
        BY <1>0, <1>o, <2>1, <3>2
      <3> QED
        BY <3>1, <3>2
    <2>8. Accounted' = Accounted \cup {c} /\ c \notin Accounted
      <3>1. Accounted' = {e \in Retained : ~BeforeSink(e)'}
        BY <2>2, <2>4 DEF Accounted
      <3>2. Accounted = {e \in Retained : ~BeforeSink(e)}
        BY <2>2 DEF Accounted
      <3>3. BeforeSink(c)
        BY <2>6
      <3>4. \A e \in Retained : ~BeforeSink(e)' <=> (e = c \/ ~BeforeSink(e))
        BY <2>6, <2>7
      <3> HIDE DEF c
      <3> QED
        BY <2>3, <3>1, <3>2, <3>3, <3>4
    <2>9. Cardinality(Accounted') = Cardinality(Accounted) + 1
      BY <2>8, FiniteAccounted, FS_AddElement
    <2>10. PICK bucket \in Buckets :
             sink_status_counts' = [sink_status_counts EXCEPT ![bucket] = @ + 1]
      BY <1>4 DEF SinkReturns
    <2>11. /\ \A b \in Buckets \ {bucket} : sink_status_counts'[b] = sink_status_counts[b]
           /\ sink_status_counts'[bucket] = sink_status_counts[bucket] + 1
           /\ DOMAIN sink_status_counts' = Buckets
      BY <2>10 DEF TypeOK
    <2>12. SumFunctionOnSet(sink_status_counts', Buckets)
             = SumFunctionOnSet(sink_status_counts, Buckets)
                 + (sink_status_counts'[bucket] - sink_status_counts[bucket])
      BY <2>11, FiniteAccounted, SumChanges
    <2>13. SumFunctionOnSet(sink_status_counts, Buckets) = Cardinality(Accounted)
      BY FiniteAccounted DEF SinkAccounts, Accounted, SumFunction
    <2>14. SumFunctionOnSet(sink_status_counts', Buckets) = Cardinality(Accounted')
      BY <2>9, <2>11, <2>12, <2>13, FiniteAccounted
    <2> QED
      BY <2>11, <2>14 DEF SinkAccounts, Accounted, SumFunction
  <1>5. ASSUME NEW e \in wire, NodeTakes(e) PROVE SinkAccounts'
    BY <1>5, <1>k DEF NodeTakes, BeforeSink, Current
  <1>6. ASSUME Crash PROVE SinkAccounts'
    <2>1. /\ sink_status_counts' = [b \in Buckets |-> 0]
          /\ slashing_submitted' = << >>
      BY <1>6 DEF Crash
    <2>2. Accounted' = {}
      BY <2>1 DEF Accounted, Retained, Range
    <2>3. SumFunction(sink_status_counts') = 0
      BY <2>1, FiniteAccounted, SumOfZeros DEF SumFunction
    <2> QED
      BY <2>2, <2>3, FS_EmptySet DEF SinkAccounts, Accounted
  <1>7. CASE UNCHANGED vars
    BY <1>7, <1>k DEF vars, BeforeSink, Current
  <1> QED
    BY <1>1, <1>2, <1>3, <1>4, <1>5, <1>6, <1>7 DEF Next

-----------------------------------------------------------------------------
(* The theorems.                                                             *)

\* A handler answers only when no receipt of its sample is left.
LEMMA CompleteStep ==
    /\ TypeOK /\ ServedInv /\ SampleInv /\ AnsweredIsComplete /\ [Next]_vars
    => AnsweredIsComplete'
  <1> SUFFICES ASSUME TypeOK, ServedInv, SampleInv, AnsweredIsComplete, [Next]_vars
               PROVE  AnsweredIsComplete'
    OBVIOUS
  <1>0. /\ pc = [q \in Requests |-> pc[q]]
        /\ chosen = [q \in Requests |-> chosen[q]]
        /\ \A q \in Requests : Len(verdicts[q]) \in Nat /\ Len(chosen[q]) \in Nat
    BY DEF TypeOK
  <1>k. ASSUME UNCHANGED <<chosen, verdicts>>,
               \A q \in Requests :
                 \/ pc'[q] = pc[q] \/ pc'[q] # "ok"
                 \/ pc'[q] = NextReceipt(verdicts[q], chosen[q])
        PROVE  AnsweredIsComplete'
    BY <1>0, <1>k DEF AnsweredIsComplete, SampleInv, NextReceipt
  <1> USE DEF handler_vars, process_vars, chain_vars
  <1>1. ASSUME NEW q \in Requests, Arrive(q) PROVE AnsweredIsComplete'
    <2>1. PICK at \in {"413", "503", "ok", "replaying"}, s \in Seq(Nat \ {0}) :
            /\ Serve(q, at)
            /\ chosen' = [chosen EXCEPT ![q] = s]
            /\ at = "ok" /\ Call[q].handler # "sample" => Len(s) = 0
      BY <1>1, ArriveEffect
    <2>2. UNCHANGED verdicts /\ Len(verdicts[q]) = 0
      BY <1>1, ArriveEffect DEF ServedInv
    <2> QED
      BY <1>0, <2>1, <2>2 DEF AnsweredIsComplete, Serve
  <1>2. ASSUME NEW q \in Requests, ReplayReturns(q) PROVE AnsweredIsComplete'
    <2>1. PICK res : ReplayRaises(q, res) \/ VerdictOnly(q, res) \/ EvidenceFound(q, res)
      BY <1>2 DEF ReplayReturns
    <2>2. UNCHANGED chosen /\ pc[q] = "replaying" /\ Len(verdicts[q]) < Len(chosen[q])
      BY <1>2 DEF ReplayReturns, SampleInv
    <2>3. CASE ReplayRaises(q, res)
      BY <1>0, <1>k, <2>2, <2>3 DEF ReplayRaises
    <2>4. CASE VerdictOnly(q, res)
      <3>1. Len(verdicts'[q]) = Len(verdicts[q]) + 1
        BY <2>4 DEF VerdictOnly, TypeOK
      <3>2. \A p \in Requests \ {q} : verdicts'[p] = verdicts[p] /\ pc'[p] = pc[p]
        BY <1>0, <2>4 DEF VerdictOnly, TypeOK
      <3>3. pc'[q] = "ok" => Len(verdicts'[q]) = Len(chosen[q])
        BY <1>0, <2>2, <2>4, <3>1 DEF VerdictOnly, NextReceipt
      <3> QED
        BY <2>2, <3>2, <3>3 DEF AnsweredIsComplete
    <2>5. CASE EvidenceFound(q, res)
      <3>1. \A p \in Requests \ {q} : verdicts'[p] = verdicts[p] /\ pc'[p] = pc[p]
        BY <1>0, <2>5 DEF EvidenceFound, TypeOK
      <3>2. pc'[q] # "ok"
        BY <1>0, <2>5 DEF EvidenceFound
      <3> QED
        BY <2>2, <3>1, <3>2 DEF AnsweredIsComplete
    <2> QED
      BY <2>1, <2>3, <2>4, <2>5
  <1>3. ASSUME NEW q \in Requests, Submit(q) PROVE AnsweredIsComplete'
    <2>1. PICK at \in {"posted", "sinking", "submit_raised",
                       NextReceipt(verdicts[q], chosen[q])} :
            pc' = [pc EXCEPT ![q] = at]
      BY <1>3, SubmitEffect DEF Release
    <2> QED
      BY <1>0, <1>3, <1>k, <2>1, SubmitEffect
  <1>4. ASSUME NEW q \in Requests, SinkReturns(q) PROVE AnsweredIsComplete'
    BY <1>0, <1>4, <1>k DEF SinkReturns
  <1>5. ASSUME NEW e \in wire, NodeTakes(e) PROVE AnsweredIsComplete'
    BY <1>5, <1>k DEF NodeTakes
  <1>6. ASSUME Crash PROVE AnsweredIsComplete'
    BY <1>0, <1>6, <1>k DEF Crash
  <1>7. CASE UNCHANGED vars
    BY <1>7, <1>k DEF vars
  <1> QED
    BY <1>1, <1>2, <1>3, <1>4, <1>5, <1>6, <1>7 DEF Next

\* The initial states satisfy the inductive invariant.
LEMMA InitInd == Init => IndInv
  <1> SUFFICES ASSUME Init PROVE IndInv
    OBVIOUS
  <1>1. \A q \in Requests : Mismatched(q) = {} /\ EvidenceOf(q) = {}
    BY DEF Init, Mismatched, EvidenceOf
  <1>2. RetainedIsProduced
    BY DEF Init, RetainedIsProduced, Retained, Range, IsInjective
  <1>3. ChainInv
    BY <1>1 DEF Init, ChainInv
  <1>4. CountInv
    <2>1. \A q \in Requests : Countable(q) = {}
      BY DEF Init, Countable
    <2>2. Cardinality({}) = 0
      BY FS_EmptySet
    <2>3. ASSUME NEW q \in Requests
          PROVE  Cardinality(Mismatched(q)) = 0 /\ Cardinality(Countable(q)) = 0
      BY <1>1, <2>1, <2>2
    <2>4. \A q \in Requests : queued_locally[q] = 0 /\ submitted_to_chain[q] = 0
      BY DEF Init
    <2> QED
      BY <2>3, <2>4 DEF CountInv
  <1>5. SinkInv /\ SaltInv
    BY DEF Init, SinkInv, SaltInv
  <1> QED
    BY <1>2, <1>3, <1>4, <1>5, InitType, InitHandlers DEF IndInv

\* Every step preserves the inductive invariant.
LEMMA IndStep == IndInv /\ [Next]_vars => IndInv'
  BY TypeStep, LoopStep, ServedStep, SampleStep, RetainedStep, ChainStep, CountStep,
     SinkInvStep, SaltStep
  DEF IndInv

\* The inductive invariant holds in every reachable state, whatever the requests,
\* the worker, the node and the sink do.
THEOREM Invariance == Spec => []IndInv
  BY InitInd, IndStep, PTL DEF Spec

\* Every variable of the daemon keeps its type.
THEOREM TypeCorrect == Spec => []TypeOK
  <1>1. IndInv => TypeOK
    BY DEF IndInv
  <1> QED
    BY <1>1, Invariance, PTL

\* The in-memory list is the evidence of the running process: complete, nothing
\* else, no duplicates.
THEOREM RetentionCorrect == Spec => []RetainedIsProduced
  <1>1. IndInv => RetainedIsProduced
    BY DEF IndInv
  <1> QED
    BY <1>1, Invariance, PTL

\* Each mismatch of a request makes evidence of its own, because a receipt is
\* sampled once, so that there are as many pieces of it as mismatches.
LEMMA EvidenceCounted ==
    ASSUME TypeOK, SampleInv, NEW q \in Requests
    PROVE  /\ IsFiniteSet(EvidenceOf(q))
           /\ Cardinality(EvidenceOf(q)) = Cardinality(Mismatched(q))
  <1> DEFINE f == [i \in Mismatched(q) |-> <<q, chosen[q][i]>>]
  <1>1. verdicts[q] \in Seq(Verdicts) /\ chosen[q] \in Seq(Nat \ {0})
    BY DEF TypeOK
  <1>2. Mismatched(q) \in SUBSET (1 .. Len(verdicts[q])) /\ Len(verdicts[q]) \in Nat
    BY <1>1 DEF Mismatched
  <1>3. IsFiniteSet(Mismatched(q))
    BY FiniteCounts
  <1>4. Mismatched(q) \subseteq DOMAIN chosen[q]
    BY <1>1, <1>2 DEF SampleInv
  <1>5. \A i, j \in Mismatched(q) : f[i] = f[j] => i = j
    BY <1>4 DEF SampleInv, IsInjective
  <1>6. EvidenceOf(q) = {f[i] : i \in Mismatched(q)}
    BY DEF EvidenceOf
  <1> HIDE DEF f
  <1>7. f \in Bijection(Mismatched(q), EvidenceOf(q))
    BY <1>5, <1>6 DEF f, Bijection, Injection, Surjection, IsInjective
  <1> QED
    BY <1>3, <1>7, FS_Bijection DEF ExistsBijection

\* The counters of a response never claim more than happened, and hold nothing
\* back: what did not land is in the difference.
THEOREM CountersCorrect == Spec => []CountersHonest
  <1>1. IndInv => CountersHonest
    <2> SUFFICES ASSUME IndInv, NEW q \in Requests
                 PROVE  /\ submitted_to_chain[q] <= Cardinality(EvidenceOf(q) \cap landed)
                        /\ Cardinality(EvidenceOf(q) \ landed) <=
                              queued_locally[q] - submitted_to_chain[q]
      BY DEF CountersHonest
    <2>1. Countable(q) \subseteq EvidenceOf(q) \cap landed
      <3> SUFFICES ASSUME NEW e \in landed, e[1] = q PROVE e \in EvidenceOf(q)
        BY DEF Countable
      <3>1. PICK p \in Requests : e \in EvidenceOf(p)
        BY DEF IndInv, ChainInv, Produced
      <3>2. e[1] = p
        BY <3>1 DEF EvidenceOf
      <3> QED
        BY <3>1, <3>2
    <2>2. /\ IsFiniteSet(EvidenceOf(q))
          /\ Cardinality(EvidenceOf(q)) = queued_locally[q]
      BY EvidenceCounted DEF IndInv, CountInv
    <2>3. IsFiniteSet(EvidenceOf(q) \cap landed) /\ IsFiniteSet(Countable(q))
      BY <2>1, <2>2, FS_Subset
    <2>4. Cardinality(Countable(q)) <= Cardinality(EvidenceOf(q) \cap landed)
      BY <2>1, <2>3, FS_Subset
    <2>5. Cardinality(EvidenceOf(q) \ landed) =
              Cardinality(EvidenceOf(q)) - Cardinality(EvidenceOf(q) \cap landed)
      BY <2>2, FS_Difference
    <2>6. /\ Cardinality(Countable(q)) \in Nat
          /\ Cardinality(EvidenceOf(q) \cap landed) \in Nat
          /\ queued_locally[q] \in Nat /\ submitted_to_chain[q] \in Nat
          /\ submitted_to_chain[q] <= Cardinality(Countable(q))
      BY <2>3, FS_CardinalityType DEF IndInv, CountInv, TypeOK
    <2> QED
      BY <2>2, <2>4, <2>5, <2>6
  <1> QED
    BY <1>1, Invariance, PTL

\* Only receipts that passed verification are ever used against an operator.
THEOREM VerificationCorrect == Spec => []OnlyVerifiedSlashed
  <1>1. IndInv => OnlyVerifiedSlashed
    <2> SUFFICES ASSUME IndInv, ~AllowUnsigned, NEW e \in wire \cup landed
                 PROVE  ReceiptOf(e).operator_id \in Registry /\ ReceiptOf(e).genuine
      BY DEF OnlyVerifiedSlashed
    <2>1. PICK q \in Requests : e \in EvidenceOf(q)
      BY DEF IndInv, ChainInv, Produced
    <2>2. PICK i \in Mismatched(q) : e = <<q, chosen[q][i]>>
      BY <2>1 DEF EvidenceOf
    <2>3. i \in DOMAIN chosen[q]
      <3>1. verdicts[q] \in Seq(Verdicts) /\ chosen[q] \in Seq(Nat \ {0})
        BY DEF IndInv, TypeOK
      <3>2. Len(verdicts[q]) <= Len(chosen[q])
        BY DEF IndInv, SampleInv
      <3> QED
        BY <2>2, <3>1, <3>2 DEF Mismatched
    <2>4. chosen[q][i] \in Accepted(q)
      BY <2>3 DEF IndInv, SampleInv, Range
    <2> QED
      BY <2>2, <2>4 DEF Accepted, Verified, ReceiptOf
  <1> QED
    BY <1>1, Invariance, PTL

\* A 200 response reports on the whole sample.
THEOREM CompletenessCorrect == Spec => []AnsweredIsComplete
  <1>1. Init => AnsweredIsComplete
    BY DEF Init, AnsweredIsComplete
  <1>2. IndInv /\ AnsweredIsComplete /\ [Next]_vars => AnsweredIsComplete'
    BY CompleteStep DEF IndInv
  <1> QED
    BY <1>1, <1>2, Invariance, PTL DEF Spec

\* Within one process the same epoch, receipts and stakes give the same sample.
THEOREM SampleStability == Spec => []SampleStable
  <1>1. Init => SampleStable
    BY DEF Init, SampleStable
  <1>2. IndInv /\ SampleStable /\ [Next]_vars => SampleStable'
    BY StableStep DEF IndInv
  <1> QED
    BY <1>1, <1>2, Invariance, PTL DEF Spec

\* Every piece of evidence that got past the sink is in exactly one of the counts
\* /healthz reports, delivered or not.
THEOREM SinkCorrect == Spec => []SinkAccounts
  <1>1. Init => SinkAccounts
    <2> SUFFICES ASSUME Init PROVE SinkAccounts
      OBVIOUS
    <2>1. IsFiniteSet(Buckets)
      BY FiniteAccounted, InitType
    <2>2. SumFunction(sink_status_counts) = 0
      BY <2>1, SumOfZeros DEF Init, SumFunction
    <2>3. {e \in Retained : SlashingEndpoint /\ ~BeforeSink(e)} = {}
      BY DEF Init, Retained, Range
    <2> QED
      BY <2>2, <2>3, FS_EmptySet DEF SinkAccounts
  <1>2. IndInv /\ IndInv' /\ SinkAccounts /\ [Next]_vars => SinkAccounts'
    BY SinkStep DEF IndInv
  <1> QED
    BY <1>1, <1>2, Invariance, PTL DEF Spec

\* A salt, once drawn, outlives everything but the process.
THEOREM SaltsCorrect == Spec => SaltsFixed
  <1> DEFINE Fixed == crashes' = crashes =>
                        \A e \in Epochs : salts_by_epoch[e] # NoSalt =>
                                            salts_by_epoch'[e] = salts_by_epoch[e]
  <1>1. TypeOK /\ [Next]_vars => [Fixed]_vars
    <2> SUFFICES ASSUME TypeOK, Next PROVE Fixed
      OBVIOUS
    <2> USE DEF handler_vars, process_vars, chain_vars
    <2>1. ASSUME NEW q \in Requests, Arrive(q) PROVE Fixed
      <3>1. CASE UNCHANGED salts_by_epoch
        BY <3>1
      <3>2. ASSUME NEW st \in Stakes, Draw(q, st) PROVE Fixed
        BY <3>2 DEF Draw, get_or_create_salt, TypeOK
      <3> QED
        BY <2>1, <3>1, <3>2, DrawOrNot
    <2>2. ASSUME NEW q \in Requests, ReplayReturns(q) PROVE Fixed
      BY <2>2 DEF ReplayReturns
    <2>3. ASSUME NEW q \in Requests, Submit(q) PROVE Fixed
      BY <2>3, SubmitEffect
    <2>4. ASSUME NEW q \in Requests, SinkReturns(q) PROVE Fixed
      BY <2>4 DEF SinkReturns
    <2>5. ASSUME NEW e \in wire, NodeTakes(e) PROVE Fixed
      BY <2>5 DEF NodeTakes
    <2>6. ASSUME Crash PROVE Fixed
      BY <2>6 DEF Crash, TypeOK
    <2> QED
      BY <2>1, <2>2, <2>3, <2>4, <2>5, <2>6 DEF Next
  <1> QED
    BY <1>1, TypeCorrect, PTL DEF Spec, SaltsFixed

-----------------------------------------------------------------------------
(* The daemon implements EvidenceLedger.                                     *)

\* Every step of the daemon is a step of the ledger or leaves it alone.
LEMMA LedgerStep ==
    ASSUME IndInv, IndInv', [Next]_vars
    PROVE  [Ledger!Next]_(Ledger!vars)
  <1>0. /\ TypeOK /\ LoopInv /\ ServedInv /\ SampleInv
        /\ wire \subseteq EvidenceIds
        /\ wire \cap landed = {} /\ wire \subseteq Produced
    BY DEF IndInv, TypeOK, ChainInv
  <1>s. ASSUME UNCHANGED <<slashing_submitted, landed>>, Produced' = Produced
        PROVE  UNCHANGED Ledger!vars
    BY <1>s DEF Ledger!vars, Retained
  <1> USE DEF handler_vars, process_vars, chain_vars
  <1>1. ASSUME NEW q \in Requests, Arrive(q) PROVE UNCHANGED Ledger!vars
    BY <1>0, <1>1, <1>s, ArriveEffect, ArriveEvidence
  <1>2. ASSUME NEW q \in Requests, ReplayReturns(q) PROVE [Ledger!Next]_(Ledger!vars)
    <2>1. PICK res : ReplayRaises(q, res) \/ VerdictOnly(q, res) \/ EvidenceFound(q, res)
      BY <1>2 DEF ReplayReturns
    <2>2. UNCHANGED <<chosen, landed>> /\ pc[q] = "replaying"
      BY <1>2 DEF ReplayReturns
    <2>3. CASE ReplayRaises(q, res)
      BY <1>s, <2>2, <2>3, SameEvidence DEF ReplayRaises
    <2>4. CASE VerdictOnly(q, res)
      <3>1. \A p \in Requests : EvidenceOf(p)' = EvidenceOf(p)
        BY <1>0, <2>2, <2>4, VerdictEvidence DEF VerdictOnly
      <3>2. Produced' = Produced
        BY <3>1 DEF Produced
      <3> QED
        BY <1>s, <2>2, <2>4, <3>2 DEF VerdictOnly
    <2>5. CASE EvidenceFound(q, res)
      <3>1. /\ \A p \in Requests \ {q} : EvidenceOf(p)' = EvidenceOf(p)
            /\ EvidenceOf(q)' = EvidenceOf(q) \cup {Replayed(q)}
            /\ Replayed(q) \notin Produced
        BY <1>0, <2>2, <2>5, VerdictEvidence DEF EvidenceFound
      <3>2. Produced' = Produced \cup {Replayed(q)}
        BY <3>1 DEF Produced
      <3>3. Replayed(q) \in EvidenceIds
        BY <1>0, <2>2, EvidenceType
      <3>4. Retained \subseteq Produced
        BY <1>0 DEF IndInv, RetainedIsProduced, Produced, TypeOK
      <3>5. Retained' = Retained \cup {Replayed(q)}
        <4>1. slashing_submitted' = Append(slashing_submitted, Replayed(q))
          BY <2>5 DEF EvidenceFound
        <4>2. Replayed(q) \notin Range(slashing_submitted)
          BY <3>1, <3>4 DEF Retained
        <4> QED
          BY <1>0, <3>3, <4>1, <4>2, AppendNew DEF Retained, TypeOK
      <3>6. Ledger!Produce(Replayed(q))
        BY <2>2, <3>1, <3>2, <3>5 DEF Ledger!Produce
      <3> QED
        BY <3>3, <3>6 DEF Ledger!Next
    <2> QED
      BY <2>1, <2>3, <2>4, <2>5
  <1>3. ASSUME NEW q \in Requests, Submit(q) PROVE UNCHANGED Ledger!vars
    BY <1>3, <1>s, SubmitEffect, SameEvidence
  <1>4. ASSUME NEW q \in Requests, SinkReturns(q) PROVE UNCHANGED Ledger!vars
    BY <1>4, <1>s, SameEvidence DEF SinkReturns
  <1>5. ASSUME NEW e \in wire, NodeTakes(e) PROVE Ledger!Next
    <2>1. Produced' = Produced /\ Retained' = Retained
      BY <1>5, SameEvidence DEF NodeTakes, Retained
    <2>2. Ledger!Land(e)
      BY <1>0, <1>5, <2>1 DEF NodeTakes, Ledger!Land
    <2> QED
      BY <1>0, <2>2 DEF Ledger!Next
  <1>6. ASSUME Crash PROVE Ledger!Next
    <2>1. Produced' = Produced /\ landed' = landed
      BY <1>6, SameEvidence DEF Crash
    <2>2. Retained' = {}
      BY <1>6 DEF Crash, Retained, Range
    <2> QED
      BY <2>1, <2>2 DEF Ledger!Next, Ledger!Restart
  <1>7. CASE UNCHANGED vars
    BY <1>7, <1>s, SameEvidence DEF vars
  <1> QED
    BY <1>1, <1>2, <1>3, <1>4, <1>5, <1>6, <1>7 DEF Next

\* Evidence is retained in the step that produces it, only produced evidence
\* reaches the chain, each item once, and only a restart empties the list.
THEOREM LedgerImplemented == Spec => LedgerSpec
  <1>1. Init => Ledger!Init
    <2> SUFFICES ASSUME Init PROVE Ledger!Init
      OBVIOUS
    <2>1. Produced = {}
      BY DEF Init, Produced, EvidenceOf, Mismatched
    <2> QED
      BY <2>1 DEF Init, Ledger!Init, Retained, Range
  <1>2. IndInv /\ IndInv' /\ [Next]_vars => [Ledger!Next]_(Ledger!vars)
    BY LedgerStep
  <1> QED
    BY <1>1, <1>2, Invariance, PTL DEF Spec, LedgerSpec
=============================================================================
