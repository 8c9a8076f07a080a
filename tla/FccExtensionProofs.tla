------------------------- MODULE FccExtensionProofs -------------------------
(***************************************************************************)
(* The extension process under either of its entries, for any number of    *)
(* requests, any instructions and any crashes: work is answered in the     *)
(* order it came, reads of the state count exactly the successes before    *)
(* them, and what an action is answered is the outcome resolveRfqV1 owes   *)
(* to the envelopes the node opened for it.                                *)
(***************************************************************************)
EXTENDS LegacyExtension, ResolutionProofs, SequenceTheorems, FiniteSetTheorems

-----------------------------------------------------------------------------
(* A step of either entry *)

\* The running action's next ciphertext is opened, or lost.
Decryption(envelope) ==
  /\ running # NoRequest
  /\ Continue(envelope)
  /\ \/ /\ envelope = Ciphertexts(bodies[running].instruction)[Len(opened) + 1]
        /\ UNCHANGED faulted
     \/ /\ envelope = Unreadable
        /\ faulted' = faulted \cup {running}
  /\ UNCHANGED <<process, node, bodies, queue, arrivals>>

\* Steps of the world that leave the work alone.
Elsewhere ==
  /\ process' \in {"up", "closing", "down"} /\ node' \in {"serving", "hung"}
  /\ UNCHANGED <<bodies, queue, running, opened, processedResolutions, answers,
                 arrivals, faulted>>

ExtStep ==
  \/ \E q \in Requests, code \in {"400", "501"} : Arrives(q) /\ TurnAway(q, code)
  \/ \E q \in Requests, body \in Body : AcceptRequest(q, body)
  \/ ReportState
  \/ FailAction
  \/ StartAction
  \/ \E envelope : Decryption(envelope)
  \/ GoDown
  \/ Elsewhere

\* The running action decodes, so it has a ciphertext for each of its providers.
RunningDecodes ==
  running # NoRequest =>
    /\ bodies[running].kind = "action"
    /\ Decodes(bodies[running].instruction)

LEMMA CiphertextsOf ==
  ASSUME NEW instruction \in Instruction
  PROVE  /\ Ciphertexts(instruction) \in Seq(Envelope)
         /\ Len(Ciphertexts(instruction)) = Len(instruction.quoteCiphertexts) + 1
         /\ Ciphertexts(instruction)[1] = instruction.sellerCiphertext
         /\ \A i \in 1..Len(instruction.quoteCiphertexts) :
              Ciphertexts(instruction)[i + 1] = instruction.quoteCiphertexts[i]
         /\ Len(instruction.quoteCiphertexts) \in Nat /\ Len(instruction.providers) \in Nat
<1>1. /\ instruction.sellerCiphertext \in Envelope
      /\ instruction.quoteCiphertexts \in Seq(Envelope)
      /\ instruction.providers \in Seq(Addresses)
  BY DEF Instruction
<1>2. QED
  BY <1>1 DEF Ciphertexts

\* What the process is sent, does and holds.
ExtTypes ==
  /\ process \in {"up", "closing", "down"}
  /\ node \in {"serving", "hung"}
  /\ bodies \in [Requests -> Body \cup {NotSent, TurnedAway}]
  /\ queue \in Seq(Requests)
  /\ running \in Requests \cup {NoRequest}
  /\ opened \in Seq(Envelope)
  /\ processedResolutions \in Nat
  /\ answers \in [Requests -> Answer]
  /\ arrivals \in Seq(Requests)
  /\ faulted \in SUBSET Requests

LEMMA ActionIsTyped ==
  ASSUME ExtTypes, NEW q \in Requests, bodies[q].kind = "action"
  PROVE  bodies[q].instruction \in Instruction
<1>1. bodies[q] \in Body \cup {NotSent, TurnedAway}
  BY DEF ExtTypes
<1>2. bodies[q] # NotSent /\ bodies[q] # TurnedAway
  <2>1. NotSent.kind = "not sent" /\ TurnedAway.kind = "turned away"
    BY DEF NotSent, TurnedAway
  <2>2. QED
    BY <2>1
<1>3. bodies[q] \in [kind : {"action"}, instruction : Instructions]
  BY <1>1, <1>2 DEF Body
<1>4. QED
  BY <1>3, InstructionsAreTyped

\* Both entries take the same steps: they differ in what they refuse, not in how.
LEMMA EitherStep ==
  ASSUME ExtTypes, RunningDecodes, [EitherNext]_eitherVars
  PROVE  ExtStep
<1>1. CASE UNCHANGED eitherVars
  BY <1>1 DEF eitherVars, extVars, ExtTypes, Elsewhere, ExtStep
<1>2. ASSUME (\E state \in {"serving", "hung"} : NodeChanges(state))
               \/ Close \/ Leave \/ Crash \/ Start
      PROVE  ExtStep
  <2>1. CASE Leave \/ Crash
    BY <2>1 DEF Leave, Crash, ExtStep
  <2>2. CASE (\E state \in {"serving", "hung"} : NodeChanges(state)) \/ Close \/ Start
    <3>1. Elsewhere
      BY <2>2 DEF NodeChanges, Close, Start, Elsewhere, ExtTypes
    <3>2. QED
      BY <3>1 DEF ExtStep
  <2>3. QED
    BY <1>2, <2>1, <2>2
<1>3. CASE ExtNext
  <2>1. ASSUME NEW q \in Requests, NEW body \in Body, RefuseRequest(q, body)
        PROVE  ExtStep
    BY <2>1 DEF RefuseRequest, ExtStep
  <2>2. CASE DecryptSucceeds
    <3>1. Decryption(Ciphertexts(bodies[running].instruction)[Len(opened) + 1])
      BY <2>2 DEF DecryptSucceeds, Decryption
    <3>2. QED
      BY <3>1 DEF ExtStep
  <2>3. CASE DecryptFails
    <3>1. Decryption(Unreadable)
      BY <2>3 DEF DecryptFails, Decryption
    <3>2. QED
      BY <3>1 DEF ExtStep
  <2>4. QED
    BY <1>2, <1>3, <2>1, <2>2, <2>3 DEF ExtNext, ExtStep
<1>4. CASE LegacyNext
  <2>1. ASSUME NEW q \in Requests, NEW body \in Body, LegacyRefuseRequest(q, body)
        PROVE  ExtStep
    <3>1. LegacyRefusalCode(body.kind) \in {"400", "501"}
      BY <2>1 DEF LegacyRefuseRequest, LegacyRefusalCode
    <3>2. QED
      BY <2>1, <3>1 DEF LegacyRefuseRequest, ExtStep
  <2>2. ASSUME NEW envelope, LegacyDecrypts(envelope)
        PROVE  Continue(envelope)
    <3>1. running \in Requests /\ bodies[running].kind = "action"
          /\ Decodes(bodies[running].instruction)
      BY <2>2 DEF LegacyDecrypts, RunningDecodes, ExtTypes
    <3>2. bodies[running].instruction \in Instruction
      BY <3>1, ActionIsTyped
    <3>3. Len(Ciphertexts(bodies[running].instruction))
            = Len(bodies[running].instruction.providers) + 1
          /\ Len(bodies[running].instruction.providers) \in Nat
      BY <3>1, <3>2, CiphertextsOf DEF Decodes
    <3>4. Len(Append(opened, envelope)) \in Nat
      BY DEF ExtTypes
    <3>5. Len(Append(opened, envelope)) <= Len(bodies[running].instruction.providers)
          <=> Len(Append(opened, envelope)) < Len(Ciphertexts(bodies[running].instruction))
      BY <3>3, <3>4
    <3>6. LegacyContinue(envelope)
      BY <2>2 DEF LegacyDecrypts
    <3>7. QED
      BY <3>5, <3>6, Zenon DEF LegacyContinue, Continue
  <2>3. CASE LegacyDecryptSucceeds
    <3>1. Decryption(Ciphertexts(bodies[running].instruction)[Len(opened) + 1])
      BY <2>2, <2>3 DEF LegacyDecryptSucceeds, LegacyDecrypts, Decryption
    <3>2. QED
      BY <3>1 DEF ExtStep
  <2>4. CASE LegacyDecryptFails
    <3>1. Decryption(Unreadable)
      BY <2>2, <2>4 DEF LegacyDecryptFails, LegacyDecrypts, Decryption
    <3>2. QED
      BY <3>1 DEF ExtStep
  <2>5. QED
    BY <1>2, <1>4, <2>1, <2>3, <2>4
    DEF LegacyNext, LegacyAcceptRequest, LegacyReportState, LegacyFailAction,
        LegacyStartAction, World, ExtStep
<1>5. QED
  BY <1>1, <1>3, <1>4 DEF EitherNext

-----------------------------------------------------------------------------
(* The queue *)

\* The work that has arrived and has no answer yet, the running action first.
Ahead == IF running = NoRequest THEN queue ELSE <<running>> \o queue
Served == Len(arrivals) - Len(Ahead)

QueueTypes ==
  /\ queue \in Seq(Requests)
  /\ running \in Requests \cup {NoRequest}
  /\ arrivals \in Seq(Requests)
  /\ DOMAIN bodies = Requests
  /\ DOMAIN answers = Requests

\* A request arrives once, and nothing answers it before.
ArrivesOnce ==
  /\ \A i \in DOMAIN arrivals : bodies[arrivals[i]] # NotSent
  /\ \A i, j \in DOMAIN arrivals : arrivals[i] = arrivals[j] => i = j

InOrder ==
  /\ Served >= 0
  /\ \A i \in 1..Len(Ahead) : Ahead[i] = arrivals[Served + i]
  /\ \A i \in 1..Len(arrivals) : (answers[arrivals[i]] # Unanswered) <=> (i <= Served)
  /\ \A q \in Requests : bodies[q] = NotSent => answers[q] = Unanswered

QueueInv == QueueTypes /\ ArrivesOnce /\ InOrder

-----------------------------------------------------------------------------

LEMMA AheadIsTyped ==
  ASSUME QueueTypes
  PROVE  Ahead \in Seq(Requests) /\ Len(Ahead) \in Nat /\ Len(arrivals) \in Nat
<1>1. queue \in Seq(Requests) /\ arrivals \in Seq(Requests)
  BY DEF QueueTypes
<1>2. running # NoRequest => <<running>> \o queue \in Seq(Requests)
  BY <1>1 DEF QueueTypes
<1>3. QED
  BY <1>1, <1>2, LenProperties DEF Ahead

\* Answering the first of the work ahead takes it off.
LEMMA AnsweringKeepsOrder ==
  ASSUME QueueInv, QueueTypes', Ahead # <<>>, Ahead' = Tail(Ahead),
         UNCHANGED <<arrivals, bodies>>,
         NEW answer, answer # Unanswered, answers' = [answers EXCEPT ![Head(Ahead)] = answer]
  PROVE  QueueInv'
<1>1. /\ Ahead \in Seq(Requests) /\ Len(Ahead) \in Nat \ {0} /\ Len(arrivals) \in Nat
      /\ arrivals \in Seq(Requests)
  BY AheadIsTyped, EmptySeq DEF QueueInv, QueueTypes
<1>2. /\ Len(Ahead') = Len(Ahead) - 1 /\ Served' = Served + 1 /\ Served \in Nat
      /\ Served + 1 \in 1..Len(arrivals)
  BY <1>1, HeadTailProperties DEF Served, QueueInv, InOrder
<1>3. Head(Ahead) = arrivals[Served + 1]
  BY <1>1 DEF QueueInv, InOrder
<1>4. ArrivesOnce'
  BY DEF QueueInv, ArrivesOnce
<1>5. \A i \in 1..Len(Ahead') : Ahead'[i] = arrivals'[Served' + i]
  <2> SUFFICES ASSUME NEW i \in 1..Len(Ahead') PROVE Tail(Ahead)[i] = arrivals[Served + 1 + i]
    BY <1>2
  <2>1. i + 1 \in 1..Len(Ahead) /\ i \in 1..Len(Tail(Ahead))
    BY <1>1, <1>2
  <2>2. Tail(Ahead)[i] = Ahead[i + 1]
    BY <1>1, <2>1, HeadTailProperties
  <2>3. Ahead[i + 1] = arrivals[Served + (i + 1)]
    BY <2>1 DEF QueueInv, InOrder
  <2>4. QED
    BY <1>2, <2>2, <2>3
<1>6. \A i \in 1..Len(arrivals) : (answers'[arrivals[i]] # Unanswered) <=> (i <= Served + 1)
  <2> SUFFICES ASSUME NEW i \in 1..Len(arrivals)
               PROVE  (answers'[arrivals[i]] # Unanswered) <=> (i <= Served + 1)
    OBVIOUS
  <2>1. arrivals[i] \in Requests /\ arrivals[i] \in DOMAIN answers
    BY <1>1 DEF QueueInv, QueueTypes
  <2>2. CASE i = Served + 1
    BY <1>2, <1>3, <2>1, <2>2
  <2>3. CASE i # Served + 1
    <3>1. arrivals[i] # Head(Ahead)
      BY <1>1, <1>2, <1>3, <2>3 DEF QueueInv, ArrivesOnce
    <3>2. answers'[arrivals[i]] = answers[arrivals[i]]
      BY <2>1, <3>1
    <3>3. (answers[arrivals[i]] # Unanswered) <=> (i <= Served)
      BY DEF QueueInv, InOrder
    <3>4. QED
      BY <1>2, <2>3, <3>2, <3>3
  <2>4. QED
    BY <2>2, <2>3
<1>7. \A q \in Requests : bodies'[q] = NotSent => answers'[q] = Unanswered
  <2>1. bodies[Head(Ahead)] # NotSent
    BY <1>1, <1>2, <1>3 DEF QueueInv, ArrivesOnce
  <2>2. QED
    BY <2>1 DEF QueueInv, InOrder, QueueTypes
<1>8. QED
  BY <1>2, <1>4, <1>5, <1>6, <1>7 DEF QueueInv, InOrder

\* What leaves the queue's state alone leaves the order alone.
LEMMA SameQueueKeepsOrder ==
  ASSUME QueueInv, QueueTypes', Ahead' = Ahead, UNCHANGED <<arrivals, bodies, answers>>
  PROVE  QueueInv'
BY DEF QueueInv, ArrivesOnce, InOrder, Served

LEMMA AcceptKeepsOrder ==
  ASSUME QueueInv, NEW q \in Requests, NEW body \in Body, AcceptRequest(q, body)
  PROVE  QueueInv'
<1>1. /\ bodies[q] = NotSent /\ body # NotSent
      /\ bodies' = [bodies EXCEPT ![q] = body]
      /\ queue' = Append(queue, q) /\ arrivals' = Append(arrivals, q)
      /\ UNCHANGED <<running, answers>>
  <2>1. body.kind # "not sent"
    BY DEF Body
  <2>2. body # NotSent
    <3>1. NotSent.kind = "not sent"
      BY DEF NotSent
    <3>2. QED
      BY <2>1, <3>1
  <2>3. bodies[q] = NotSent
    BY DEF AcceptRequest, Arrives
  <2>4. QED
    BY <2>2, <2>3 DEF AcceptRequest
<1>2. QueueTypes'
  BY <1>1 DEF QueueInv, QueueTypes
<1>3. /\ Ahead \in Seq(Requests) /\ Len(Ahead) \in Nat /\ Len(arrivals) \in Nat
      /\ arrivals \in Seq(Requests) /\ queue \in Seq(Requests)
      /\ Served \in Nat /\ Served = Len(arrivals) - Len(Ahead)
  BY AheadIsTyped DEF QueueInv, QueueTypes, InOrder, Served
<1>4. Ahead' = Append(Ahead, q)
  <2>1. CASE running = NoRequest
    BY <1>1, <2>1 DEF Ahead
  <2>2. CASE running # NoRequest
    <3>1. running \in Requests
      BY <2>2 DEF QueueInv, QueueTypes
    <3>2. <<running>> \o Append(queue, q) = Append(<<running>> \o queue, q)
      BY <1>3, <3>1
    <3>3. QED
      BY <1>1, <2>2, <3>2 DEF Ahead
  <2>3. QED
    BY <2>1, <2>2
<1>5. /\ Len(Ahead') = Len(Ahead) + 1 /\ Len(arrivals') = Len(arrivals) + 1
      /\ Served' = Served
      /\ \A i \in 1..Len(Ahead) : Ahead'[i] = Ahead[i]
      /\ Ahead'[Len(Ahead) + 1] = q
      /\ \A i \in 1..Len(arrivals) : arrivals'[i] = arrivals[i]
      /\ arrivals'[Len(arrivals) + 1] = q
  BY <1>1, <1>3, <1>4, AppendProperties DEF Served
<1>6. \A i \in 1..Len(arrivals) : arrivals[i] # q /\ arrivals[i] \in Requests
  <2>1. \A i \in 1..Len(arrivals) : arrivals[i] \in Requests /\ i \in DOMAIN arrivals
    BY <1>3
  <2>2. QED
    BY <1>1, <2>1, Zenon DEF QueueInv, ArrivesOnce
<1>7. ArrivesOnce'
  <2>1. \A i \in 1..Len(arrivals') : bodies'[arrivals'[i]] # NotSent
    <3> SUFFICES ASSUME NEW i \in 1..(Len(arrivals) + 1) PROVE bodies'[arrivals'[i]] # NotSent
      BY <1>5
    <3>1. CASE i \in 1..Len(arrivals)
      <4>1. arrivals'[i] = arrivals[i] /\ arrivals[i] # q /\ bodies[arrivals[i]] # NotSent
        BY <1>3, <1>5, <1>6, <3>1 DEF QueueInv, ArrivesOnce
      <4>2. QED
        BY <1>1, <4>1 DEF QueueInv, QueueTypes
    <3>2. CASE i = Len(arrivals) + 1
      BY <1>1, <1>5, <3>2 DEF QueueInv, QueueTypes
    <3>3. QED
      BY <1>3, <3>1, <3>2
  <2>2. \A i, j \in 1..Len(arrivals') : arrivals'[i] = arrivals'[j] => i = j
    <3>1. \A i, j \in 1..Len(arrivals) : arrivals[i] = arrivals[j] => i = j
      BY <1>3 DEF QueueInv, ArrivesOnce
    <3>2. \A i \in 1..Len(arrivals') : i \in 1..Len(arrivals) \/ i = Len(arrivals) + 1
      BY <1>3, <1>5
    <3>3. \A i \in 1..Len(arrivals) : arrivals'[i] = arrivals[i] /\ arrivals[i] # q
      BY <1>5, <1>6
    <3>4. QED
      BY <1>5, <3>1, <3>2, <3>3
  <2>3. arrivals' \in Seq(Requests)
    BY <1>2 DEF QueueTypes
  <2>4. DOMAIN arrivals' = 1..Len(arrivals')
    BY <2>3
  <2>5. QED
    BY <2>1, <2>2, <2>4 DEF ArrivesOnce
<1>8. \A i \in 1..Len(Ahead') : Ahead'[i] = arrivals'[Served' + i]
  <2> SUFFICES ASSUME NEW i \in 1..(Len(Ahead) + 1) PROVE Ahead'[i] = arrivals'[Served + i]
    BY <1>5
  <2>1. CASE i = Len(Ahead) + 1
    BY <1>3, <1>5, <2>1
  <2>2. CASE i # Len(Ahead) + 1
    <3>1. i \in 1..Len(Ahead) /\ Served + i \in 1..Len(arrivals)
      BY <1>3, <2>2
    <3>2. QED
      BY <1>5, <3>1 DEF QueueInv, InOrder
  <2>3. QED
    BY <2>1, <2>2
<1>9. \A i \in 1..Len(arrivals') : (answers'[arrivals'[i]] # Unanswered) <=> (i <= Served')
  <2>1. answers[q] = Unanswered
    BY <1>1 DEF QueueInv, InOrder
  <2>2. QED
    BY <1>1, <1>3, <1>5, <2>1 DEF QueueInv, InOrder
<1>10. \A p \in Requests : bodies'[p] = NotSent => answers'[p] = Unanswered
  BY <1>1 DEF QueueInv, QueueTypes, InOrder
<1>11. QED
  BY <1>2, <1>3, <1>5, <1>7, <1>8, <1>9, <1>10 DEF QueueInv, InOrder

\* A request turned away was never among the work.
LEMMA RefuseKeepsOrder ==
  ASSUME QueueInv, NEW q \in Requests, NEW code, Arrives(q), TurnAway(q, code)
  PROVE  QueueInv'
<1>1. /\ bodies[q] = NotSent /\ TurnedAway # NotSent
      /\ bodies' = [bodies EXCEPT ![q] = TurnedAway]
      /\ answers' = [answers EXCEPT ![q] = Refused(code)]
      /\ UNCHANGED <<queue, running, arrivals>>
  <2>1. TurnedAway # NotSent
    BY DEF TurnedAway, NotSent
  <2>2. QED
    BY <2>1 DEF Arrives, TurnAway
<1>2. QueueTypes'
  BY <1>1 DEF QueueInv, QueueTypes
<1>3. \A i \in 1..Len(arrivals) : arrivals[i] # q /\ arrivals[i] \in Requests
  BY <1>1 DEF QueueInv, QueueTypes, ArrivesOnce
<1>4. \A p \in Requests \ {q} : bodies'[p] = bodies[p] /\ answers'[p] = answers[p]
  BY <1>1 DEF QueueInv, QueueTypes
<1>5. bodies'[q] # NotSent
  BY <1>1 DEF QueueInv, QueueTypes
<1>6. ArrivesOnce'
  BY <1>1, <1>3, <1>4 DEF QueueInv, QueueTypes, ArrivesOnce
<1>7. Ahead' = Ahead /\ Served' = Served
  BY <1>1 DEF Ahead, Served
<1>8. QED
  BY <1>1, <1>2, <1>3, <1>4, <1>5, <1>6, <1>7 DEF QueueInv, InOrder

\* A decryption, when it is the last, answers the running action.
LEMMA ContinueKeepsOrder ==
  ASSUME QueueInv, NEW envelope, running # NoRequest, Continue(envelope),
         UNCHANGED <<bodies, queue, arrivals>>
  PROVE  QueueInv'
<1>1. CASE UNCHANGED <<running, answers>>
  <2>1. QueueTypes' /\ Ahead' = Ahead
    BY <1>1 DEF QueueInv, QueueTypes, Ahead
  <2>2. QED
    BY <1>1, <2>1, SameQueueKeepsOrder
<1>2. CASE \E outcome : running' = NoRequest
                        /\ answers' = [answers EXCEPT ![running] = Success(outcome)]
  <2>1. PICK outcome : running' = NoRequest
                       /\ answers' = [answers EXCEPT ![running] = Success(outcome)]
    BY <1>2
  <2>2. Success(outcome) # Unanswered
    <3>1. Success(outcome).code # Unanswered.code
      BY DEF Success, Unanswered
    <3>2. QED
      BY <3>1
  <2>3. running \in Requests /\ queue \in Seq(Requests)
    BY DEF QueueInv, QueueTypes
  <2>4. /\ Ahead = <<running>> \o queue /\ Ahead # <<>>
        /\ Head(Ahead) = running /\ Tail(Ahead) = queue /\ Ahead' = queue
    BY <2>1, <2>3 DEF Ahead
  <2>5. QueueTypes'
    BY <2>1, <2>3 DEF QueueInv, QueueTypes
  <2>6. QED
    BY <2>1, <2>2, <2>4, <2>5, AnsweringKeepsOrder
<1>3. QED
  BY <1>1, <1>2 DEF Continue

\* The head of the queue is answered before anything else runs.
LEMMA AnswerHeadKeepsOrder ==
  ASSUME QueueInv, running = NoRequest, queue # <<>>, UNCHANGED <<bodies, running, arrivals>>,
         queue' = Tail(queue), NEW answer, answer # Unanswered,
         answers' = [answers EXCEPT ![Head(queue)] = answer]
  PROVE  QueueInv'
<1>1. queue \in Seq(Requests) /\ Tail(queue) \in Seq(Requests)
  BY HeadTailProperties DEF QueueInv, QueueTypes
<1>2. QueueTypes'
  BY <1>1 DEF QueueInv, QueueTypes
<1>3. Ahead = queue /\ Ahead' = Tail(queue)
  BY DEF Ahead
<1>4. QED
  BY <1>2, <1>3, AnsweringKeepsOrder

LEMMA StartActionKeepsOrder ==
  ASSUME QueueInv, StartAction
  PROVE  QueueInv'
<1>1. /\ running = NoRequest /\ queue # <<>> /\ running' = Head(queue) /\ queue' = Tail(queue)
      /\ UNCHANGED <<bodies, answers, arrivals>> /\ queue \in Seq(Requests)
  BY DEF StartAction, QueueInv, QueueTypes
<1>2. Head(queue) \in Requests /\ Tail(queue) \in Seq(Requests)
  BY <1>1, HeadTailProperties
<1>3. QueueTypes'
  BY <1>1, <1>2 DEF QueueInv, QueueTypes
<1>4. <<Head(queue)>> \o Tail(queue) = queue
  BY <1>1, <1>2
<1>5. running' # NoRequest
  BY <1>1, <1>2, MaxRequestsIsNatural DEF Requests, NoRequest
<1>6. QED
  BY <1>1, <1>3, <1>4, <1>5, SameQueueKeepsOrder DEF Ahead

\* A process that is gone has nothing left to answer.
LEMMA GoDownKeepsOrder ==
  ASSUME QueueInv, GoDown
  PROVE  QueueInv'
<1>1. /\ queue' = <<>> /\ running' = NoRequest /\ arrivals' = <<>> /\ bodies' = bodies
      /\ answers' = [q \in Requests |-> IF q \in Waiting THEN ConnectionLost ELSE answers[q]]
  BY DEF GoDown
<1>2. QueueTypes'
  BY <1>1, EmptySeq DEF QueueInv, QueueTypes
<1>3. ArrivesOnce'
  BY <1>1 DEF ArrivesOnce
<1>4. Ahead' = <<>> /\ Served' = 0 /\ Len(arrivals') = 0 /\ Len(Ahead') = 0
  BY <1>1, EmptySeq DEF Ahead, Served
<1>5. \A q \in Requests : bodies'[q] = NotSent => answers'[q] = Unanswered
  BY <1>1 DEF QueueInv, InOrder, Waiting
<1>6. QED
  BY <1>2, <1>3, <1>4, <1>5 DEF QueueInv, InOrder

LEMMA QueueStep ==
  ASSUME QueueInv, ExtStep
  PROVE  QueueInv'
<1>1. CASE \/ \E q \in Requests, code \in {"400", "501"} : Arrives(q) /\ TurnAway(q, code)
           \/ \E q \in Requests, body \in Body : AcceptRequest(q, body)
  BY <1>1, RefuseKeepsOrder, AcceptKeepsOrder
<1>2. CASE ReportState
  <2>1. StateAnswer(processedResolutions) # Unanswered
    <3>1. StateAnswer(processedResolutions).code # Unanswered.code
      BY DEF StateAnswer, Unanswered
    <3>2. QED
      BY <3>1
  <2>2. QED
    BY <1>2, <2>1, AnswerHeadKeepsOrder DEF ReportState
<1>3. CASE FailAction
  <2>1. Failure # Unanswered
    BY DEF Failure, Unanswered
  <2>2. QED
    BY <1>3, <2>1, AnswerHeadKeepsOrder DEF FailAction
<1>4. CASE StartAction
  BY <1>4, StartActionKeepsOrder
<1>5. CASE \E envelope : Decryption(envelope)
  BY <1>5, ContinueKeepsOrder DEF Decryption
<1>6. CASE GoDown
  BY <1>6, GoDownKeepsOrder
<1>7. CASE Elsewhere
  <2>1. UNCHANGED <<bodies, queue, running, answers, arrivals>>
    BY <1>7 DEF Elsewhere
  <2>2. QueueTypes' /\ Ahead' = Ahead
    BY <2>1 DEF QueueInv, QueueTypes, Ahead
  <2>3. QED
    BY <2>1, <2>2, SameQueueKeepsOrder
<1>8. QED
  BY <1>1, <1>2, <1>3, <1>4, <1>5, <1>6, <1>7 DEF ExtStep

\* What is ahead is the end of what has arrived.
LEMMA OrderIsService == QueueInv => WorkIsServedInOrder
<1> SUFFICES ASSUME QueueInv PROVE WorkIsServedInOrder
  OBVIOUS
<1>1. /\ Ahead \in Seq(Requests) /\ Len(Ahead) \in Nat /\ Len(arrivals) \in Nat
      /\ arrivals \in Seq(Requests) /\ Served = Len(arrivals) - Len(Ahead) /\ Served \in Nat
  BY AheadIsTyped DEF QueueInv, QueueTypes, InOrder, Served
<1>2. Ahead = SubSeq(arrivals, Served + 1, Len(arrivals))
  <2> DEFINE rest == SubSeq(arrivals, Served + 1, Len(arrivals))
  <2>1. /\ rest \in Seq(Requests) /\ Len(rest) = Len(Ahead)
        /\ \A i \in 1..Len(Ahead) : rest[i] = arrivals[Served + i]
    BY <1>1
  <2> HIDE DEF rest
  <2>2. \A i \in 1..Len(Ahead) : rest[i] = Ahead[i]
    BY <2>1 DEF QueueInv, InOrder
  <2>3. Ahead = rest
    BY <1>1, <2>1, <2>2, SeqEqual
  <2>4. QED
    BY <2>3 DEF rest
<1>3. \A i \in DOMAIN arrivals : (answers[arrivals[i]] # Unanswered) = (i <= Served)
  BY <1>1 DEF QueueInv, InOrder
<1>4. Served >= 0
  BY <1>1
<1>5. QED
  BY <1>2, <1>3, <1>4, Zenon DEF WorkIsServedInOrder, Ahead, Served

-----------------------------------------------------------------------------
(* What the node opens for an action, and what the action is answered *)

\* Each envelope is what the action's ciphertext holds, or one the node lost.
Decrypted(q, envelopes) ==
  \A i \in 1..Len(envelopes) :
    \/ envelopes[i] = Ciphertexts(bodies[q].instruction)[i]
    \/ envelopes[i] = Unreadable /\ q \in faulted

RunningInv ==
  /\ RunningDecodes
  /\ running = NoRequest => opened = <<>>
  /\ running # NoRequest =>
       /\ Len(opened) <= Len(bodies[running].instruction.providers)
       /\ Decrypted(running, opened)

\* An answer of an action that ran to its end is what resolveRfqV1 makes of such envelopes.
Resolved(q) ==
  /\ bodies[q].kind = "action"
  /\ Decodes(bodies[q].instruction)
  /\ \E envelopes \in Seq(Envelope) :
       /\ Len(envelopes) = Len(bodies[q].instruction.providers) + 1
       /\ Decrypted(q, envelopes)
       /\ answers[q] = Success(ResolveRfqV1(InputOf(bodies[q].instruction, envelopes)))

SuccessesAreResolved == \A q \in Requests : IsSuccess(answers[q]) => Resolved(q)

LEMMA InputIsTyped ==
  ASSUME NEW instruction \in Instruction, NEW envelopes \in Seq(Envelope),
         Len(envelopes) = Len(instruction.providers) + 1
  PROVE  InputOf(instruction, envelopes) \in ResolveRfqInput
<1>1. /\ instruction.seller \in Addresses /\ instruction.quoteCap \in Nat
      /\ instruction.providers \in Seq(Addresses)
  BY DEF Instruction
<1>2. envelopes[1] \in Envelope
  BY <1>1
<1>3. \A i \in 1..Len(instruction.providers) :
        instruction.providers[i] \in Addresses /\ envelopes[i + 1] \in Envelope
  BY <1>1
<1> DEFINE submissions == [i \in 1..Len(instruction.providers) |->
             [address |-> instruction.providers[i], quoteCap |-> instruction.quoteCap,
              envelope |-> envelopes[i + 1]]]
<1>4. submissions \in Seq(ProviderSubmission)
  BY <1>1, <1>3 DEF ProviderSubmission
<1> HIDE DEF submissions
<1>5. [seller |-> instruction.seller, sellerEnvelope |-> envelopes[1],
       providers |-> submissions] \in ResolveRfqInput
  BY <1>1, <1>2, <1>4 DEF ResolveRfqInput
<1>6. QED
  BY <1>5 DEF InputOf, submissions

\* Only a resolution is a success.
LEMMA AnswersDiffer ==
  /\ ~IsSuccess(Unanswered) /\ ~IsSuccess(ConnectionLost) /\ ~IsSuccess(Failure)
  /\ \A code : ~IsSuccess(Refused(code))
  /\ \A n : ~IsSuccess(StateAnswer(n))
  /\ \A outcome : IsSuccess(Success(outcome)) /\ Success(outcome).data = outcome
BY DEF IsSuccess, Unanswered, ConnectionLost, Failure, Refused, StateAnswer, Success

LEMMA AnswersAreTyped ==
  /\ Unanswered \in Answer /\ ConnectionLost \in Answer /\ Failure \in Answer
  /\ \A code \in {"400", "501"} : Refused(code) \in Answer
  /\ \A n \in Nat : StateAnswer(n) \in Answer
  /\ \A outcome \in Outcome : Success(outcome) \in Answer
BY DEF Answer, Refused, StateAnswer, Success

\* A decryption adds an envelope; the last one ends the action.
LEMMA DecryptionCases ==
  ASSUME ExtTypes, RunningInv, NEW envelope, Decryption(envelope)
  PROVE  LET instruction == bodies[running].instruction
             envelopes == Append(opened, envelope)
         IN  /\ running \in Requests
             /\ bodies[running].kind = "action"
             /\ instruction \in Instruction
             /\ Decodes(instruction)
             /\ Len(instruction.providers) \in Nat
             /\ envelopes \in Seq(Envelope)
             /\ Len(envelopes) = Len(opened) + 1
             /\ \A i \in 1..Len(envelopes) :
                  \/ envelopes[i] = Ciphertexts(instruction)[i]
                  \/ envelopes[i] = Unreadable /\ running \in faulted'
             /\ faulted' \in SUBSET Requests /\ faulted \subseteq faulted'
             /\ \/ /\ Len(envelopes) <= Len(instruction.providers)
                   /\ opened' = envelopes
                   /\ UNCHANGED <<running, processedResolutions, answers>>
                \/ /\ Len(envelopes) = Len(instruction.providers) + 1
                   /\ opened' = <<>>
                   /\ running' = NoRequest
                   /\ processedResolutions' = processedResolutions + 1
                   /\ answers' = [answers EXCEPT ![running] =
                        Success(ResolveRfqV1(InputOf(instruction, envelopes)))]
<1> DEFINE instruction == bodies[running].instruction
           envelopes == Append(opened, envelope)
<1>1. /\ running \in Requests /\ running # NoRequest
      /\ bodies[running].kind = "action" /\ Decodes(instruction)
      /\ opened \in Seq(Envelope) /\ Len(opened) \in Nat
      /\ Len(opened) <= Len(instruction.providers)
      /\ Decrypted(running, opened)
  BY DEF Decryption, RunningInv, RunningDecodes, ExtTypes
<1>2. instruction \in Instruction
  BY <1>1, ActionIsTyped
<1> DEFINE cs == Ciphertexts(instruction)
<1>3. /\ cs \in Seq(Envelope) /\ Len(instruction.providers) \in Nat
      /\ Len(cs) = Len(instruction.providers) + 1
  BY <1>1, <1>2, CiphertextsOf DEF Decodes
<1>4. /\ envelope = cs[Len(opened) + 1] \/ (envelope = Unreadable /\ running \in faulted')
      /\ faulted' \in SUBSET Requests /\ faulted \subseteq faulted'
  BY <1>1 DEF Decryption, ExtTypes
<1>5. Continue(envelope)
  BY DEF Decryption
<1> HIDE DEF cs
<1>6. envelope \in Envelope
  BY <1>1, <1>3, <1>4 DEF Envelope
<1>7. envelopes \in Seq(Envelope) /\ Len(envelopes) = Len(opened) + 1
      /\ \A i \in 1..Len(opened) : envelopes[i] = opened[i]
      /\ envelopes[Len(opened) + 1] = envelope
  BY <1>1, <1>6, AppendProperties
<1>8. \A i \in 1..Len(envelopes) :
        envelopes[i] = cs[i] \/ (envelopes[i] = Unreadable /\ running \in faulted')
  <2>1. \A i \in 1..Len(envelopes) : i \in 1..Len(opened) \/ i = Len(opened) + 1
    BY <1>1, <1>7
  <2>2. \A i \in 1..Len(opened) :
          opened[i] = cs[i] \/ (opened[i] = Unreadable /\ running \in faulted')
    BY <1>1, <1>4 DEF Decrypted, cs
  <2>3. QED
    BY <1>4, <1>7, <2>1, <2>2
<1> HIDE DEF envelopes
<1>9. \/ /\ Len(envelopes) < Len(cs)
         /\ opened' = envelopes
         /\ UNCHANGED <<running, processedResolutions, answers>>
      \/ /\ ~(Len(envelopes) < Len(cs))
         /\ opened' = <<>>
         /\ running' = NoRequest
         /\ processedResolutions' = processedResolutions + 1
         /\ answers' = [answers EXCEPT ![running] =
              Success(ResolveRfqV1(InputOf(instruction, envelopes)))]
  BY <1>5, Zenon DEF Continue, envelopes, cs
<1>10. \/ /\ Len(envelopes) <= Len(instruction.providers)
          /\ Len(envelopes) < Len(cs)
       \/ /\ Len(envelopes) = Len(instruction.providers) + 1
          /\ ~(Len(envelopes) < Len(cs))
  BY <1>1, <1>3, <1>7
<1>11. QED
  <2> USE <1>1, <1>2, <1>3, <1>4, <1>7, <1>8, <1>9, <1>10
  <2>1. QED
    BY Zenon DEF envelopes, cs

\* Every step keeps the state of its types.
LEMMA TypesStep ==
  ASSUME ExtTypes, RunningInv, ExtStep
  PROVE  ExtTypes'
<1>1. /\ bodies \in [Requests -> Body \cup {NotSent, TurnedAway}]
      /\ answers \in [Requests -> Answer] /\ queue \in Seq(Requests)
      /\ arrivals \in Seq(Requests) /\ processedResolutions \in Nat
  BY DEF ExtTypes
<1>2. queue # <<>> => Head(queue) \in Requests /\ Tail(queue) \in Seq(Requests)
  BY <1>1, HeadTailProperties
<1>3. ASSUME NEW q \in Requests, NEW code \in {"400", "501"}, TurnAway(q, code)
      PROVE  ExtTypes'
  BY <1>1, <1>3, AnswersAreTyped DEF TurnAway, ExtTypes
<1>4. ASSUME NEW q \in Requests, NEW body \in Body, AcceptRequest(q, body)
      PROVE  ExtTypes'
  BY <1>1, <1>4 DEF AcceptRequest, ExtTypes
<1>5. CASE ReportState
  BY <1>1, <1>2, <1>5, AnswersAreTyped DEF ReportState, ExtTypes
<1>6. CASE FailAction
  BY <1>1, <1>2, <1>6, AnswersAreTyped DEF FailAction, ExtTypes
<1>7. CASE StartAction
  BY <1>1, <1>2, <1>7 DEF StartAction, ExtTypes
<1>8. ASSUME NEW envelope, Decryption(envelope)
      PROVE  ExtTypes'
  <2>1. UNCHANGED <<process, node, bodies, queue, arrivals>>
    BY <1>8 DEF Decryption
  <2>2. /\ running \in Requests /\ faulted' \in SUBSET Requests
        /\ bodies[running].instruction \in Instruction
        /\ Append(opened, envelope) \in Seq(Envelope)
        /\ \/ /\ opened' = Append(opened, envelope)
              /\ UNCHANGED <<running, processedResolutions, answers>>
           \/ /\ Len(Append(opened, envelope)) = Len(bodies[running].instruction.providers) + 1
              /\ opened' = <<>>
              /\ running' = NoRequest
              /\ processedResolutions' = processedResolutions + 1
              /\ answers' = [answers EXCEPT ![running] =
                   Success(ResolveRfqV1(InputOf(bodies[running].instruction,
                                                Append(opened, envelope))))]
    BY <1>8, DecryptionCases, Zenon
  <2> DEFINE outcome == ResolveRfqV1(InputOf(bodies[running].instruction,
                                             Append(opened, envelope)))
  <2>3. Len(Append(opened, envelope)) = Len(bodies[running].instruction.providers) + 1
        => outcome \in Outcome
    BY <2>2, InputIsTyped, ResolveIsBest
  <2> HIDE DEF outcome
  <2>4. CASE /\ opened' = Append(opened, envelope)
             /\ UNCHANGED <<running, processedResolutions, answers>>
    BY <2>1, <2>2, <2>4 DEF ExtTypes
  <2>5. CASE /\ opened' = <<>> /\ running' = NoRequest /\ outcome \in Outcome
             /\ processedResolutions' = processedResolutions + 1
             /\ answers' = [answers EXCEPT ![running] = Success(outcome)]
    <3>1. answers' \in [Requests -> Answer]
      BY <1>1, <2>2, <2>5, AnswersAreTyped
    <3>2. QED
      BY <1>1, <2>1, <2>2, <2>5, <3>1, EmptySeq DEF ExtTypes
  <2>6. QED
    BY <2>2, <2>3, <2>4, <2>5 DEF outcome
<1>9. CASE GoDown
  BY <1>1, <1>9, AnswersAreTyped, EmptySeq DEF GoDown, ExtTypes
<1>10. CASE Elsewhere
  BY <1>10 DEF Elsewhere, ExtTypes
<1>11. QED
  BY <1>3, <1>4, <1>5, <1>6, <1>7, <1>8, <1>9, <1>10 DEF ExtStep

\* What an action asked for never changes, and a lost ciphertext stays lost.
LEMMA ActionsStay ==
  ASSUME ExtTypes, ExtStep, NEW q \in Requests, bodies[q].kind = "action"
  PROVE  bodies'[q] = bodies[q] /\ faulted \subseteq faulted'
<1>1. bodies[q] # NotSent /\ q \in DOMAIN bodies
  <2>1. NotSent.kind = "not sent"
    BY DEF NotSent
  <2>2. QED
    BY <2>1 DEF ExtTypes
<1>2. ASSUME NEW p \in Requests, NEW code, Arrives(p), TurnAway(p, code)
      PROVE  bodies'[q] = bodies[q] /\ faulted' = faulted
  BY <1>1, <1>2 DEF Arrives, TurnAway
<1>3. ASSUME NEW p \in Requests, NEW body, AcceptRequest(p, body)
      PROVE  bodies'[q] = bodies[q] /\ faulted' = faulted
  BY <1>1, <1>3 DEF Arrives, AcceptRequest
<1>4. QED
  BY <1>2, <1>3
  DEF ExtStep, ReportState, FailAction, StartAction, Decryption, GoDown, Elsewhere

LEMMA DecryptedStays ==
  ASSUME NEW q, NEW envelopes, Decrypted(q, envelopes),
         bodies'[q] = bodies[q], faulted \subseteq faulted'
  PROVE  \A i \in 1..Len(envelopes) :
           \/ envelopes[i] = Ciphertexts(bodies'[q].instruction)[i]
           \/ envelopes[i] = Unreadable /\ q \in faulted'
BY DEF Decrypted

LEMMA RunningStep ==
  ASSUME ExtTypes, RunningInv, ExtStep
  PROVE  RunningInv'
<1>1. running \in Requests \cup {NoRequest}
  BY DEF ExtTypes
<1>2. CASE UNCHANGED <<running, opened>>
  <2>1. CASE running = NoRequest
    BY <1>2, <2>1 DEF RunningInv, RunningDecodes
  <2>2. CASE running # NoRequest
    <3>1. running \in Requests /\ bodies[running].kind = "action"
          /\ Decodes(bodies[running].instruction)
          /\ Len(opened) <= Len(bodies[running].instruction.providers)
          /\ Decrypted(running, opened)
      BY <1>1, <2>2 DEF RunningInv, RunningDecodes
    <3>2. bodies'[running] = bodies[running] /\ faulted \subseteq faulted'
      BY <3>1, ActionsStay
    <3>3. Decrypted(running, opened)'
      BY <1>2, <3>1, <3>2, DecryptedStays DEF Decrypted
    <3>4. QED
      BY <1>2, <3>1, <3>2, <3>3 DEF RunningInv, RunningDecodes
  <2>3. QED
    BY <2>1, <2>2
<1>3. CASE running' = NoRequest /\ opened' = <<>>
  BY <1>3 DEF RunningInv, RunningDecodes
<1>4. CASE StartAction
  <2>1. /\ queue \in Seq(Requests) /\ queue # <<>> /\ running' = Head(queue)
        /\ bodies[Head(queue)].kind = "action" /\ Decodes(bodies[Head(queue)].instruction)
        /\ opened' = <<>> /\ bodies' = bodies
    BY <1>4 DEF StartAction, ExtTypes, RunningInv
  <2>2. Head(queue) \in Requests
    BY <2>1, HeadTailProperties
  <2>3. Len(bodies[Head(queue)].instruction.providers) \in Nat
    BY <2>1, <2>2, ActionIsTyped, CiphertextsOf
  <2>4. Len(opened') = 0
    BY <2>1, EmptySeq
  <2>5. Decrypted(running, opened)'
    BY <2>4 DEF Decrypted
  <2>6. QED
    BY <2>1, <2>3, <2>4, <2>5 DEF RunningInv, RunningDecodes
<1>5. ASSUME NEW envelope, Decryption(envelope)
      PROVE  RunningInv'
  <2>1. /\ running \in Requests /\ bodies' = bodies
        /\ bodies[running].kind = "action" /\ Decodes(bodies[running].instruction)
        /\ \A i \in 1..Len(Append(opened, envelope)) :
             \/ Append(opened, envelope)[i] = Ciphertexts(bodies[running].instruction)[i]
             \/ Append(opened, envelope)[i] = Unreadable /\ running \in faulted'
        /\ \/ /\ Len(Append(opened, envelope)) <= Len(bodies[running].instruction.providers)
              /\ opened' = Append(opened, envelope) /\ running' = running
           \/ opened' = <<>> /\ running' = NoRequest
    BY <1>5, DecryptionCases, Zenon DEF Decryption
  <2>2. CASE /\ Len(Append(opened, envelope)) <= Len(bodies[running].instruction.providers)
             /\ opened' = Append(opened, envelope) /\ running' = running
    <3>1. \A i \in 1..Len(opened') :
            \/ opened'[i] = Ciphertexts(bodies'[running'].instruction)[i]
            \/ opened'[i] = Unreadable /\ running' \in faulted'
      BY <2>1, <2>2, Zenon
    <3>2. Decrypted(running, opened)'
      BY <3>1, Zenon DEF Decrypted
    <3>3. /\ bodies'[running'].kind = "action" /\ Decodes(bodies'[running'].instruction)
          /\ Len(opened') <= Len(bodies'[running'].instruction.providers)
          /\ running' # NoRequest
      BY <1>5, <2>1, <2>2 DEF Decryption
    <3>4. QED
      BY <3>2, <3>3, Zenon DEF RunningInv, RunningDecodes
  <2>3. QED
    BY <1>3, <2>1, <2>2
<1>6. QED
  BY <1>2, <1>3, <1>4, <1>5
  DEF ExtStep, TurnAway, AcceptRequest, ReportState, FailAction, GoDown, Elsewhere

\* The only step that gives a success ends the running action.
LEMMA SuccessStep ==
  ASSUME ExtTypes, RunningInv, ExtStep, NEW q \in Requests, IsSuccess(answers'[q]),
         answers'[q] # answers[q]
  PROVE  \E envelope :
           /\ Decryption(envelope) /\ q = running
           /\ Len(Append(opened, envelope)) = Len(bodies[q].instruction.providers) + 1
           /\ answers' = [answers EXCEPT ![q] =
                Success(ResolveRfqV1(InputOf(bodies[q].instruction, Append(opened, envelope))))]
<1>1. answers \in [Requests -> Answer]
  BY DEF ExtTypes
<1>2. ASSUME NEW p, NEW answer, ~IsSuccess(answer), answers' = [answers EXCEPT ![p] = answer]
      PROVE  FALSE
  BY <1>1, <1>2
<1>3. CASE \/ \E p \in Requests, code \in {"400", "501"} : TurnAway(p, code)
           \/ ReportState \/ FailAction
  BY <1>2, <1>3, AnswersDiffer DEF TurnAway, ReportState, FailAction
<1>4. CASE GoDown
  BY <1>1, <1>4, AnswersDiffer DEF GoDown
<1>5. ASSUME NEW envelope, Decryption(envelope)
      PROVE  /\ q = running
             /\ Len(Append(opened, envelope)) = Len(bodies[q].instruction.providers) + 1
             /\ answers' = [answers EXCEPT ![q] =
                  Success(ResolveRfqV1(InputOf(bodies[q].instruction,
                                               Append(opened, envelope))))]
  <2>1. \/ answers' = answers
        \/ /\ Len(Append(opened, envelope)) = Len(bodies[running].instruction.providers) + 1
           /\ answers' = [answers EXCEPT ![running] =
                Success(ResolveRfqV1(InputOf(bodies[running].instruction,
                                             Append(opened, envelope))))]
    BY <1>5, DecryptionCases, Zenon
  <2>2. q = running
    BY <1>1, <2>1
  <2>3. QED
    BY <2>1, <2>2
<1>6. answers' # answers
  OBVIOUS
<1>7. QED
  BY <1>3, <1>4, <1>5, <1>6 DEF ExtStep, AcceptRequest, StartAction, Elsewhere

LEMMA ResolvedStep ==
  ASSUME ExtTypes, RunningInv, SuccessesAreResolved, ExtStep
  PROVE  SuccessesAreResolved'
<1> SUFFICES ASSUME NEW q \in Requests, IsSuccess(answers'[q])
             PROVE  Resolved(q)'
  BY DEF SuccessesAreResolved
<1>1. CASE answers'[q] = answers[q]
  <2>1. Resolved(q)
    BY <1>1 DEF SuccessesAreResolved
  <2>2. bodies'[q] = bodies[q] /\ faulted \subseteq faulted'
    BY <2>1, ActionsStay DEF Resolved
  <2>3. PICK envelopes \in Seq(Envelope) :
          /\ Len(envelopes) = Len(bodies[q].instruction.providers) + 1
          /\ Decrypted(q, envelopes)
          /\ answers[q] = Success(ResolveRfqV1(InputOf(bodies[q].instruction, envelopes)))
    BY <2>1 DEF Resolved
  <2>4. Decrypted(q, envelopes)'
    BY <2>2, <2>3, DecryptedStays DEF Decrypted
  <2>5. QED
    BY <1>1, <2>1, <2>2, <2>3, <2>4 DEF Resolved
<1>2. CASE answers'[q] # answers[q]
  <2>1. PICK envelope :
          /\ Decryption(envelope) /\ q = running
          /\ Len(Append(opened, envelope)) = Len(bodies[q].instruction.providers) + 1
          /\ answers' = [answers EXCEPT ![q] =
               Success(ResolveRfqV1(InputOf(bodies[q].instruction, Append(opened, envelope))))]
    BY <1>2, SuccessStep
  <2>2. /\ bodies[q].kind = "action" /\ Decodes(bodies[q].instruction) /\ bodies' = bodies
        /\ Append(opened, envelope) \in Seq(Envelope)
        /\ \A i \in 1..Len(Append(opened, envelope)) :
             \/ Append(opened, envelope)[i] = Ciphertexts(bodies[q].instruction)[i]
             \/ Append(opened, envelope)[i] = Unreadable /\ q \in faulted'
    BY <2>1, DecryptionCases, Zenon DEF Decryption
  <2>3. answers'[q] =
          Success(ResolveRfqV1(InputOf(bodies[q].instruction, Append(opened, envelope))))
    BY <2>1 DEF ExtTypes
  <2> DEFINE envelopes == Append(opened, envelope)
  <2> HIDE DEF envelopes
  <2>4. \E e \in Seq(Envelope) :
          /\ Len(e) = Len(bodies'[q].instruction.providers) + 1
          /\ \A i \in 1..Len(e) :
               \/ e[i] = Ciphertexts(bodies'[q].instruction)[i]
               \/ e[i] = Unreadable /\ q \in faulted'
          /\ answers'[q] = Success(ResolveRfqV1(InputOf(bodies'[q].instruction, e)))
    <3>1. /\ envelopes \in Seq(Envelope)
          /\ Len(envelopes) = Len(bodies'[q].instruction.providers) + 1
          /\ \A i \in 1..Len(envelopes) :
               \/ envelopes[i] = Ciphertexts(bodies'[q].instruction)[i]
               \/ envelopes[i] = Unreadable /\ q \in faulted'
          /\ answers'[q] = Success(ResolveRfqV1(InputOf(bodies'[q].instruction, envelopes)))
      BY <2>1, <2>2, <2>3 DEF envelopes
    <3>2. QED
      BY <3>1, Zenon
  <2>5. QED
    BY <2>2, <2>4 DEF Resolved, Decrypted
<1>3. QED
  BY <1>1, <1>2

-----------------------------------------------------------------------------
(* What reads of the state report *)

\* The successes among the first n arrivals.
Successes(n) == {j \in 1..n : IsSuccess(answers[arrivals[j]])}

\* The counter counts them all, and every read was told those before it.
CountInv ==
  /\ processedResolutions = Cardinality(Successes(Len(arrivals)))
  /\ \A i \in 1..Len(arrivals) :
       bodies[arrivals[i]].kind = "state" /\ answers[arrivals[i]] # Unanswered =>
         answers[arrivals[i]] = StateAnswer(Cardinality(Successes(i - 1)))

LEMMA CountsAreReads ==
  ASSUME QueueTypes
  PROVE  CountInv => StateReadsAreExact
<1>1. DOMAIN arrivals = 1..Len(arrivals)
  BY DEF QueueTypes
<1>2. QED
  BY <1>1, Zenon DEF CountInv, StateReadsAreExact, Successes

LEMMA SuccessesAreFinite ==
  ASSUME NEW n \in Nat
  PROVE  IsFiniteSet(Successes(n))
<1>1. IsFiniteSet(1..n)
  BY FS_Interval
<1>2. QED
  BY <1>1, FS_Subset DEF Successes

\* A process starts with nothing counted.
LEMMA NothingCounted == arrivals = <<>> /\ processedResolutions = 0 => CountInv
<1> SUFFICES ASSUME arrivals = <<>>, processedResolutions = 0 PROVE CountInv
  OBVIOUS
<1>1. Len(arrivals) = 0
  BY EmptySeq
<1>2. Successes(0) = {}
  BY DEF Successes
<1>3. QED
  BY <1>1, <1>2, FS_EmptySet DEF CountInv

\* Answering the first of the work ahead counts it if it succeeded; everything before it
\* has its answer, and nothing behind it has one.
LEMMA AnsweringKeepsCounts ==
  ASSUME QueueInv, CountInv, Ahead # <<>>, UNCHANGED <<arrivals, bodies>>,
         NEW answer, answers' = [answers EXCEPT ![Head(Ahead)] = answer],
         IsSuccess(answer) => processedResolutions' = processedResolutions + 1
                                /\ bodies[Head(Ahead)].kind # "state",
         ~IsSuccess(answer) => processedResolutions' = processedResolutions,
         bodies[Head(Ahead)].kind = "state" => answer = StateAnswer(processedResolutions)
  PROVE  CountInv'
<1> DEFINE p == Head(Ahead)
           all == Len(arrivals)
<1>1. /\ Ahead \in Seq(Requests) /\ Len(Ahead) \in Nat \ {0} /\ all \in Nat
      /\ arrivals \in Seq(Requests) /\ Served \in Nat /\ Served + 1 \in 1..all
      /\ Served = all - Len(Ahead)
  BY AheadIsTyped, EmptySeq DEF QueueInv, QueueTypes, InOrder, Served
<1>2. p = arrivals[Served + 1]
  BY <1>1 DEF QueueInv, InOrder
<1>3. \A j \in 1..all :
        /\ arrivals[j] \in Requests
        /\ j # Served + 1 => arrivals[j] # p
        /\ (answers[arrivals[j]] # Unanswered) <=> (j <= Served)
  <2>1. \A j \in 1..all : arrivals[j] \in Requests /\ j \in DOMAIN arrivals
    BY <1>1
  <2>2. QED
    BY <1>1, <1>2, <2>1 DEF QueueInv, ArrivesOnce, InOrder
<1>4. DOMAIN answers = Requests
  BY DEF QueueInv, QueueTypes
<1>5. /\ answers'[p] = answer
      /\ \A j \in 1..all : j # Served + 1 => answers'[arrivals[j]] = answers[arrivals[j]]
  BY <1>1, <1>2, <1>3, <1>4
<1> HIDE DEF p, all
<1>6. \A n \in 0..Served : Successes(n)' = Successes(n)
  <2> SUFFICES ASSUME NEW n \in 0..Served PROVE Successes(n)' = Successes(n)
    OBVIOUS
  <2>1. \A j \in 1..n : j \in 1..all /\ j # Served + 1
    BY <1>1
  <2>2. QED
    BY <1>5, <2>1 DEF Successes
<1>7. Successes(all) = Successes(Served)
  <2>1. \A j \in 1..all : IsSuccess(answers[arrivals[j]]) => j \in 1..Served
    BY <1>1, <1>3, AnswersDiffer
  <2>2. \A j \in 1..Served : j \in 1..all
    BY <1>1
  <2>3. QED
    BY <2>1, <2>2 DEF Successes
<1>8. Successes(all)' = Successes(all) \cup (IF IsSuccess(answer) THEN {Served + 1} ELSE {})
      /\ Served + 1 \notin Successes(all)
  <2>1. \A j \in 1..all :
          IsSuccess(answers'[arrivals[j]])
          <=> (IsSuccess(answers[arrivals[j]]) \/ (j = Served + 1 /\ IsSuccess(answer)))
    <3>1. ASSUME NEW j \in 1..all, j = Served + 1
          PROVE  /\ answers'[arrivals[j]] = answer
                 /\ ~IsSuccess(answers[arrivals[j]])
      <4>1. answers[arrivals[j]] = Unanswered
        BY <1>1, <1>3, <3>1
      <4>2. QED
        BY <1>2, <1>5, <3>1, <4>1, AnswersDiffer
    <3>2. QED
      BY <1>5, <3>1, Zenon
  <2>2. ~IsSuccess(answers[arrivals[Served + 1]])
    BY <1>1, <1>3, AnswersDiffer
  <2>3. QED
    BY <1>1, <2>1, <2>2 DEF Successes, all
<1>9. processedResolutions' = Cardinality(Successes(all)')
  <2>1. processedResolutions = Cardinality(Successes(all))
    BY DEF CountInv, all
  <2>2. IsFiniteSet(Successes(all))
    BY <1>1, SuccessesAreFinite
  <2>3. CASE IsSuccess(answer)
    BY <1>8, <2>1, <2>2, <2>3, FS_AddElement
  <2>4. CASE ~IsSuccess(answer)
    BY <1>8, <2>1, <2>4
  <2>5. QED
    BY <2>3, <2>4
<1>10. ASSUME NEW i \in 1..all, bodies[arrivals[i]].kind = "state",
              answers'[arrivals[i]] # Unanswered
       PROVE  answers'[arrivals[i]] = StateAnswer(Cardinality(Successes(i - 1)'))
  <2>1. CASE i = Served + 1
    <3>1. answers'[arrivals[i]] = StateAnswer(processedResolutions)
      BY <1>2, <1>5, <1>10, <2>1 DEF p
    <3>2. processedResolutions = Cardinality(Successes(Served))
      BY <1>7 DEF CountInv, all
    <3>3. i - 1 = Served /\ Served \in 0..Served
      BY <1>1, <2>1
    <3>4. QED
      BY <1>6, <3>1, <3>2, <3>3
  <2>2. CASE i # Served + 1
    <3>1. answers'[arrivals[i]] = answers[arrivals[i]] /\ i <= Served
      BY <1>3, <1>5, <1>10, <2>2
    <3>2. i - 1 \in 0..Served
      BY <1>1, <3>1
    <3>3. answers[arrivals[i]] = StateAnswer(Cardinality(Successes(i - 1)))
      BY <1>10, <3>1 DEF CountInv, all
    <3>4. QED
      BY <1>6, <3>1, <3>2, <3>3
  <2>3. QED
    BY <2>1, <2>2
<1>11. QED
  BY <1>9, <1>10 DEF CountInv, all

\* Work that arrives, or is turned away, has been told nothing and counts nothing.
LEMMA ArrivingKeepsCounts ==
  ASSUME QueueInv, CountInv, NEW q \in Requests, Arrives(q),
         UNCHANGED processedResolutions,
         NEW body, bodies' = [bodies EXCEPT ![q] = body],
         NEW answer, answers' = [answers EXCEPT ![q] = answer],
         \/ arrivals' = arrivals
         \/ arrivals' = Append(arrivals, q) /\ answer = Unanswered
  PROVE  CountInv'
<1> DEFINE all == Len(arrivals)
<1>1. /\ arrivals \in Seq(Requests) /\ all \in Nat
      /\ DOMAIN answers = Requests /\ DOMAIN bodies = Requests
      /\ bodies[q] = NotSent
  BY DEF QueueInv, QueueTypes, Arrives
<1>2. \A j \in 1..all : arrivals[j] # q
  <2>1. \A j \in 1..all : j \in DOMAIN arrivals
    BY <1>1
  <2>2. QED
    BY <1>1, <2>1, Zenon DEF QueueInv, ArrivesOnce
<1>3. /\ all <= Len(arrivals')
      /\ \A j \in 1..all : arrivals'[j] = arrivals[j]
      /\ \A j \in 1..Len(arrivals') : j \in 1..all \/ (arrivals'[j] = q /\ answer = Unanswered)
      /\ Len(arrivals') \in {all, all + 1}
  BY <1>1, AppendProperties
<1>4. answers'[q] = answer
      /\ \A j \in 1..all : /\ answers'[arrivals'[j]] = answers[arrivals[j]]
                          /\ bodies'[arrivals'[j]] = bodies[arrivals[j]]
  BY <1>1, <1>2, <1>3
<1>5. \A n \in 0..all : Successes(n)' = Successes(n)
  <2> SUFFICES ASSUME NEW n \in 0..all PROVE Successes(n)' = Successes(n)
    OBVIOUS
  <2>1. \A j \in 1..n : j \in 1..all
    BY <1>1
  <2>2. QED
    BY <1>4, <2>1 DEF Successes
<1> HIDE DEF all
<1>6. Successes(Len(arrivals))' = Successes(all)
  <2>1. \A j \in 1..Len(arrivals') : IsSuccess(answers'[arrivals'[j]]) => j \in 1..all
    BY <1>3, <1>4, AnswersDiffer
  <2>2. \A j \in 1..all : j \in 1..Len(arrivals')
    BY <1>1, <1>3
  <2>3. \A j \in 1..all : IsSuccess(answers'[arrivals'[j]]) <=> IsSuccess(answers[arrivals[j]])
    BY <1>4, Zenon
  <2>4. QED
    BY <2>1, <2>2, <2>3 DEF Successes
<1>7. ASSUME NEW i \in 1..Len(arrivals'), bodies'[arrivals'[i]].kind = "state",
             answers'[arrivals'[i]] # Unanswered
      PROVE  answers'[arrivals'[i]] = StateAnswer(Cardinality(Successes(i - 1)'))
  <2>1. i \in 1..all
    BY <1>3, <1>4, <1>7
  <2>2. answers[arrivals[i]] = StateAnswer(Cardinality(Successes(i - 1)))
    BY <1>4, <1>7, <2>1 DEF CountInv, all
  <2>3. i - 1 \in 0..all
    BY <1>1, <2>1
  <2>4. QED
    BY <1>4, <1>5, <2>1, <2>2, <2>3
<1>8. processedResolutions' = Cardinality(Successes(Len(arrivals))')
  BY <1>6 DEF CountInv, all
<1>9. QED
  BY <1>7, <1>8 DEF CountInv

\* The head of the queue, answered with nothing running, is the first of the work ahead.
LEMMA AnswerHeadKeepsCounts ==
  ASSUME QueueInv, CountInv, running = NoRequest, queue # <<>>,
         UNCHANGED <<arrivals, bodies, processedResolutions>>,
         NEW answer, ~IsSuccess(answer), answers' = [answers EXCEPT ![Head(queue)] = answer],
         bodies[Head(queue)].kind = "state" => answer = StateAnswer(processedResolutions)
  PROVE  CountInv'
<1>1. Ahead = queue
  BY DEF Ahead
<1>2. QED
  BY <1>1, AnsweringKeepsCounts

LEMMA CountStep ==
  ASSUME ExtTypes, QueueInv, RunningInv, CountInv, ExtStep
  PROVE  CountInv'
<1>1. ASSUME NEW q \in Requests, NEW code, Arrives(q), TurnAway(q, code)
      PROVE  CountInv'
  BY <1>1, ArrivingKeepsCounts DEF TurnAway
<1>2. ASSUME NEW q \in Requests, NEW body, AcceptRequest(q, body)
      PROVE  CountInv'
  <2>1. answers[q] = Unanswered
    BY <1>2 DEF AcceptRequest, Arrives, QueueInv, InOrder
  <2>2. answers' = [answers EXCEPT ![q] = Unanswered]
    BY <1>2, <2>1 DEF AcceptRequest, ExtTypes
  <2>3. QED
    BY <1>2, <2>2, ArrivingKeepsCounts DEF AcceptRequest
<1>3. CASE ReportState
  BY <1>3, AnswersDiffer, AnswerHeadKeepsCounts DEF ReportState
<1>4. CASE FailAction
  <2>1. bodies[Head(queue)].kind # "state"
    BY <1>4 DEF FailAction, Unusable
  <2>2. QED
    BY <1>4, <2>1, AnswersDiffer, AnswerHeadKeepsCounts DEF FailAction
<1>5. CASE UNCHANGED <<arrivals, bodies, answers, processedResolutions>>
  BY <1>5 DEF CountInv, Successes
<1>6. ASSUME NEW envelope, Decryption(envelope)
      PROVE  CountInv'
  <2>1. /\ running \in Requests /\ bodies[running].kind = "action"
        /\ \/ UNCHANGED <<processedResolutions, answers>>
           \/ \E outcome :
                /\ processedResolutions' = processedResolutions + 1
                /\ answers' = [answers EXCEPT ![running] = Success(outcome)]
    BY <1>6, DecryptionCases, Zenon
  <2>2. UNCHANGED <<arrivals, bodies>> /\ running # NoRequest
    BY <1>6 DEF Decryption
  <2>3. CASE \E outcome :
               /\ processedResolutions' = processedResolutions + 1
               /\ answers' = [answers EXCEPT ![running] = Success(outcome)]
    <3>1. PICK outcome :
            /\ processedResolutions' = processedResolutions + 1
            /\ answers' = [answers EXCEPT ![running] = Success(outcome)]
      BY <2>3
    <3>2. queue \in Seq(Requests)
      BY DEF ExtTypes
    <3>3. Ahead # <<>> /\ Head(Ahead) = running
      BY <2>1, <2>2, <3>2 DEF Ahead
    <3>4. IsSuccess(Success(outcome))
      BY AnswersDiffer
    <3>5. QED
      BY <2>1, <2>2, <3>1, <3>3, <3>4, AnsweringKeepsCounts
  <2>4. QED
    BY <1>5, <2>1, <2>2, <2>3
<1>7. CASE GoDown
  <2>1. arrivals' = <<>> /\ processedResolutions' = 0
    BY <1>7 DEF GoDown
  <2>2. (arrivals = <<>> /\ processedResolutions = 0 => CountInv)'
    BY NothingCounted, PTL
  <2>3. QED
    BY <2>1, <2>2
<1>8. QED
  BY <1>1, <1>2, <1>3, <1>4, <1>5, <1>6, <1>7 DEF ExtStep, StartAction, Elsewhere

-----------------------------------------------------------------------------
(* The invariant, and what follows from it *)

ExtInv == ExtTypes /\ QueueInv /\ RunningInv /\ SuccessesAreResolved /\ CountInv

LEMMA InitHolds == EitherInit => ExtInv
<1> SUFFICES ASSUME EitherInit PROVE ExtInv
  OBVIOUS
<1>1. /\ queue = <<>> /\ running = NoRequest /\ arrivals = <<>> /\ opened = <<>>
      /\ process = "up" /\ node = "serving" /\ processedResolutions = 0 /\ faulted = {}
      /\ bodies = [q \in Requests |-> NotSent] /\ answers = [q \in Requests |-> Unanswered]
  BY DEF EitherInit, ExtInit
<1>2. ExtTypes
  BY <1>1, EmptySeq, AnswersAreTyped DEF ExtTypes
<1>3. QueueTypes
  BY <1>1, EmptySeq DEF QueueTypes
<1>4. Ahead = <<>> /\ Len(Ahead) = 0 /\ Len(arrivals) = 0 /\ Served = 0
  BY <1>1, EmptySeq DEF Ahead, Served
<1>5. QueueInv
  BY <1>1, <1>3, <1>4, EmptySeq DEF QueueInv, ArrivesOnce, InOrder
<1>6. RunningInv
  BY <1>1 DEF RunningInv, RunningDecodes
<1>7. SuccessesAreResolved
  BY <1>1, AnswersDiffer DEF SuccessesAreResolved
<1>8. CountInv
  BY <1>1, NothingCounted
<1>9. QED
  BY <1>2, <1>5, <1>6, <1>7, <1>8 DEF ExtInv

LEMMA ExtInvariant == EitherSpec => []ExtInv
<1>1. ExtInv /\ [EitherNext]_eitherVars => ExtInv'
  <2> SUFFICES ASSUME ExtInv, [EitherNext]_eitherVars PROVE ExtInv'
    OBVIOUS
  <2>1. ExtTypes /\ QueueInv /\ RunningInv /\ SuccessesAreResolved /\ CountInv
    BY DEF ExtInv
  <2>2. ExtStep
    BY <2>1, EitherStep DEF RunningInv
  <2>3. ExtTypes' /\ QueueInv' /\ RunningInv'
    BY <2>1, <2>2, TypesStep, QueueStep, RunningStep
  <2>4. SuccessesAreResolved' /\ CountInv'
    BY <2>1, <2>2, ResolvedStep, CountStep
  <2>5. QED
    BY <2>3, <2>4 DEF ExtInv
<1>2. QED
  BY <1>1, InitHolds, PTL DEF EitherSpec

\* No accepted work is dropped, doubled or overtaken under either entry, whatever the node,
\* signals and crashes do (serialize, createServer; enqueue, createFccRuntimeV1).
THEOREM ServiceIsInOrder == EitherSpec => []WorkIsServedInOrder
<1>1. ExtInv => WorkIsServedInOrder
  BY OrderIsService DEF ExtInv
<1>2. QED
  BY <1>1, ExtInvariant, PTL

\* No more ciphertexts are held open than the largest request has, and no more successes
\* are counted than requests were sent (handleResolveRfq, processedResolutions).
THEOREM ExtTypeCorrect == EitherSpec => []ExtTypeOK
<1>1. ExtInv => ExtTypeOK
  <2> SUFFICES ASSUME ExtTypes, QueueInv, RunningInv, CountInv PROVE ExtTypeOK
    BY DEF ExtInv
  <2>1. Len(opened) <= MAX_PROVIDERS
    <3>1. CASE running = NoRequest
      BY <3>1, EmptySeq, ProviderLimitIsNatural DEF RunningInv
    <3>2. CASE running # NoRequest
      <4>1. /\ running \in Requests /\ bodies[running].kind = "action"
            /\ Len(opened) <= Len(bodies[running].instruction.providers)
            /\ Len(bodies[running].instruction.providers) <= MAX_PROVIDERS
        BY <3>2 DEF RunningInv, RunningDecodes, Decodes, ExtTypes
      <4>2. Len(bodies[running].instruction.providers) \in Nat /\ Len(opened) \in Nat
        BY <4>1, ActionIsTyped, CiphertextsOf DEF ExtTypes
      <4>3. QED
        BY <4>1, <4>2, ProviderLimitIsNatural
    <3>3. QED
      BY <3>1, <3>2
  <2>2. processedResolutions \in 0..Cardinality(Requests)
    <3> DEFINE S == Successes(Len(arrivals))
               request == [j \in S |-> arrivals[j]]
    <3>1. Len(arrivals) \in Nat /\ DOMAIN arrivals = 1..Len(arrivals)
          /\ arrivals \in Seq(Requests)
      BY DEF ExtTypes
    <3>2. IsFiniteSet(S)
      BY <3>1, SuccessesAreFinite
    <3>3. IsFiniteSet(Requests)
      BY MaxRequestsIsNatural, FS_Interval DEF Requests
    <3>4. \A j \in S : j \in DOMAIN arrivals /\ arrivals[j] \in Requests
      BY <3>1 DEF Successes
    <3>5. \A i, j \in S : arrivals[i] = arrivals[j] => i = j
      BY <3>4, Zenon DEF QueueInv, ArrivesOnce
    <3> HIDE DEF S
    <3>6. request \in Injection(S, Requests)
      BY <3>4, <3>5 DEF Injection, IsInjective
    <3>7. Cardinality(S) <= Cardinality(Requests)
      <4> HIDE DEF request
      <4>1. QED
        BY <3>3, <3>6, FS_Injection
    <3>8. Cardinality(S) \in Nat /\ Cardinality(Requests) \in Nat
      BY <3>2, <3>3, FS_CardinalityType
    <3>9. processedResolutions = Cardinality(S)
      BY DEF CountInv, S
    <3>10. QED
      BY <3>7, <3>8, <3>9
  <2>3. QED
    BY <2>1, <2>2 DEF ExtTypes, ExtTypeOK
<1>2. QED
  BY <1>1, ExtInvariant, PTL

\* A read of the state is told exactly the successes that arrived before it, however many
\* actions are in flight around it (processState, serialize).
THEOREM StateReadsCorrect == EitherSpec => []StateReadsAreExact
<1>1. ExtInv => StateReadsAreExact
  BY CountsAreReads DEF ExtInv, QueueInv
<1>2. QED
  BY <1>1, ExtInvariant, PTL

-----------------------------------------------------------------------------

\* The input of a success, and what it says of the answer.
LEMMA SuccessIsBest ==
  ASSUME ExtTypes, NEW q \in Requests, Resolved(q)
  PROVE  /\ bodies[q].instruction \in Instruction
         /\ \E envelopes \in Seq(Envelope) :
              /\ Len(envelopes) = Len(bodies[q].instruction.providers) + 1
              /\ Decrypted(q, envelopes)
              /\ InputOf(bodies[q].instruction, envelopes) \in ResolveRfqInput
              /\ IsBestOutcome(InputOf(bodies[q].instruction, envelopes), answers[q].data)
<1>1. bodies[q].instruction \in Instruction
  BY ActionIsTyped DEF Resolved
<1>2. PICK envelopes \in Seq(Envelope) :
        /\ Len(envelopes) = Len(bodies[q].instruction.providers) + 1
        /\ Decrypted(q, envelopes)
        /\ answers[q] = Success(ResolveRfqV1(InputOf(bodies[q].instruction, envelopes)))
  BY DEF Resolved
<1>3. InputOf(bodies[q].instruction, envelopes) \in ResolveRfqInput
  BY <1>1, <1>2, InputIsTyped
<1>4. answers[q].data = ResolveRfqV1(InputOf(bodies[q].instruction, envelopes))
  BY <1>2, AnswersDiffer
<1>5. IsBestOutcome(InputOf(bodies[q].instruction, envelopes), answers[q].data)
  BY <1>3, <1>4, ResolveIsBest
<1>6. QED
  BY <1>1, <1>2, <1>3, <1>5

\* An action that lost no ciphertext to the node is answered with the best outcome of what
\* was sealed (handleResolveRfq, resolveRfqV1).
THEOREM FaultFreeCorrect == EitherSpec => []FaultFreeAnswersAreBest
<1>1. ExtInv => FaultFreeAnswersAreBest
  <2> SUFFICES ASSUME ExtTypes, SuccessesAreResolved,
                      NEW q \in Requests \ faulted, IsSuccess(answers[q])
               PROVE  IsBestOutcome(
                        InputOf(bodies[q].instruction, Ciphertexts(bodies[q].instruction)),
                        answers[q].data)
    BY DEF ExtInv, FaultFreeAnswersAreBest
  <2>1. Resolved(q)
    BY DEF SuccessesAreResolved
  <2>2. bodies[q].instruction \in Instruction /\ Decodes(bodies[q].instruction)
    BY <2>1, SuccessIsBest DEF Resolved
  <2>3. PICK envelopes \in Seq(Envelope) :
          /\ Len(envelopes) = Len(bodies[q].instruction.providers) + 1
          /\ Decrypted(q, envelopes)
          /\ IsBestOutcome(InputOf(bodies[q].instruction, envelopes), answers[q].data)
    BY <2>1, SuccessIsBest
  <2> DEFINE cs == Ciphertexts(bodies[q].instruction)
  <2>4. cs \in Seq(Envelope) /\ Len(cs) = Len(envelopes)
    BY <2>2, <2>3, CiphertextsOf DEF Decodes
  <2>5. \A i \in 1..Len(envelopes) : envelopes[i] = cs[i]
    BY <2>3 DEF Decrypted
  <2> HIDE DEF cs
  <2>6. envelopes = cs
    BY <2>4, <2>5, SeqEqual
  <2>7. QED
    BY <2>3, <2>6 DEF cs
<1>2. QED
  BY <1>1, ExtInvariant, PTL

\* A signed trade names a provider of the request at the price it sealed for this request,
\* within the cap and the sealed minimum, whatever was lost on the way (handleResolveRfq,
\* resolveRfqV1).
THEOREM TradesCorrect == EitherSpec => []TradesAreGenuine
<1>1. ExtInv => TradesAreGenuine
  <2> SUFFICES ASSUME ExtTypes, SuccessesAreResolved, NEW q \in Requests,
                      IsSuccess(answers[q]), answers[q].data.resultType = "TRADE"
               PROVE
          LET instruction == bodies[q].instruction
              minimum == instruction.sellerCiphertext
              trade == answers[q].data
          IN  /\ minimum = [payloadKind |-> "SELLER_MINIMUM", sender |-> instruction.seller,
                            bound |-> TRUE, value |-> minimum.value]
              /\ \E i \in DOMAIN instruction.providers :
                   /\ instruction.providers[i] = trade.winningProvider
                   /\ instruction.quoteCiphertexts[i] =
                        [payloadKind |-> "PROVIDER_QUOTE", sender |-> trade.winningProvider,
                         bound |-> TRUE, value |-> trade.winningQuote]
              /\ trade.winningQuote \in 1..instruction.quoteCap
              /\ trade.winningQuote >= minimum.value
    BY Zenon DEF ExtInv, TradesAreGenuine
  <2> DEFINE instruction == bodies[q].instruction
             minimum == instruction.sellerCiphertext
             trade == answers[q].data
  <2>1. Resolved(q)
    BY DEF SuccessesAreResolved
  <2>2. /\ instruction \in Instruction /\ Decodes(instruction)
        /\ minimum \in Envelope /\ instruction.quoteCap \in Nat
        /\ instruction.providers \in Seq(Addresses)
        /\ instruction.quoteCiphertexts \in Seq(Envelope)
    BY <2>1, SuccessIsBest DEF Resolved, Instruction
  <2>3. PICK envelopes \in Seq(Envelope) :
          /\ Len(envelopes) = Len(instruction.providers) + 1
          /\ Decrypted(q, envelopes)
          /\ InputOf(instruction, envelopes) \in ResolveRfqInput
          /\ IsBestOutcome(InputOf(instruction, envelopes), trade)
    BY <2>1, SuccessIsBest
  <2> DEFINE in == InputOf(instruction, envelopes)
  <2>4. /\ in.seller = instruction.seller /\ in.sellerEnvelope = envelopes[1]
        /\ in.providers = [i \in 1..Len(instruction.providers) |->
             [address |-> instruction.providers[i], quoteCap |-> instruction.quoteCap,
              envelope |-> envelopes[i + 1]]]
    BY DEF InputOf
  <2> DEFINE cs == Ciphertexts(instruction)
  <2>5. /\ cs[1] = minimum
        /\ \A i \in 1..Len(instruction.providers) :
             cs[i + 1] = instruction.quoteCiphertexts[i]
        /\ Len(instruction.providers) \in Nat
    BY <2>2, CiphertextsOf DEF Decodes
  <2>6. \A i \in 1..Len(envelopes) : envelopes[i] = cs[i] \/ envelopes[i] = Unreadable
    BY <2>3 DEF Decrypted
  <2> HIDE DEF in, cs, instruction, minimum, trade
  <2>7. ~Rejected(in) /\ trade # Verdict(NoWinner)
    <3>1. trade.resultType = "TRADE"
      BY DEF trade
    <3>2. Verdict(NoWinner).resultType # "TRADE" /\ Invalid.resultType # "TRADE"
      BY DEF Verdict, NoWinner, Invalid
    <3>3. QED
      BY <2>3, <3>1, <3>2 DEF IsBestOutcome, in
  <2>8. PICK i \in DOMAIN in.providers :
          /\ Eligible(in, in.providers[i])
          /\ trade = [resultType |-> "TRADE", winningProvider |-> in.providers[i].address,
                      winningQuote |-> in.providers[i].envelope.value]
    BY <2>3, <2>7 DEF IsBestOutcome, Wins, in
  <2>9. /\ i \in 1..Len(instruction.providers) /\ i \in DOMAIN instruction.providers
        /\ in.providers[i].address = instruction.providers[i]
        /\ in.providers[i].quoteCap = instruction.quoteCap
        /\ in.providers[i].envelope = envelopes[i + 1]
        /\ i + 1 \in 1..Len(envelopes) /\ 1 \in 1..Len(envelopes)
    BY <2>2, <2>3, <2>4, <2>5, <2>8
  <2> DEFINE quote == envelopes[i + 1]
  <2>10. /\ quote # Unreadable /\ quote.payloadKind = "PROVIDER_QUOTE"
         /\ quote.sender = instruction.providers[i] /\ quote.bound
         /\ quote.value # 0 /\ quote.value <= instruction.quoteCap
         /\ quote.value >= envelopes[1].value
    BY <2>4, <2>8, <2>9 DEF Eligible
  <2>11. /\ envelopes[1] # Unreadable /\ envelopes[1].payloadKind = "SELLER_MINIMUM"
         /\ envelopes[1].sender = instruction.seller /\ envelopes[1].bound
    BY <2>4, <2>7 DEF Rejected, SellerMinimumAccepted
  <2>12. quote = instruction.quoteCiphertexts[i] /\ envelopes[1] = minimum
    BY <2>5, <2>6, <2>9, <2>10, <2>11
  <2>13. quote \in EnvelopeV1 /\ minimum \in EnvelopeV1
    BY <2>2, <2>3, <2>9, <2>10, <2>11, <2>12 DEF Envelope
  <2> HIDE DEF quote
  <2>14. minimum = [payloadKind |-> "SELLER_MINIMUM", sender |-> instruction.seller,
                    bound |-> TRUE, value |-> minimum.value]
    BY <2>11, <2>12, <2>13 DEF EnvelopeV1
  <2>15. trade.winningProvider = instruction.providers[i] /\ trade.winningQuote = quote.value
    BY <2>8, <2>9 DEF quote
  <2>16. quote = [payloadKind |-> "PROVIDER_QUOTE", sender |-> trade.winningProvider,
                  bound |-> TRUE, value |-> trade.winningQuote]
    BY <2>10, <2>13, <2>15 DEF EnvelopeV1
  <2>17. trade.winningQuote \in 1..instruction.quoteCap /\ trade.winningQuote >= minimum.value
    <3>1. quote.value \in Nat
      BY <2>13 DEF EnvelopeV1
    <3>2. QED
      BY <2>2, <2>10, <2>12, <2>15, <3>1
  <2>18. QED
    BY <2>9, <2>12, <2>14, <2>15, <2>16, <2>17, Zenon DEF instruction, minimum, trade
<1>2. QED
  BY <1>1, ExtInvariant, PTL
=============================================================================
