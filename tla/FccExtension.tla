---------------------------- MODULE FccExtension ----------------------------
(***************************************************************************)
(* The TEE extension process (services/fcc-extension/src: main.ts,         *)
(* base/server.ts, base/node.ts, app/handlers.ts).                         *)
(*                                                                         *)
(* An HTTP server runs one piece of work at a time, in order of arrival: a *)
(* RESOLVE_RFQ action, whose ciphertexts it has the tee-node decrypt one   *)
(* after the other before it resolves, or a read of its state.  The node   *)
(* may refuse, be gone or hang; the process may crash or be stopped.       *)
(* A ciphertext is modelled by what it decrypts to; the random result      *)
(* nonce is left out.                                                      *)
(***************************************************************************)
EXTENDS Resolution, FiniteSets

CONSTANTS
  MaxRequests,     \* bound: HTTP requests, numbered as they arrive; a retry is another one
  Instructions     \* resolution instructions put into actions

Instruction == [seller : Addresses, quoteCap : Nat, sellerCiphertext : Envelope,
                providers : Seq(Addresses), quoteCiphertexts : Seq(Envelope)]
ASSUME InstructionsAreTyped == Instructions \subseteq Instruction
ASSUME MaxRequestsIsNatural == MaxRequests \in Nat

Requests == 1..MaxRequests
NoRequest == 0

VARIABLES
  process,                \* "up", "closing" after a signal, "down"
  node,                   \* external: the tee-node is "serving" or "hung"
  bodies,                 \* what each request asked for
  queue,                  \* work accepted and not begun
  running,                \* the action whose handler awaits a decryption
  opened,                 \* what its decryptions have given, seller first
  processedResolutions,
  answers,                \* the response to each request
  arrivals,               \* history: the work accepted since the process started
  faulted                 \* history: actions that lost a ciphertext to the node

extVars == <<process, node, bodies, queue, running, opened, processedResolutions,
             answers, arrivals, faulted>>

NotSent == [kind |-> "not sent"]
TurnedAway == [kind |-> "turned away"]   \* answered without being queued
\* An action names its operation and carries a message, or leaves one of them out.
Body == [kind : {"malformed", "other operation", "no operation", "no message", "state"}]
          \cup [kind : {"action"}, instruction : Instructions]

Unanswered == [code |-> "none"]
ConnectionLost == [code |-> "lost"]
Refused(code) == [code |-> code]
StateAnswer(n) == [code |-> "200", processedResolutions |-> n]
Failure == [code |-> "200", status |-> 0]
Success(outcome) == [code |-> "200", status |-> 1, data |-> outcome]

Answer == {Unanswered, ConnectionLost, Failure}
            \cup [code : {"400", "501"}]
            \cup [code : {"200"}, processedResolutions : Nat]
            \cup [code : {"200"}, status : {1}, data : Outcome]

Waiting == {q \in Requests : bodies[q] # NotSent /\ answers[q] = Unanswered}
IsSuccess(answer) == "status" \in DOMAIN answer /\ answer.status = 1

ExtTypeOK ==
  /\ process \in {"up", "closing", "down"}
  /\ node \in {"serving", "hung"}
  /\ bodies \in [Requests -> Body \cup {NotSent, TurnedAway}]
  /\ queue \in Seq(Requests)
  /\ running \in Requests \cup {NoRequest}
  /\ opened \in Seq(Envelope) /\ Len(opened) <= MAX_PROVIDERS
  /\ processedResolutions \in 0..Cardinality(Requests)
  /\ answers \in [Requests -> Answer]
  /\ arrivals \in Seq(Requests)
  /\ faulted \in SUBSET Requests

ExtInit ==
  /\ process = "up"
  /\ node = "serving"
  /\ bodies = [q \in Requests |-> NotSent]
  /\ queue = <<>>
  /\ running = NoRequest
  /\ opened = <<>>
  /\ processedResolutions = 0
  /\ answers = [q \in Requests |-> Unanswered]
  /\ arrivals = <<>>
  /\ faulted = {}

-----------------------------------------------------------------------------
(* The server *)

Arrives(q) ==
  /\ process = "up"
  /\ bodies[q] = NotSent
  /\ \A p \in 1..(q - 1) : bodies[p] # NotSent

\* Framework.lookup: one operation is registered, and no wildcard command.
Handled(kind) == kind \in {"action", "no message"}

TurnAway(q, code) ==
  /\ bodies' = [bodies EXCEPT ![q] = TurnedAway]
  /\ answers' = [answers EXCEPT ![q] = Refused(code)]
  /\ UNCHANGED <<process, node, queue, running, opened, processedResolutions,
                 arrivals, faulted>>

\* A body that cannot be parsed, or an operation nobody handles, is answered at once.
RefuseRequest(q, body) ==
  /\ Arrives(q)
  /\ ~Handled(body.kind) /\ body.kind # "state"
  /\ TurnAway(q, IF body.kind = "malformed" THEN "400" ELSE "501")

\* A server whose state reads do not wait for the queue.
AcceptRequestReadingState(q, body) ==   \* mutant
  /\ Arrives(q)
  /\ Handled(body.kind) \/ body.kind = "state"
  /\ bodies' = [bodies EXCEPT ![q] = body]
  /\ arrivals' = Append(arrivals, q)
  /\ queue' = IF Handled(body.kind) THEN Append(queue, q) ELSE queue
  /\ answers' = IF Handled(body.kind) THEN answers
                ELSE [answers EXCEPT ![q] = StateAnswer(processedResolutions)]
  /\ UNCHANGED <<process, node, running, opened, processedResolutions, faulted>>

\* serialize: everything else runs after all previously queued work.
AcceptRequest(q, body) ==
  /\ Arrives(q)
  /\ Handled(body.kind) \/ body.kind = "state"
  /\ bodies' = [bodies EXCEPT ![q] = body]
  /\ queue' = Append(queue, q)
  /\ arrivals' = Append(arrivals, q)
  /\ UNCHANGED <<process, node, running, opened, processedResolutions, answers,
                 faulted>>

ReportState ==
  /\ running = NoRequest /\ queue # <<>>
  /\ bodies[Head(queue)].kind = "state"
  /\ answers' = [answers EXCEPT ![Head(queue)] = StateAnswer(processedResolutions)]
  /\ queue' = Tail(queue)
  /\ UNCHANGED <<process, node, bodies, running, opened, processedResolutions,
                 arrivals, faulted>>

-----------------------------------------------------------------------------
(* The RESOLVE_RFQ handler *)

\* decodeResolutionInstructionV1: as many ciphertexts as providers, not too many.
DecodesAnyNumber(instruction) ==   \* mutant
  Len(instruction.providers) = Len(instruction.quoteCiphertexts)
Decodes(instruction) ==
  /\ Len(instruction.providers) = Len(instruction.quoteCiphertexts)
  /\ Len(instruction.providers) <= MAX_PROVIDERS

\* A message that is missing or does not decode.
Unusable(body) ==
  body.kind = "no message" \/ (body.kind = "action" /\ ~Decodes(body.instruction))

FailAction ==
  /\ running = NoRequest /\ queue # <<>>
  /\ Unusable(bodies[Head(queue)])
  /\ answers' = [answers EXCEPT ![Head(queue)] = Failure]
  /\ queue' = Tail(queue)
  /\ UNCHANGED <<process, node, bodies, running, opened, processedResolutions,
                 arrivals, faulted>>

\* The handler runs up to the await of its first decryption.
StartAction ==
  /\ running = NoRequest /\ queue # <<>>
  /\ bodies[Head(queue)].kind = "action"
  /\ Decodes(bodies[Head(queue)].instruction)
  /\ running' = Head(queue)
  /\ queue' = Tail(queue)
  /\ UNCHANGED <<process, node, bodies, opened, processedResolutions, answers,
                 arrivals, faulted>>

Ciphertexts(instruction) ==
  <<instruction.sellerCiphertext>> \o instruction.quoteCiphertexts

\* The input the handler builds from the decrypted envelopes, seller first.
InputOf(instruction, envelopes) ==
  [seller |-> instruction.seller,
   sellerEnvelope |-> envelopes[1],
   providers |-> [i \in 1..Len(instruction.providers) |->
     [address |-> instruction.providers[i], quoteCap |-> instruction.quoteCap,
      envelope |-> envelopes[i + 1]]]]

\* One decryption has come to an end; the handler goes on to the next ciphertext or,
\* after the last, resolves, counts and answers without another await.
Continue(envelope) ==
  LET instruction == bodies[running].instruction
      envelopes == Append(opened, envelope)
  IN  IF Len(envelopes) < Len(Ciphertexts(instruction))
      THEN /\ opened' = envelopes
           /\ UNCHANGED <<running, processedResolutions, answers>>
      ELSE /\ opened' = <<>>
           /\ running' = NoRequest
           /\ processedResolutions' = processedResolutions + 1
           /\ answers' = [answers EXCEPT ![running] =
                Success(ResolveRfqV1(InputOf(instruction, envelopes)))]

\* The node answers the pending call; a ciphertext that is not one, or not JSON inside,
\* leaves the envelope undefined.
DecryptSucceeds ==
  /\ running # NoRequest
  /\ node = "serving"
  /\ Continue(Ciphertexts(bodies[running].instruction)[Len(opened) + 1])
  /\ UNCHANGED <<process, node, bodies, queue, arrivals, faulted>>

\* A client without the abort timer: nothing ends a call the node does not answer.
DecryptFailsUntimed ==   \* mutant
  /\ running # NoRequest
  /\ node # "hung"
  /\ Continue(Unreadable)
  /\ faulted' = faulted \cup {running}
  /\ UNCHANGED <<process, node, bodies, queue, arrivals>>

\* The node refuses, cannot be reached, or stays silent until the abort timer fires:
\* the handler catches it and goes on with an undefined envelope.
DecryptFails ==
  /\ running # NoRequest
  /\ Continue(Unreadable)
  /\ faulted' = faulted \cup {running}
  /\ UNCHANGED <<process, node, bodies, queue, arrivals>>

-----------------------------------------------------------------------------
(* The world around it *)

NodeChanges(state) ==
  /\ node # state
  /\ node' = state
  /\ UNCHANGED <<process, bodies, queue, running, opened, processedResolutions,
                 answers, arrivals, faulted>>

\* A signal closes the listener; the process leaves when the last response is out.
Close ==
  /\ process = "up"
  /\ process' = "closing"
  /\ UNCHANGED <<node, bodies, queue, running, opened, processedResolutions, answers,
                 arrivals, faulted>>

\* The process is gone, and what it held in memory with it.
GoDown ==
  /\ process' = "down"
  /\ answers' = [q \in Requests |-> IF q \in Waiting THEN ConnectionLost ELSE answers[q]]
  /\ queue' = <<>>
  /\ running' = NoRequest
  /\ opened' = <<>>
  /\ processedResolutions' = 0
  /\ arrivals' = <<>>
  /\ UNCHANGED <<node, bodies, faulted>>

Leave == process = "closing" /\ Waiting = {} /\ GoDown

Crash == process # "down" /\ GoDown

Start ==
  /\ process = "down"
  /\ process' = "up"
  /\ UNCHANGED <<node, bodies, queue, running, opened, processedResolutions, answers,
                 arrivals, faulted>>

ExtNext ==
  \/ \E q \in Requests, body \in Body : RefuseRequest(q, body) \/ AcceptRequest(q, body)
  \/ ReportState
  \/ FailAction
  \/ StartAction
  \/ DecryptSucceeds
  \/ DecryptFails
  \/ \E state \in {"serving", "hung"} : NodeChanges(state)
  \/ Close
  \/ Leave
  \/ Crash
  \/ Start

ExtSpec == ExtInit /\ [][ExtNext]_extVars

\* The event loop runs what is ready, and the abort timer ends every decryption; the
\* node need not answer and nobody need restart the process.
ExtFairSpec ==
  /\ ExtSpec
  /\ WF_extVars(ReportState \/ FailAction \/ StartAction)
  /\ WF_extVars(DecryptSucceeds \/ DecryptFails)

-----------------------------------------------------------------------------

\* No accepted work is dropped, doubled or overtaken: what has arrived is what has been
\* answered, then the running action, then the queue (serialize).
WorkIsServedInOrder ==
  LET ahead == IF running = NoRequest THEN queue ELSE <<running>> \o queue
      served == Len(arrivals) - Len(ahead)
  IN  /\ served >= 0
      /\ ahead = SubSeq(arrivals, served + 1, Len(arrivals))
      /\ \A i \in DOMAIN arrivals : (answers[arrivals[i]] # Unanswered) = (i <= served)

\* A state read reports exactly the successful actions that arrived before it since the
\* process started, however many are in flight around it (processState, serialize).
StateReadsAreExact ==
  \A i \in DOMAIN arrivals :
    LET answer == answers[arrivals[i]]
    IN  bodies[arrivals[i]].kind = "state" /\ answer # Unanswered =>
          answer = StateAnswer(Cardinality({j \in 1..(i - 1) : IsSuccess(answers[arrivals[j]])}))

\* A signed trade names a provider of the request, at the price that provider sealed for
\* this request, within the cap and not below the minimum the seller sealed, whatever
\* the node, crashes and other requests do meanwhile (handleResolveRfq, resolveRfqV1).
TradesAreGenuine ==
  \A q \in Requests : IsSuccess(answers[q]) /\ answers[q].data.resultType = "TRADE" =>
    LET instruction == bodies[q].instruction
        minimum == instruction.sellerCiphertext
        trade == answers[q].data
    IN  /\ minimum = [payloadKind |-> "SELLER_MINIMUM", sender |-> instruction.seller,
                      bound |-> TRUE, value |-> minimum.value]
        /\ \E i \in DOMAIN instruction.providers :
             /\ instruction.providers[i] = trade.winningProvider
             /\ instruction.quoteCiphertexts[i] =
                  [payloadKind |-> "PROVIDER_QUOTE", sender |-> trade.winningProvider,
                   bound |-> TRUE, value |-> trade.winningQuote]
        /\ trade.winningQuote \in 1..instruction.quoteCap
        /\ trade.winningQuote >= minimum.value

\* An action that lost no ciphertext to the node is answered with the best outcome of
\* what was sealed; so retries of it agree (handleResolveRfq, resolveRfqV1).
FaultFreeAnswersAreBest ==
  \A q \in Requests \ faulted : IsSuccess(answers[q]) =>
    IsBestOutcome(InputOf(bodies[q].instruction, Ciphertexts(bodies[q].instruction)),
                  answers[q].data)
=============================================================================
