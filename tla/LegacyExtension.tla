--------------------------- MODULE LegacyExtension ---------------------------
(***************************************************************************)
(* The extension's other entry: http-runtime.ts, handle-action.ts and      *)
(* tee-crypto.ts, an HTTP server with a work queue of its own that main.ts *)
(* does not start.  It keeps the state of FccExtension (its counter is     *)
(* called processedActions), demands more of an action before it takes it, *)
(* and calls the node without an abort timer.                              *)
(*                                                                         *)
(* EitherSpec runs one of the two entries, so every property of the        *)
(* extension is checked of both.                                           *)
(***************************************************************************)
EXTENDS FccExtension

VARIABLE entry    \* which of the two was started: "main" or "legacy"

eitherVars == <<extVars, entry>>

\* parseAction and parseDataFixed want every field, so an action without an operation or
\* without a message is malformed here.
LegacyRefusalCode(kind) ==
  CASE kind \in {"malformed", "no operation", "no message"} -> "400"
    [] kind = "other operation" -> "501"
    [] OTHER -> "none"

LegacyRefuseRequest(q, body) ==
  /\ Arrives(q)
  /\ LegacyRefusalCode(body.kind) # "none"
  /\ TurnAway(q, LegacyRefusalCode(body.kind))

\* enqueue: behind everything queued before, whatever becomes of that.
LegacyAcceptRequest(q, body) ==
  /\ LegacyRefusalCode(body.kind) = "none"
  /\ AcceptRequest(q, body)

LegacyReportState == ReportState

\* handleFccActionV1 throws when it cannot decode; the queue turns that into status 0.
LegacyFailAction == FailAction
LegacyStartAction == StartAction

\* handleFccActionV1 between its awaits, then incrementProcessedActions and the response.
LegacyContinue(envelope) ==
  LET instruction == bodies[running].instruction
      envelopes == Append(opened, envelope)
  IN  IF Len(envelopes) <= Len(instruction.providers)
      THEN /\ opened' = envelopes
           /\ UNCHANGED <<running, processedResolutions, answers>>
      ELSE /\ answers' = [answers EXCEPT ![running] =
                Success(ResolveRfqV1(InputOf(instruction, envelopes)))]
           /\ processedResolutions' = processedResolutions + 1
           /\ running' = NoRequest
           /\ opened' = <<>>

\* createTeeDecryptEnvelope: an answer that is no success, has no message or hides no
\* JSON throws, and the handler goes on without the envelope.  Nothing ends a call that
\* the node does not answer.
LegacyDecrypts(envelope) ==
  /\ running # NoRequest
  /\ node = "serving"
  /\ LegacyContinue(envelope)
  /\ UNCHANGED <<process, node, bodies, queue, arrivals>>

LegacyDecryptSucceeds ==
  /\ LegacyDecrypts(Ciphertexts(bodies[running].instruction)[Len(opened) + 1])
  /\ UNCHANGED faulted
LegacyDecryptFails ==
  /\ LegacyDecrypts(Unreadable)
  /\ faulted' = faulted \cup {running}

World ==
  \/ \E state \in {"serving", "hung"} : NodeChanges(state)
  \/ Close \/ Leave \/ Crash \/ Start

LegacyNext ==
  \/ \E q \in Requests, body \in Body :
       LegacyRefuseRequest(q, body) \/ LegacyAcceptRequest(q, body)
  \/ LegacyReportState
  \/ LegacyFailAction
  \/ LegacyStartAction
  \/ LegacyDecryptSucceeds
  \/ LegacyDecryptFails
  \/ World

EitherInit == ExtInit /\ entry \in {"main", "legacy"}
EitherNext ==
  /\ UNCHANGED entry
  /\ \/ entry = "main" /\ ExtNext
     \/ entry = "legacy" /\ LegacyNext
EitherSpec == EitherInit /\ [][EitherNext]_eitherVars

\* As in ExtFairSpec; under the legacy entry a decryption ends only if the node serves.
EitherFairSpec ==
  /\ EitherSpec
  /\ WF_eitherVars(UNCHANGED entry /\ (ReportState \/ FailAction \/ StartAction))
  /\ WF_eitherVars(entry = "main" /\ UNCHANGED entry /\ (DecryptSucceeds \/ DecryptFails))
  /\ WF_eitherVars(entry = "legacy" /\ UNCHANGED entry
                     /\ (LegacyDecryptSucceeds \/ LegacyDecryptFails))

-----------------------------------------------------------------------------

\* Every request gets a response or a broken connection: through main.ts even when the
\* node hangs for good (DEFAULT_TIMEOUT_MS of post, serialize), through the legacy entry
\* unless it does.  Requests are finitely many and an answer is final, so it is enough
\* that nobody waits again and again.
EveryRequestIsAnswered ==
  []<>(Waiting = {} \/ (entry = "legacy" /\ node = "hung"))
=============================================================================
