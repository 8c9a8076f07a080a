----------------------------- MODULE IndexedRfq -----------------------------
(***************************************************************************)
(* The contract with an indexer that ingests each event it emits.  A       *)
(* transaction emits at most one event of the contract; the one it emits   *)
(* is told here by what the transaction changed.  An event that decoding,  *)
(* the projector or the tables refuse makes ingestBatch roll back, at this *)
(* and at every later attempt, since each begins at the same block: the    *)
(* rows stay as they were for good.                                        *)
(***************************************************************************)
EXTENDS HushFlowRfqRefinement, Projector

VARIABLES
  derived,     \* tables rfqs, rfq_providers, fcc_actions, rfq_outcomes, claims
  wedged       \* an event of the chain cannot be ingested

indexedVars == <<vars, derived, wedged>>

\* The events of the transaction that leads from the state to the primed state.
RfqCreated(r) ==
  [eventName |-> "RfqCreated", rfqId |-> r, seller |-> rfqs'[r].seller,
   lotAmount |-> rfqs'[r].lotAmount, quoteCap |-> rfqs'[r].quoteCap,
   quoteDeadline |-> rfqs'[r].quoteDeadline, resolutionDeadline |-> rfqs'[r].resolutionDeadline]
QuoteSubmitted(r) ==
  [eventName |-> "QuoteSubmitted", rfqId |-> r, provider |-> providers'[r][Len(providers'[r])]]
ResolutionRequested(r) ==
  [eventName |-> "ResolutionRequested", rfqId |-> r, actionId |-> rfqs'[r].actionId]
RfqFinalized(r) ==
  [eventName |-> "RfqFinalized", rfqId |-> r, status |-> StatusCode(rfqs'[r].status),
   winningProvider |-> rfqs'[r].winningProvider, winningQuote |-> rfqs'[r].winningQuote,
   resultNonce |-> evidence'[r].nonce]
RfqCancelled(r) == [eventName |-> "RfqCancelled", rfqId |-> r]
RfqTimedOut(r) == [eventName |-> "RfqTimedOut", rfqId |-> r]
Claimed(k) ==
  [eventName |-> "Claimed", rfqId |-> k[1], account |-> k[2],
   fxrpAmount |-> claimedFxrp'[k[1]] - claimedFxrp[k[1]],
   usdt0Amount |-> claimedUsdt0'[k[1]] - claimedUsdt0[k[1]]]

CreatedIds == nextRfqId..(nextRfqId' - 1)
QuotedIds == {r \in RfqIds : providers'[r] # providers[r]}
RequestedIds == {r \in RfqIds : rfqs'[r].actionId # rfqs[r].actionId}
ClosedIds(statuses) ==
  {r \in RfqIds : rfqs'[r].status # rfqs[r].status /\ rfqs'[r].status \in statuses}
NewClaims == {k \in RfqIds \X Accounts : k[2] \in claimed'[k[1]] \ claimed[k[1]]}

\* The two configuration events decode, and project to nothing.
Emitted ==
  UNION {{RfqCreated(r) : r \in CreatedIds},
         {QuoteSubmitted(r) : r \in QuotedIds},
         {ResolutionRequested(r) : r \in RequestedIds},
         {RfqFinalized(r) : r \in ClosedIds({"SETTLED", "NO_VALID_QUOTE", "INVALID_RFQ"})},
         {RfqCancelled(r) : r \in ClosedIds({"CANCELLED"})},
         {RfqTimedOut(r) : r \in ClosedIds({"TIMED_OUT"})},
         {Claimed(k) : k \in NewClaims}}

IndexedInit == Init /\ derived = EmptyProjection /\ wedged = FALSE

Ingest ==
  IF wedged \/ Emitted = {} THEN UNCHANGED <<derived, wedged>>
  ELSE \E event \in Emitted :
         IF Ingestible(derived, event)
         THEN derived' = Applied(derived, event) /\ wedged' = FALSE
         ELSE derived' = derived /\ wedged' = TRUE

IndexedNext == Next /\ Ingest
IndexedSpec == IndexedInit /\ [][IndexedNext]_indexedVars

-----------------------------------------------------------------------------

\* What the tables should say of the contract's state: the requests created so far, who
\* quoted and in which order, the recorded actions, the outcomes and the claims.
RequestRow(r) ==
  [seller |-> rfqs[r].seller, lotAmount |-> rfqs[r].lotAmount, quoteCap |-> rfqs[r].quoteCap,
   quoteDeadline |-> rfqs[r].quoteDeadline, resolutionDeadline |-> rfqs[r].resolutionDeadline,
   status |-> rfqs[r].status, providerCount |-> Len(providers[r]),
   actionId |-> IF rfqs[r].actionId = NoActionId THEN None ELSE rfqs[r].actionId]
SeatOf(r, a) == CHOOSE i \in DOMAIN providers[r] : providers[r][i] = a
RequestOf(actionId) == CHOOSE r \in RfqIds : rfqs[r].actionId = actionId
ActionRow(r) == [rfqId |-> r, status |-> IF HasOutcome(r) THEN "RESOLVED" ELSE "REQUESTED"]
OutcomeRow(r) ==
  [resultType |-> IF rfqs[r].status = "SETTLED" THEN "TRADE" ELSE rfqs[r].status,
   winner |-> IF rfqs[r].status # "SETTLED" THEN None
              ELSE [provider |-> rfqs[r].winningProvider, quote |-> rfqs[r].winningQuote],
   resultNonce |-> evidence[r].nonce]

Seats == {x \in RfqIds \X Accounts : x[2] \in participated[x[1]]}
RecordedActions == {rfqs[r].actionId : r \in RfqIds} \ {NoActionId}
PaidOut == {x \in RfqIds \X Accounts : x[2] \in claimed[x[1]]}

RequestsMirrored == derived.rfqs = [r \in 1..(nextRfqId - 1) |-> RequestRow(r)]
SeatsMirrored == derived.providers = [k \in Seats |-> SeatOf(k[1], k[2]) - 1]
ActionsMirrored == derived.actions = [i \in RecordedActions |-> ActionRow(RequestOf(i))]
OutcomesMirrored ==
  derived.outcomes = [r \in {q \in RfqIds : HasOutcome(q)} |-> OutcomeRow(r)]
ClaimsMirrored == derived.claims = [k \in PaidOut |-> Entitlement(k[1], k[2])]

\* As long as every event was ingested, the rows are the contract's state: its requests and
\* their status, the quoting order, the recorded actions, the outcomes with their nonces,
\* and the claims with what was paid (applyProjectorEvent against every handler of the
\* contract).
RowsMirrorContract ==
  ~wedged => /\ RequestsMirrored /\ SeatsMirrored /\ ActionsMirrored
             /\ OutcomesMirrored /\ ClaimsMirrored

\* Ingestion stops for good only after the registry has answered two requests with one
\* instruction id: nothing else the contract accepts is refused by the decoder, the
\* projector or the tables (applyProjectorEvent, 001_initial.sql).
OnlyRepeatedIdsWedge ==
  wedged => \E r, q \in RfqIds : r # q /\ rfqs[r].actionId = rfqs[q].actionId
                                   /\ rfqs[r].actionId # NoActionId

\* The portfolio offers each participant what claim() would pay it now and shows what it
\* was paid, and the statistics add up to what the contract holds and has traded
\* (getPortfolio and getStats recompute both from the rows).
PortfoliosShowClaimables ==
  ~wedged =>
    /\ \A a \in Accounts :
         /\ PortfolioOf(derived, a) = {r \in RfqIds : a = rfqs[r].seller \/ a \in participated[r]}
         /\ \A r \in PortfolioOf(derived, a) :
              LET shown == ClaimShown(derived, r, a)
              IN  /\ shown.claimed = (a \in claimed[r])
                  /\ shown.amounts = IF shown.claimed THEN Entitlement(r, a) ELSE claimable(r, a)
    /\ Stats(derived).totalLots = SumOf([r \in RfqIds |-> depositedFxrp(r)])
    /\ Stats(derived).participations = SumOf([r \in RfqIds |-> Len(providers[r])])
    /\ Stats(derived).settledQuotes =
         SumOf([r \in RfqIds |-> IF Exists(r) THEN Entitlement(r, rfqs[r].seller).usdt0 ELSE 0])
=============================================================================
