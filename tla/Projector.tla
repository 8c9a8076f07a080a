----------------------------- MODULE Projector -----------------------------
(***************************************************************************)
(* How the indexer turns the contract's logs into rows and the rows into   *)
(* answers: protocol/src/events.ts, indexer/src/domain/events.ts and       *)
(* domain/projector.ts, persistProjection in db/store.ts with the          *)
(* constraints of migrations/001_initial.sql, and the amounts that         *)
(* api/repository.ts computes.                                             *)
(*                                                                         *)
(* The store rebuilds all rows from all logs at every commit; since the    *)
(* rows are a fold over the logs, adding one event at a time gives the     *)
(* same rows, and the same first error.  A log's source (transaction, log  *)
(* index) is unique, so the projector's memory of the sources it has       *)
(* applied never comes into play; sources, ciphertexts and block numbers   *)
(* are left out of the rows.                                               *)
(***************************************************************************)
EXTENDS Integers, RfqCommon

-----------------------------------------------------------------------------
(* Events *)

\* The log of RfqFinalized carries uint8(status), the position in the contract's enum.
StatusEnum == <<"SETTLED", "NO_VALID_QUOTE", "INVALID_RFQ", "CANCELLED", "TIMED_OUT">>
StatusCode(status) == CHOOSE i \in DOMAIN StatusEnum : StatusEnum[i] = status

\* resultStatus: how the projector reads that number back.
ResultStatusSwapped == <<"SETTLED", "INVALID_RFQ", "NO_VALID_QUOTE">>   \* mutant
ResultStatus == <<"SETTLED", "NO_VALID_QUOTE", "INVALID_RFQ">>
ResultOf(code) == IF ResultStatus[code] = "SETTLED" THEN "TRADE" ELSE ResultStatus[code]

\* The schema of a decoded log: only strictly positive ids, amounts and deadlines pass.
WellFormed(event) ==
  /\ event.rfqId > 0
  /\ event.eventName = "RfqCreated" =>
       0 \notin {event.lotAmount, event.quoteCap, event.quoteDeadline, event.resolutionDeadline}

-----------------------------------------------------------------------------
(* The projector *)

EmptyProjection ==
  [rfqs |-> <<>>, providers |-> <<>>, actions |-> <<>>, outcomes |-> <<>>, claims |-> <<>>]

\* requireOpenRfq.
IsOpenUnlessRequested(p, r) ==   \* mutant
  r \in DOMAIN p.rfqs /\ p.rfqs[r].status = "OPEN" /\ p.rfqs[r].actionId = None
IsOpenRow(p, r) == r \in DOMAIN p.rfqs /\ p.rfqs[r].status = "OPEN"

\* Two nulls for anything but a trade.
WinnerOf(event) ==
  IF ResultOf(event.status) = "TRADE"
  THEN [provider |-> event.winningProvider, quote |-> event.winningQuote] ELSE None

\* The events applyProjectorEvent throws no ProjectorError for.  Truthiness counts: a
\* row's actionId is null until a request's resolution is seen.
Accepts(p, event) ==
  LET r == event.rfqId
  IN  CASE event.eventName = "RfqCreated" -> r \notin DOMAIN p.rfqs
        [] event.eventName = "QuoteSubmitted" ->
             IsOpenRow(p, r) /\ <<r, event.provider>> \notin DOMAIN p.providers
        [] event.eventName = "RfqCancelled" -> IsOpenRow(p, r) /\ p.rfqs[r].providerCount = 0
        [] event.eventName = "ResolutionRequested" ->
             /\ IsOpenRow(p, r)
             /\ p.rfqs[r].actionId = None
             /\ event.actionId \notin DOMAIN p.actions
        [] event.eventName = "RfqFinalized" ->
             /\ IsOpenRow(p, r)
             /\ p.rfqs[r].actionId \in DOMAIN p.actions
             /\ event.status \in DOMAIN ResultStatus
             /\ IF ResultOf(event.status) = "TRADE"
                THEN <<r, event.winningProvider>> \in DOMAIN p.providers /\ event.winningQuote # 0
                ELSE event.winningProvider = ZeroAddress /\ event.winningQuote = 0
        [] event.eventName = "RfqTimedOut" -> IsOpenRow(p, r)
        [] event.eventName = "Claimed" ->
             /\ r \in DOMAIN p.rfqs /\ p.rfqs[r].status # "OPEN"
             /\ <<r, event.account>> \notin DOMAIN p.claims

With(f, key, value) == [x \in DOMAIN f \cup {key} |-> IF x = key THEN value ELSE f[x]]

\* The row of a new request; its provider count is what later quotes get as position.
NewRow(event) ==
  [seller |-> event.seller, lotAmount |-> event.lotAmount, quoteCap |-> event.quoteCap,
   quoteDeadline |-> event.quoteDeadline, resolutionDeadline |-> event.resolutionDeadline,
   status |-> "OPEN", providerCount |-> 0, actionId |-> None]

Applied(p, event) ==
  LET r == event.rfqId
  IN  CASE event.eventName = "RfqCreated" -> [p EXCEPT !.rfqs = With(@, r, NewRow(event))]
        [] event.eventName = "QuoteSubmitted" ->
             [p EXCEPT !.providers = With(@, <<r, event.provider>>, p.rfqs[r].providerCount),
                       !.rfqs[r].providerCount = @ + 1]
        [] event.eventName = "RfqCancelled" -> [p EXCEPT !.rfqs[r].status = "CANCELLED"]
        [] event.eventName = "ResolutionRequested" ->
             [p EXCEPT !.rfqs[r].actionId = event.actionId,
                       !.actions = With(@, event.actionId, [rfqId |-> r, status |-> "REQUESTED"])]
        [] event.eventName = "RfqFinalized" ->
             [p EXCEPT !.rfqs[r].status = ResultStatus[event.status],
                       !.actions[p.rfqs[r].actionId].status = "RESOLVED",
                       !.outcomes = With(@, r, [resultType |-> ResultOf(event.status),
                                                winner |-> WinnerOf(event),
                                                resultNonce |-> event.resultNonce])]
        [] event.eventName = "RfqTimedOut" -> [p EXCEPT !.rfqs[r].status = "TIMED_OUT"]
        [] event.eventName = "Claimed" ->
             [p EXCEPT !.claims = With(@, <<r, event.account>>,
                                       [fxrp |-> event.fxrpAmount, usdt0 |-> event.usdt0Amount])]

\* The rows the tables accept: keys, unique columns, foreign keys and checks.
RequestsFit(p) ==
  \A r \in DOMAIN p.rfqs :
    /\ {r, p.rfqs[r].lotAmount, p.rfqs[r].quoteCap, p.rfqs[r].quoteDeadline} \subseteq Nat \ {0}
    /\ p.rfqs[r].resolutionDeadline > p.rfqs[r].quoteDeadline
SeatsFit(p) ==
  \A j, k \in DOMAIN p.providers :
    /\ j[1] \in DOMAIN p.rfqs /\ p.providers[j] \in Nat
    /\ j[1] = k[1] /\ p.providers[j] = p.providers[k] => j = k
ActionsFit(p) ==
  \A i, j \in DOMAIN p.actions :
    /\ p.actions[i].rfqId \in DOMAIN p.rfqs
    /\ p.actions[i].rfqId = p.actions[j].rfqId => i = j
OutcomesFit(p) ==
  \A r \in DOMAIN p.outcomes :
    /\ r \in DOMAIN p.rfqs
    /\ (p.outcomes[r].resultType = "TRADE") = (p.outcomes[r].winner # None)
    /\ p.outcomes[r].winner # None => p.outcomes[r].winner.quote > 0
ClaimsFit(p) ==
  \A k \in DOMAIN p.claims :
    k[1] \in DOMAIN p.rfqs /\ {p.claims[k].fxrp, p.claims[k].usdt0} \subseteq Nat
FitsSchema(p) ==
  RequestsFit(p) /\ SeatsFit(p) /\ ActionsFit(p) /\ OutcomesFit(p) /\ ClaimsFit(p)

Ingestible(p, event) ==
  WellFormed(event) /\ Accepts(p, event) /\ FitsSchema(Applied(p, event))

-----------------------------------------------------------------------------
(* What the read API answers *)

\* The left join with rfq_outcomes.
WinnerRow(p, r) == IF r \in DOMAIN p.outcomes THEN p.outcomes[r].winner ELSE None

\* getPortfolio: the requests an account has a part in, and for each of them either what
\* it claimed, or what it would get now.
PortfolioOf(p, account) ==
  {r \in DOMAIN p.rfqs : p.rfqs[r].seller = account \/ <<r, account>> \in DOMAIN p.providers}

AmountsAfterAnyOutcome(row, winner, isSeller, account) ==   \* mutant
  IF isSeller THEN [fxrp |-> row.lotAmount, usdt0 |-> 0]
  ELSE IF winner # None /\ winner.provider = account
  THEN [fxrp |-> row.lotAmount, usdt0 |-> row.quoteCap - winner.quote]
  ELSE [fxrp |-> 0, usdt0 |-> row.quoteCap]
AmountsAfter(row, winner, isSeller, account) ==
  IF row.status = "OPEN" THEN [fxrp |-> 0, usdt0 |-> 0]
  ELSE IF isSeller /\ row.status = "SETTLED" THEN [fxrp |-> 0, usdt0 |-> winner.quote]
  ELSE IF isSeller THEN [fxrp |-> row.lotAmount, usdt0 |-> 0]
  ELSE IF row.status = "SETTLED" /\ winner.provider = account
  THEN [fxrp |-> row.lotAmount, usdt0 |-> row.quoteCap - winner.quote]
  ELSE [fxrp |-> 0, usdt0 |-> row.quoteCap]

ClaimShown(p, r, account) ==
  IF <<r, account>> \in DOMAIN p.claims
  THEN [amounts |-> p.claims[<<r, account>>], claimed |-> TRUE]
  ELSE [amounts |-> AmountsAfter(p.rfqs[r], WinnerRow(p, r), p.rfqs[r].seller = account, account),
        claimed |-> FALSE]

\* getStats.
Settled(p) == {r \in DOMAIN p.rfqs : p.rfqs[r].status = "SETTLED"}
Stats(p) ==
  [openRfqs |-> Cardinality({r \in DOMAIN p.rfqs : p.rfqs[r].status = "OPEN"}),
   participations |-> Cardinality(DOMAIN p.providers),
   totalLots |-> SumOf([r \in DOMAIN p.rfqs |-> p.rfqs[r].lotAmount]),
   settledQuotes |-> SumOf([r \in Settled(p) |-> p.outcomes[r].winner.quote])]
=============================================================================
