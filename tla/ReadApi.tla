------------------------------ MODULE ReadApi ------------------------------
(***************************************************************************)
(* The indexer's read API (indexer/src/api/router.ts, repository.ts,       *)
(* cursor.ts, server.ts and the DTOs of protocol/src/read-api.ts) next to  *)
(* the worker that commits batches and rolls back, on the database that    *)
(* Migrations sets up.                                                     *)
(*                                                                         *)
(* A client is served once both processes run on the current schema; from  *)
(* then on a process that is killed starts again at once, which Migrations *)
(* shows it does.  Each query sees what is committed when it runs; an      *)
(* answer that takes several is put together from several moments.  The    *)
(* derived tables are rebuilt from the logs in the transaction that        *)
(* changes the logs, so they are Rows here.  Blocks without an event of    *)
(* the contract are left out: a block's number is its event's place in the *)
(* log.  What the worker does with the chain between two commits is in     *)
(* Indexer.                                                                *)
(***************************************************************************)
EXTENDS Migrations, Projector

CONSTANTS
  CurrentSchema,     \* schema_migrations as this code needs it
  Events,            \* events the chain can hold
  Requests,          \* what clients ask: [path, ...]
  Filters,           \* listings that clients page through
  PageLimit,         \* their limit
  PlainSources,      \* source identities that dataProvenanceDtoSchema accepts
  NotGiven,          \* a filter that is not given
  MaxLogs            \* bound: events on the chain

\* The decoder knows seven events; their numbers are unsigned.
ActivityKinds ==
  {"RfqCreated", "QuoteSubmitted", "RfqCancelled", "ResolutionRequested", "RfqFinalized",
   "RfqTimedOut", "Claimed"}
ASSUME LimitsArePositive == PageLimit \in Nat \ {0} /\ MaxLogs \in Nat
ASSUME EventsAreDecoded ==
  \A event \in Events :
    /\ event.eventName \in ActivityKinds
    /\ event.eventName = "RfqCreated" => event.resolutionDeadline \in Nat
    /\ event.eventName = "RfqFinalized" => event.winningQuote \in Nat

VARIABLES
  log,       \* table chain_logs
  health,    \* row of indexer_health, or None
  stuck,     \* the next block holds an event that made a batch fail, at every cycle
  reading,   \* the request the API is working on, or None
  answer,    \* the answer given in this very step, or None
  walk       \* a client that follows nextCursor, until it is done, or None

storeVars == <<log, health, stuck>>
clientVars == <<reading, answer, walk>>
serviceVars == <<startVars, storeVars, clientVars>>

\* The projection after every event, one by one.
RowsOf(events) ==
  LET rows[n \in 0..Len(events)] ==
        IF n = 0 THEN EmptyProjection ELSE Applied(rows[n - 1], events[n])
  IN  rows[Len(events)]
Rows == RowsOf(log)

-----------------------------------------------------------------------------
(* What the worker commits *)

HealthRow(status, detailCode, indexed) ==
  [status |-> status, detailCode |-> detailCode, indexed |-> indexed,
   mode |-> environment.mode, source |-> environment.source]

\* Requests a page of a listing can contain.
Listing(rows, f) ==
  IF f.path = "portfolio" THEN PortfolioOf(rows, f.account)
  ELSE {r \in DOMAIN rows.rfqs :
          /\ f.status \in {NotGiven, rows.rfqs[r].status}
          /\ f.seller \in {NotGiven, rows.rfqs[r].seller}
          /\ f.provider = NotGiven \/ <<r, f.provider>> \in DOMAIN rows.providers}

\* A walk's history: what matched all the time since it began, and what matched at all.
Unfinished(w) == IF w # None /\ w.done THEN None ELSE w
Watched(w, rows) ==
  IF Unfinished(w) = None THEN None
  ELSE [w EXCEPT !.always = @ \cap Listing(rows, w.filter), !.ever = @ \cup Listing(rows, w.filter)]

Running ==
  /\ \A p \in Services : phase[p] = "serving"
  /\ schema.recorded = CurrentSchema
Stores(events) == log' = events /\ walk' = Watched(walk, RowsOf(events))

\* The events that can be next on the chain: ids are given out in order, no winning quote
\* is above its cap, and what the contract emits is refused only for an instruction id that
\* was there before.
NextOnChain(event) ==
  /\ Len(log) < MaxLogs
  /\ event.eventName = "RfqCreated" => event.rfqId = Cardinality(DOMAIN Rows.rfqs) + 1
  /\ event.eventName = "RfqFinalized" /\ event.rfqId \in DOMAIN Rows.rfqs =>
       event.winningQuote <= Rows.rfqs[event.rfqId].quoteCap
  /\ ~Ingestible(Rows, event) =>
       /\ event.eventName = "ResolutionRequested" /\ event.actionId \in DOMAIN Rows.actions
       /\ IsOpenRow(Rows, event.rfqId) /\ Rows.rfqs[event.rfqId].actionId = None

\* ingestBatch.
CommitBatch(event) ==
  /\ ~stuck /\ NextOnChain(event)
  /\ Ingestible(Rows, event)
  /\ Stores(Append(log, event))
  /\ health' = HealthRow("healthy", "none", Len(log) + 1)
  /\ answer' = None
  /\ UNCHANGED <<startVars, stuck, reading>>

\* The catch of ingestBatch; the worker's loop swallows the error.
RejectBatch(event) ==
  /\ ~stuck /\ NextOnChain(event)
  /\ ~Ingestible(Rows, event)
  /\ stuck' = TRUE
  /\ answer' = None /\ walk' = Unfinished(walk)
  /\ UNCHANGED <<startVars, log, health, reading>>

\* The chain replaces the block that was rejected.
BlockReplaced ==
  /\ stuck
  /\ stuck' = FALSE
  /\ answer' = None /\ walk' = Unfinished(walk)
  /\ UNCHANGED <<startVars, log, health, reading>>

\* reconcileWindow: back to block k.
Rollback(k) ==
  /\ Stores(SubSeq(log, 1, k))
  /\ health' = [health EXCEPT !.status = "degraded", !.detailCode = "INDEXER_LAGGING", !.indexed = k]
  /\ stuck' = FALSE
  /\ reading' = IF reading = None THEN None ELSE [reading EXCEPT !.disturbed = TRUE]
  /\ answer' = None
  /\ UNCHANGED startVars

\* markHealth: nothing to do, an RPC call that failed, or a chain that shares no block.
MarkHealth(status, detailCode) ==
  /\ detailCode = "REORG_REPLAY_REQUIRED" => log # <<>>
  /\ health' = HealthRow(status, detailCode, Len(log))
  /\ answer' = None /\ walk' = Unfinished(walk)
  /\ UNCHANGED <<startVars, log, stuck, reading>>

Works ==
  \/ \E event \in Events : CommitBatch(event) \/ RejectBatch(event)
  \/ BlockReplaced
  \/ \E k \in 0..(Len(log) - 1) : Rollback(k)
  \/ \E m \in {<<"healthy", "none">>, <<"degraded", "RPC_UNAVAILABLE">>,
               <<"degraded", "REORG_REPLAY_REQUIRED">>} : MarkHealth(m[1], m[2])

-----------------------------------------------------------------------------
(* Answers put together from queries *)

\* The queries of each path, in the order of the code.
QueriesWithProvidersFirst == [detail |-> <<"providers", "sellerCiphertext", "summary", "activity">>,   \* mutant
             proof |-> <<"providers", "summary">>, proofCenter |-> <<"exists", "metadata">>,
             stats |-> <<"counts", "health">>, health |-> <<"health">>, metadata |-> <<"metadata">>]
Queries == [detail |-> <<"summary", "sellerCiphertext", "providers", "activity">>,
            proof |-> <<"summary", "providers">>, proofCenter |-> <<"exists", "metadata">>,
            stats |-> <<"counts", "health">>, health |-> <<"health">>, metadata |-> <<"metadata">>]

ASSUME RequestsAreRouted == \A request \in Requests : request.path \in DOMAIN Queries

\* The row of a request with its outcome.
SummaryRow(p, r) ==
  [row |-> p.rfqs[r], winner |-> WinnerRow(p, r),
   resultType |-> IF r \in DOMAIN p.outcomes THEN p.outcomes[r].resultType ELSE "none"]

\* A request's logs, in the order of the chain.
ActivityOf(events, r) == [i \in {i \in DOMAIN events : events[i].rfqId = r} |-> events[i]]

\* What a query answers now; None where there is no row.
Result(query, r) ==
  CASE query = "summary" -> IF r \in DOMAIN Rows.rfqs THEN SummaryRow(Rows, r) ELSE None
    [] query \in {"exists", "sellerCiphertext"} ->
         IF r \in DOMAIN Rows.rfqs THEN [rfqId |-> r] ELSE None
    [] query = "providers" ->
         LET seats == {k \in DOMAIN Rows.providers : k[1] = r}
         IN  [a \in {k[2] : k \in seats} |-> Rows.providers[<<r, a>>]]
    [] query = "activity" -> ActivityOf(log, r)
    [] query = "counts" -> [rfqs |-> Cardinality(DOMAIN Rows.rfqs), stats |-> Stats(Rows)]
    [] query \in {"health", "metadata"} -> health

-----------------------------------------------------------------------------
(* What the DTOs accept *)

RfqStatuses == {"OPEN", "CANCELLED", "TIMED_OUT"} \cup Range(ResultStatus)
SummaryFits(summary) ==
  LET row == summary.row
  IN  /\ {row.lotAmount, row.quoteCap, row.quoteDeadline, row.resolutionDeadline}
           \subseteq Nat \ {0}
      /\ row.status \in RfqStatuses /\ row.providerCount \in Nat
      /\ summary.winner # None => summary.winner.quote \in Nat \ {0}
ProvidersFit(providers) == \A a \in DOMAIN providers : providers[a] \in Nat
ActivityFits(activity) == \A i \in DOMAIN activity : activity[i].eventName \in ActivityKinds
ClaimableFits(amounts) == {amounts.fxrp, amounts.usdt0} \subseteq Nat
ProofFits(summary) ==
  \/ summary.resultType = "none"
  \/ /\ (summary.resultType = "TRADE") = (summary.winner # None)
     /\ summary.winner # None => summary.winner.quote \in Nat \ {0}
StatsFit(counts, state) ==
  LET stats == counts.stats
  IN  /\ {counts.rfqs, stats.openRfqs, stats.participations, stats.totalLots, stats.settledQuotes}
           \subseteq Nat
      /\ state # None => state.indexed \in Nat

\* indexerHealthDtoSchema knows these.
DetailCodesBeforeReorgs == {"none", "RPC_UNAVAILABLE", "INDEXER_LAGGING", "DATABASE_UNAVAILABLE"}   \* mutant
DetailCodes ==
  {"none", "RPC_UNAVAILABLE", "INDEXER_LAGGING", "DATABASE_UNAVAILABLE", "REORG_REPLAY_REQUIRED",
   "EVENT_INVALID"}

ProvenanceFits(row) == row.source \in PlainSources /\ row.mode \in {"fixture", "live"}
HasProvenance(row) == row # None /\ ProvenanceFits(row)

HealthFits(row) == row # None /\ row.detailCode \in DetailCodes /\ row.indexed \in Nat

FitsDto(path, results) ==
  CASE path = "detail" ->
         /\ results.sellerCiphertext # None
         /\ ProvidersFit(results.providers) /\ ActivityFits(results.activity)
    [] path = "proof" -> ProofFits(results.summary)
    [] path \in {"proofCenter", "metadata"} -> HasProvenance(results.metadata)
    [] path = "health" -> HealthFits(results.health)
    [] path = "stats" -> StatsFit(results.counts, results.health)

\* Whether a query's result passes: a summary is parsed at once, the rest with the last
\* query.  What does not is an internal error.
Parses(path, query, results) ==
  /\ path = "detail" /\ query = "summary" => SummaryFits(results.summary)
  /\ query = Last(Queries[path]) => FitsDto(path, results)

\* What a page shows of a request, a portfolio with the amounts.
ItemFits(p, r, f) ==
  /\ SummaryFits(SummaryRow(p, r))
  /\ f.path = "portfolio" => ClaimableFits(ClaimShown(p, r, f.account).amounts)

Answered(request, status, results, disturbed) ==
  /\ answer' = [request |-> request, status |-> status, results |-> results,
                disturbed |-> disturbed, logs |-> IF request.path = "stats" THEN log ELSE <<>>]
  /\ reading' = None

\* GET with a path the router knows and parameters it accepts.
Receive(request) ==
  /\ reading = None /\ Unfinished(walk) = None
  /\ reading' = [request |-> request, next |-> 1, results |-> <<>>, disturbed |-> FALSE]
  /\ answer' = None /\ walk' = None
  /\ UNCHANGED <<startVars, storeVars>>

\* What the router answers to a GET without a query: a path it does not know, parameters
\* that do not parse, a portfolio for which there is no deployment.
RoutedStatus == [deployment |-> 200, misread |-> 400, unknown |-> 404, portfolio |-> 503]

\* Requests that lead to no query; POST stands for every method but GET and TRACE.
Unserved ==
  [path : {"invalid"} \cup DOMAIN RoutedStatus, method : {"GET", "POST", "TRACE"}]

\* The server makes no Request of a target that is no URL, like //, nor of a method that
\* fetch forbids: its own catch answers, and the router never sees them.
NotARequest == {request \in Unserved : request.path = "invalid" \/ request.method = "TRACE"}

RefusalStatus(request) ==
  IF request \in NotARequest THEN 500
  ELSE IF request.method # "GET" THEN 405
  ELSE RoutedStatus[request.path]

\* Any other request, answered at once.
Refuse(request) ==
  /\ reading = None /\ Unfinished(walk) = None
  /\ RefusalStatus(request) = 503 => environment.mode # "live"   \* DEPLOYMENT_NOT_LIVE
  /\ Answered(request, RefusalStatus(request), <<>>, FALSE)
  /\ walk' = None
  /\ UNCHANGED <<startVars, storeVars>>

\* The next query of the request; after a first one without a row, or the last one, the
\* answer.
Query ==
  /\ reading # None
  /\ LET request == reading.request
         queries == Queries[request.path]
         query == queries[reading.next]
         results == With(reading.results, query, Result(query, request.rfqId))
     IN  IF query \in {"summary", "exists"} /\ results[query] = None
         THEN Answered(request, 404, results, reading.disturbed)
         ELSE IF ~Parses(request.path, query, results)
         THEN Answered(request, 500, results, reading.disturbed)
         ELSE IF query # Last(queries)
         THEN /\ reading' = [reading EXCEPT !.results = results, !.next = @ + 1]
              /\ answer' = None
         ELSE Answered(request, 200, results, reading.disturbed)
  /\ UNCHANGED <<startVars, storeVars, walk>>

\* A query fails: DATABASE_UNAVAILABLE.
QueryFails ==
  /\ reading # None
  /\ Answered(reading.request, 503, <<>>, reading.disturbed)
  /\ UNCHANGED <<startVars, storeVars, walk>>

-----------------------------------------------------------------------------
(* Listings and portfolios, page by page *)

StartWalk(f) ==
  /\ reading = None /\ Unfinished(walk) = None
  /\ f.path = "portfolio" => environment.mode = "live"
  /\ walk' = [filter |-> f, cursor |-> 0, items |-> <<>>, done |-> FALSE,
              always |-> Listing(Rows, f), ever |-> Listing(Rows, f)]
  /\ answer' = None
  /\ UNCHANGED <<startVars, storeVars, reading>>

\* ORDER BY rfq_id DESC, from the cursor on, LIMIT limit + 1 of which the last only tells
\* that there are more.
AfterCursorInclusive(cursor, r) == cursor = 0 \/ r <= cursor   \* mutant
AfterCursor(cursor, r) == cursor = 0 \/ r < cursor
Rank(ids, r) == Cardinality({q \in ids : q >= r})
PageRows(ids) ==
  [i \in 1..(IF Cardinality(ids) < PageLimit THEN Cardinality(ids) ELSE PageLimit) |->
     CHOOSE r \in ids : Rank(ids, r) = i]

FetchPage ==
  /\ walk # None /\ ~walk.done
  /\ LET found == {r \in Listing(Rows, walk.filter) : AfterCursor(walk.cursor, r)}
         hasMore == Cardinality(found) > PageLimit
         items == PageRows(found)
     IN  IF \A i \in DOMAIN items : ItemFits(Rows, items[i], walk.filter)
         THEN /\ walk' = [walk EXCEPT !.items = @ \o items,
                                     !.cursor = IF hasMore THEN Last(items) ELSE 0,
                                     !.done = ~hasMore]
              /\ answer' = None
              /\ UNCHANGED reading
         ELSE walk' = None /\ Answered(walk.filter, 500, <<>>, FALSE)
  /\ UNCHANGED <<startVars, storeVars>>

-----------------------------------------------------------------------------

ServiceInit ==
  /\ StartInit
  /\ log = <<>>
  /\ health = None
  /\ stuck = FALSE
  /\ reading = None
  /\ answer = None
  /\ walk = None

\* The request it works on goes down with the API.
RestartApi ==
  /\ reading # None
  /\ reading' = None /\ answer' = None
  /\ UNCHANGED <<startVars, storeVars, walk>>

Serves ==
  \/ \E request \in Requests : Receive(request)
  \/ \E request \in Unserved : Refuse(request)
  \/ Query \/ QueryFails
  \/ \E f \in Filters : StartWalk(f)
  \/ FetchPage

ServiceNext ==
  \/ ~Running /\ StartNext /\ UNCHANGED <<storeVars, clientVars>>
  \/ Running /\ (Works \/ Serves \/ RestartApi)

ServiceSpec == ServiceInit /\ [][ServiceNext]_serviceVars /\ StartFairness

-----------------------------------------------------------------------------

\* A client that follows nextCursor to its end sees every request that matched all the
\* time, each once and newest first, and none that never matched, whatever appears, is
\* closed or is rolled back between two pages (the id cursor of listRfqs and getPortfolio).
WalksAreExact ==
  walk # None =>
    /\ \A i, j \in DOMAIN walk.items : i < j => walk.items[i] > walk.items[j]
    /\ Range(walk.items) \subseteq walk.ever
    /\ walk.done => walk.always \subseteq Range(walk.items)

\* What a request's activity tells.
QuotesTold(activity) == {i \in DOMAIN activity : activity[i].eventName = "QuoteSubmitted"}
ClosesAs(event, status) ==
  \/ event.eventName = "RfqCancelled" /\ status = "CANCELLED"
  \/ event.eventName = "RfqTimedOut" /\ status = "TIMED_OUT"
  \/ event.eventName = "RfqFinalized" /\ status = ResultStatus[event.status]

\* Unless a rollback comes in between, the later parts of an answer know whatever its
\* first part tells: the quotes it counts, the winner it names, the close of a closed
\* request, the requests it has counted (the order of the queries of getRfqDetail,
\* getRfqProof and getStats).
AnswersCohere ==
  answer # None /\ answer.status = 200 /\ ~answer.disturbed =>
    LET results == answer.results
    IN  /\ answer.request.path \in {"detail", "proof"} =>
             /\ Cardinality(DOMAIN results.providers) >= results.summary.row.providerCount
             /\ results.summary.winner # None =>
                  results.summary.winner.provider \in DOMAIN results.providers
        /\ answer.request.path = "detail" =>
             /\ Cardinality(QuotesTold(results.activity)) >= Cardinality(DOMAIN results.providers)
             /\ results.summary.row.status # "OPEN" =>
                  \E i \in DOMAIN results.activity :
                    ClosesAs(results.activity[i], results.summary.row.status)
        /\ answer.request.path = "stats" =>
             results.counts.rfqs <=
               Cardinality(DOMAIN RowsOf(SubSeq(answer.logs, 1,
                 IF results.health = None THEN 0 ELSE results.health.indexed)).rfqs)

\* The API answers with an internal error only when the server could make no Request of what
\* arrived, when a request it was reading was rolled back, when the worker has never written
\* its health row, or when the source identity is one that the configuration takes and the
\* DTO does not: whatever the worker stores, the DTOs accept, every amount of a portfolio and
\* every sum included (server.ts; repository.ts against read-api.ts and the migrations).
InternalErrorsHaveACause ==
  answer # None /\ answer.status = 500 =>
    LET results == answer.results
    IN  \/ answer.request \in NotARequest
        \/ answer.request.path = "detail" /\ answer.disturbed
        \/ answer.request.path = "health" /\ results.health = None
        \/ answer.request.path \in {"proofCenter", "metadata"}
             /\ (results.metadata = None \/ results.metadata.source \notin PlainSources)

\* The design asks that health tell of a rejected batch.
RejectionsAreReported ==
  stuck => health # None /\ health.detailCode = "EVENT_INVALID"
=============================================================================
