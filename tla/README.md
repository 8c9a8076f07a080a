# HushFlow in TLA+

HushFlow is a sealed-bid RFQ desk on Flare. A seller locks a lot of FXRP in an escrow
contract and seals a minimum price; providers lock a public cap of USDT0 next to sealed
quotes; a TEE extension opens the envelopes, picks the best eligible quote and signs the
outcome; the contract verifies it and pays everybody out. An indexer follows the contract's
events into PostgreSQL for a read API and a web application. Two scripts drive a request
through a live contract.

This directory models that system, checks the models with TLC and proves what matters most
with TLAPS. Source paths below are relative to the repository.

## Inventory

| Part | State | Operations | Talks to |
| --- | --- | --- | --- |
| Escrow contract `contracts/src/HushFlowRfq.sol` | requests, providers, participants, claims, replay maps, signer, extension id, token balances | setExtensionId, initializeTeeSigner, createRfq, submitQuote, cancelRfq, requestResolution, submitResult, timeoutRfq, claim | token contracts (pull, pay), TEE registry (`sendInstructions`) |
| Result verifier `contracts/src/HushFlowResultVerifier.sol` | none | verifyActionResult, validateResultDataV1 | called by submitResult |
| Resolution `services/fcc-extension/src/resolve-rfq.ts` | loop locals | resolveRfqV1 | called by the handler |
| Extension process `services/fcc-extension/src/{main,base/server,base/node,app/handlers}.ts` | promise queue, running handler, counter (all in memory) | POST /action, GET /state, decrypt, stop | tee-node over HTTP, both ways |
| Legacy entry `services/fcc-extension/src/{http-runtime,handle-action,tee-crypto}.ts` | a queue and a counter of its own | the same, with stricter parsing and no abort timer; `main.ts` does not start it | tee-node over HTTP |
| Indexer worker `services/indexer/src/worker` | the current cycle | runWorkerCycle in an endless loop | chain RPC, store |
| Indexer store `services/indexer/src/db/store.ts` | tables of blocks, logs, derived rows, cursor, health | readCursor, markHealth, reconcileWindow, ingestBatch, replay | PostgreSQL transactions |
| Projection `services/indexer/src/domain`, `packages/protocol/src/events.ts` | derived rows in memory | decode, applyProjectorEvent, persistProjection | store |
| Read API `services/indexer/src/api` | none | list, detail, proof, proof center, portfolio, stats, health, metadata | the derived tables, several queries per answer |
| Start-up and migrations `services/indexer/src/{config,runtime}.ts`, `src/db/migrations.ts` | schema_migrations | parseIndexerConfig, createMigratedPool, applyMigrations | PostgreSQL advisory lock; worker and API both run it |
| Live scripts `scripts/coston2/{execute-coston2-drill,run-full-coston2-demo}.ts` | target request id, computed deadline, ledger | create, quote twice, wait, request; the full demo also links, settles and claims | contract; the drill relies on the TEE |
| Client sealing `packages/crypto` | none | envelope, ECIES, key metadata | TEE machine registry |
| Schemas `packages/protocol` | none | parse, encode, decode | everyone |
| Web, deployment | none of the protocol's | presentation, one-off configuration | read API |

What is hard, and where it is listed: PROJECT.json `hazards` names each at its line. In
short: several parties race for one open request, and boundaries of two windows touch; a
signed result, an action id or a nonce can be presented again; a claim may be repeated and
must never draw on another request; tokens and the registry may misbehave; the TEE may stay
silent; the extension awaits an unreliable node in the middle of serialized work and keeps
its state in memory; the indexer reads a moving chain with several calls per cycle, and may
be interrupted between its transactions; its rows are rebuilt from events alone and answers
are put together from several queries while the worker rolls back; two services migrate one
database side by side; the scripts predict a request id, estimate in one state and are mined
in another, and never look at a receipt's status.

What makes each part correct:

- Contract: deposits are backed by balances, entitlements of a closed request add up to its
  deposits and never change, each request closes once, on a result bound to its own action,
  and every deposit gets out.
- Resolution: the highest eligible quote wins, the earliest of equal ones; bad submissions
  change nothing.
- Extension: accepted work is served once and in order; a signed trade is genuine whatever
  fails; everything is answered.
- Indexer: cursor, blocks, logs and derived tables fit together after any interruption;
  healthy means canonical; a rollback keeps what is canonical; too deep a reorganisation
  fails closed; the worker catches up.
- Projection: the rows are the contract's state, portfolios show what `claim` would pay, and
  nothing the contract emits stops ingestion, except an instruction id that is repeated.
- Read API: a client that pages to the end misses nothing; parts of one answer agree; an
  internal error has a known cause.
- Migrations: the schema is what is recorded whoever is killed when; services that start side
  by side do not make each other fail; every start settles.
- Scripts: a request sealed for another id never trades; a saved ledger means what it says.

## Modules

| Module | What it is |
| --- | --- |
| `HushFlowRfq` | the contract with its verifier: one action per transaction |
| `RfqCommon` | what contract and projection share: `None`, the zero address, and sums |
| `HushFlowRfqProperties` | its safety and liveness properties |
| `RfqEscrow` | abstract specification: what the escrow promises its users, with no deadlines, results or signatures |
| `HushFlowRfqRefinement` | the mapping from the contract to `RfqEscrow` |
| `HushFlowRfqProofs` | the contract's inductive invariants and the theorems that follow, the money among them; that it implements `RfqEscrow`; that every deposit gets out |
| `Resolution`, `ResolutionProofs` | `resolveRfqV1` as an operator, and what its outcome has to be; that it is, for every input |
| `ResolveRfq`, `ResolveRfqProofs` | the same, one turn of the loop at a time; the loop's correctness for every input |
| `FccExtension` | the extension process over `Resolution`: queue, handler, node, crashes |
| `LegacyExtension`, `FccExtensionProofs` | the other entry over the same state, and a specification that runs either; its safety proved |
| `Indexer`, `IndexerProofs` | worker and store against a growing and reorganising chain; store, rollback and health proved |
| `Projector` | events, decoding, projector, table constraints, and the amounts the read API computes |
| `IndexedRfq`, `IndexedRfqProofs` | contract and projection composed: each transaction's event is ingested; the rows proved right |
| `Migrations` | how worker and API start on one database, statement by statement |
| `ReadApi`, `ServiceProofs` | extends `Migrations` and `Projector`: once both services run, commits and rollbacks next to queries and pages; start and answers proved |
| `Drill`, `DrillProofs` | contract, TEE (`Resolution`) and the live scripts composed, next to another user; what a drill shows proved |
| `MC*` | constants and symmetry for the runs |

### The contract (`HushFlowRfq`)

Variables carry the contract's names. One action is one transaction; a revert is a step that
is not enabled, so the guards are the code's `if (...) revert` lines in their order, and the
primed variables are everything the transaction writes, the token ledgers included. `rfqs` is
total like the Solidity mapping: an unused id holds the zero record, whose status reads OPEN,
and `IsOpen` makes the seller check of `_openRfq`. Where somebody can find out beforehand
whether a transaction would revert, its guards have a name of their own (`CanClaim`,
`CanTimeoutRfq` and so on); the action is that name and the assignments. Time is the block
timestamp; `Tick` is a later block, and many transactions may share a timestamp.

- A token may credit a pull with one unit more or less than asked; `PulledExactly` is the
  balance comparison of `_pullExact`. It never credits from an account that lacks funds.
- The registry answers `sendInstructions` with an id, with zero, or reverts. The code treats
  the last two alike, except that a revert leaves the fee in the contract (`nativeBalance`).
  The branch for a zero registry address is dead: the constructor rejects that address.
- `SubmitResult` offers the contract every attestation and every result that can be built
  from the constants: other signers, tags, statuses, domains, types, prices, expiries and
  nonces. `Results` is the decoded record; the canonical encoding check and signature
  recovery become fields.
- `instruction` and `evidence` are history variables: the message sent for each request and
  what the accepted result carried. No guard reads them.
- `claimable` and `accounting` are read as the code computes them. Amounts are naturals
  without the 2^256 bound: no sum the contract forms can reach it with real token supplies.

### Resolution (`Resolution`, `ResolveRfq`)

An envelope is a typed record or `Unreadable`, which stands for whatever fails to decrypt, to
parse or to match the schema. `bound` stands for chain, contract and request id all matching.
`Eligible` is the condition of the loop negated, `Consider` one turn, `Verdict` the two
returns. `ResolveRfq` unrolls the loop into `Reject`, `Scan` and `Conclude`, so that the loop
invariant is a state invariant that can be proved.

### Extension (`FccExtension`)

`queue` is the promise chain of `Server.serialize`. A handler runs without interruption up
to each `await` of a decryption, and `Continue` is what it does when that await ends: go on to
the next ciphertext or, after the last, resolve, count and answer in one step. The node
serves, or hangs and answers nothing; `DecryptFails` is a refusal, a broken connection, or the
abort timer of `NodeClient.post`. Signals close the listener (`Close`), the process leaves
when the last response is out (`Leave`), and it may crash at any time (`Crash`), losing the
queue and the counter; `Start` is the restart. A retry is another request. `arrivals` and
`faulted` are history variables.

### The other entry (`LegacyExtension`)

`entry` says which of the two servers was started. The legacy one keeps the same state, so
its actions are those of `FccExtension` where the code does the same, and its own where it
does not: it wants every field of an action before it takes it and refuses it otherwise, a
failure to decode is thrown and caught by the queue, and nothing ends a decryption the node
does not answer. `EitherSpec` picks the entry first; every property of the extension is
checked of both.

### Indexer (`Indexer`)

`pc` is the place of the worker in its cycle. Between two places the code makes RPC calls,
and the chain may change before, between and during them: `seen` collects the chains that
were canonical since the pending calls began, and each single-block call and the call for
logs may return from any of them (`Observed`). A block's hash is modelled as the chain up to
it. Each store call is one action, because each is one transaction. `Restart` stands for a
stopped worker and for a failed database call: in both, the next cycle starts from the
database. `disturbed` is a history variable: some reorganisation fell inside a cycle.

A branch that takes over is as long as the old one. A shorter one makes the window's calls
fail until it has grown, which is `RpcFails`.

### Projection (`Projector`, `IndexedRfq`)

A transaction of the contract emits at most one event of the protocol; `Emitted` reads it off
what the transaction changed. `Accepts` lists the conditions under which
`applyProjectorEvent` throws nothing, `Applied` is what it does then, and `FitsSchema` the
keys, unique columns, foreign keys and checks of `001_initial.sql`. The store rebuilds all
rows from all logs at each commit; that is a fold, so taking the events one at a time gives
the same rows and the same first error. An event that is refused makes `ingestBatch` roll
back, and every later attempt begins at the same block: `wedged` stays. `ClaimShown` and
`Stats` are the amounts `repository.ts` computes a second time, outside the contract.

### Start-up (`Migrations`)

A step is one statement of one process: configuration, connection and file set, lock,
discovery, each script, each record, commit, end of the pool. What a transaction writes is
seen when it commits. Any statement may fail, a process may be killed anywhere, and a COMMIT
whose answer is lost may have happened. Each start brings the migrations of one of
`Releases`: an older one, a newer one, one whose first file was edited, one with two files of
a number. `exitCode` is what the process prints when it ends.

### Read API (`ReadApi`)

The module starts as `Migrations` does. Once both processes serve on the current schema
(`Running`), the worker commits, rejects, rolls back and marks health, one step per database
transaction, and the API answers one query per step in the order of the code, or one page per
step for clients that follow `nextCursor`. Derived tables are `RowsOf(log)`, because the store
rebuilds them with the logs in one transaction. A process killed while serving starts again
at once: that it does is what the first phase shows, so only the request it held is lost.
Answers and pages go through the schemas of the protocol package: what does not fit one
(`Parses`, `ItemFits`) ends in the handler's catch, a 500. What leads to no query (`Unserved`)
is answered by `Refuse`: where `server.ts` can make no Request of what arrived
(`NotARequest`), its own catch answers 500 before the router sees a method or a path; else
the router decides, first by the method (405), then by the path (`RoutedStatus`). Of the
methods fetch forbids, Node's HTTP server hands only TRACE to the handler.
`walk.always`, `walk.ever` and `disturbed` are history variables.

### Scripts (`Drill`)

`Plan` lists the calls of a script in order. `Send` is the gas estimate, which passes if the
call would succeed in the present state: `CanTransact` names, call by call, the guards of
`Transaction`, and is true exactly where `Transaction` is enabled. The transaction is mined
later, and may then revert, which the scripts do not notice (`slipped`). Envelopes are sealed
for `target` and carried by `sealed`; the TEE opens them with `Resolution` and its answer is
relayed at any time, or never. Somebody else (`Passerby`) creates, quotes, requests, cancels,
times out and claims between any two steps. The full demo talks to request 1 of a contract it
has just deployed, with the deployer as result signer.

## Runs

| Run | Bounds | Question |
| --- | --- | --- |
| `RfqOne` | one request, three accounts, two signers, one registry id and nonce, two provider places, amounts on both sides of each comparison, seven timestamps, fairness | Do entitlements exhaust the deposits in every outcome and claim order, is a closed request final, does the TEE's message stay current, is every step one of `RfqEscrow`'s, does every deposit get out? |
| `RfqTwo` | two requests, three accounts, one provider place, one registry id for both, two nonces, five timestamps | Can a deposit, claim or result of one request leak into the other? Are the indexer's rows the contract's state, what stops ingestion, do portfolios show what can be claimed? |
| `RfqZeroId`, `RfqNative` | as `RfqOne` with four accounts | Two statements of the repository that do not hold (below) |
| `Resolve` | every list of up to three submissions (and some of four, one over the limit), each genuine at 0 to 3 with a cap of 2, or wrong in one way; every kind of seller envelope | Is the outcome the design's at every boundary, and do bad submissions change nothing? |
| `ZeroMinimum` | as `Resolve` | A statement that does not hold |
| `Fcc` | either entry, three requests of any kind, four instructions, up to two providers, fairness | Order, exact state reads, genuine trades across failures, and is everything answered? |
| `Indexer` | four blocks, two branches, one transaction, two reorganisations of any depth, a window of three, batches of two, fairness | Consistency, health, rollback, fail-closed, catching up |
| `IndexerRace` | as `Indexer`, with three blocks and a window of two | A statement that does not hold |
| `Service` | worker and API, four releases, three environments; then four events of two or three requests, pages of one | Do starts side by side work out, are walks exact, do answers cohere, where do internal errors come from? |
| `Unreported` | as `Service` | A statement that does not hold |
| `Drill` | two requests, six timestamps, both scripts, one other user with a cap of 3 next to the scripts' 5 | What may a seal, a settled request and a saved ledger be trusted for? |

Why these bounds are enough to be interesting: three accounts for two places have a winner
next to a loser and a seller who tries to quote, and in `RfqTwo` the second account that wants
the only place meets the provider limit; `Quotes` has zero, a losing value, the cap and one
above it; the clock covers every order of the two deadlines with each transaction and one
later timestamp. Two requests are the least that can confuse ids, nonces or balances, and the
single registry id makes the registry repeat itself, which is what stops the projector. For
the loop, three submissions contain a winner with something before, between and after. Four
blocks with a window of three have a block below the window and rollbacks with several common
blocks to choose from, and two reorganisations can return to a branch already seen. Pages of
one item make each listing of two requests span pages, and four events suffice for a request
that is created, quoted, requested and closed, or for a second request to appear or go while a
client pages. In `Drill` one foreign request is enough to take the id a script predicted.

Ids and nonces that are only compared are symmetric where no liveness is checked, accounts
too in `RfqTwo`, where all are treated alike. Deadlock checking is off everywhere because each
bounded system may stop: the clock and the ids run out, requests are used up, the loop
returns. That nobody waits on everybody is checked by the liveness properties instead.

The bounds on behaviours are `MaxRfqs`, `MaxTime`, `MaxHeight`, `MaxReorgs`, `MaxLogs`,
`MaxRequests`, and in `Drill` the predicate `Followed`, which ends the story of a full demo
when its script ends. `CreateRfq` also leaves the clock a tick after the resolution window, so
that the bound itself never withholds a timeout.

### Fairness

- Contract: blocks keep coming (`Tick`); `timeoutRfq` is open to anyone and somebody calls
  it; each participant keeps trying to claim. Nobody is assumed to quote, to request a
  resolution or to answer. That is what the contract's design relies on.
- Extension: the event loop runs whatever is ready, and every decryption ends, by an answer
  or by the abort timer. The node need never answer, and nobody need restart the process.
  Under the legacy entry a decryption ends only while the node serves, and the property says
  so.
- Indexer: `main.ts` always begins another cycle (weak fairness), and the steps that depend
  on calls succeed if they are possible again and again (strong fairness): calls fail and the
  worker restarts, but not every time at the same place.
- Start-up: the event loop runs a process that is starting (weak fairness); PostgreSQL grants
  an advisory lock in the order in which it was asked for (strong fairness of `AcquireLock`).
  That whoever holds the lock gives it back is not assumed but follows.

## What does not hold

Each is a run that expects a violation and an entry of PROJECT.json `findings`.

- `RfqZeroId`: a registry that answers zero or reverts does not make `requestResolution`
  fail; a locally computed id is recorded. The tests expect a revert.
- `RfqNative`: when the registry reverts, the fee sent along stays in the contract, which has
  no way to pay it out. The safety design says none is retained.
- `ZeroMinimum`: a sealed minimum of zero is accepted and leads to a trade. The plan asks for
  INVALID_RFQ.
- `IndexerRace`: parent hashes are compared within a batch, never between its first block and
  the cursor. A reorganisation between reconciliation and the batch stores a block above one
  that is not its parent. The verification notes say that parent continuity is verified.
  Two relatives of it are visible in the model: such a stale block is not repaired once a
  newer stored block matches the chain, because the ancestor is the newest match; and the
  logs of a batch may come from another chain than its blocks. `HealthyMeansCanonical`,
  `OnlyOrphansAreDropped`, `DeepReorgsFailClosed` and `CatchesUp` are therefore stated for
  behaviours in which the chain reorganises only between cycles.
- `Unreported`: a batch with an event that cannot be ingested is rolled back with its health
  row, the loop swallows the error, and nothing ever writes the code EVENT_INVALID; health
  keeps saying what it said, "healthy" included. The design asks for a stable decoder code.

Met on the way, and held by a property that names it rather than by a run of its own:

- `OnlyRepeatedIdsWedge`: the contract accepts an instruction id the registry repeats, the
  projector does not, and ingestion stops for good.
- `InternalErrorsHaveACause`: a source identity with a slash passes the configuration and the
  tables, but not `dataProvenanceDtoSchema`, so metadata and the proof center always fail; a
  detail whose request is rolled back between two queries fails; health fails until the worker
  has first written it. A TRACE request is answered 500 and not the router's 405, and a target
  that is no URL (`GET //`) 500 and not 400, because `server.ts` fails on both before it calls
  the handler.
- `AnswersCohere` excludes a rollback between two queries of an answer: its parts may then
  come from two histories.
- `FullLedgerMeansPaid` is what remains true of a ledger that may list reverted transactions.

## Proofs

Theorems of safety are stated for each module's specification without fairness; the run that
checks the same property under a fair specification checks a special case. They hold for any
values of the constants that satisfy the modules' assumptions, which are the named ASSUMEs:

- contract: addresses and zero values are distinct, there are finitely many addresses,
  amounts and limits are naturals, and no action id, a registry's or a hash, is zero;
- resolution: the zero address is nobody's, the provider limit is a natural, and what cannot
  be read is no envelope; inputs and instructions are of their types;
- indexer: window and batch are positive, bounds are naturals; modes are the two of the
  configuration; decoded events have one of the seven names and unsigned numbers
  (`EventsAreDecoded`), pages hold at least one item, and a request has a path the router
  knows (`RequestsAreRouted`);
- scripts: their wallets are accounts, the other user (`Passerby`) is none of them (the three
  wallets need not differ from each other), their amounts are ones a caller may put forward, what
  is sealed is positive (`envelope.ts` refuses anything else), and zero is a possible fee.

Every safety and action property of a passing run is a theorem, and so is the liveness of the
contract, under fairness written as below.

### The contract (`HushFlowRfqProofs`)

For any accounts, amounts, ids, nonces, limits and number of requests: `TypeOK`,
`CancelledHasNoQuotes`, `InstructionStaysCurrent`, `OutcomesAreUniquelyBound`,
`ClosedPaysEveryParticipant` and `EntitlementsAreFinal`. None of these is inductive.
`ContractInv` adds what they rest on:

- `SettledIsATrade`: a settled request names a participant and a positive price within the
  cap. Without it, `quoteCap - winningQuote` need not be a natural, and `TypeOK` fails.
- `BlankOrFunded`: an id is unused with everything about it blank, or its request has a
  seller and two positive amounts. Without it, creating a request could revive a closed one.
- `QuotesMatch`: the provider list is empty only if nobody participates, and the seller is no
  participant. `cancelRfq` reads the list, `claimable` the mapping.
- `RequestedAfterQuotes`: once a message is out, the quote window is over. This is the whole
  reason why the message stays current.
- `EvidenceIsConsumed` and `OutcomesDiffer`: whatever an outcome carried is in the replay
  maps, so a new outcome, which passed them, differs from all others.

The argument goes through one request at a time. `StepOnRequest` says that every step is, for
a given request, one of seven relations (`SameBooks`, `Created`, `Quoted`, `Requested`,
`Abandoned`, `Resolved`, `Paid`); `StepsTouchOneRequest` that no step changes two requests;
`SharedStateGrows` what it does to the state they share. Each conjunct of `ContractInv` then
has a lemma of its own by cases of these relations.

`ContractImplementsEscrow`: initial states map to initial states, and each transaction is a
step of `RfqEscrow` or changes nothing it can see. `SameBooksLookTheSame` takes care of the
stutters, then there is a lemma for each kind of transaction (`SubmitQuoteJoins`,
`AbandoningRefunds` and so on), which `ContractInv` supports. One strengthening is new:
`CapsAreAccepted`, that the cap of an existing request is one `RfqEscrow` lets its users ask
for.

The money: `EscrowBacksDeposits`, `EntitlementsExhaustDeposits`, `PositionsFollowOutcomes`
and `ClaimsNeverExceedDeposits` are sums over accounts and requests. `SumOf(f)` is the
cardinality of the set of f's units, so that the library's facts about finite sets replace
induction: a sum changes with one summand, is monotone, and of equal shares a product
(`SumChanges`, `SumIsMonotone`, `SumOfEqualShares`). `BooksInv` adds two facts to the first
three properties: `SeatsAreCounted`, the list of providers is as long as there are
participants, because `accounting` multiplies by its length while `claimable` asks the
mapping; and `OpenIsUnclaimed`. `ClaimsNeverExceedDeposits` follows, and with it
`ClaimsAreFunded`, which no run checks: whatever one request still owes anybody is in the
contract's balance, whatever others have claimed.

Nobody is locked in: `EveryExitIsOpen`, which no run checks, says of each request that it
waits for its deadline, or that anybody can time it out, or that it is closed and each of its
accounts that has not claimed can, without a revert. It needs `ClosedPaysEveryParticipant`
(there is something to claim) and `ClaimsAreFunded` (the escrow has it, in both tokens).

Two theorems turn that into liveness. Fairness is written with the guards `CanTimeoutRfq` and
`CanClaim` instead of ENABLED, and the temporal steps are left to the decision procedure for
propositional temporal logic; what it is given are steps on single states: a closed request
stays closed, a claim stays claimed, the windows of every request are over when the clock of
the model ends (`WindowsAreOverAtTheEnd`), and `EveryExitIsOpen`.

- `EveryoneIsPaid`, for each account: if time passes (`TimePasses`), somebody times the
  request out if that stays possible (`SomebodyTimesOut`), and the account claims if that
  stays possible (`KeepsClaiming`), then whatever it has locked in a request leads to the
  request closed and the account paid. No other account need do anything.
- `AllDepositsReturn` states `EveryDepositReturns`. Here the claims of all accounts of a
  request have to come to an end: `EverybodyClaims` says that again and again nobody can claim
  anything more. Weak fairness of each of finitely many claims implies it, because an account
  claims once; that argument is an induction over the accounts, which the prover cannot make
  over temporal formulas. The run checks the property under weak fairness itself. That all
  is paid once all have claimed is `AllClaimedIsAllPaid`: nobody has anything to claim then,
  and `EntitlementsExhaustDeposits` leaves the deposits to what was claimed.

`TimePasses` is the end of the bounded clock, which `CreateRfq` keeps later than every
resolution deadline. For the contract it stands for a block after the deadline.

### The projection (`IndexedRfqProofs`)

`RowsMirrorContract`, `OnlyRepeatedIdsWedge` and `PortfoliosShowClaimables`. The composed
specification steps as the contract does, so `ContractInv` and `BooksInv` are there to use.
`IndexedInv` adds `ReaderInv`, what readers of events rely on and the contract never says:
each participant sits once in the list (`EachSitsOnce`), ids are used in order and deadlines
are positive (`RequestsAreDated`, or the decoder would refuse a creation), and only a trade
leaves a winner (`ResultsLeaveOutcomes`, or the projector would refuse an outcome); and
`RowsInv`, that rows fit the tables and no two requests share an action while nothing was
refused. `RowsMirrorContract` is taken apart into its five tables. For each event there is a
lemma that the decoder, the projector and the tables take it and that the rows follow
(`Told`); the exception is `ResolutionRequested` with an action id that is already there,
which is how `wedged` comes about. The portfolio amounts are those of `claimable` by cases of
a request's status.

### Resolution (`ResolutionProofs`, `ResolveRfqProofs`)

`ResolveIsBest`: for every input `ResolveRfqV1` returns an outcome that `IsBestOutcome`
accepts, and `BestOutcomeIsUnique`. The operator is a recursive function over the turns of the
loop; that it exists and what it is worth after each turn is shown by taking the least turn
without the claim, which `NaturalsInduction` and `WellFoundedInduction` allow without an
induction theorem that takes an operator. `ResolveRfqProofs` proves of the unrolled loop
`ResolveTypeOK`, the loop invariant `LeaderIsBestSoFar`, `ResultIsBestOutcome`, and
`IneligibleSubmissionsDoNotMatter`: any selection of the submissions that keeps the eligible
ones, in their order, leads to the same outcome.

### The extension (`FccExtensionProofs`)

Of either entry, for any number of requests, any instructions, crashes and losses:
`WorkIsServedInOrder`, `ExtTypeOK`, `StateReadsAreExact`, `FaultFreeAnswersAreBest` and
`TradesAreGenuine`. `EitherStep` reads every step of both entries as one of `ExtStep`'s eight.
`ExtInv` is made of

- `QueueInv`: `Ahead`, the running action followed by the queue, is exactly the tail of
  `arrivals` that has no answer (`InOrder`), and a request arrives once;
- `RunningInv`: what the running action has opened is, ciphertext by ciphertext, what was
  sealed, or unreadable and then the request is marked as faulted;
- `SuccessesAreResolved`: a success is `ResolveRfqV1` of such envelopes. From there
  `ResolveIsBest` does the rest;
- `CountInv`: `processedResolutions` is the number of successes among all arrivals, and a
  state read was told the number among those before it. The served are a prefix of the
  arrivals, which is why the two counts agree.

### The scripts (`DrillProofs`)

`TradesHonourSeals` and `LedgerTellsOneRequest`, for any amounts, any durations and any number
of other requests. `DrillSteps` says that a step opens a request with a seal, quotes with one,
relays an answer of the TEE or seals nothing, and `StepsOfTheContract` that each is a step of
the contract or leaves it alone, so `ContractInv` holds. `DrillInv` adds `EveryoneSealed`,
that the seller and each provider of a request have sent a ciphertext along. A trade then
honours the seals: the TEE is asked about the current request (`InstructionStaysCurrent`), its
answer is the best outcome of what it opened (`ResolveIsBest`), so the winner's envelope is
bound to this request and this sender, and a request that is closed takes no further
ciphertext. `Progress` is the list of milestones behind a drill without a slip; each survives
what the other user does.

`FullLedgerMeansPaid` is a theorem too. A ledger of the full demo may list reverted
transactions, so what it means cannot rest on what was mined, only on estimates that passed.
`FullInv` is the contract's `BooksInv` and

- `EverybodyIsKnown`: requests are the seller's or the other user's, quotes are the
  providers' or the other user's, and a request of the seller has the script's amounts;
- `EstimatesHold`: a claim that passed its estimate still succeeds when it is mined, because
  nobody else can make that claim and no other claim can take the money it needs
  (`ClaimsStayPossible`, from the books). So a claim step is never a slip;
- `FullProgress`: after its step each claimant has claimed, and after the result step without
  a slip the second provider has won.

A claim passes its estimate only if its account has not claimed before; three claims are
therefore those of three accounts, so that the wallets differ follows and is not assumed.
If only two have quoted, the two providers are these, because only participants claim
(`OnlyParticipantsClaim`); everybody has claimed then, and `AllClaimedIsAllPaid` gives the
sums.

### The indexer's worker (`IndexerProofs`)

`IdxTypeOK`, `CursorIsTopOfStore`, `OnlyOrphansAreDropped`, `DeepReorgsFailClosed` and
`HealthyMeansCanonical` for any chain, window and batch size. `IdxInv` adds to the first two
that the cursor is typed (`CursorIsTyped`), that the chain never gets shorter than what a
cycle has read of it (`HeadIsCovered`), and `UndisturbedIsCanonical`: as long as no
reorganisation fell inside a cycle, a cycle sees but one chain, the store is one branch with
its logs, and from the comparison on that branch is the chain's. The three action properties
follow from it.

### Start-up and the read API (`ServiceProofs`)

`SchemaIsWhatIsRecorded` and `StartsUnlessItMust` for any number of processes and any
releases. `StartInv` says that recorded rows and scripts match (`Matches`), that at most one
process is past the lock (`OneHoldsTheLock`), and of each process that what it read is still
what is committed and that what it has written is new (`ProcessIsFit`). `OthersStayFit` is
where the lock matters: a step of one process leaves the others fit because only the holder of
the lock commits. `ServiceStarts` carries both over to the service: it implements the start.

`InternalErrorsHaveACause`, `AnswersCohere` and `WalksAreExact` follow from `ServiceInv`:

- `LogIsFit`: after every prefix of the log, not only the whole of it, the rows are fit and
  the events tell what the rows say. A rollback returns to a prefix, so this is what makes the
  invariant survive it. `RowsFit` is `FitsSchema` with types, one seat per quoter
  (`SeatsAreCounted`), a winner for each settled request and for no other, and winners who
  quoted within the cap; `RowsStayFit` takes it through the seven events. `RowsOf` is a
  recursive function; `RowsOfOneMore` gives its last turn.
- `HealthIsFit`: the health row counts the log, and its code is one the DTO knows.
- `WalkIsFit`: the items decrease, the cursor is the last, and what has matched all along and
  is not below the cursor is among them. `PageAdds` is the lemma about one page, and rests on
  ranks: an id's place on a page is the number of ids that are not smaller.
- `ReadIsFit`: the queries done so far, and what is `Known` of their results as long as no
  rollback came: the rows still know it. Commits only add knowledge (`RowsKnowMore`).

`QueryLeads` goes through the queries of each path: a query finds no row, fails the DTO for
one of the three causes a query can have, leaves more known, or completes an answer that
coheres. `RefusalsAre` gives the fourth cause: what no Request could be made of. That a page
never fails its DTO is `PortfoliosFit`.

### Only model-checked

- Liveness of the other parts (`EveryRequestIsAnswered`, `CatchesUp`, `EveryStartSettles`).
  Each needs an induction over a measure of progress (what is left in the queue, how far the
  cursor is from the head, where the other processes are) and fairness of many actions at
  once; neither ENABLED nor an induction over temporal formulas is within the prover's reach.
- `EveryDepositReturns` under weak fairness proper; see `EverybodyClaims` above.
- The five statements that do not hold are refuted by a run each.

## Not modelled, and why

- Calls back into the contract from a token or the registry during a transaction: each
  transaction is one step. `cancelRfq`, `submitResult` and `timeoutRfq` call nobody, but carry
  no guard and could be entered from within a token's or the registry's code; the hazard is
  listed without a property.
- Ciphertext lengths, ABI encodings, code-size checks, the registry scan of `setExtensionId`:
  they decide nothing the properties speak of.
- Cryptography: a signature is the key that made it, a ciphertext what it decrypts to.
  `metadata.ts` checks a published key and is called by no script.
- `replay` and `verifyCursor` of the store: nothing but tests calls them. The fixture source
  is a chain that never reorganises.
- The restart of a service that is already serving is one step in `ReadApi`; worker and API
  share one environment, as they share one environment file.
- The syntax of request parameters and targets: `Unserved` tells apart only whether `new URL`
  and `new Request` accept what arrived, whether the router knows the path, and whether the
  parameters parse. A socket that breaks while an answer is written loses it, and changes no
  state.
- Token approvals in `Drill`, except for the bound they put on what a quote may pull. The full
  demo also rewrites `.env.local` with the contract it deployed, whose result signer is the
  deployer: a later drill talks to that one, and no TEE result would be accepted there. Each
  script is modelled from the state it expects.
- `live-plan.ts` and `live-runner.ts`: they walk a list of steps through an executor the
  repository does not contain.
- Web application: screens over fixed data and the read API. `pendingWritePreflight` disables
  every write by a constant, so it sends no transaction and keeps no state of the protocol.
- Deployment and set-up: one-off configuration and read-only checks that nothing runs
  concurrently with.

## Plan

1. Contract, its abstract escrow and its runs; resolution; extension; indexer. Done.
2. Contract invariant and the theorems above; the resolution loop. Done.
3. Projection composed with the contract; start-up, read API and clients; the scripts with
   the TEE; the legacy entry. Done.
4. Proofs of the refinement, the extension, the indexer's store, the migrations, the sums, the
   projection, the read API and the scripts; of the full demo's ledger; that nobody is locked
   in and that deposits return. Done.
5. Left: reentrancy, as transactions with a call stack; a refinement of the indexer's store
   and the contract's log to one abstract log that readers see; the liveness properties of
   extension, indexer and start-up, with a prover that handles ENABLED and induction.
