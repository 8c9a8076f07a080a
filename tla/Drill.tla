------------------------------- MODULE Drill -------------------------------
(***************************************************************************)
(* The two scripts that drive a request through the live contract:         *)
(* scripts/coston2/execute-coston2-drill.ts ("drill": an existing contract *)
(* and the real TEE) and run-full-coston2-demo.ts ("full": a fresh one     *)
(* whose result signer is the deployer), next to somebody else who uses    *)
(* the same contract, with what the TEE makes of the sealed envelopes      *)
(* (Resolution).                                                           *)
(*                                                                         *)
(* A script sends one transaction after another.  Sending starts with a    *)
(* gas estimate, which fails when the call would revert now: main rejects  *)
(* and nothing is saved.  The transaction is mined later, in another       *)
(* state; a revert there is a receipt like any other, and the script goes  *)
(* on.  Approvals change nothing in the contract and only bound what a     *)
(* quote may pull; a script that loses its RPC stops where it is.          *)
(***************************************************************************)
EXTENDS HushFlowRfq, SequencesExt

CONSTANTS
  Seller, ProviderA, ProviderB,   \* the wallets of the scripts
  Passerby,                       \* somebody else
  TeeKey, DeployerKey,            \* the two result signers
  Unreadable,
  lotAmount, quoteCap, sellerMinimum, quoteA, quoteB, quoteDuration,
  PasserbyCaps, PasserbyQuote     \* what the other one asks for and offers

VARIABLES
  script,     \* which of the two runs
  step,       \* the next entry of its plan
  phase,      \* "ready" to go on, "sent" a transaction, "saved" the ledger or "rejected"
  target,     \* the request id it seals for and talks to
  deadline,   \* the quote deadline it computed
  sealed,     \* the ciphertexts of each request, by who sent them
  slipped     \* history: a transaction of the script was mined and reverted

scriptVars == <<script, step, phase, target, deadline, slipped>>
drillVars == <<vars, scriptVars, sealed>>

Res == INSTANCE Resolution WITH Addresses <- Accounts

\* The scripts and the other user are callers of the contract like any other; what is
\* sealed is positive (envelope.ts refuses anything else).
ASSUME CallersAreAccounts == {Seller, ProviderA, ProviderB, Passerby} \subseteq Accounts
ASSUME PasserbyIsSomebodyElse == Passerby \notin {Seller, ProviderA, ProviderB}
ASSUME AmountsArePutForward ==
  lotAmount \in LotAmounts /\ {quoteCap} \cup PasserbyCaps \subseteq QuoteCaps
ASSUME SealedAmountsArePositive ==
  {sellerMinimum, quoteA, quoteB, PasserbyQuote} \subseteq Nat \ {0}
ASSUME NoFeeIsAFee == 0 \in InstructionFees
ASSUME SignersAreKeys == {TeeKey, DeployerKey} \subseteq Signers
ASSUME DurationIsNatural == quoteDuration \in Nat
ASSUME UnreadableIsNotAnEnvelope == Unreadable \notin Res!EnvelopeV1

drillPlan == <<"nextRfqId", "getBlock", "createRfq", "quoteA", "quoteB", "wait", "request">>
fullPlan == <<"link", "getBlock", "createRfq", "quoteA", "quoteB", "wait", "request",
              "result", "claimSeller", "claimB", "claimA">>
Plan == IF script = "drill" THEN drillPlan ELSE fullPlan
Reads == {"nextRfqId", "getBlock", "wait"}
At(name) == phase = "ready" /\ step <= Len(Plan) /\ Plan[step] = name

\* The drill finds a contract that is set up; the full demo deploys one, whose signer is
\* its own deployer, and registers the extension.
FoundContract == script = "drill" /\ extensionId \in ExtensionIds /\ teeSigner = TeeKey
DeployedContract == script = "full" /\ extensionId = 0 /\ teeSigner = DeployerKey

\* The full demo talks to request 1; the drill reads its target.
DrillInit ==
  /\ FoundContract \/ DeployedContract
  /\ now = 0
  /\ nextRfqId = 1
  /\ rfqs = [r \in RfqIds |-> ZeroRfq]
  /\ providers = [r \in RfqIds |-> <<>>]
  /\ participated = [r \in RfqIds |-> {}]
  /\ claimed = [r \in RfqIds |-> {}]
  /\ claimedFxrp = [r \in RfqIds |-> 0]
  /\ claimedUsdt0 = [r \in RfqIds |-> 0]
  /\ consumedActionIds = {}
  /\ consumedResultNonces = {}
  /\ fxrp = [h \in Holders |-> IF h = Escrow THEN 0 ELSE InitialBalance]
  /\ usdt0 = [h \in Holders |-> IF h = Escrow THEN 0 ELSE InitialBalance]
  /\ nativeBalance = 0
  /\ instruction = [r \in RfqIds |-> None]
  /\ evidence = [r \in RfqIds |-> None]
  /\ step = 1 /\ phase = "ready" /\ target = 1 /\ deadline = 0 /\ slipped = FALSE
  /\ sealed = [r \in RfqIds |-> <<>>]

-----------------------------------------------------------------------------
(* Envelopes *)

\* An envelope names who it is from and which request it is for, inside the seal.
SellerMinimumEnvelope(sender, rfqId, value) ==
  [payloadKind |-> "SELLER_MINIMUM", sender |-> sender, rfqId |-> rfqId, value |-> value]
ProviderQuoteEnvelope(sender, rfqId, value) ==
  [payloadKind |-> "PROVIDER_QUOTE", sender |-> sender, rfqId |-> rfqId, value |-> value]

\* A transaction carries the ciphertext of its sender to request r.
Carries(r, sender, envelope) ==
  sealed' = [sealed EXCEPT ![r] = Append(@, [sender |-> sender, envelope |-> envelope])]

CiphertextOf(r, sender) ==
  sealed[r][CHOOSE i \in DOMAIN sealed[r] : sealed[r][i].sender = sender].envelope

\* What the TEE finds inside the ciphertext sender sent to r.
Opened(r, sender) ==
  LET envelope == CiphertextOf(r, sender)
  IN  IF envelope = Unreadable THEN Unreadable
      ELSE [payloadKind |-> envelope.payloadKind, sender |-> envelope.sender,
            bound |-> envelope.rfqId = r, value |-> envelope.value]

ResolveRfqInput(r) ==
  [seller |-> instruction[r].seller,
   sellerEnvelope |-> Opened(r, instruction[r].seller),
   providers |-> [i \in DOMAIN instruction[r].providers |->
     [address |-> instruction[r].providers[i], quoteCap |-> instruction[r].quoteCap,
      envelope |-> Opened(r, instruction[r].providers[i])]]]

\* A result with this outcome closes r.
SubmitOutcome(r, outcome) ==
  /\ SubmitResult(r)
  /\ rfqs'[r].status = OutcomeStatus(outcome.resultType)
  /\ rfqs'[r].winningProvider = outcome.winningProvider
  /\ rfqs'[r].winningQuote = outcome.winningQuote

-----------------------------------------------------------------------------
(* The transactions of the scripts *)

Link == \E id \in ExtensionIds : SetExtensionId(id) /\ UNCHANGED sealed

SellerCreates ==
  /\ CreateRfq(Seller, lotAmount, quoteCap, deadline, deadline + RESOLUTION_DURATION,
               lotAmount)
  /\ Carries(nextRfqId, Seller, SellerMinimumEnvelope(Seller, target, sellerMinimum))

\* The provider approved quoteCap, so a request that asks for more is refused.
CanQuote(provider) ==
  /\ target \in RfqIds
  /\ rfqs[target].quoteCap <= quoteCap
  /\ CanSubmitQuote(provider, target, rfqs[target].quoteCap)
ProviderQuotes(provider, value) ==
  /\ CanQuote(provider)
  /\ SubmitQuote(provider, target, rfqs[target].quoteCap)
  /\ Carries(target, provider, ProviderQuoteEnvelope(provider, target, value))

\* The registry gives every instruction an id of its own, or fails.
FreshAnswers ==
  {NoActionId, RegistryReverted} \cup (RemoteActionIds \ {rfqs[r].actionId : r \in RfqIds})
Requests(r) ==
  \E answer \in FreshAnswers : RequestResolution(r, 0, answer) /\ UNCHANGED sealed

\* The deployer signs a trade with provider B for the action id it has just read.
DeployerSettles ==
  /\ target \in RfqIds
  /\ SubmitOutcome(target, [resultType |-> "TRADE", winningProvider |-> ProviderB,
                            winningQuote |-> quoteB])
  /\ UNCHANGED sealed

Claims(account) == target \in RfqIds /\ Claim(account, target) /\ UNCHANGED sealed

Transaction(name) ==
  \/ name = "link" /\ Link
  \/ name = "createRfq" /\ SellerCreates
  \/ name = "quoteA" /\ ProviderQuotes(ProviderA, quoteA)
  \/ name = "quoteB" /\ ProviderQuotes(ProviderB, quoteB)
  \/ name = "request" /\ target \in RfqIds /\ Requests(target)
  \/ name = "result" /\ DeployerSettles
  \/ name = "claimSeller" /\ Claims(Seller)
  \/ name = "claimB" /\ Claims(ProviderB)
  \/ name = "claimA" /\ Claims(ProviderA)

\* Whether a transaction would succeed in the present state: the guards of its calls.
CanSettle ==
  /\ target \in RfqIds
  /\ AwaitsResult(target)
  /\ \E attestation \in Attestations :
       /\ VerifyActionResult(attestation, target)
       /\ \E result \in Results :
            /\ Acceptable(target, attestation.actionId, result)
            /\ result.resultType = "TRADE"
            /\ result.winningProvider = ProviderB /\ result.winningQuote = quoteB
CanTransact(name) ==
  \/ name = "link" /\ ExtensionIds # {} /\ CanSetExtensionId
  \/ name = "createRfq" /\ CanCreateRfq(Seller, lotAmount, quoteCap, deadline,
                                        deadline + RESOLUTION_DURATION, lotAmount)
  \/ name = "quoteA" /\ CanQuote(ProviderA)
  \/ name = "quoteB" /\ CanQuote(ProviderB)
  \/ name = "request" /\ target \in RfqIds /\ CanRequestResolution(target)
  \/ name = "result" /\ CanSettle
  \/ name = "claimSeller" /\ target \in RfqIds /\ CanClaim(Seller, target)
  \/ name = "claimB" /\ target \in RfqIds /\ CanClaim(ProviderB, target)
  \/ name = "claimA" /\ target \in RfqIds /\ CanClaim(ProviderA, target)

\* Sending without an estimate.
PassesUnestimated(name) == TRUE   \* mutant
PassesEstimate(name) == CanTransact(name)
RevertsNow(name) == ~CanTransact(name)

-----------------------------------------------------------------------------
(* The scripts *)

\* The target one past the next request.
PredictedOneLate == nextRfqId + 1   \* mutant
Predicted == nextRfqId

ReadNextRfqId ==
  /\ At("nextRfqId")
  /\ target' = Predicted
  /\ step' = step + 1
  /\ UNCHANGED <<vars, script, phase, deadline, sealed, slipped>>

ReadBlock ==
  /\ At("getBlock")
  /\ deadline' = now + quoteDuration
  /\ step' = step + 1
  /\ UNCHANGED <<vars, script, phase, target, sealed, slipped>>

\* The loop over getBlock ends with the first timestamp past the deadline.
WaitForQuoteDeadline ==
  /\ At("wait")
  /\ now > deadline
  /\ step' = step + 1
  /\ UNCHANGED <<vars, script, phase, target, deadline, sealed, slipped>>

Send(name) ==
  /\ At(name)
  /\ name \notin Reads
  /\ phase' = IF PassesEstimate(name) THEN "sent" ELSE "rejected"
  /\ UNCHANGED <<vars, script, step, target, deadline, sealed, slipped>>

Mined ==
  /\ phase = "sent"
  /\ phase' = "ready"
  /\ step' = step + 1
  /\ UNCHANGED <<script, target, deadline>>

MinedSuccessfully == Mined /\ Transaction(Plan[step]) /\ UNCHANGED slipped
MinedReverted ==
  /\ Mined
  /\ RevertsNow(Plan[step])
  /\ slipped' = TRUE
  /\ UNCHANGED <<vars, sealed>>

SaveEvidence ==
  /\ phase = "ready"
  /\ step = Len(Plan) + 1
  /\ phase' = "saved"
  /\ UNCHANGED <<vars, script, step, target, deadline, sealed, slipped>>

-----------------------------------------------------------------------------
(* The TEE, and the other user of the contract *)

\* Only an instruction the registry took reaches the TEE; its answer is relayed.
TeeAnswers(r) ==
  /\ teeSigner = TeeKey
  /\ rfqs[r].actionId \in RemoteActionIds
  /\ SubmitOutcome(r, Res!ResolveRfqV1(ResolveRfqInput(r)))
  /\ UNCHANGED <<scriptVars, sealed>>

PasserbyCreates ==
  \E cap \in PasserbyCaps :
    /\ CreateRfq(Passerby, lotAmount, cap, now + quoteDuration,
                 now + quoteDuration + RESOLUTION_DURATION, lotAmount)
    /\ Carries(nextRfqId, Passerby, SellerMinimumEnvelope(Passerby, nextRfqId, sellerMinimum))

PasserbyQuotes(r) ==
  /\ SubmitQuote(Passerby, r, rfqs[r].quoteCap)
  /\ Carries(r, Passerby, ProviderQuoteEnvelope(Passerby, r, PasserbyQuote))

\* Bound: what happens after the full demo has ended is not followed.
Followed == script = "drill" \/ phase \in {"ready", "sent"}

PasserbyActs ==
  /\ Followed
  /\ \/ PasserbyCreates
     \/ Link
     \/ \E r \in RfqIds :
          \/ PasserbyQuotes(r)
          \/ Requests(r)
          \/ CancelRfq(Passerby, r) /\ UNCHANGED sealed
          \/ TimeoutRfq(r) /\ UNCHANGED sealed
          \/ Claim(Passerby, r) /\ UNCHANGED sealed
  /\ UNCHANGED scriptVars

DrillTick == Followed /\ Tick /\ UNCHANGED <<scriptVars, sealed>>

DrillNext ==
  \/ ReadNextRfqId \/ ReadBlock \/ WaitForQuoteDeadline
  \/ \E i \in DOMAIN Plan : Send(Plan[i])
  \/ MinedSuccessfully \/ MinedReverted
  \/ SaveEvidence
  \/ \E r \in RfqIds : TeeAnswers(r)
  \/ PasserbyActs
  \/ DrillTick

DrillSpec == DrillInit /\ [][DrillNext]_drillVars

-----------------------------------------------------------------------------
(* Properties *)

\* Contract and TEE together: a lot trades only when the seller's envelope was sealed
\* for that very request, at the price the winner sealed for it, and never below the
\* seller's minimum.  A request that came out with another id than the one its seller
\* predicted (execute-coston2-drill.ts reads nextRfqId before createRfq) never trades.
TradesHonourSeals ==
  script = "drill" => \A r \in RfqIds : rfqs[r].status = "SETTLED" =>
    LET minimum == CiphertextOf(r, rfqs[r].seller)
        quote == CiphertextOf(r, rfqs[r].winningProvider)
    IN  /\ minimum.rfqId = r
        /\ quote.rfqId = r /\ quote.sender = rfqs[r].winningProvider
        /\ rfqs[r].winningQuote = quote.value
        /\ quote.value \in minimum.value..rfqs[r].quoteCap

\* A ledger of the drill none of whose transactions slipped is the story of one
\* request: A quoted before B and the action is on chain.  It is the seller's request,
\* or one that took the predicted id first; the seller's own then came later.
LedgerTellsOneRequest ==
  (script = "drill" /\ phase = "saved" /\ ~slipped) =>
    /\ target \in RfqIds
    /\ \E i, j \in DOMAIN providers[target] :
         i < j /\ providers[target][i] = ProviderA /\ providers[target][j] = ProviderB
    /\ rfqs[target].actionId # NoActionId
    /\ \E r \in target..MaxRfqs : rfqs[r].seller = Seller

\* A ledger of the full demo, slipped transactions or not, is only saved when request 1
\* was the seller's and is closed, and the seller and both providers have their claims:
\* the estimates of the last three steps refuse anything else.
FullLedgerMeansPaid ==
  (script = "full" /\ phase = "saved") =>
    /\ rfqs[target].seller = Seller
    /\ rfqs[target].status # "OPEN"
    /\ {Seller, ProviderA, ProviderB} \subseteq claimed[target]
    /\ ~slipped => rfqs[target].winningProvider = ProviderB
    /\ Len(providers[target]) = 2 =>
         /\ claimedFxrp[target] = lotAmount
         /\ claimedUsdt0[target] = 2 * quoteCap
=============================================================================
