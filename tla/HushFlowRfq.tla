---------------------------- MODULE HushFlowRfq ----------------------------
(***************************************************************************)
(* The HushFlowRfq escrow contract (contracts/src/HushFlowRfq.sol with     *)
(* contracts/src/HushFlowResultVerifier.sol).                              *)
(*                                                                         *)
(* A seller locks a lot of FXRP and asks for quotes; each provider locks   *)
(* the public quote cap in USDT0 next to an encrypted quote; after the     *)
(* quote deadline anybody asks the TEE to resolve; a result signed by the  *)
(* TEE closes the request, or the seller cancels it, or it times out; then *)
(* every participant pulls what the outcome gives it.                      *)
(*                                                                         *)
(* One action is one transaction: it happens completely or, where the code *)
(* reverts, not at all, so a revert is a step that is not enabled.  What a *)
(* caller can find out before it sends a transaction, whether it would     *)
(* revert, has a name of its own: Can... is the guard, and the rest of the *)
(* action assigns.  What is left out: ciphertexts (opaque here) and their  *)
(* length check, the events, the code-size checks of the constructor, and  *)
(* calls back into the contract made by a token or by the registry during  *)
(* a transaction.                                                          *)
(***************************************************************************)
EXTENDS Integers, Sequences, RfqCommon

CONSTANTS
  Accounts,            \* addresses that call the contract
  Deployer,            \* TEE_SIGNER_INITIALIZER
  Escrow,              \* address(this)
  Signers,             \* keys that can sign an action result
  ExtensionIds,        \* extension ids the registry can hold for this contract
  RemoteActionIds,     \* instruction ids the registry can answer with
  NoActionId,          \* bytes32(0) as an action id
  RegistryReverted,    \* the registry call reverted
  ResultNonces,        \* non-zero result nonces
  ZeroNonce,           \* bytes32(0) as a result nonce
  LotAmounts, QuoteCaps, Quotes,  \* amounts callers and the TEE put forward
  InstructionFees,     \* values sent along with requestResolution
  InitialBalance,      \* what each account holds of each token at the start
  MIN_QUOTE_DURATION, MAX_QUOTE_DURATION, RESOLUTION_DURATION, MAX_PROVIDERS,
  MaxRfqs,             \* bound: requests created in a behaviour
  MaxTime              \* bound: last block timestamp of a behaviour

ASSUME AddressesAreFinite == IsFiniteSet(Accounts)   \* there are 2^160
ASSUME AddressesDistinct ==
  /\ {Deployer, Escrow, ZeroAddress} \cap Accounts = {}
  /\ ZeroAddress \notin Signers
  /\ Escrow # ZeroAddress
ASSUME ZeroesDistinct ==
  /\ 0 \notin ExtensionIds
  /\ RegistryReverted \notin RemoteActionIds \cup {NoActionId}
  /\ ZeroNonce \notin ResultNonces
ASSUME AmountsAreNaturals ==
  /\ LotAmounts \subseteq Nat
  /\ QuoteCaps \subseteq Nat
  /\ Quotes \subseteq Nat
  /\ InstructionFees \subseteq Nat
  /\ InitialBalance \in Nat
ASSUME LimitsAreNaturals ==
  /\ MIN_QUOTE_DURATION \in Nat \ {0}
  /\ MAX_QUOTE_DURATION \in Nat
  /\ RESOLUTION_DURATION \in Nat \ {0}
  /\ MAX_PROVIDERS \in Nat
  /\ MaxRfqs \in Nat
  /\ MaxTime \in Nat

RfqIds == 1..MaxRfqs
Status == {"OPEN", "SETTLED", "NO_VALID_QUOTE", "INVALID_RFQ", "CANCELLED", "TIMED_OUT"}
ResultType == {"TRADE", "NO_VALID_QUOTE", "INVALID_RFQ"}
Holders == Accounts \cup {Escrow}

\* The fallback action id: the hash of (operation, chain, contract, rfqId, now).
LocalActionId(rfqId, t) == <<rfqId, t>>
ActionIds == RemoteActionIds \cup {LocalActionId(r, t) : r \in RfqIds, t \in 0..MaxTime}
ASSUME HashesAreNotZero == NoActionId \notin ActionIds

VARIABLES
  now,                    \* block.timestamp
  extensionId,            \* _extensionId, 0 until it is set
  teeSigner,
  nextRfqId,
  rfqs,                   \* mapping: an unused id holds the zero record
  providers,              \* _providers: in the order they quoted
  participated,
  claimed,
  claimedFxrp,            \* _claimedFxrp
  claimedUsdt0,           \* _claimedUsdt0
  consumedActionIds,
  consumedResultNonces,
  fxrp, usdt0,            \* external: the two token ledgers
  nativeBalance,          \* native currency held by the contract
  instruction,            \* history: the resolution message sent for each request
  evidence                \* history: what the accepted result of each request carried

configVars == <<extensionId, teeSigner>>
bookVars == <<providers, participated>>
claimVars == <<claimed, claimedFxrp, claimedUsdt0>>
replayVars == <<consumedActionIds, consumedResultNonces, evidence>>
tokenVars == <<fxrp, usdt0>>
requestVars == <<nativeBalance, instruction>>
vars == <<now, configVars, nextRfqId, rfqs, bookVars, claimVars, replayVars,
          tokenVars, requestVars>>

Rfq == [seller : Accounts \cup {ZeroAddress},
        lotAmount : Nat, quoteCap : Nat,
        quoteDeadline : Nat, resolutionDeadline : Nat,
        status : Status,
        winningProvider : Accounts \cup {ZeroAddress}, winningQuote : Nat,
        actionId : ActionIds \cup {NoActionId}]

ZeroRfq == [seller |-> ZeroAddress, lotAmount |-> 0, quoteCap |-> 0,
            quoteDeadline |-> 0, resolutionDeadline |-> 0, status |-> "OPEN",
            winningProvider |-> ZeroAddress, winningQuote |-> 0, actionId |-> NoActionId]

Message == [seller : Accounts \cup {ZeroAddress}, quoteCap : Nat,
            providers : Seq(Accounts), resolutionDeadline : Nat]
Evidence == [actionId : ActionIds, nonce : ResultNonces, signer : Signers]

-----------------------------------------------------------------------------

Exists(r) == rfqs[r].seller # ZeroAddress

\* _openRfq: anything else reverts with RfqNotOpen.
IsOpenWhateverStatus(r) == Exists(r)   \* mutant
IsOpen(r) == Exists(r) /\ rfqs[r].status = "OPEN"

\* A quote is late at the deadline itself; a result or a request is not late at the
\* resolution deadline, and a timeout is early there.
QuoteWindowOpenAtDeadline(r) == now <= rfqs[r].quoteDeadline   \* mutant
QuoteWindowOpen(r) == now < rfqs[r].quoteDeadline
ResolutionWindowOpen(r) == now \in rfqs[r].quoteDeadline..rfqs[r].resolutionDeadline
ResolutionOver(r) == now > rfqs[r].resolutionDeadline

\* What the outcome of r gives account, both tokens; nothing while r is open.
Entitlement(r, account) ==
  LET rfq == rfqs[r]
      isSeller == account = rfq.seller
      isProvider == account \in participated[r]
      won == isProvider /\ account = rfq.winningProvider
      settled == rfq.status = "SETTLED"
  IN  IF rfq.status = "OPEN" THEN [fxrp |-> 0, usdt0 |-> 0]
      ELSE [fxrp |-> IF (settled /\ won) \/ (~settled /\ isSeller) THEN rfq.lotAmount ELSE 0,
            usdt0 |-> IF settled /\ won THEN rfq.quoteCap - rfq.winningQuote
                      ELSE IF isProvider THEN rfq.quoteCap
                      ELSE IF settled /\ isSeller THEN rfq.winningQuote ELSE 0]

claimable(r, account) ==
  IF account \in claimed[r] THEN [fxrp |-> 0, usdt0 |-> 0] ELSE Entitlement(r, account)

\* The deposit side of accounting().
depositedFxrp(r) == rfqs[r].lotAmount
depositedUsdt0(r) == Len(providers[r]) * rfqs[r].quoteCap

\* What the TEE is asked to resolve.
ResolutionMessage(r) ==
  [seller |-> rfqs[r].seller, quoteCap |-> rfqs[r].quoteCap,
   providers |-> providers[r], resolutionDeadline |-> rfqs[r].resolutionDeadline]

\* External token: a pull may credit less or more than asked for, never from an
\* account that lacks the funds; _pullExact reverts unless the credit is exact.
Credits(amount) == {amount - 1, amount, amount + 1}
PulledInexactly(ledger, from, amount, credited) == ledger[from] >= amount   \* mutant
PulledExactly(ledger, from, amount, credited) ==
  ledger[from] >= amount /\ credited = amount
Pull(ledger, from, amount, credited) ==
  [ledger EXCEPT ![from] = @ - amount, ![Escrow] = @ + credited]

\* safeTransfer reverts, and the whole claim with it, when the escrow is short.
Pay(ledger, to, amount) == [ledger EXCEPT ![Escrow] = @ - amount, ![to] = @ + amount]

-----------------------------------------------------------------------------

TypeOK ==
  /\ now \in 0..MaxTime
  /\ extensionId \in ExtensionIds \cup {0}
  /\ teeSigner \in Signers \cup {ZeroAddress}
  /\ nextRfqId \in 1..(MaxRfqs + 1)
  /\ rfqs \in [RfqIds -> Rfq]
  /\ providers \in [RfqIds -> Seq(Accounts)]
  /\ participated \in [RfqIds -> SUBSET Accounts]
  /\ claimed \in [RfqIds -> SUBSET Accounts]
  /\ claimedFxrp \in [RfqIds -> Nat]
  /\ claimedUsdt0 \in [RfqIds -> Nat]
  /\ consumedActionIds \in SUBSET ActionIds
  /\ consumedResultNonces \in SUBSET ResultNonces
  /\ fxrp \in [Holders -> Nat]
  /\ usdt0 \in [Holders -> Nat]
  /\ nativeBalance \in Nat
  /\ instruction \in [RfqIds -> Message \cup {None}]
  /\ evidence \in [RfqIds -> Evidence \cup {None}]

\* The constructor may or may not already be given the signer.
Init ==
  /\ now = 0
  /\ extensionId = 0
  /\ teeSigner \in Signers \cup {ZeroAddress}
  /\ nextRfqId = 1
  /\ rfqs = [r \in RfqIds |-> ZeroRfq]
  /\ providers = [r \in RfqIds |-> <<>>]
  /\ participated = [r \in RfqIds |-> {}]
  /\ claimed = [r \in RfqIds |-> {}]
  /\ claimedFxrp = [r \in RfqIds |-> 0]
  /\ claimedUsdt0 = [r \in RfqIds |-> 0]
  /\ consumedActionIds = {}
  /\ consumedResultNonces = {}
  /\ fxrp = [h \in Holders |-> IF h = Escrow THEN 0 ELSE InitialBalance]
  /\ usdt0 = [h \in Holders |-> IF h = Escrow THEN 0 ELSE InitialBalance]
  /\ nativeBalance = 0
  /\ instruction = [r \in RfqIds |-> None]
  /\ evidence = [r \in RfqIds |-> None]

-----------------------------------------------------------------------------
(* Configuration *)

\* setExtensionId: anyone, once, with the first registered id naming this contract.
CanSetExtensionId == extensionId = 0
SetExtensionId(id) ==
  /\ CanSetExtensionId
  /\ extensionId' = id
  /\ UNCHANGED <<now, teeSigner, nextRfqId, rfqs, bookVars, claimVars, replayVars,
                 tokenVars, requestVars>>

\* initializeTeeSigner: the deployer, once, never with address(0).
InitializeTeeSigner(sender, signer) ==
  /\ sender = Deployer
  /\ teeSigner = ZeroAddress
  /\ signer # ZeroAddress
  /\ teeSigner' = signer
  /\ UNCHANGED <<now, extensionId, nextRfqId, rfqs, bookVars, claimVars, replayVars,
                 tokenVars, requestVars>>

-----------------------------------------------------------------------------
(* The seller and the providers *)

ValidDeadlines(quoteDeadline, resolutionDeadline) ==
  /\ quoteDeadline > now
  /\ quoteDeadline - now \in MIN_QUOTE_DURATION..MAX_QUOTE_DURATION
  /\ resolutionDeadline = quoteDeadline + RESOLUTION_DURATION

\* The last two guards bound the model: ids run out at MaxRfqs, and the clock
\* still has a tick left after the resolution window.
CanCreateRfq(sender, lotAmount, quoteCap, quoteDeadline, resolutionDeadline, credited) ==
  /\ extensionId # 0
  /\ teeSigner # ZeroAddress
  /\ lotAmount # 0 /\ quoteCap # 0
  /\ ValidDeadlines(quoteDeadline, resolutionDeadline)
  /\ PulledExactly(fxrp, sender, lotAmount, credited)
  /\ nextRfqId \in RfqIds
  /\ resolutionDeadline < MaxTime

CreateRfq(sender, lotAmount, quoteCap, quoteDeadline, resolutionDeadline, credited) ==
  /\ CanCreateRfq(sender, lotAmount, quoteCap, quoteDeadline, resolutionDeadline, credited)
  /\ nextRfqId' = nextRfqId + 1
  /\ rfqs' = [rfqs EXCEPT ![nextRfqId] =
       [ZeroRfq EXCEPT !.seller = sender, !.lotAmount = lotAmount, !.quoteCap = quoteCap,
                       !.quoteDeadline = quoteDeadline,
                       !.resolutionDeadline = resolutionDeadline]]
  /\ fxrp' = Pull(fxrp, sender, lotAmount, credited)
  /\ UNCHANGED <<now, configVars, bookVars, claimVars, replayVars, usdt0, requestVars>>

CanSubmitQuote(sender, r, credited) ==
  /\ IsOpen(r)
  /\ QuoteWindowOpen(r)
  /\ sender # rfqs[r].seller
  /\ sender \notin participated[r]
  /\ Len(providers[r]) < MAX_PROVIDERS
  /\ PulledExactly(usdt0, sender, rfqs[r].quoteCap, credited)

SubmitQuote(sender, r, credited) ==
  /\ CanSubmitQuote(sender, r, credited)
  /\ participated' = [participated EXCEPT ![r] = @ \cup {sender}]
  /\ providers' = [providers EXCEPT ![r] = Append(@, sender)]
  /\ usdt0' = Pull(usdt0, sender, rfqs[r].quoteCap, credited)
  /\ UNCHANGED <<now, configVars, nextRfqId, rfqs, claimVars, replayVars, fxrp,
                 requestVars>>

\* The seller alone, and only while nobody has quoted; at any time until then.
CancelRfq(sender, r) ==
  /\ IsOpen(r)
  /\ sender = rfqs[r].seller
  /\ Len(providers[r]) = 0
  /\ rfqs' = [rfqs EXCEPT ![r].status = "CANCELLED"]
  /\ UNCHANGED <<now, configVars, nextRfqId, bookVars, claimVars, replayVars,
                 tokenVars, requestVars>>

-----------------------------------------------------------------------------
(* Resolution *)

\* Anyone.  The registry answers with an instruction id, or with zero, or reverts;
\* after the last two the contract records an id of its own.  The fee goes with the
\* call and comes back to the contract when the call reverts.
CanRequestResolution(r) ==
  /\ IsOpen(r)
  /\ ResolutionWindowOpen(r)
  /\ rfqs[r].actionId = NoActionId

RequestResolution(r, fee, answer) ==
  /\ CanRequestResolution(r)
  /\ rfqs' = [rfqs EXCEPT ![r].actionId =
                IF answer \in RemoteActionIds THEN answer ELSE LocalActionId(r, now)]
  /\ nativeBalance' = nativeBalance + IF answer = RegistryReverted THEN fee ELSE 0
  /\ instruction' = [instruction EXCEPT ![r] = ResolutionMessage(r)]
  /\ UNCHANGED <<now, configVars, nextRfqId, bookVars, claimVars, replayVars, tokenVars>>

\* verifyActionResult: bound to the recorded action, tagged "submit", successful, and
\* signed by the TEE.  The signature covers the chain id too (attestation.chain).
VerifyActionResult(attestation, r) ==
  /\ attestation.actionId = rfqs[r].actionId
  /\ attestation.tag = "submit"
  /\ attestation.status = 1
  /\ teeSigner # ZeroAddress
  /\ attestation.signer = teeSigner

\* A validateResultDataV1 that does not compare the price with the result type.
ValidateResultDataNoPrice(result) ==   \* mutant
  /\ result.domain = "this contract"
  /\ result.resultExpiry >= now
  /\ result.resultNonce # ZeroNonce
  /\ (result.resultType = "TRADE") = (result.winningProvider # ZeroAddress)

\* validateResultDataV1.  result.domain stands for schema version, chain and contract.
ValidateResultData(result) ==
  /\ result.domain = "this contract"
  /\ result.resultExpiry >= now
  /\ result.resultNonce # ZeroNonce
  /\ (result.resultType = "TRADE") = (result.winningProvider # ZeroAddress)
  /\ (result.resultType = "TRADE") = (result.winningQuote # 0)

\* One result per action and per nonce, across all requests.
UnusedByNonce(actionId, nonce) == nonce \notin consumedResultNonces   \* mutant
Unused(actionId, nonce) ==
  actionId \notin consumedActionIds /\ nonce \notin consumedResultNonces

Attestations == [actionId : ActionIds, tag : {"submit", "other"}, status : {0, 1},
                 signer : Signers]
Results == [domain : {"this contract", "another"}, resultType : ResultType,
            winningProvider : Accounts \cup {ZeroAddress}, winningQuote : Quotes,
            resultExpiry : 0..MaxTime, resultNonce : ResultNonces \cup {ZeroNonce}]

\* A trade names a participant, at a price its locked cap covers.
TradeAllowedToAnybody(r, result) == result.winningQuote <= rfqs[r].quoteCap   \* mutant
TradeAllowedAboveCap(r, result) == result.winningProvider \in participated[r]   \* mutant
TradeAllowed(r, result) ==
  /\ result.winningProvider \in participated[r]
  /\ result.winningQuote <= rfqs[r].quoteCap

OutcomeStatus(resultType) == IF resultType = "TRADE" THEN "SETTLED" ELSE resultType

AwaitsResult(r) ==
  /\ IsOpen(r)
  /\ ResolutionWindowOpen(r)
  /\ rfqs[r].actionId # NoActionId

Acceptable(r, actionId, result) ==
  /\ ValidateResultData(result)
  /\ Unused(actionId, result.resultNonce)
  /\ result.resultType = "TRADE" => TradeAllowed(r, result)

\* Anyone delivers a result: whatever the signer has signed, for whatever request.
SubmitResult(r) ==
  /\ AwaitsResult(r)
  /\ \E attestation \in Attestations :
       /\ VerifyActionResult(attestation, r)
       /\ \E result \in Results :
            /\ Acceptable(r, attestation.actionId, result)
            /\ rfqs' = [rfqs EXCEPT ![r].status = OutcomeStatus(result.resultType),
                                    ![r].winningProvider = result.winningProvider,
                                    ![r].winningQuote = result.winningQuote]
            /\ consumedActionIds' = consumedActionIds \cup {attestation.actionId}
            /\ consumedResultNonces' = consumedResultNonces \cup {result.resultNonce}
            /\ evidence' = [evidence EXCEPT ![r] = [actionId |-> attestation.actionId,
                                                    nonce |-> result.resultNonce,
                                                    signer |-> attestation.signer]]
  /\ UNCHANGED <<now, configVars, nextRfqId, bookVars, claimVars, tokenVars, requestVars>>

\* A timeout that waits for a resolution to have been requested.
TimeoutRfqOnceRequested(r) ==   \* mutant
  /\ IsOpen(r)
  /\ ResolutionOver(r)
  /\ rfqs[r].actionId # NoActionId
  /\ rfqs' = [rfqs EXCEPT ![r].status = "TIMED_OUT"]
  /\ UNCHANGED <<now, configVars, nextRfqId, bookVars, claimVars, replayVars,
                 tokenVars, requestVars>>

\* Anyone, once the resolution window is over, whether or not anything was requested.
CanTimeoutRfq(r) ==
  /\ IsOpen(r)
  /\ ResolutionOver(r)

TimeoutRfq(r) ==
  /\ CanTimeoutRfq(r)
  /\ rfqs' = [rfqs EXCEPT ![r].status = "TIMED_OUT"]
  /\ UNCHANGED <<now, configVars, nextRfqId, bookVars, claimVars, replayVars,
                 tokenVars, requestVars>>

-----------------------------------------------------------------------------
(* Claims *)

\* The one-shot flag of claim.
ClaimedUnmarked(sender, r) == claimed   \* mutant
ClaimedBy(sender, r) == [claimed EXCEPT ![r] = @ \cup {sender}]

\* Nothing to claim, or a transfer that lacks the tokens, reverts.
CanClaim(sender, r) ==
  LET due == claimable(r, sender)
  IN  /\ sender \notin claimed[r]
      /\ due.fxrp # 0 \/ due.usdt0 # 0
      /\ fxrp[Escrow] >= due.fxrp
      /\ usdt0[Escrow] >= due.usdt0

Claim(sender, r) ==
  LET due == claimable(r, sender)
  IN  /\ CanClaim(sender, r)
      /\ claimed' = ClaimedBy(sender, r)
      /\ claimedFxrp' = [claimedFxrp EXCEPT ![r] = @ + due.fxrp]
      /\ claimedUsdt0' = [claimedUsdt0 EXCEPT ![r] = @ + due.usdt0]
      /\ fxrp' = Pay(fxrp, sender, due.fxrp)
      /\ usdt0' = Pay(usdt0, sender, due.usdt0)
      /\ UNCHANGED <<now, configVars, nextRfqId, rfqs, bookVars, replayVars, requestVars>>

\* A block with a later timestamp.
Tick ==
  /\ now < MaxTime
  /\ now' = now + 1
  /\ UNCHANGED <<configVars, nextRfqId, rfqs, bookVars, claimVars, replayVars,
                 tokenVars, requestVars>>

Next ==
  \/ Tick
  \/ \E id \in ExtensionIds : SetExtensionId(id)
  \/ \E sender \in Accounts \cup {Deployer}, signer \in Signers \cup {ZeroAddress} :
       InitializeTeeSigner(sender, signer)
  \/ \E sender \in Accounts, lotAmount \in LotAmounts, quoteCap \in QuoteCaps,
        quoteDeadline \in 0..MaxTime, resolutionDeadline \in 0..MaxTime :
       \E credited \in Credits(lotAmount) :
         CreateRfq(sender, lotAmount, quoteCap, quoteDeadline, resolutionDeadline, credited)
  \/ \E r \in RfqIds :
       \/ \E sender \in Accounts : \E credited \in Credits(rfqs[r].quoteCap) :
            SubmitQuote(sender, r, credited)
       \/ \E sender \in Accounts : CancelRfq(sender, r)
       \/ \E fee \in InstructionFees,
             answer \in RemoteActionIds \cup {NoActionId, RegistryReverted} :
            RequestResolution(r, fee, answer)
       \/ SubmitResult(r)
       \/ TimeoutRfq(r)
       \/ \E sender \in Accounts : Claim(sender, r)

Spec == Init /\ [][Next]_vars

\* Blocks keep coming; timeoutRfq is open to anyone and someone calls it; every
\* participant keeps trying to claim.  Nobody owes a quote, a request or a result.
Fairness ==
  /\ WF_vars(Tick)
  /\ \A r \in RfqIds :
       /\ WF_vars(TimeoutRfq(r))
       /\ \A sender \in Accounts : WF_vars(Claim(sender, r))

FairSpec == Spec /\ Fairness
=============================================================================
