------------------------- MODULE HushFlowRfqProofs -------------------------
(***************************************************************************)
(* The safety of the escrow contract for any number of requests, accounts, *)
(* amounts, nonces and registry ids: its state and its requests are in     *)
(* order, each transaction is one step of the abstract escrow or changes   *)
(* nothing it can see, and the books always balance.  Nobody is ever       *)
(* locked in: what is deposited can be got out, and is if people try.      *)
(***************************************************************************)
EXTENDS HushFlowRfqRefinement, FiniteSetTheorems, TLAPS

\* A settled request names a participant and a price its locked cap covers.
SettledIsATrade ==
  \A r \in RfqIds : rfqs[r].status = "SETTLED" =>
    /\ rfqs[r].winningProvider \in participated[r]
    /\ rfqs[r].winningQuote \in 1..rfqs[r].quoteCap

\* What a request entitles anybody to is an amount of each token, never a negative one
\* (claimable).
LEMMA EntitlementIsTyped ==
  ASSUME TypeOK, SettledIsATrade, NEW r \in RfqIds, NEW account
  PROVE  /\ Entitlement(r, account) \in [fxrp : Nat, usdt0 : Nat]
         /\ claimable(r, account) \in [fxrp : Nat, usdt0 : Nat]
<1>1. /\ rfqs[r].lotAmount \in Nat /\ rfqs[r].quoteCap \in Nat
      /\ rfqs[r].winningQuote \in Nat
  BY DEF TypeOK, Rfq
<1>2. rfqs[r].status = "SETTLED" => rfqs[r].quoteCap - rfqs[r].winningQuote \in Nat
  BY <1>1 DEF SettledIsATrade
<1>3. Entitlement(r, account) \in [fxrp : Nat, usdt0 : Nat]
  BY <1>1, <1>2 DEF Entitlement
<1>4. QED
  BY <1>3 DEF claimable

\* An id that was never created reads as an all-zero request.
LEMMA ZeroRfqIsTyped == ZeroRfq \in Rfq
BY DEF ZeroRfq, Rfq, Status

\* The record createRfq stores is a request.
LEMMA CreatedIsTyped ==
  ASSUME NEW seller \in Accounts, NEW lotAmount \in Nat, NEW quoteCap \in Nat,
         NEW quoteDeadline \in Nat, NEW resolutionDeadline \in Nat
  PROVE  [ZeroRfq EXCEPT !.seller = seller, !.lotAmount = lotAmount, !.quoteCap = quoteCap,
                         !.quoteDeadline = quoteDeadline,
                         !.resolutionDeadline = resolutionDeadline] \in Rfq
BY ZeroRfqIsTyped DEF Rfq

\* So is one with another status (cancelRfq, timeoutRfq).
LEMMA StatusUpdateIsTyped ==
  ASSUME NEW rfq \in Rfq, NEW status \in Status
  PROVE  [rfq EXCEPT !.status = status] \in Rfq
BY DEF Rfq

\* So is one with an action id (requestResolution).
LEMMA ActionUpdateIsTyped ==
  ASSUME NEW rfq \in Rfq, NEW actionId \in ActionIds
  PROVE  [rfq EXCEPT !.actionId = actionId] \in Rfq
BY DEF Rfq

\* So is one with a winner and a price (settleRfq).
LEMMA OutcomeUpdateIsTyped ==
  ASSUME NEW rfq \in Rfq, NEW status \in Status,
         NEW provider \in Accounts \cup {ZeroAddress}, NEW quote \in Nat
  PROVE  [rfq EXCEPT !.status = status, !.winningProvider = provider,
                     !.winningQuote = quote] \in Rfq
BY DEF Rfq

\* Pulling tokens leaves balances (_pullExact).
LEMMA PullIsTyped ==
  ASSUME NEW ledger \in [Holders -> Nat], NEW from \in Accounts, NEW amount \in Nat,
         NEW credited, PulledExactly(ledger, from, amount, credited)
  PROVE  Pull(ledger, from, amount, credited) \in [Holders -> Nat]
BY AddressesDistinct DEF PulledExactly, Pull, Holders

\* Paying out what the escrow has leaves balances (_safeTransfer).
LEMMA PayIsTyped ==
  ASSUME NEW ledger \in [Holders -> Nat], NEW to \in Accounts, NEW amount \in Nat,
         ledger[Escrow] >= amount
  PROVE  Pay(ledger, to, amount) \in [Holders -> Nat]
BY AddressesDistinct DEF Pay, Holders

\* Every variable keeps its type; settling stays within the winner's cap on the way, so
\* that no payout is negative (all the handlers).
LEMMA TypeStep == TypeOK /\ SettledIsATrade /\ [Next]_vars => TypeOK'
<1> SUFFICES ASSUME TypeOK, SettledIsATrade, [Next]_vars PROVE TypeOK'
  OBVIOUS
<1> USE AddressesDistinct, ZeroesDistinct, AmountsAreNaturals, LimitsAreNaturals
<1>1. CASE Tick
  BY <1>1 DEF Tick, TypeOK, configVars, bookVars, claimVars, replayVars, tokenVars, requestVars
<1>2. ASSUME NEW id \in ExtensionIds, SetExtensionId(id) PROVE TypeOK'
  BY <1>2 DEF SetExtensionId, TypeOK, bookVars, claimVars, replayVars, tokenVars, requestVars
<1>3. ASSUME NEW sender, NEW signer \in Signers \cup {ZeroAddress},
             InitializeTeeSigner(sender, signer)
      PROVE  TypeOK'
  BY <1>3 DEF InitializeTeeSigner, TypeOK, bookVars, claimVars, replayVars, tokenVars, requestVars
<1>4. ASSUME NEW sender \in Accounts, NEW lotAmount \in LotAmounts, NEW quoteCap \in QuoteCaps,
             NEW quoteDeadline \in 0..MaxTime, NEW resolutionDeadline \in 0..MaxTime,
             NEW credited \in Credits(lotAmount),
             CreateRfq(sender, lotAmount, quoteCap, quoteDeadline, resolutionDeadline, credited)
      PROVE  TypeOK'
  <2>1. fxrp' \in [Holders -> Nat]
    BY <1>4, PullIsTyped DEF CreateRfq, CanCreateRfq, TypeOK
  <2>2. [ZeroRfq EXCEPT !.seller = sender, !.lotAmount = lotAmount, !.quoteCap = quoteCap,
                        !.quoteDeadline = quoteDeadline,
                        !.resolutionDeadline = resolutionDeadline] \in Rfq
    <3>1. /\ lotAmount \in Nat /\ quoteCap \in Nat
          /\ quoteDeadline \in Nat /\ resolutionDeadline \in Nat
      OBVIOUS
    <3>2. QED
      BY <3>1, CreatedIsTyped, Zenon
  <2>3. rfqs' \in [RfqIds -> Rfq]
    <3>1. rfqs' = [rfqs EXCEPT ![nextRfqId] =
                     [ZeroRfq EXCEPT !.seller = sender, !.lotAmount = lotAmount,
                                     !.quoteCap = quoteCap, !.quoteDeadline = quoteDeadline,
                                     !.resolutionDeadline = resolutionDeadline]]
      BY <1>4 DEF CreateRfq
    <3>2. QED
      BY <2>2, <3>1 DEF TypeOK
  <2>4. nextRfqId' \in 1..(MaxRfqs + 1)
    <3>1. nextRfqId \in RfqIds /\ nextRfqId' = nextRfqId + 1
      BY <1>4 DEF CreateRfq, CanCreateRfq
    <3>2. QED
      BY <3>1, LimitsAreNaturals DEF RfqIds
  <2>5. QED
    BY <1>4, <2>1, <2>3, <2>4 DEF CreateRfq, TypeOK, configVars, bookVars, claimVars, replayVars, requestVars
<1>5. ASSUME NEW r \in RfqIds, NEW sender \in Accounts, NEW credited,
             SubmitQuote(sender, r, credited)
      PROVE  TypeOK'
  <2>1. usdt0' \in [Holders -> Nat]
    <3>1. rfqs[r].quoteCap \in Nat
      BY DEF TypeOK, Rfq
    <3>2. QED
      BY <1>5, <3>1, PullIsTyped DEF SubmitQuote, CanSubmitQuote, TypeOK
  <2>2. providers' \in [RfqIds -> Seq(Accounts)] /\ participated' \in [RfqIds -> SUBSET Accounts]
    BY <1>5 DEF SubmitQuote, TypeOK
  <2>3. QED
    BY <1>5, <2>1, <2>2 DEF SubmitQuote, TypeOK, configVars, claimVars, replayVars, requestVars
<1>6. ASSUME NEW r \in RfqIds, NEW sender \in Accounts, CancelRfq(sender, r) PROVE TypeOK'
  <2>1. rfqs' \in [RfqIds -> Rfq]
    BY <1>6, StatusUpdateIsTyped DEF CancelRfq, TypeOK, Status
  <2>2. QED
    BY <1>6, <2>1 DEF CancelRfq, TypeOK, configVars, bookVars, claimVars, replayVars, tokenVars, requestVars
<1>7. ASSUME NEW r \in RfqIds, NEW fee \in InstructionFees,
             NEW answer \in RemoteActionIds \cup {NoActionId, RegistryReverted},
             RequestResolution(r, fee, answer)
      PROVE  TypeOK'
  <2>1. LocalActionId(r, now) \in ActionIds
    BY DEF ActionIds, TypeOK
  <2>2. rfqs' \in [RfqIds -> Rfq]
    <3>1. (IF answer \in RemoteActionIds THEN answer ELSE LocalActionId(r, now)) \in ActionIds
      BY <2>1 DEF ActionIds
    <3>2. QED
      BY <1>7, <3>1, ActionUpdateIsTyped DEF RequestResolution, TypeOK
  <2>3. ResolutionMessage(r) \in Message
    BY DEF ResolutionMessage, Message, TypeOK, Rfq
  <2>4. instruction' \in [RfqIds -> Message \cup {None}] /\ nativeBalance' \in Nat
    <3>1. instruction' \in [RfqIds -> Message \cup {None}]
      BY <1>7, <2>3 DEF RequestResolution, TypeOK
    <3>2. nativeBalance \in Nat /\ fee \in Nat
      BY AmountsAreNaturals DEF TypeOK
    <3>3. QED
      BY <1>7, <3>1, <3>2 DEF RequestResolution
  <2>5. QED
    BY <1>7, <2>2, <2>4 DEF RequestResolution, TypeOK, configVars, bookVars, claimVars, replayVars, tokenVars
<1>8. ASSUME NEW r \in RfqIds, SubmitResult(r) PROVE TypeOK'
  <2>1. PICK attestation \in Attestations, result \in Results :
          /\ ValidateResultData(result)
          /\ rfqs' = [rfqs EXCEPT ![r].status = OutcomeStatus(result.resultType),
                                  ![r].winningProvider = result.winningProvider,
                                  ![r].winningQuote = result.winningQuote]
          /\ consumedActionIds' = consumedActionIds \cup {attestation.actionId}
          /\ consumedResultNonces' = consumedResultNonces \cup {result.resultNonce}
          /\ evidence' = [evidence EXCEPT ![r] = [actionId |-> attestation.actionId,
                                                  nonce |-> result.resultNonce,
                                                  signer |-> attestation.signer]]
    BY <1>8 DEF SubmitResult, AwaitsResult, Acceptable
  <2>2. /\ OutcomeStatus(result.resultType) \in Status
        /\ result.winningProvider \in Accounts \cup {ZeroAddress}
        /\ result.winningQuote \in Nat
    BY DEF Results, OutcomeStatus, Status, ResultType
  <2>3. /\ attestation.actionId \in ActionIds /\ attestation.signer \in Signers
        /\ result.resultNonce \in ResultNonces
    BY <2>1 DEF Attestations, Results, ValidateResultData
  <2>4. rfqs' \in [RfqIds -> Rfq]
    BY <2>1, <2>2, OutcomeUpdateIsTyped DEF TypeOK
  <2>5. evidence' \in [RfqIds -> Evidence \cup {None}]
    BY <2>1, <2>3 DEF TypeOK, Evidence
  <2>6. consumedActionIds' \in SUBSET ActionIds /\ consumedResultNonces' \in SUBSET ResultNonces
    BY <2>1, <2>3 DEF TypeOK
  <2>7. QED
    BY <1>8, <2>4, <2>5, <2>6 DEF SubmitResult, TypeOK, configVars, bookVars, claimVars, tokenVars, requestVars
<1>9. ASSUME NEW r \in RfqIds, TimeoutRfq(r) PROVE TypeOK'
  <2>1. rfqs' \in [RfqIds -> Rfq]
    BY <1>9, StatusUpdateIsTyped DEF TimeoutRfq, TypeOK, Status
  <2>2. QED
    BY <1>9, <2>1 DEF TimeoutRfq, TypeOK, configVars, bookVars, claimVars, replayVars, tokenVars, requestVars
<1>10. ASSUME NEW r \in RfqIds, NEW sender \in Accounts, Claim(sender, r) PROVE TypeOK'
  <2> DEFINE due == claimable(r, sender)
  <2>1. due.fxrp \in Nat /\ due.usdt0 \in Nat
    BY EntitlementIsTyped
  <2>2. fxrp' \in [Holders -> Nat] /\ usdt0' \in [Holders -> Nat]
    BY <1>10, <2>1, PayIsTyped DEF Claim, CanClaim, TypeOK
  <2>3. claimedFxrp' \in [RfqIds -> Nat] /\ claimedUsdt0' \in [RfqIds -> Nat]
    BY <1>10, <2>1 DEF Claim, TypeOK
  <2>4. claimed' \in [RfqIds -> SUBSET Accounts]
    BY <1>10 DEF Claim, ClaimedBy, TypeOK
  <2>5. QED
    BY <1>10, <2>2, <2>3, <2>4 DEF Claim, TypeOK, configVars, bookVars, replayVars, requestVars
<1>11. CASE UNCHANGED vars
  BY <1>11 DEF vars, TypeOK, configVars, bookVars, claimVars, replayVars, tokenVars, requestVars
<1>12. QED
  BY <1>1, <1>2, <1>3, <1>4, <1>5, <1>6, <1>7, <1>8, <1>9, <1>10, <1>11 DEF Next

-----------------------------------------------------------------------------
(* What a step does to one request.  Each handler is one of these on the   *)
(* request it is called for, and SameBooks on every other.                 *)

SameQuotes(r) == providers'[r] = providers[r] /\ participated'[r] = participated[r]
SameHistory(r) == instruction'[r] = instruction[r] /\ evidence'[r] = evidence[r]
SameBooks(r) ==
  rfqs'[r] = rfqs[r] /\ SameQuotes(r) /\ SameHistory(r) /\ claimed'[r] = claimed[r]

Created(r) ==
  /\ r = nextRfqId /\ nextRfqId' = nextRfqId + 1
  /\ \E seller \in Accounts, lotAmount \in LotAmounts \ {0}, quoteCap \in QuoteCaps \ {0},
        quoteDeadline \in 0..MaxTime, resolutionDeadline \in 0..MaxTime :
       /\ quoteDeadline \in 1..(resolutionDeadline - 1) /\ resolutionDeadline < MaxTime
       /\ rfqs'[r] = [ZeroRfq EXCEPT !.seller = seller, !.lotAmount = lotAmount,
                                     !.quoteCap = quoteCap, !.quoteDeadline = quoteDeadline,
                                     !.resolutionDeadline = resolutionDeadline]
  /\ SameQuotes(r) /\ SameHistory(r) /\ claimed'[r] = claimed[r]

Quoted(r) ==
  /\ IsOpen(r) /\ QuoteWindowOpen(r)
  /\ \E sender \in Accounts \ (participated[r] \cup {rfqs[r].seller}) :
       /\ participated'[r] = participated[r] \cup {sender}
       /\ providers'[r] = Append(providers[r], sender)
  /\ rfqs'[r] = rfqs[r] /\ SameHistory(r) /\ claimed'[r] = claimed[r]

Requested(r) ==
  /\ IsOpen(r) /\ now >= rfqs[r].quoteDeadline
  /\ rfqs[r].actionId = NoActionId
  /\ \E actionId \in ActionIds : rfqs'[r] = [rfqs[r] EXCEPT !.actionId = actionId]
  /\ instruction'[r] = ResolutionMessage(r) /\ evidence'[r] = evidence[r]
  /\ SameQuotes(r) /\ claimed'[r] = claimed[r]

Abandoned(r) ==
  /\ IsOpen(r)
  /\ \/ rfqs'[r] = [rfqs[r] EXCEPT !.status = "CANCELLED"] /\ Len(providers[r]) = 0
     \/ rfqs'[r] = [rfqs[r] EXCEPT !.status = "TIMED_OUT"]
  /\ SameQuotes(r) /\ SameHistory(r) /\ claimed'[r] = claimed[r]

Resolved(r) ==
  /\ IsOpen(r)
  /\ \E status \in {"SETTLED", "NO_VALID_QUOTE", "INVALID_RFQ"},
        provider \in Accounts \cup {ZeroAddress}, quote \in Nat :
       /\ rfqs'[r] = [rfqs[r] EXCEPT !.status = status, !.winningProvider = provider,
                                     !.winningQuote = quote]
       /\ status = "SETTLED" => provider \in participated[r] /\ quote \in 1..rfqs[r].quoteCap
       /\ status # "SETTLED" => provider = ZeroAddress /\ quote = 0
  /\ evidence'[r] \in Evidence
  /\ evidence'[r].actionId = rfqs[r].actionId /\ evidence'[r].signer = teeSigner
  /\ evidence'[r].actionId \in consumedActionIds' \ consumedActionIds
  /\ evidence'[r].nonce \in consumedResultNonces' \ consumedResultNonces
  /\ instruction'[r] = instruction[r]
  /\ SameQuotes(r) /\ claimed'[r] = claimed[r]

Paid(r) ==
  /\ \E sender \in Accounts \ claimed[r] :
       /\ claimable(r, sender).fxrp # 0 \/ claimable(r, sender).usdt0 # 0
       /\ claimed'[r] = claimed[r] \cup {sender}
  /\ rfqs'[r] = rfqs[r] /\ SameQuotes(r) /\ SameHistory(r)

RequestStep(r) ==
  SameBooks(r) \/ Created(r) \/ Quoted(r) \/ Requested(r) \/ Abandoned(r) \/ Resolved(r)
    \/ Paid(r)

\* Every step leaves the books of a request as they are or does one of six things to them.
LEMMA StepOnRequest ==
  ASSUME TypeOK, [Next]_vars, NEW r \in RfqIds
  PROVE  RequestStep(r)
<1> USE DEF TypeOK
<1>1. CASE Tick
  BY <1>1 DEF Tick, RequestStep, SameBooks, SameQuotes, SameHistory, bookVars, claimVars,
    replayVars, requestVars
<1>2. ASSUME NEW id \in ExtensionIds, SetExtensionId(id) PROVE RequestStep(r)
  BY <1>2 DEF SetExtensionId, RequestStep, SameBooks, SameQuotes, SameHistory, bookVars,
    claimVars, replayVars, requestVars
<1>3. ASSUME NEW sender, NEW signer, InitializeTeeSigner(sender, signer) PROVE RequestStep(r)
  BY <1>3 DEF InitializeTeeSigner, RequestStep, SameBooks, SameQuotes, SameHistory, bookVars,
    claimVars, replayVars, requestVars
<1>4. ASSUME NEW sender \in Accounts, NEW lotAmount \in LotAmounts, NEW quoteCap \in QuoteCaps,
             NEW quoteDeadline \in 0..MaxTime, NEW resolutionDeadline \in 0..MaxTime,
             NEW credited,
             CreateRfq(sender, lotAmount, quoteCap, quoteDeadline, resolutionDeadline, credited)
      PROVE  RequestStep(r)
  <2>1. SameQuotes(r) /\ SameHistory(r) /\ claimed'[r] = claimed[r]
    BY <1>4 DEF CreateRfq, SameQuotes, SameHistory, bookVars, claimVars, replayVars, requestVars
  <2>2. quoteDeadline \in 1..(resolutionDeadline - 1) /\ resolutionDeadline < MaxTime
    <3>1. ValidDeadlines(quoteDeadline, resolutionDeadline) /\ resolutionDeadline < MaxTime
      BY <1>4 DEF CreateRfq, CanCreateRfq
    <3>2. /\ quoteDeadline \in Int /\ resolutionDeadline \in Int /\ now \in Int /\ now >= 0
          /\ RESOLUTION_DURATION \in Int /\ RESOLUTION_DURATION > 0
      BY LimitsAreNaturals
    <3>3. QED
      BY <3>1, <3>2 DEF ValidDeadlines
  <2>3. CASE r = nextRfqId
    BY <1>4, <2>1, <2>2, <2>3 DEF CreateRfq, CanCreateRfq, RequestStep, Created
  <2>4. CASE r # nextRfqId
    BY <1>4, <2>1, <2>4 DEF CreateRfq, RequestStep, SameBooks
  <2>5. QED
    BY <2>3, <2>4
<1>5. ASSUME NEW q \in RfqIds, NEW sender \in Accounts, NEW credited,
             SubmitQuote(sender, q, credited)
      PROVE  RequestStep(r)
  <2>1. rfqs'[r] = rfqs[r] /\ SameHistory(r) /\ claimed'[r] = claimed[r]
    BY <1>5 DEF SubmitQuote, SameHistory, claimVars, replayVars, requestVars
  <2>2. CASE r = q
    BY <1>5, <2>1, <2>2 DEF SubmitQuote, CanSubmitQuote, RequestStep, Quoted
  <2>3. CASE r # q
    BY <1>5, <2>1, <2>3 DEF SubmitQuote, RequestStep, SameBooks, SameQuotes
  <2>4. QED
    BY <2>2, <2>3
<1>6. ASSUME NEW q \in RfqIds, NEW sender \in Accounts, CancelRfq(sender, q)
      PROVE  RequestStep(r)
  <2>1. SameQuotes(r) /\ SameHistory(r) /\ claimed'[r] = claimed[r]
    BY <1>6 DEF CancelRfq, SameQuotes, SameHistory, bookVars, claimVars, replayVars, requestVars
  <2>2. CASE r = q
    BY <1>6, <2>1, <2>2 DEF CancelRfq, RequestStep, Abandoned
  <2>3. CASE r # q
    BY <1>6, <2>1, <2>3 DEF CancelRfq, RequestStep, SameBooks
  <2>4. QED
    BY <2>2, <2>3
<1>7. ASSUME NEW q \in RfqIds, NEW fee \in InstructionFees,
             NEW answer \in RemoteActionIds \cup {NoActionId, RegistryReverted},
             RequestResolution(q, fee, answer)
      PROVE  RequestStep(r)
  <2>1. SameQuotes(r) /\ evidence'[r] = evidence[r] /\ claimed'[r] = claimed[r]
    BY <1>7 DEF RequestResolution, SameQuotes, bookVars, claimVars, replayVars
  <2>2. CASE r = q
    <3>1. (IF answer \in RemoteActionIds THEN answer ELSE LocalActionId(r, now)) \in ActionIds
      BY <2>2 DEF ActionIds
    <3>2. now >= rfqs[r].quoteDeadline
      BY <1>7, <2>2 DEF RequestResolution, CanRequestResolution, ResolutionWindowOpen, Rfq
    <3>3. QED
      BY <1>7, <2>1, <2>2, <3>1, <3>2 DEF RequestResolution, CanRequestResolution, RequestStep, Requested
  <2>3. CASE r # q
    BY <1>7, <2>1, <2>3 DEF RequestResolution, RequestStep, SameBooks, SameHistory
  <2>4. QED
    BY <2>2, <2>3
<1>8. ASSUME NEW q \in RfqIds, SubmitResult(q) PROVE RequestStep(r)
  <2>1. /\ IsOpen(q) /\ SameQuotes(r) /\ claimed'[r] = claimed[r]
        /\ instruction'[r] = instruction[r]
    BY <1>8 DEF SubmitResult, AwaitsResult, Acceptable, SameQuotes, bookVars, claimVars, requestVars
  <2>2. PICK attestation \in Attestations, result \in Results :
          /\ VerifyActionResult(attestation, q)
          /\ ValidateResultData(result)
          /\ Unused(attestation.actionId, result.resultNonce)
          /\ result.resultType = "TRADE" => TradeAllowed(q, result)
          /\ rfqs' = [rfqs EXCEPT ![q].status = OutcomeStatus(result.resultType),
                                  ![q].winningProvider = result.winningProvider,
                                  ![q].winningQuote = result.winningQuote]
          /\ consumedActionIds' = consumedActionIds \cup {attestation.actionId}
          /\ consumedResultNonces' = consumedResultNonces \cup {result.resultNonce}
          /\ evidence' = [evidence EXCEPT ![q] = [actionId |-> attestation.actionId,
                                                  nonce |-> result.resultNonce,
                                                  signer |-> attestation.signer]]
    BY <1>8 DEF SubmitResult, AwaitsResult, Acceptable
  <2>3. CASE r = q
    <3> DEFINE status == OutcomeStatus(result.resultType)
               provider == result.winningProvider
               quote == result.winningQuote
    <3>1. /\ status \in {"SETTLED", "NO_VALID_QUOTE", "INVALID_RFQ"}
          /\ provider \in Accounts \cup {ZeroAddress}
          /\ quote \in Nat
      BY AmountsAreNaturals DEF Results, OutcomeStatus, ResultType
    <3>2. status = "SETTLED" => result.resultType = "TRADE"
      BY DEF Results, OutcomeStatus, ResultType
    <3>3. ASSUME status = "SETTLED"
          PROVE  provider \in participated[r] /\ quote \in 1..rfqs[r].quoteCap
      <4>1. result.resultType = "TRADE"
        BY <3>2, <3>3
      <4>2. provider \in participated[r] /\ quote <= rfqs[r].quoteCap
        BY <2>2, <2>3, <4>1 DEF TradeAllowed
      <4>3. quote # 0
        BY <2>2, <4>1 DEF ValidateResultData
      <4>4. rfqs[r].quoteCap \in Nat
        BY DEF Rfq
      <4>5. QED
        BY <3>1, <4>2, <4>3, <4>4
    <3>4. rfqs'[r] = [rfqs[r] EXCEPT !.status = status, !.winningProvider = provider,
                                     !.winningQuote = quote]
      BY <2>2, <2>3
    <3>5. evidence'[r] = [actionId |-> attestation.actionId, nonce |-> result.resultNonce,
                          signer |-> attestation.signer]
      BY <2>2, <2>3
    <3>6. evidence'[r] \in Evidence
      <4>1. attestation.actionId \in ActionIds /\ attestation.signer \in Signers
        BY DEF Attestations
      <4>2. result.resultNonce \in ResultNonces
        BY <2>2 DEF Results, ValidateResultData
      <4>3. QED
        BY <3>5, <4>1, <4>2 DEF Evidence
    <3>7. /\ evidence'[r].actionId = rfqs[r].actionId /\ evidence'[r].signer = teeSigner
          /\ evidence'[r].actionId \in consumedActionIds' \ consumedActionIds
          /\ evidence'[r].nonce \in consumedResultNonces' \ consumedResultNonces
      BY <2>2, <2>3, <3>5 DEF VerifyActionResult, Unused
    <3>8. status # "SETTLED" => provider = ZeroAddress /\ quote = 0
      BY <2>2 DEF ValidateResultData, OutcomeStatus
    <3> HIDE DEF status, provider, quote
    <3>9. Resolved(r)
      <4>1. IsOpen(r)
        BY <2>1, <2>3
      <4>2. \E s \in {"SETTLED", "NO_VALID_QUOTE", "INVALID_RFQ"},
               p \in Accounts \cup {ZeroAddress}, n \in Nat :
              /\ rfqs'[r] = [rfqs[r] EXCEPT !.status = s, !.winningProvider = p,
                                            !.winningQuote = n]
              /\ s = "SETTLED" => p \in participated[r] /\ n \in 1..rfqs[r].quoteCap
              /\ s # "SETTLED" => p = ZeroAddress /\ n = 0
        BY <2>1, <3>1, <3>3, <3>4, <3>8
      <4>3. QED
        BY <2>1, <3>1, <3>6, <3>7, <4>1, <4>2 DEF Resolved
    <3>10. QED
      BY <3>9 DEF RequestStep
  <2>4. CASE r # q
    BY <2>1, <2>2, <2>4 DEF RequestStep, SameBooks, SameHistory
  <2>5. QED
    BY <2>3, <2>4
<1>9. ASSUME NEW q \in RfqIds, TimeoutRfq(q) PROVE RequestStep(r)
  <2>1. SameQuotes(r) /\ SameHistory(r) /\ claimed'[r] = claimed[r]
    BY <1>9 DEF TimeoutRfq, SameQuotes, SameHistory, bookVars, claimVars, replayVars, requestVars
  <2>2. CASE r = q
    BY <1>9, <2>1, <2>2 DEF TimeoutRfq, CanTimeoutRfq, RequestStep, Abandoned
  <2>3. CASE r # q
    BY <1>9, <2>1, <2>3 DEF TimeoutRfq, RequestStep, SameBooks
  <2>4. QED
    BY <2>2, <2>3
<1>10. ASSUME NEW q \in RfqIds, NEW sender \in Accounts, Claim(sender, q)
       PROVE  RequestStep(r)
  <2>1. rfqs'[r] = rfqs[r] /\ SameQuotes(r) /\ SameHistory(r)
    BY <1>10 DEF Claim, SameQuotes, SameHistory, bookVars, replayVars, requestVars
  <2>2. CASE r = q
    BY <1>10, <2>1, <2>2 DEF Claim, CanClaim, ClaimedBy, RequestStep, Paid
  <2>3. CASE r # q
    BY <1>10, <2>1, <2>3 DEF Claim, ClaimedBy, RequestStep, SameBooks
  <2>4. QED
    BY <2>2, <2>3
<1>11. CASE UNCHANGED vars
  BY <1>11 DEF vars, RequestStep, SameBooks, SameQuotes, SameHistory, bookVars, claimVars,
    replayVars, requestVars
<1>12. QED
  BY <1>1, <1>2, <1>3, <1>4, <1>5, <1>6, <1>7, <1>8, <1>9, <1>10, <1>11 DEF Next

\* No step touches two requests.
LEMMA StepsTouchOneRequest ==
  ASSUME TypeOK, [Next]_vars, NEW r \in RfqIds, NEW q \in RfqIds, r # q
  PROVE  SameBooks(r) \/ SameBooks(q)
<1> USE DEF TypeOK, SameBooks, SameQuotes, SameHistory, bookVars, claimVars, replayVars,
            requestVars
<1>1. CASE Tick
  BY <1>1 DEF Tick
<1>2. ASSUME NEW id \in ExtensionIds, SetExtensionId(id) PROVE SameBooks(r)
  BY <1>2 DEF SetExtensionId
<1>3. ASSUME NEW sender, NEW signer, InitializeTeeSigner(sender, signer) PROVE SameBooks(r)
  BY <1>3 DEF InitializeTeeSigner
<1>4. ASSUME NEW sender, NEW lotAmount, NEW quoteCap, NEW quoteDeadline,
             NEW resolutionDeadline, NEW credited,
             CreateRfq(sender, lotAmount, quoteCap, quoteDeadline, resolutionDeadline, credited)
      PROVE  SameBooks(r) \/ SameBooks(q)
  BY <1>4 DEF CreateRfq
<1>5. ASSUME NEW p \in RfqIds, NEW sender, NEW credited, SubmitQuote(sender, p, credited)
      PROVE  SameBooks(r) \/ SameBooks(q)
  BY <1>5 DEF SubmitQuote
<1>6. ASSUME NEW p \in RfqIds, NEW sender, CancelRfq(sender, p)
      PROVE  SameBooks(r) \/ SameBooks(q)
  BY <1>6 DEF CancelRfq
<1>7. ASSUME NEW p \in RfqIds, NEW fee, NEW answer, RequestResolution(p, fee, answer)
      PROVE  SameBooks(r) \/ SameBooks(q)
  BY <1>7 DEF RequestResolution
<1>8. ASSUME NEW p \in RfqIds, SubmitResult(p) PROVE SameBooks(r) \/ SameBooks(q)
  <2>1. PICK attestation \in Attestations, result \in Results :
          /\ rfqs' = [rfqs EXCEPT ![p].status = OutcomeStatus(result.resultType),
                                  ![p].winningProvider = result.winningProvider,
                                  ![p].winningQuote = result.winningQuote]
          /\ evidence' = [evidence EXCEPT ![p] = [actionId |-> attestation.actionId,
                                                  nonce |-> result.resultNonce,
                                                  signer |-> attestation.signer]]
    BY <1>8 DEF SubmitResult
  <2>2. UNCHANGED <<bookVars, claimVars, requestVars>>
    BY <1>8 DEF SubmitResult
  <2>3. QED
    BY <2>1, <2>2
<1>9. ASSUME NEW p \in RfqIds, TimeoutRfq(p) PROVE SameBooks(r) \/ SameBooks(q)
  BY <1>9 DEF TimeoutRfq
<1>10. ASSUME NEW p \in RfqIds, NEW sender, Claim(sender, p)
       PROVE  SameBooks(r) \/ SameBooks(q)
  BY <1>10 DEF Claim, ClaimedBy
<1>11. CASE UNCHANGED vars
  BY <1>11 DEF vars
<1>12. QED
  BY <1>1, <1>2, <1>3, <1>4, <1>5, <1>6, <1>7, <1>8, <1>9, <1>10, <1>11 DEF Next

\* What a step does to what all requests share: time, ids and replay records only grow,
\* and the signer is set once.
SharedGrows ==
  /\ now' >= now /\ nextRfqId' >= nextRfqId
  /\ consumedActionIds \subseteq consumedActionIds'
  /\ consumedResultNonces \subseteq consumedResultNonces'
  /\ teeSigner # ZeroAddress => teeSigner' = teeSigner

\* Consumed ids and nonces stay consumed, and the signer is set once.
LEMMA SharedStateGrows == ASSUME TypeOK, [Next]_vars PROVE SharedGrows
<1> USE LimitsAreNaturals DEF TypeOK, configVars, bookVars, claimVars, replayVars,
  requestVars, SharedGrows
<1>1. CASE Tick
  BY <1>1 DEF Tick
<1>2. ASSUME NEW id \in ExtensionIds, SetExtensionId(id) PROVE SharedGrows
  BY <1>2 DEF SetExtensionId
<1>3. ASSUME NEW sender, NEW signer, InitializeTeeSigner(sender, signer) PROVE SharedGrows
  BY <1>3 DEF InitializeTeeSigner
<1>4. ASSUME NEW sender, NEW lotAmount, NEW quoteCap, NEW quoteDeadline,
             NEW resolutionDeadline, NEW credited,
             CreateRfq(sender, lotAmount, quoteCap, quoteDeadline, resolutionDeadline, credited)
      PROVE  SharedGrows
  BY <1>4 DEF CreateRfq
<1>5. ASSUME NEW r \in RfqIds,
             \/ \E sender \in Accounts : \E credited \in Credits(rfqs[r].quoteCap) :
                  SubmitQuote(sender, r, credited)
             \/ \E sender \in Accounts : CancelRfq(sender, r)
             \/ \E fee \in InstructionFees,
                   answer \in RemoteActionIds \cup {NoActionId, RegistryReverted} :
                  RequestResolution(r, fee, answer)
             \/ TimeoutRfq(r)
             \/ \E sender \in Accounts : Claim(sender, r)
      PROVE  SharedGrows
  BY <1>5 DEF SubmitQuote, CancelRfq, RequestResolution, TimeoutRfq, Claim
<1>6. ASSUME NEW r \in RfqIds, SubmitResult(r) PROVE SharedGrows
  BY <1>6 DEF SubmitResult
<1>7. CASE UNCHANGED vars
  BY <1>7 DEF vars
<1> HIDE DEF SharedGrows
<1>8. QED
  BY <1>1, <1>2, <1>3, <1>4, <1>5, <1>6, <1>7 DEF Next

-----------------------------------------------------------------------------
(* The inductive invariant. *)

\* An id is either still to be used, and everything about it is blank, or stands for a
\* request with both amounts set.
Blank(r) ==
  /\ rfqs[r] = ZeroRfq /\ participated[r] = {} /\ providers[r] = <<>> /\ claimed[r] = {}
  /\ instruction[r] = None /\ evidence[r] = None
Funded(r) ==
  /\ r < nextRfqId /\ Exists(r) /\ rfqs[r].lotAmount > 0 /\ rfqs[r].quoteCap > 0
BlankOrFunded == \A r \in RfqIds : Blank(r) \/ Funded(r)

\* The list of providers and the set of participants agree, without the seller.
QuotesMatch ==
  \A r \in RfqIds :
    /\ rfqs[r].seller \notin participated[r]
    /\ providers[r] = <<>> => participated[r] = {}

\* A resolution is requested after the last quote.
RequestedAfterQuotes ==
  \A r \in RfqIds : instruction[r] # None => now >= rfqs[r].quoteDeadline

\* What the accepted results carried is on record as consumed.
EvidenceIsConsumed ==
  \A r \in RfqIds : HasOutcome(r) =>
    /\ evidence[r] \in Evidence
    /\ evidence[r].actionId = rfqs[r].actionId
    /\ evidence[r].signer = teeSigner
    /\ evidence[r].actionId \in consumedActionIds
    /\ evidence[r].nonce \in consumedResultNonces

OutcomesDiffer ==
  \A r, q \in RfqIds : HasOutcome(r) /\ HasOutcome(q) /\ r # q =>
    /\ evidence[q].actionId # evidence[r].actionId
    /\ evidence[q].nonce # evidence[r].nonce

ContractInv ==
  /\ TypeOK
  /\ SettledIsATrade
  /\ BlankOrFunded
  /\ QuotesMatch
  /\ CancelledHasNoQuotes
  /\ RequestedAfterQuotes
  /\ InstructionStaysCurrent
  /\ EvidenceIsConsumed
  /\ OutcomesDiffer

\* Books in which no request was ever created satisfy the invariant.
LEMMA EmptyBooksAreSound ==
  ASSUME TypeOK, \A r \in RfqIds : Blank(r)
  PROVE  ContractInv
<1>1. \A r \in RfqIds : /\ rfqs[r].status = "OPEN" /\ rfqs[r].seller = ZeroAddress
                        /\ rfqs[r].actionId = NoActionId
  BY DEF Blank, ZeroRfq
<1>2. BlankOrFunded /\ QuotesMatch /\ RequestedAfterQuotes
  BY DEF BlankOrFunded, QuotesMatch, RequestedAfterQuotes, Blank
<1>3. SettledIsATrade /\ CancelledHasNoQuotes /\ EvidenceIsConsumed /\ OutcomesDiffer
  BY <1>1 DEF SettledIsATrade, CancelledHasNoQuotes, EvidenceIsConsumed, OutcomesDiffer,
    HasOutcome
<1>4. InstructionStaysCurrent
  BY <1>1 DEF InstructionStaysCurrent, Blank
<1>5. QED
  BY <1>2, <1>3, <1>4 DEF ContractInv

\* A freshly deployed contract satisfies the invariant.
LEMMA ContractInvHoldsInitially == Init => ContractInv
<1> SUFFICES ASSUME Init PROVE ContractInv
  OBVIOUS
<1>1. TypeOK
  BY ZeroRfqIsTyped, AmountsAreNaturals, LimitsAreNaturals DEF Init, TypeOK, Holders, RfqIds
<1>2. \A r \in RfqIds : Blank(r)
  BY DEF Init, Blank
<1>3. QED
  BY <1>1, <1>2, EmptyBooksAreSound

\* The fields that no step changes once they are set, and the two that decide what a
\* request can still do.
KeepsTerms(r) ==
  /\ rfqs'[r].seller = rfqs[r].seller
  /\ rfqs'[r].lotAmount = rfqs[r].lotAmount
  /\ rfqs'[r].quoteCap = rfqs[r].quoteCap
  /\ rfqs'[r].quoteDeadline = rfqs[r].quoteDeadline
  /\ rfqs'[r].resolutionDeadline = rfqs[r].resolutionDeadline

\* A request's seller and terms never change once it is created.
LEMMA TermsAreKept ==
  ASSUME TypeOK, NEW r \in RfqIds,
         SameBooks(r) \/ Quoted(r) \/ Requested(r) \/ Abandoned(r) \/ Resolved(r) \/ Paid(r)
  PROVE  KeepsTerms(r)
<1> USE DEF KeepsTerms
<1>1. rfqs[r] \in Rfq
  BY DEF TypeOK
<1>2. CASE SameBooks(r) \/ Quoted(r) \/ Paid(r)
  BY <1>2 DEF SameBooks, Quoted, Paid
<1>3. CASE Requested(r)
  BY <1>1, <1>3 DEF Requested, Rfq
<1>4. CASE Abandoned(r)
  BY <1>1, <1>4 DEF Abandoned, Rfq
<1>5. CASE Resolved(r)
  BY <1>1, <1>5 DEF Resolved, Rfq
<1>6. QED
  BY <1>2, <1>3, <1>4, <1>5

\* Every step keeps: an id is blank or stands for a funded request.
LEMMA BlankOrFundedStep ==
  ASSUME TypeOK, TypeOK', BlankOrFunded, [Next]_vars
  PROVE  BlankOrFunded'
<1> SUFFICES ASSUME NEW r \in RfqIds PROVE Blank(r)' \/ Funded(r)'
  BY DEF BlankOrFunded
<1>1. Blank(r) \/ Funded(r)
  BY DEF BlankOrFunded
<1>2. nextRfqId' >= nextRfqId /\ nextRfqId \in Nat /\ nextRfqId' \in Nat
  <2>1. nextRfqId \in Nat /\ nextRfqId' \in Nat
    BY LimitsAreNaturals DEF TypeOK
  <2>2. nextRfqId' >= nextRfqId
    BY SharedStateGrows DEF SharedGrows
  <2>3. QED
    BY <2>1, <2>2
<1>3. ASSUME Funded(r), KeepsTerms(r) PROVE Funded(r)'
  BY <1>2, <1>3 DEF Funded, KeepsTerms, Exists, RfqIds
<1>4. CASE SameBooks(r)
  <2>1. CASE Blank(r)
    BY <1>4, <2>1 DEF Blank, SameBooks, SameQuotes, SameHistory
  <2>2. QED
    BY <1>1, <1>3, <1>4, <2>1, TermsAreKept
<1>5. CASE Created(r)
  <2>1. PICK seller \in Accounts, lotAmount \in LotAmounts \ {0}, quoteCap \in QuoteCaps \ {0},
             quoteDeadline \in 0..MaxTime, resolutionDeadline \in 0..MaxTime :
          /\ quoteDeadline \in 1..(resolutionDeadline - 1) /\ resolutionDeadline < MaxTime
          /\ rfqs'[r] = [ZeroRfq EXCEPT !.seller = seller, !.lotAmount = lotAmount,
                                        !.quoteCap = quoteCap, !.quoteDeadline = quoteDeadline,
                                        !.resolutionDeadline = resolutionDeadline]
    BY <1>5 DEF Created
  <2>2. r < nextRfqId'
    BY <1>2, <1>5 DEF Created
  <2>3. QED
    BY <2>1, <2>2, AddressesDistinct, AmountsAreNaturals DEF Funded, Exists, ZeroRfq
<1>6. CASE Quoted(r) \/ Requested(r) \/ Abandoned(r) \/ Resolved(r)
  <2>1. IsOpen(r)
    BY <1>6 DEF Quoted, Requested, Abandoned, Resolved
  <2>2. Funded(r)
    BY <1>1, <2>1 DEF Blank, ZeroRfq, IsOpen, Exists
  <2>3. QED
    BY <1>3, <1>6, <2>2, TermsAreKept
<1>7. CASE Paid(r)
  <2>1. rfqs[r].status # "OPEN"
    BY <1>7 DEF Paid, claimable, Entitlement
  <2>2. Funded(r)
    BY <1>1, <2>1 DEF Blank, ZeroRfq
  <2>3. QED
    BY <1>3, <1>7, <2>2, TermsAreKept
<1>8. QED
  BY <1>4, <1>5, <1>6, <1>7, StepOnRequest DEF RequestStep

\* Only a request that does not exist yet is created.
LEMMA CreatedWasBlank ==
  ASSUME TypeOK, BlankOrFunded, NEW r \in RfqIds, Created(r)
  PROVE  Blank(r)
<1>1. r = nextRfqId /\ nextRfqId \in Int
  BY LimitsAreNaturals DEF Created, TypeOK
<1>2. ~Funded(r)
  BY <1>1 DEF Funded
<1>3. QED
  BY <1>2 DEF BlankOrFunded

\* What a step can do to a closed request: nothing but a claim.
LEMMA ClosedIsKept ==
  ASSUME TypeOK, BlankOrFunded, NEW r \in RfqIds, RequestStep(r), rfqs[r].status # "OPEN"
  PROVE  SameBooks(r) \/ Paid(r)
<1>1. Funded(r)
  BY DEF BlankOrFunded, Blank, ZeroRfq
<1>2. ~Created(r)
  BY CreatedWasBlank DEF Blank, ZeroRfq
<1>3. ~Quoted(r) /\ ~Requested(r) /\ ~Abandoned(r) /\ ~Resolved(r)
  BY DEF Quoted, Requested, Abandoned, Resolved, IsOpen
<1>4. QED
  BY <1>2, <1>3 DEF RequestStep

\* Every step keeps: a settled request's winner took part, within its cap.
LEMMA SettledIsATradeStep ==
  ASSUME TypeOK, BlankOrFunded, SettledIsATrade, [Next]_vars
  PROVE  SettledIsATrade'
<1> SUFFICES ASSUME NEW r \in RfqIds, rfqs'[r].status = "SETTLED"
             PROVE  /\ rfqs'[r].winningProvider \in participated'[r]
                    /\ rfqs'[r].winningQuote \in 1..rfqs'[r].quoteCap
  BY DEF SettledIsATrade
<1>1. rfqs[r] \in Rfq
  BY DEF TypeOK
<1>2. CASE SameBooks(r) \/ Paid(r)
  BY <1>2 DEF SettledIsATrade, SameBooks, Paid, SameQuotes
<1>3. CASE Created(r) \/ Quoted(r) \/ Requested(r) \/ Abandoned(r)
  <2>1. rfqs'[r].status # "SETTLED"
    BY <1>1, <1>3 DEF Created, Quoted, Requested, Abandoned, IsOpen, ZeroRfq, Rfq
  <2>2. QED
    BY <2>1
<1>4. CASE Resolved(r)
  BY <1>1, <1>4 DEF Resolved, SameQuotes, Rfq
<1>5. QED
  BY <1>2, <1>3, <1>4, StepOnRequest DEF RequestStep

\* Every step keeps: the list of providers and the set of participants agree, without the
\* seller.
LEMMA QuotesMatchStep ==
  ASSUME TypeOK, TypeOK', BlankOrFunded, QuotesMatch, [Next]_vars
  PROVE  QuotesMatch'
<1> SUFFICES ASSUME NEW r \in RfqIds
             PROVE  /\ rfqs'[r].seller \notin participated'[r]
                    /\ providers'[r] = <<>> => participated'[r] = {}
  BY DEF QuotesMatch
<1>1. CASE SameBooks(r) \/ Requested(r) \/ Abandoned(r) \/ Resolved(r) \/ Paid(r)
  <2>1. rfqs'[r].seller = rfqs[r].seller
    BY <1>1, TermsAreKept DEF KeepsTerms
  <2>2. SameQuotes(r)
    BY <1>1 DEF SameBooks, Requested, Abandoned, Resolved, Paid
  <2>3. QED
    BY <2>1, <2>2 DEF QuotesMatch, SameQuotes
<1>2. CASE Quoted(r)
  <2>1. rfqs'[r].seller = rfqs[r].seller
    BY <1>2, TermsAreKept DEF KeepsTerms
  <2>2. PICK sender \in Accounts \ (participated[r] \cup {rfqs[r].seller}) :
          /\ participated'[r] = participated[r] \cup {sender}
          /\ providers'[r] = Append(providers[r], sender)
    BY <1>2 DEF Quoted
  <2>3. providers'[r] # <<>>
    BY <2>2 DEF TypeOK
  <2>4. QED
    BY <2>1, <2>2, <2>3 DEF QuotesMatch
<1>3. CASE Created(r)
  <2>1. participated[r] = {}
    BY <1>3, CreatedWasBlank DEF Blank
  <2>2. QED
    BY <1>3, <2>1 DEF Created, SameQuotes
<1>4. QED
  BY <1>1, <1>2, <1>3, StepOnRequest DEF RequestStep

\* Every step keeps: a cancelled request has no quotes.
LEMMA CancelledHasNoQuotesStep ==
  ASSUME TypeOK, TypeOK', BlankOrFunded, QuotesMatch, CancelledHasNoQuotes, [Next]_vars
  PROVE  CancelledHasNoQuotes'
<1> SUFFICES ASSUME NEW r \in RfqIds, rfqs'[r].status = "CANCELLED"
             PROVE  participated'[r] = {}
  BY DEF CancelledHasNoQuotes
<1>1. rfqs[r] \in Rfq
  BY DEF TypeOK
<1>2. CASE SameBooks(r) \/ Paid(r)
  BY <1>2 DEF CancelledHasNoQuotes, SameBooks, Paid, SameQuotes
<1>3. CASE Created(r) \/ Quoted(r) \/ Requested(r) \/ Resolved(r)
  <2>1. rfqs'[r].status # "CANCELLED"
    BY <1>1, <1>3 DEF Created, Quoted, Requested, Resolved, IsOpen, ZeroRfq, Rfq
  <2>2. QED
    BY <2>1
<1>4. CASE Abandoned(r)
  <2>1. Len(providers[r]) = 0
    BY <1>1, <1>4 DEF Abandoned, Rfq
  <2>2. providers[r] = <<>>
    BY <2>1 DEF TypeOK
  <2>3. QED
    BY <1>4, <2>2 DEF Abandoned, QuotesMatch, SameQuotes
<1>5. QED
  BY <1>2, <1>3, <1>4, StepOnRequest DEF RequestStep

\* Every step keeps: resolution is requested only after the quoting window.
LEMMA RequestedAfterQuotesStep ==
  ASSUME TypeOK, TypeOK', BlankOrFunded, RequestedAfterQuotes, [Next]_vars
  PROVE  RequestedAfterQuotes'
<1> SUFFICES ASSUME NEW r \in RfqIds, instruction'[r] # None
             PROVE  now' >= rfqs'[r].quoteDeadline
  BY DEF RequestedAfterQuotes
<1>1. now' >= now /\ now \in Int /\ now' \in Int
  <2>1. now \in Int /\ now' \in Int
    BY LimitsAreNaturals DEF TypeOK
  <2>2. now' >= now
    BY SharedStateGrows DEF SharedGrows
  <2>3. QED
    BY <2>1, <2>2
<1>2. rfqs[r].quoteDeadline \in Nat
  BY DEF TypeOK, Rfq
<1>3. CASE SameBooks(r) \/ Quoted(r) \/ Abandoned(r) \/ Resolved(r) \/ Paid(r)
  <2>1. rfqs'[r].quoteDeadline = rfqs[r].quoteDeadline
    BY <1>3, TermsAreKept DEF KeepsTerms
  <2>2. instruction'[r] = instruction[r]
    BY <1>3 DEF SameBooks, Quoted, Abandoned, Resolved, Paid, SameHistory
  <2>3. QED
    BY <1>1, <1>2, <2>1, <2>2 DEF RequestedAfterQuotes
<1>4. CASE Requested(r)
  <2>1. rfqs'[r].quoteDeadline = rfqs[r].quoteDeadline
    BY <1>4, TermsAreKept DEF KeepsTerms
  <2>2. now >= rfqs[r].quoteDeadline
    BY <1>4 DEF Requested
  <2>3. QED
    BY <1>1, <1>2, <2>1, <2>2
<1>5. CASE Created(r)
  BY <1>5, CreatedWasBlank DEF Created, SameHistory, Blank
<1>6. QED
  BY <1>3, <1>4, <1>5, StepOnRequest DEF RequestStep

\* A recorded message is not the absence of one.
LEMMA MessagesAreNotNone == ASSUME NEW m \in Message PROVE m # None
BY DEF Message, None

\* Nor is recorded evidence.
LEMMA EvidenceIsNotNone == ASSUME NEW e \in Evidence PROVE e # None
BY DEF Evidence, None

\* Every step keeps: the message the TEE was sent describes the request as it is.
LEMMA InstructionStaysCurrentStep ==
  ASSUME TypeOK, TypeOK', BlankOrFunded, RequestedAfterQuotes, InstructionStaysCurrent,
         [Next]_vars
  PROVE  InstructionStaysCurrent'
<1> SUFFICES ASSUME NEW r \in RfqIds
             PROVE  /\ (rfqs'[r].actionId # NoActionId) = (instruction'[r] # None)
                    /\ instruction'[r] # None => instruction'[r] = ResolutionMessage(r)'
  BY DEF InstructionStaysCurrent
<1>1. rfqs[r] \in Rfq
  BY DEF TypeOK
<1>2. ASSUME KeepsTerms(r), SameQuotes(r) PROVE ResolutionMessage(r)' = ResolutionMessage(r)
  BY <1>2 DEF KeepsTerms, SameQuotes, ResolutionMessage
<1>3. CASE SameBooks(r) \/ Abandoned(r) \/ Resolved(r) \/ Paid(r)
  <2>1. ResolutionMessage(r)' = ResolutionMessage(r)
    <3>1. SameQuotes(r)
      BY <1>3 DEF SameBooks, Abandoned, Resolved, Paid
    <3>2. QED
      BY <1>2, <1>3, <3>1, TermsAreKept
  <2>2. instruction'[r] = instruction[r]
    BY <1>3 DEF SameBooks, Abandoned, Resolved, Paid, SameHistory
  <2>3. rfqs'[r].actionId = rfqs[r].actionId
    BY <1>1, <1>3 DEF SameBooks, Abandoned, Resolved, Paid, Rfq
  <2>4. QED
    BY <2>1, <2>2, <2>3 DEF InstructionStaysCurrent
<1>4. CASE Quoted(r)
  <2>1. instruction[r] = None
    <3>1. now < rfqs[r].quoteDeadline
      BY <1>4 DEF Quoted, QuoteWindowOpen
    <3>2. now \in Int /\ rfqs[r].quoteDeadline \in Int
      BY <1>1, LimitsAreNaturals DEF TypeOK, Rfq
    <3>3. QED
      BY <3>1, <3>2 DEF RequestedAfterQuotes
  <2>2. instruction'[r] = None /\ rfqs'[r] = rfqs[r]
    BY <1>4, <2>1 DEF Quoted, SameHistory
  <2>3. QED
    BY <2>1, <2>2 DEF InstructionStaysCurrent
<1>5. CASE Requested(r)
  <2>1. instruction'[r] = ResolutionMessage(r)'
    BY <1>2, <1>5, TermsAreKept DEF Requested
  <2>2. rfqs'[r].actionId # NoActionId
    BY <1>1, <1>5, HashesAreNotZero DEF Requested, Rfq
  <2>3. instruction'[r] # None
    BY <1>1, <1>5, MessagesAreNotNone DEF Requested, ResolutionMessage, Message, Rfq, TypeOK
  <2>4. QED
    BY <2>1, <2>2, <2>3
<1>6. CASE Created(r)
  BY <1>6, CreatedWasBlank DEF Created, SameHistory, Blank, ZeroRfq
<1>7. QED
  BY <1>3, <1>4, <1>5, <1>6, StepOnRequest DEF RequestStep

\* A request that did not get its outcome in this step keeps it as it was.
LEMMA OutcomeIsKept ==
  ASSUME TypeOK, TypeOK', BlankOrFunded, [Next]_vars, NEW r \in RfqIds, ~Resolved(r),
         HasOutcome(r)'
  PROVE  /\ HasOutcome(r)
         /\ evidence'[r] = evidence[r]
         /\ rfqs'[r].actionId = rfqs[r].actionId
<1>1. rfqs[r] \in Rfq
  BY DEF TypeOK
<1>2. CASE SameBooks(r) \/ Paid(r)
  BY <1>2 DEF HasOutcome, SameBooks, Paid, SameHistory
<1>3. CASE Created(r) \/ Quoted(r) \/ Requested(r) \/ Abandoned(r)
  <2>1. ~HasOutcome(r)'
    BY <1>1, <1>3 DEF HasOutcome, Created, Quoted, Requested, Abandoned, IsOpen, ZeroRfq, Rfq
  <2>2. QED
    BY <2>1
<1>4. QED
  BY <1>2, <1>3, StepOnRequest DEF RequestStep

\* Every step keeps: the evidence of every outcome is in the replay maps.
LEMMA EvidenceIsConsumedStep ==
  ASSUME TypeOK, TypeOK', BlankOrFunded, EvidenceIsConsumed, [Next]_vars
  PROVE  EvidenceIsConsumed'
<1> SUFFICES ASSUME NEW r \in RfqIds, HasOutcome(r)'
             PROVE  /\ evidence'[r] \in Evidence
                    /\ evidence'[r].actionId = rfqs'[r].actionId
                    /\ evidence'[r].signer = teeSigner'
                    /\ evidence'[r].actionId \in consumedActionIds'
                    /\ evidence'[r].nonce \in consumedResultNonces'
  BY DEF EvidenceIsConsumed
<1>1. CASE Resolved(r)
  <2>1. /\ evidence'[r] \in Evidence
        /\ evidence'[r].actionId = rfqs[r].actionId /\ evidence'[r].signer = teeSigner
        /\ evidence'[r].actionId \in consumedActionIds'
        /\ evidence'[r].nonce \in consumedResultNonces'
    BY <1>1 DEF Resolved
  <2>2. rfqs'[r].actionId = rfqs[r].actionId
    BY <1>1 DEF Resolved, TypeOK, Rfq
  <2>3. teeSigner' = teeSigner
    BY <2>1, AddressesDistinct, SharedStateGrows DEF SharedGrows, Evidence
  <2>4. QED
    BY <2>1, <2>2, <2>3
<1>2. CASE ~Resolved(r)
  <2>1. /\ HasOutcome(r) /\ evidence'[r] = evidence[r]
        /\ rfqs'[r].actionId = rfqs[r].actionId
    BY <1>2, OutcomeIsKept
  <2>2. /\ evidence[r] \in Evidence
        /\ evidence[r].actionId = rfqs[r].actionId
        /\ evidence[r].signer = teeSigner
        /\ evidence[r].actionId \in consumedActionIds
        /\ evidence[r].nonce \in consumedResultNonces
    BY <2>1 DEF EvidenceIsConsumed
  <2>3. teeSigner' = teeSigner
    BY <2>2, AddressesDistinct, SharedStateGrows DEF SharedGrows, Evidence
  <2>4. QED
    BY <2>1, <2>2, <2>3, SharedStateGrows DEF SharedGrows
<1>3. QED
  BY <1>1, <1>2

\* A new outcome carries an action and a nonce nobody has consumed, and every other
\* outcome's are on record: this is where the replay maps matter.
LEMMA NewOutcomeDiffers ==
  ASSUME TypeOK, TypeOK', BlankOrFunded, EvidenceIsConsumed, [Next]_vars,
         NEW r \in RfqIds, NEW q \in RfqIds, r # q, Resolved(r), HasOutcome(q)'
  PROVE  /\ evidence'[q].actionId # evidence'[r].actionId
         /\ evidence'[q].nonce # evidence'[r].nonce
<1>1. ~SameBooks(r)
  <2>1. rfqs[r] \in Rfq /\ rfqs[r].status = "OPEN"
    BY DEF Resolved, IsOpen, TypeOK
  <2>2. rfqs'[r].status # "OPEN"
    BY <2>1 DEF Resolved, Rfq
  <2>3. QED
    BY <2>1, <2>2 DEF SameBooks
<1>2. SameBooks(q)
  BY <1>1, StepsTouchOneRequest
<1>3. evidence'[q] = evidence[q] /\ HasOutcome(q)
  BY <1>2 DEF SameBooks, SameHistory, HasOutcome
<1>4. /\ evidence'[q].actionId \in consumedActionIds
      /\ evidence'[q].nonce \in consumedResultNonces
  BY <1>3 DEF EvidenceIsConsumed
<1>5. /\ evidence'[r].actionId \notin consumedActionIds
      /\ evidence'[r].nonce \notin consumedResultNonces
  BY DEF Resolved
<1>6. QED
  BY <1>4, <1>5

\* Every step keeps: no two requests have the same action or nonce in their outcomes.
LEMMA OutcomesDifferStep ==
  ASSUME TypeOK, TypeOK', BlankOrFunded, EvidenceIsConsumed, OutcomesDiffer, [Next]_vars
  PROVE  OutcomesDiffer'
<1> SUFFICES ASSUME NEW r \in RfqIds, NEW q \in RfqIds, r # q, HasOutcome(r)', HasOutcome(q)'
             PROVE  /\ evidence'[q].actionId # evidence'[r].actionId
                    /\ evidence'[q].nonce # evidence'[r].nonce
  BY DEF OutcomesDiffer
<1>1. CASE Resolved(r)
  BY <1>1, NewOutcomeDiffers
<1>2. CASE Resolved(q)
  BY <1>2, NewOutcomeDiffers
<1>3. CASE ~Resolved(r) /\ ~Resolved(q)
  BY <1>3, OutcomeIsKept DEF OutcomesDiffer
<1>4. QED
  BY <1>1, <1>2, <1>3

\* Every step of the contract preserves the invariant.
LEMMA ContractInvIsInductive == ContractInv /\ [Next]_vars => ContractInv'
<1> SUFFICES ASSUME ContractInv, [Next]_vars PROVE ContractInv'
  OBVIOUS
<1>1. TypeOK'
  BY TypeStep DEF ContractInv
<1>2. SettledIsATrade' /\ BlankOrFunded' /\ QuotesMatch' /\ CancelledHasNoQuotes'
  BY <1>1, SettledIsATradeStep, BlankOrFundedStep, QuotesMatchStep, CancelledHasNoQuotesStep
    DEF ContractInv
<1>3. RequestedAfterQuotes' /\ InstructionStaysCurrent'
  BY <1>1, RequestedAfterQuotesStep, InstructionStaysCurrentStep DEF ContractInv
<1>4. EvidenceIsConsumed' /\ OutcomesDiffer'
  BY <1>1, EvidenceIsConsumedStep, OutcomesDifferStep DEF ContractInv
<1>5. QED
  BY <1>1, <1>2, <1>3, <1>4 DEF ContractInv

\* The inductive invariant of the contract holds in every state it can reach: types, the
\* books of each request, and the binding of outcomes to consumed evidence.
THEOREM ContractInvHolds == Spec => []ContractInv
BY ContractInvHoldsInitially, ContractInvIsInductive, PTL DEF Spec

-----------------------------------------------------------------------------
(* The results *)

\* The contract's state keeps its types: in particular no balance, no claimed amount and
\* no entitlement ever goes below zero (the contract's unsigned integers).
THEOREM TypeCorrect == Spec => []TypeOK
<1>1. ContractInv => TypeOK
  BY DEF ContractInv
<1>2. QED
  BY <1>1, ContractInvHolds, PTL

\* A cancelled request holds no provider's deposit, now or later.
THEOREM CancelCorrect == Spec => []CancelledHasNoQuotes
<1>1. ContractInv => CancelledHasNoQuotes
  BY DEF ContractInv
<1>2. QED
  BY <1>1, ContractInvHolds, PTL

\* The TEE is asked about exactly what the contract will settle.
THEOREM InstructionCorrect == Spec => []InstructionStaysCurrent
<1>1. ContractInv => InstructionStaysCurrent
  BY DEF ContractInv
<1>2. QED
  BY <1>1, ContractInvHolds, PTL

\* No action id and no nonce closes two requests, and every outcome is the configured
\* signer's answer to the request's own action.
THEOREM OutcomesCorrect == Spec => []OutcomesAreUniquelyBound
<1>1. ContractInv => OutcomesAreUniquelyBound
  BY EvidenceIsNotNone DEF ContractInv, EvidenceIsConsumed, OutcomesDiffer,
    OutcomesAreUniquelyBound
<1>2. QED
  BY <1>1, ContractInvHolds, PTL

\* The seller and the providers of a closed request have something to claim.
LEMMA ClosedRequestsPay == ContractInv => ClosedPaysEveryParticipant
<1>1. ASSUME ContractInv, NEW r \in RfqIds, rfqs[r].status # "OPEN",
             NEW a \in (participated[r] \cup {rfqs[r].seller}) \ claimed[r]
      PROVE  claimable(r, a).fxrp + claimable(r, a).usdt0 > 0
  <2>1. rfqs[r] \in Rfq /\ participated[r] \subseteq Accounts
    BY <1>1 DEF ContractInv, TypeOK
  <2>2. rfqs[r].lotAmount > 0 /\ rfqs[r].quoteCap > 0
    BY <1>1 DEF ContractInv, BlankOrFunded, Blank, Funded, ZeroRfq
  <2>3. rfqs[r].seller \notin participated[r]
    BY <1>1 DEF ContractInv, QuotesMatch
  <2>4. rfqs[r].status = "SETTLED" =>
          /\ rfqs[r].winningProvider \in participated[r]
          /\ rfqs[r].winningQuote \in 1..rfqs[r].quoteCap
    BY <1>1 DEF ContractInv, SettledIsATrade
  <2>5. claimable(r, a) = Entitlement(r, a)
    BY <1>1 DEF claimable
  <2>6. /\ rfqs[r].lotAmount \in Nat /\ rfqs[r].quoteCap \in Nat
        /\ rfqs[r].winningQuote \in Nat
    BY <2>1 DEF Rfq
  <2>7. CASE a = rfqs[r].seller
    BY <1>1, <2>2, <2>3, <2>4, <2>5, <2>6, <2>7 DEF Entitlement
  <2>8. CASE a \in participated[r]
    BY <1>1, <2>2, <2>3, <2>4, <2>5, <2>6, <2>8 DEF Entitlement
  <2>9. QED
    BY <1>1, <2>7, <2>8
<1>2. QED
  BY <1>1 DEF ClosedPaysEveryParticipant

\* Whatever closes a request leaves each of its participants something to claim.
THEOREM ClosingPays == Spec => []ClosedPaysEveryParticipant
BY ClosedRequestsPay, ContractInvHolds, PTL

\* No transaction changes what a closed request gives anybody, nor forgets a claim.
THEOREM EntitlementsStayFinal == Spec => EntitlementsAreFinal
<1>1. ASSUME ContractInv, [Next]_vars, NEW r \in RfqIds, rfqs[r].status # "OPEN"
      PROVE  /\ \A a \in Accounts : Entitlement(r, a)' = Entitlement(r, a)
             /\ claimed[r] \subseteq claimed'[r]
  <2>1. SameBooks(r) \/ Paid(r)
    BY <1>1, StepOnRequest, ClosedIsKept DEF ContractInv
  <2>2. rfqs'[r] = rfqs[r] /\ participated'[r] = participated[r]
    BY <2>1 DEF SameBooks, Paid, SameQuotes
  <2>3. \A a \in Accounts : Entitlement(r, a)' = Entitlement(r, a)
    BY <2>2 DEF Entitlement
  <2>4. QED
    BY <2>1, <2>3 DEF SameBooks, Paid
<1>2. ContractInv /\ [Next]_vars =>
        [\A r \in RfqIds : rfqs[r].status # "OPEN" =>
           /\ \A a \in Accounts : Entitlement(r, a)' = Entitlement(r, a)
           /\ claimed[r] \subseteq claimed'[r]]_vars
  BY <1>1
<1>3. QED
  BY <1>2, ContractInvHolds, PTL DEF Spec, EntitlementsAreFinal

-----------------------------------------------------------------------------
(* The contract implements RfqEscrow. *)

\* A deployed contract has no requests and every account its balance.
LEMMA InitImplements == Init => Promise!PromiseInit
<1> SUFFICES ASSUME Init PROVE Promise!PromiseInit
  OBVIOUS
<1> USE AddressesDistinct, LimitsAreNaturals
<1>1. \A r \in RfqIds : rfqs[r] = ZeroRfq /\ participated[r] = {} /\ claimed[r] = {}
  BY DEF Init
<1>2. \A r \in RfqIds : phaseOf(r) = "unused"
  BY <1>1 DEF phaseOf, Exists, ZeroRfq
<1>3. \A r \in RfqIds, a \in Accounts : Locked(a, r) = [fxrp |-> 0, usdt0 |-> 0]
  BY <1>1 DEF Locked, ZeroRfq
<1>4. \A r \in RfqIds, a \in Accounts : Entitlement(r, a) = [fxrp |-> 0, usdt0 |-> 0]
  BY <1>1 DEF Entitlement, ZeroRfq
<1>5. \A a \in Accounts : fxrp[a] = InitialBalance /\ usdt0[a] = InitialBalance
  BY DEF Init, Holders
<1>6. claimed = [r \in RfqIds |-> {}]
  BY DEF Init
<1>7. QED
  BY <1>2, <1>3, <1>4, <1>5, <1>6 DEF Promise!PromiseInit, Promise!Nothing

-----------------------------------------------------------------------------
(* What each transaction does to the abstract state. *)

\* Requests whose record, quotes and claims stay as they are look the same.
LEMMA SameBooksLookTheSame ==
  ASSUME NEW r \in RfqIds, rfqs'[r] = rfqs[r], participated'[r] = participated[r]
  PROVE  /\ phaseOf(r)' = phaseOf(r)
         /\ \A a \in Accounts : Locked(a, r)' = Locked(a, r)
         /\ \A a \in Accounts : Entitlement(r, a)' = Entitlement(r, a)
BY DEF phaseOf, Exists, Locked, depositedFxrp, Entitlement

\* A step that leaves books, claims and tokens alone is a stutter.
LEMMA UnseenSteps ==
  ASSUME TypeOK, rfqs' = rfqs, participated' = participated, UNCHANGED claimed,
         UNCHANGED tokenVars
  PROVE  UNCHANGED Promise!escrowVars
<1>1. /\ [r \in RfqIds |-> phaseOf(r)]' = [r \in RfqIds |-> phaseOf(r)]
      /\ [r \in RfqIds |-> [a \in Accounts |-> Locked(a, r)]]'
           = [r \in RfqIds |-> [a \in Accounts |-> Locked(a, r)]]
      /\ [r \in RfqIds |-> [a \in Accounts |-> Entitlement(r, a)]]'
           = [r \in RfqIds |-> [a \in Accounts |-> Entitlement(r, a)]]
  BY SameBooksLookTheSame
<1>2. [a \in Accounts |-> [fxrp |-> fxrp[a], usdt0 |-> usdt0[a]]]'
        = [a \in Accounts |-> [fxrp |-> fxrp[a], usdt0 |-> usdt0[a]]]
  BY DEF tokenVars
<1>3. QED
  BY <1>1, <1>2 DEF Promise!escrowVars

\* A recorded action id is nothing the escrow's users see (requestResolution).
LEMMA RequestResolutionStutters ==
  ASSUME TypeOK, NEW r \in RfqIds, NEW fee, NEW answer, RequestResolution(r, fee, answer)
  PROVE  UNCHANGED Promise!escrowVars
<1>1. PICK actionId : rfqs' = [rfqs EXCEPT ![r].actionId = actionId]
  BY DEF RequestResolution
<1>2. UNCHANGED <<participated, claimed, fxrp, usdt0>>
  BY DEF RequestResolution, bookVars, claimVars, tokenVars
<1>3. ASSUME NEW q \in RfqIds
      PROVE  /\ phaseOf(q)' = phaseOf(q)
             /\ \A a \in Accounts : Locked(a, q)' = Locked(a, q)
             /\ \A a \in Accounts : Entitlement(q, a)' = Entitlement(q, a)
  <2>1. rfqs[q] \in Rfq
    BY DEF TypeOK
  <2>2. /\ rfqs'[q].seller = rfqs[q].seller /\ rfqs'[q].status = rfqs[q].status
        /\ rfqs'[q].lotAmount = rfqs[q].lotAmount /\ rfqs'[q].quoteCap = rfqs[q].quoteCap
        /\ rfqs'[q].winningProvider = rfqs[q].winningProvider
        /\ rfqs'[q].winningQuote = rfqs[q].winningQuote
    BY <1>1, <2>1 DEF TypeOK, Rfq
  <2>3. QED
    BY <1>2, <2>2 DEF phaseOf, Exists, Locked, depositedFxrp, Entitlement
<1>4. QED
  BY <1>2, <1>3 DEF Promise!escrowVars

\* A new request: its seller locks the lot (createRfq).
LEMMA CreateRfqOpens ==
  ASSUME ContractInv, NEW new \in RfqIds, new = nextRfqId,
         NEW sender \in Accounts, NEW lotAmount \in LotAmounts,
         NEW quoteCap \in QuoteCaps, NEW quoteDeadline, NEW resolutionDeadline, NEW credited,
         CreateRfq(sender, lotAmount, quoteCap, quoteDeadline, resolutionDeadline, credited)
  PROVE  Promise!Open(new, sender, lotAmount)
<1> DEFINE what == [fxrp |-> lotAmount, usdt0 |-> 0]
<1> USE AddressesDistinct
<1>1. TypeOK /\ lotAmount \in Nat /\ lotAmount # 0
  BY AmountsAreNaturals DEF ContractInv, CreateRfq, CanCreateRfq
<1>2. Blank(new)
  BY <1>1 DEF ContractInv, BlankOrFunded, Funded, RfqIds
<1>3. UNCHANGED <<participated, claimed, usdt0>>
  BY DEF CreateRfq, bookVars, claimVars
<1>4. /\ rfqs'[new].seller = sender /\ rfqs'[new].status = "OPEN"
      /\ rfqs'[new].lotAmount = lotAmount
  <2>1. rfqs'[new] = [ZeroRfq EXCEPT !.seller = sender, !.lotAmount = lotAmount,
                                     !.quoteCap = quoteCap, !.quoteDeadline = quoteDeadline,
                                     !.resolutionDeadline = resolutionDeadline]
    BY <1>1 DEF CreateRfq, TypeOK
  <2>2. QED
    BY <2>1 DEF ZeroRfq
<1>5. participated[new] = {} /\ participated'[new] = {}
  BY <1>2, <1>3 DEF Blank
<1>6. \A r \in RfqIds \ {new} : rfqs'[r] = rfqs[r] /\ participated'[r] = participated[r]
  BY <1>1, <1>3 DEF CreateRfq, TypeOK
<1>7. phaseOf(new) = "unused" /\ phaseOf(new)' = "open"
  BY <1>2, <1>4 DEF phaseOf, Exists, Blank, ZeroRfq
<1>8. \A a \in Accounts :
        /\ Locked(a, new) = [fxrp |-> 0, usdt0 |-> 0]
        /\ Locked(a, new)' = IF a = sender THEN what ELSE [fxrp |-> 0, usdt0 |-> 0]
  BY <1>2, <1>4, <1>5 DEF Locked, depositedFxrp, Blank, ZeroRfq
<1>9. \A a \in Accounts : Entitlement(new, a)' = Entitlement(new, a)
  BY <1>2, <1>4 DEF Entitlement, Blank, ZeroRfq
<1>10. \A r \in RfqIds \ {new} :
        /\ phaseOf(r)' = phaseOf(r)
        /\ \A a \in Accounts : Locked(a, r)' = Locked(a, r)
        /\ \A a \in Accounts : Entitlement(r, a)' = Entitlement(r, a)
  BY <1>6, SameBooksLookTheSame
<1>11. [a \in Accounts |-> [fxrp |-> fxrp[a], usdt0 |-> usdt0[a]]]'
         = [[a \in Accounts |-> [fxrp |-> fxrp[a], usdt0 |-> usdt0[a]]]
              EXCEPT ![sender] = Promise!Minus(@, what)]
  <2>1. /\ fxrp'[sender] = fxrp[sender] - lotAmount
        /\ \A a \in Accounts \ {sender} : fxrp'[a] = fxrp[a]
    BY <1>1 DEF CreateRfq, Pull, TypeOK, Holders
  <2>2. usdt0' = usdt0 /\ usdt0[sender] - 0 = usdt0[sender]
    BY <1>1, <1>3 DEF TypeOK, Holders
  <2>3. Promise!Minus([fxrp |-> fxrp[sender], usdt0 |-> usdt0[sender]], what)
          = [fxrp |-> fxrp'[sender], usdt0 |-> usdt0'[sender]]
    BY <2>1, <2>2 DEF Promise!Minus
  <2> HIDE DEF what
  <2>4. QED
    BY <2>1, <2>2, <2>3
<1>12. [r \in RfqIds |-> [a \in Accounts |-> Locked(a, r)]]'
         = [[r \in RfqIds |-> [a \in Accounts |-> Locked(a, r)]] EXCEPT ![new][sender] = what]
  <2> HIDE DEF what
  <2>1. \A r \in RfqIds \ {new} :
          [a \in Accounts |-> Locked(a, r)'] = [a \in Accounts |-> Locked(a, r)]
    BY <1>10
  <2>2. [a \in Accounts |-> Locked(a, new)']
          = [[a \in Accounts |-> Locked(a, new)] EXCEPT ![sender] = what]
    BY <1>8
  <2>3. QED
    BY <2>1, <2>2
<1>13. [r \in RfqIds |-> [a \in Accounts |-> Entitlement(r, a)]]'
         = [r \in RfqIds |-> [a \in Accounts |-> Entitlement(r, a)]]
  BY <1>9, <1>10
<1>14. [r \in RfqIds |-> phaseOf(r)]' = [[r \in RfqIds |-> phaseOf(r)] EXCEPT ![new] = "open"]
  BY <1>7, <1>10
<1>15. what # Promise!Nothing /\ Locked(sender, new) = Promise!Nothing
  BY <1>1, <1>8 DEF Promise!Nothing
<1>16. QED
  BY <1>3, <1>7, <1>11, <1>12, <1>13, <1>14, <1>15 DEF Promise!Open, Promise!Lock

\* A new quote: its provider locks the cap (submitQuote).
LEMMA SubmitQuoteJoins ==
  ASSUME ContractInv, NEW r \in RfqIds, NEW sender \in Accounts, NEW credited,
         SubmitQuote(sender, r, credited)
  PROVE  Promise!Join(r, sender, rfqs[r].quoteCap)
<1> DEFINE cap == rfqs[r].quoteCap
           what == [fxrp |-> 0, usdt0 |-> cap]
<1> USE AddressesDistinct
<1>1. /\ TypeOK /\ IsOpen(r) /\ sender # rfqs[r].seller /\ sender \notin participated[r]
  BY DEF ContractInv, SubmitQuote, CanSubmitQuote
<1>2. cap \in Nat /\ cap # 0
  <2>1. Funded(r)
    BY <1>1 DEF ContractInv, BlankOrFunded, Blank, ZeroRfq, IsOpen, Exists
  <2>2. QED
    BY <1>1, <2>1 DEF Funded, TypeOK, Rfq
<1>3. UNCHANGED <<rfqs, claimed, fxrp>>
  BY DEF SubmitQuote, claimVars
<1>4. participated'[r] = participated[r] \cup {sender}
  BY <1>1 DEF SubmitQuote, TypeOK
<1>5. \A q \in RfqIds \ {r} : rfqs'[q] = rfqs[q] /\ participated'[q] = participated[q]
  BY <1>1, <1>3 DEF SubmitQuote, TypeOK
<1>6. phaseOf(r) = "open" /\ phaseOf(r)' = "open"
  BY <1>1, <1>3 DEF phaseOf, Exists, IsOpen
<1>7. /\ Locked(sender, r) = [fxrp |-> 0, usdt0 |-> 0] /\ Locked(sender, r)' = what
      /\ \A a \in Accounts \ {sender} : Locked(a, r)' = Locked(a, r)
  BY <1>1, <1>3, <1>4 DEF Locked, depositedFxrp
<1>8. \A a \in Accounts : Entitlement(r, a)' = Entitlement(r, a)
  BY <1>1, <1>3 DEF Entitlement, IsOpen
<1>9. \A q \in RfqIds \ {r} :
        /\ phaseOf(q)' = phaseOf(q)
        /\ \A a \in Accounts : Locked(a, q)' = Locked(a, q)
        /\ \A a \in Accounts : Entitlement(q, a)' = Entitlement(q, a)
  BY <1>5, SameBooksLookTheSame
<1>10. /\ usdt0'[sender] = usdt0[sender] - cap
       /\ \A a \in Accounts \ {sender} : usdt0'[a] = usdt0[a]
  BY <1>1 DEF SubmitQuote, Pull, TypeOK, Holders
<1>11. [a \in Accounts |-> [fxrp |-> fxrp[a], usdt0 |-> usdt0[a]]]'
         = [[a \in Accounts |-> [fxrp |-> fxrp[a], usdt0 |-> usdt0[a]]]
              EXCEPT ![sender] = Promise!Minus(@, what)]
  <2>1. fxrp' = fxrp /\ fxrp[sender] - 0 = fxrp[sender]
    BY <1>1, <1>3 DEF TypeOK, Holders
  <2>2. Promise!Minus([fxrp |-> fxrp[sender], usdt0 |-> usdt0[sender]], what)
          = [fxrp |-> fxrp'[sender], usdt0 |-> usdt0'[sender]]
    BY <1>10, <2>1 DEF Promise!Minus
  <2> HIDE DEF what
  <2>3. QED
    BY <1>10, <2>1, <2>2
<1>12. [q \in RfqIds |-> [a \in Accounts |-> Locked(a, q)]]'
         = [[q \in RfqIds |-> [a \in Accounts |-> Locked(a, q)]] EXCEPT ![r][sender] = what]
  BY <1>7, <1>9
<1>13. [q \in RfqIds |-> [a \in Accounts |-> Entitlement(q, a)]]'
         = [q \in RfqIds |-> [a \in Accounts |-> Entitlement(q, a)]]
  BY <1>8, <1>9
<1>14. [q \in RfqIds |-> phaseOf(q)]' = [q \in RfqIds |-> phaseOf(q)]
  BY <1>6, <1>9
<1>15. what # Promise!Nothing /\ Locked(sender, r) = Promise!Nothing
  BY <1>2, <1>7 DEF Promise!Nothing
<1>16. QED
  BY <1>3, <1>6, <1>11, <1>12, <1>13, <1>14, <1>15 DEF Promise!Join, Promise!Lock

\* Closing a request with everybody's own deposit: the abstract refund.
LEMMA ClosingRefunds ==
  ASSUME TypeOK, NEW r \in RfqIds, IsOpen(r), NEW rfq \in Rfq,
         rfqs' = [rfqs EXCEPT ![r] = rfq],
         rfq.seller = rfqs[r].seller, rfq.lotAmount = rfqs[r].lotAmount,
         rfq.quoteCap = rfqs[r].quoteCap, rfq.status \notin {"OPEN", "SETTLED"},
         rfqs[r].seller \notin participated[r],
         UNCHANGED <<participated, claimed, fxrp, usdt0>>
  PROVE  Promise!Refund(r)
<1>1. rfqs'[r] = rfq /\ \A q \in RfqIds \ {r} : rfqs'[q] = rfqs[q]
  BY DEF TypeOK
<1>2. phaseOf(r) = "open" /\ phaseOf(r)' = "closed"
  BY <1>1 DEF phaseOf, Exists, IsOpen
<1>3. \A a \in Accounts :
        /\ Locked(a, r)' = Locked(a, r)
        /\ Entitlement(r, a)' = Locked(a, r)
  BY <1>1 DEF Entitlement, Locked, depositedFxrp
<1>4. \A q \in RfqIds \ {r} :
        /\ phaseOf(q)' = phaseOf(q)
        /\ \A a \in Accounts : Locked(a, q)' = Locked(a, q)
        /\ \A a \in Accounts : Entitlement(q, a)' = Entitlement(q, a)
  BY <1>1, SameBooksLookTheSame
<1>5. [q \in RfqIds |-> phaseOf(q)]' = [[q \in RfqIds |-> phaseOf(q)] EXCEPT ![r] = "closed"]
  BY <1>2, <1>4
<1>6. [q \in RfqIds |-> [a \in Accounts |-> Locked(a, q)]]'
        = [q \in RfqIds |-> [a \in Accounts |-> Locked(a, q)]]
  BY <1>3, <1>4
<1>7. [q \in RfqIds |-> [a \in Accounts |-> Entitlement(q, a)]]'
        = [[q \in RfqIds |-> [a \in Accounts |-> Entitlement(q, a)]]
             EXCEPT ![r] = [a \in Accounts |-> Locked(a, r)]]
  BY <1>3, <1>4
<1>8. QED
  BY <1>2, <1>5, <1>6, <1>7 DEF Promise!Refund, Promise!Close

\* cancelRfq and timeoutRfq refund.
LEMMA AbandoningRefunds ==
  ASSUME ContractInv, NEW r \in RfqIds,
         TimeoutRfq(r) \/ (\E sender \in Accounts : CancelRfq(sender, r))
  PROVE  Promise!Refund(r)
<1>1. TypeOK /\ IsOpen(r) /\ rfqs[r] \in Rfq
  BY DEF ContractInv, TimeoutRfq, CanTimeoutRfq, CancelRfq, TypeOK
<1>2. PICK status \in {"CANCELLED", "TIMED_OUT"} :
        rfqs' = [rfqs EXCEPT ![r] = [rfqs[r] EXCEPT !.status = status]]
  <2>1. PICK status \in {"CANCELLED", "TIMED_OUT"} : rfqs' = [rfqs EXCEPT ![r].status = status]
    BY DEF TimeoutRfq, CancelRfq
  <2>2. QED
    BY <2>1
<1>3. UNCHANGED <<participated, claimed, fxrp, usdt0>>
  BY DEF TimeoutRfq, CancelRfq, bookVars, claimVars, tokenVars
<1> DEFINE rfq == [rfqs[r] EXCEPT !.status = status]
<1>4. rfq \in Rfq
  BY <1>1, StatusUpdateIsTyped DEF Status
<1>5. /\ rfq.seller = rfqs[r].seller /\ rfq.lotAmount = rfqs[r].lotAmount
      /\ rfq.quoteCap = rfqs[r].quoteCap /\ rfq.status \notin {"OPEN", "SETTLED"}
  BY <1>1 DEF Rfq
<1>6. rfqs[r].seller \notin participated[r]
  BY <1>1 DEF ContractInv, QuotesMatch, IsOpen, Exists
<1>7. rfqs' = [rfqs EXCEPT ![r] = rfq]
  BY <1>2
<1> HIDE DEF rfq
<1>8. QED
  BY <1>1, <1>3, <1>4, <1>5, <1>6, <1>7, ClosingRefunds

\* A result that trades is the abstract trade between the seller and the winner, at its
\* price (settleRfq).
LEMMA SettlingTrades ==
  ASSUME ContractInv, NEW r \in RfqIds, IsOpen(r), NEW rfq \in Rfq,
         rfqs' = [rfqs EXCEPT ![r] = rfq],
         rfq.seller = rfqs[r].seller, rfq.lotAmount = rfqs[r].lotAmount,
         rfq.quoteCap = rfqs[r].quoteCap, rfq.status = "SETTLED",
         rfq.winningProvider \in participated[r], rfq.winningQuote <= rfq.quoteCap,
         UNCHANGED <<participated, claimed, fxrp, usdt0>>
  PROVE  Promise!Trade(r, rfq.seller, rfq.winningProvider, rfq.winningQuote)
<1> DEFINE deposit == [a \in Accounts |-> Locked(a, r)]
<1>1. rfqs'[r] = rfq /\ \A q \in RfqIds \ {r} : rfqs'[q] = rfqs[q]
  BY DEF ContractInv, TypeOK
<1>2. /\ rfq.seller \in Accounts /\ rfq.winningProvider \in Accounts
      /\ rfq.seller \notin participated[r]
      /\ rfq.lotAmount \in Nat /\ rfq.quoteCap \in Nat /\ rfq.winningQuote \in Nat
      /\ rfq.lotAmount > 0
  BY DEF ContractInv, TypeOK, IsOpen, Exists, Rfq, QuotesMatch, BlankOrFunded, Blank, Funded,
    ZeroRfq
<1>3. phaseOf(r) = "open" /\ phaseOf(r)' = "closed"
  BY <1>1 DEF phaseOf, Exists, IsOpen
<1>4. \A a \in Accounts : Locked(a, r)' = Locked(a, r)
  BY <1>1 DEF Locked, depositedFxrp
<1>5. /\ Locked(rfq.seller, r) = [fxrp |-> rfq.lotAmount, usdt0 |-> 0]
      /\ Locked(rfq.winningProvider, r) = [fxrp |-> 0, usdt0 |-> rfq.quoteCap]
  BY <1>2 DEF Locked, depositedFxrp
<1>6. /\ Entitlement(r, rfq.seller)' = [fxrp |-> 0, usdt0 |-> rfq.winningQuote]
      /\ Entitlement(r, rfq.winningProvider)'
           = [fxrp |-> rfq.lotAmount, usdt0 |-> rfq.quoteCap - rfq.winningQuote]
  BY <1>1, <1>2 DEF Entitlement
<1>7. \A a \in Accounts \ {rfq.seller, rfq.winningProvider} :
        Entitlement(r, a)' = Locked(a, r)
  BY <1>1, <1>2 DEF Entitlement, Locked
<1>8. [a \in Accounts |-> Entitlement(r, a)']
        = [deposit EXCEPT
             ![rfq.seller] = [fxrp |-> 0, usdt0 |-> rfq.winningQuote],
             ![rfq.winningProvider] = [fxrp |-> deposit[rfq.seller].fxrp,
                                       usdt0 |-> @.usdt0 - rfq.winningQuote]]
  <2>1. /\ deposit[rfq.seller].fxrp = rfq.lotAmount
        /\ deposit[rfq.winningProvider].usdt0 = rfq.quoteCap
    BY <1>2, <1>5
  <2>2. QED
    BY <1>2, <1>6, <1>7, <2>1
<1>9. \A q \in RfqIds \ {r} :
        /\ phaseOf(q)' = phaseOf(q)
        /\ \A a \in Accounts : Locked(a, q)' = Locked(a, q)
        /\ \A a \in Accounts : Entitlement(q, a)' = Entitlement(q, a)
  BY <1>1, SameBooksLookTheSame
<1>10. [q \in RfqIds |-> phaseOf(q)]' = [[q \in RfqIds |-> phaseOf(q)] EXCEPT ![r] = "closed"]
  BY <1>3, <1>9
<1>11. [q \in RfqIds |-> [a \in Accounts |-> Locked(a, q)]]'
        = [q \in RfqIds |-> [a \in Accounts |-> Locked(a, q)]]
  BY <1>4, <1>9
<1>12. [q \in RfqIds |-> [a \in Accounts |-> Entitlement(q, a)]]'
        = [[q \in RfqIds |-> [a \in Accounts |-> Entitlement(q, a)]]
             EXCEPT ![r] = [a \in Accounts |-> Entitlement(r, a)']]
  BY <1>9
<1>13. [q \in RfqIds |-> [a \in Accounts |-> Locked(a, q)]][r] = deposit
  OBVIOUS
<1>14. /\ rfq.seller # rfq.winningProvider
       /\ deposit[rfq.seller].fxrp > 0
       /\ rfq.winningQuote <= deposit[rfq.winningProvider].usdt0
  BY <1>2, <1>5
<1> HIDE DEF deposit
<1>15. Promise!Close(r, [deposit EXCEPT
             ![rfq.seller] = [fxrp |-> 0, usdt0 |-> rfq.winningQuote],
             ![rfq.winningProvider] = [fxrp |-> deposit[rfq.seller].fxrp,
                                       usdt0 |-> @.usdt0 - rfq.winningQuote]])
  BY <1>3, <1>8, <1>10, <1>11, <1>12 DEF Promise!Close
<1>16. QED
  BY <1>13, <1>14, <1>15 DEF Promise!Trade

\* A delivered result trades or refunds (submitResult).
LEMMA SubmitResultCloses ==
  ASSUME ContractInv, NEW r \in RfqIds, SubmitResult(r)
  PROVE  \/ Promise!Refund(r)
         \/ \E seller, winner \in Accounts, price \in Quotes \ {0} :
              Promise!Trade(r, seller, winner, price)
<1>1. TypeOK /\ IsOpen(r) /\ rfqs[r] \in Rfq
  BY DEF ContractInv, SubmitResult, AwaitsResult, Acceptable, TypeOK
<1>2. PICK result \in Results :
        /\ ValidateResultData(result)
        /\ result.resultType = "TRADE" => TradeAllowed(r, result)
        /\ rfqs' = [rfqs EXCEPT ![r].status = OutcomeStatus(result.resultType),
                                ![r].winningProvider = result.winningProvider,
                                ![r].winningQuote = result.winningQuote]
  BY DEF SubmitResult, AwaitsResult, Acceptable
<1>3. UNCHANGED <<participated, claimed, fxrp, usdt0>>
  BY DEF SubmitResult, bookVars, claimVars, tokenVars
<1> DEFINE rfq == [rfqs[r] EXCEPT !.status = OutcomeStatus(result.resultType),
                                  !.winningProvider = result.winningProvider,
                                  !.winningQuote = result.winningQuote]
<1>4. /\ result.resultType \in ResultType
      /\ OutcomeStatus(result.resultType) \in Status
      /\ result.winningProvider \in Accounts \cup {ZeroAddress}
      /\ result.winningQuote \in Nat /\ result.winningQuote \in Quotes
  BY AmountsAreNaturals DEF Results, OutcomeStatus, Status, ResultType
<1>5. rfq \in Rfq
  BY <1>1, <1>4, OutcomeUpdateIsTyped
<1>6. rfqs' = [rfqs EXCEPT ![r] = rfq]
  BY <1>1, <1>2 DEF TypeOK
<1>7. /\ rfq.seller = rfqs[r].seller /\ rfq.lotAmount = rfqs[r].lotAmount
      /\ rfq.quoteCap = rfqs[r].quoteCap
      /\ rfq.status = OutcomeStatus(result.resultType)
      /\ rfq.winningProvider = result.winningProvider
      /\ rfq.winningQuote = result.winningQuote
  BY <1>1 DEF Rfq
<1>8. /\ rfqs[r].seller \notin participated[r] /\ rfqs[r].seller \in Accounts
      /\ participated[r] \subseteq Accounts
  BY <1>1 DEF ContractInv, QuotesMatch, IsOpen, Exists, Rfq, TypeOK
<1> HIDE DEF rfq
<1>9. CASE result.resultType = "TRADE"
  <2>1. /\ rfq.status = "SETTLED" /\ rfq.winningProvider \in participated[r]
        /\ rfq.winningQuote <= rfq.quoteCap /\ rfq.winningQuote \in Quotes \ {0}
    BY <1>2, <1>4, <1>7, <1>9 DEF OutcomeStatus, TradeAllowed, ValidateResultData
  <2>2. Promise!Trade(r, rfq.seller, rfq.winningProvider, rfq.winningQuote)
    BY <1>1, <1>3, <1>5, <1>6, <1>7, <2>1, SettlingTrades
  <2>3. QED
    BY <1>7, <1>8, <2>1, <2>2
<1>10. CASE result.resultType # "TRADE"
  <2>1. rfq.status \notin {"OPEN", "SETTLED"}
    BY <1>4, <1>7, <1>10 DEF OutcomeStatus, ResultType
  <2>2. QED
    BY <1>1, <1>3, <1>5, <1>6, <1>7, <1>8, <2>1, ClosingRefunds
<1>11. QED
  BY <1>9, <1>10

\* A claim is the abstract withdrawal (claim).
LEMMA ClaimWithdraws ==
  ASSUME ContractInv, NEW r \in RfqIds, NEW sender \in Accounts, Claim(sender, r)
  PROVE  Promise!Withdraw(r, sender)
<1> DEFINE due == Entitlement(r, sender)
<1> USE AddressesDistinct
<1>1. /\ TypeOK /\ sender \notin claimed[r] /\ claimable(r, sender) = due
      /\ due \in [fxrp : Nat, usdt0 : Nat] /\ (due.fxrp # 0 \/ due.usdt0 # 0)
  BY EntitlementIsTyped DEF ContractInv, Claim, CanClaim, claimable
<1>2. UNCHANGED <<rfqs, participated>>
  BY DEF Claim, bookVars
<1>3. rfqs[r].status # "OPEN"
  BY <1>1 DEF Entitlement
<1>4. phaseOf(r) = "closed"
  BY <1>3 DEF ContractInv, BlankOrFunded, Blank, Funded, ZeroRfq, phaseOf
<1>5. /\ [q \in RfqIds |-> phaseOf(q)]' = [q \in RfqIds |-> phaseOf(q)]
      /\ [q \in RfqIds |-> [a \in Accounts |-> Locked(a, q)]]'
           = [q \in RfqIds |-> [a \in Accounts |-> Locked(a, q)]]
      /\ [q \in RfqIds |-> [a \in Accounts |-> Entitlement(q, a)]]'
           = [q \in RfqIds |-> [a \in Accounts |-> Entitlement(q, a)]]
  BY <1>2, SameBooksLookTheSame
<1>6. claimed' = [claimed EXCEPT ![r] = @ \cup {sender}]
  BY DEF Claim, ClaimedBy
<1>7. /\ fxrp'[sender] = fxrp[sender] + due.fxrp
      /\ usdt0'[sender] = usdt0[sender] + due.usdt0
      /\ \A a \in Accounts \ {sender} : fxrp'[a] = fxrp[a] /\ usdt0'[a] = usdt0[a]
  <2>1. fxrp' = Pay(fxrp, sender, due.fxrp) /\ usdt0' = Pay(usdt0, sender, due.usdt0)
    BY <1>1 DEF Claim
  <2> HIDE DEF due
  <2>2. QED
    BY <1>1, <2>1 DEF Pay, TypeOK, Holders
<1>8. [a \in Accounts |-> [fxrp |-> fxrp[a], usdt0 |-> usdt0[a]]]'
        = [[a \in Accounts |-> [fxrp |-> fxrp[a], usdt0 |-> usdt0[a]]]
             EXCEPT ![sender] = Promise!Plus(@, due)]
  <2> HIDE DEF due
  <2>1. Promise!Plus([fxrp |-> fxrp[sender], usdt0 |-> usdt0[sender]], due)
          = [fxrp |-> fxrp'[sender], usdt0 |-> usdt0'[sender]]
    BY <1>7 DEF Promise!Plus
  <2>2. QED
    BY <1>7, <2>1
<1>9. due # Promise!Nothing
  BY <1>1 DEF Promise!Nothing
<1>10. QED
  BY <1>1, <1>4, <1>5, <1>6, <1>8, <1>9 DEF Promise!Withdraw

-----------------------------------------------------------------------------

\* The cap of every request is one that createRfq accepts.
CapsAreAccepted == \A r \in RfqIds : Exists(r) => rfqs[r].quoteCap \in QuoteCaps

\* No handler but createRfq sets a cap.
LEMMA CapsAreAcceptedStep ==
  ContractInv /\ CapsAreAccepted /\ [Next]_vars => CapsAreAccepted'
<1> SUFFICES ASSUME ContractInv, CapsAreAccepted, [Next]_vars, NEW r \in RfqIds, Exists(r)'
             PROVE  rfqs'[r].quoteCap \in QuoteCaps
  BY DEF CapsAreAccepted
<1>1. rfqs[r] \in Rfq
  BY DEF ContractInv, TypeOK
<1>2. CASE Created(r)
  <2>1. PICK seller \in Accounts, lotAmount \in LotAmounts \ {0},
             quoteCap \in QuoteCaps \ {0},
             quoteDeadline \in 0..MaxTime, resolutionDeadline \in 0..MaxTime :
          /\ quoteDeadline \in 1..(resolutionDeadline - 1) /\ resolutionDeadline < MaxTime
          /\ rfqs'[r] = [ZeroRfq EXCEPT !.seller = seller, !.lotAmount = lotAmount,
                                        !.quoteCap = quoteCap, !.quoteDeadline = quoteDeadline,
                                        !.resolutionDeadline = resolutionDeadline]
    BY <1>2, Zenon DEF Created
  <2>2. rfqs'[r].quoteCap = quoteCap
    BY <2>1 DEF ZeroRfq
  <2>3. QED
    BY <2>2
<1>3. CASE SameBooks(r) \/ Quoted(r) \/ Requested(r) \/ Abandoned(r) \/ Resolved(r) \/ Paid(r)
  <2>1. /\ rfqs'[r].seller = rfqs[r].seller /\ rfqs'[r].quoteCap = rfqs[r].quoteCap
    BY <1>1, <1>3 DEF SameBooks, Quoted, Requested, Abandoned, Resolved, Paid, Rfq
  <2>2. QED
    BY <2>1 DEF CapsAreAccepted, Exists
<1>4. QED
  BY <1>2, <1>3, StepOnRequest DEF RequestStep, ContractInv

\* Every transaction of the contract is a step of the abstract escrow, or changes nothing
\* it can see.
LEMMA StepImplements ==
  ContractInv /\ CapsAreAccepted /\ [Next]_vars => [Promise!PromiseNext]_(Promise!escrowVars)
<1> SUFFICES ASSUME ContractInv, CapsAreAccepted, [Next]_vars
             PROVE  Promise!PromiseNext \/ UNCHANGED Promise!escrowVars
  OBVIOUS
<1>1. TypeOK
  BY DEF ContractInv
<1>2. CASE \/ Tick
           \/ \E id \in ExtensionIds : SetExtensionId(id)
           \/ \E sender \in Accounts \cup {Deployer}, signer \in Signers \cup {ZeroAddress} :
                InitializeTeeSigner(sender, signer)
           \/ UNCHANGED vars
  <2>1. /\ rfqs' = rfqs /\ participated' = participated /\ UNCHANGED claimed
        /\ UNCHANGED tokenVars
    BY <1>2 DEF Tick, SetExtensionId, InitializeTeeSigner, vars, bookVars, claimVars
  <2>2. QED
    BY <1>1, <2>1, UnseenSteps
<1>3. ASSUME NEW sender \in Accounts, NEW lotAmount \in LotAmounts, NEW quoteCap \in QuoteCaps,
             NEW quoteDeadline, NEW resolutionDeadline, NEW credited,
             CreateRfq(sender, lotAmount, quoteCap, quoteDeadline, resolutionDeadline, credited)
      PROVE  Promise!PromiseNext
  <2>1. PICK new \in RfqIds : new = nextRfqId
    BY <1>3 DEF CreateRfq, CanCreateRfq
  <2>2. Promise!Open(new, sender, lotAmount)
    BY <1>3, <2>1, CreateRfqOpens
  <2>3. QED
    BY <2>2 DEF Promise!PromiseNext
<1>4. ASSUME NEW r \in RfqIds, NEW sender \in Accounts, NEW credited,
             SubmitQuote(sender, r, credited)
      PROVE  Promise!PromiseNext
  <2>1. rfqs[r].quoteCap \in QuoteCaps
    BY <1>4 DEF CapsAreAccepted, SubmitQuote, CanSubmitQuote, IsOpen
  <2>2. QED
    BY <1>4, <2>1, SubmitQuoteJoins DEF Promise!PromiseNext
<1>5. ASSUME NEW r \in RfqIds,
             TimeoutRfq(r) \/ (\E sender \in Accounts : CancelRfq(sender, r))
      PROVE  Promise!PromiseNext
  <2>1. IsOpen(r) => rfqs[r].seller \in Accounts
    BY <1>1 DEF IsOpen, Exists, TypeOK, Rfq
  <2>2. rfqs[r].seller \in Accounts /\ Promise!Refund(r)
    BY <1>5, <2>1, AbandoningRefunds DEF TimeoutRfq, CanTimeoutRfq, CancelRfq
  <2>3. QED
    BY <2>2 DEF Promise!PromiseNext
<1>6. ASSUME NEW r \in RfqIds, SubmitResult(r)
      PROVE  Promise!PromiseNext
  <2>1. rfqs[r].seller \in Accounts
    BY <1>1, <1>6 DEF SubmitResult, AwaitsResult, Acceptable, IsOpen, Exists, TypeOK, Rfq
  <2>2. \/ Promise!Refund(r)
        \/ \E seller, winner \in Accounts, price \in Quotes \ {0} :
             Promise!Trade(r, seller, winner, price)
    BY <1>6, SubmitResultCloses
  <2>3. QED
    BY <2>1, <2>2 DEF Promise!PromiseNext
<1>7. ASSUME NEW r \in RfqIds, NEW sender \in Accounts, Claim(sender, r)
      PROVE  Promise!PromiseNext
  BY <1>7, ClaimWithdraws DEF Promise!PromiseNext
<1>8. ASSUME NEW r \in RfqIds, NEW fee, NEW answer, RequestResolution(r, fee, answer)
      PROVE  UNCHANGED Promise!escrowVars
  BY <1>1, <1>8, RequestResolutionStutters
<1>9. QED
  BY <1>2, <1>3, <1>4, <1>5, <1>6, <1>7, <1>8 DEF Next

\* Funds leave the contract only as the abstract escrow promises (every handler).
THEOREM ContractImplementsEscrow == Spec => ImplementsEscrow
<1>1. Init => CapsAreAccepted
  BY DEF Init, CapsAreAccepted, Exists, ZeroRfq
<1>2. QED
  BY <1>1, InitImplements, CapsAreAcceptedStep, StepImplements, ContractInvHolds, PTL
    DEF Spec, ImplementsEscrow, Promise!PromiseSpec

-----------------------------------------------------------------------------
(* Sums over finite sets (SumOf). *)

\* The units of f.
LEMMA UnitsOf ==
  ASSUME NEW S, NEW f \in [S -> Nat], NEW u
  PROVE  u \in Units(f) <=> \E x \in S : \E n \in 1..f[x] : u = <<x, n>>
<1>1. u \in Units(f) <=> \E x \in S : u \in {x} \X (1..f[x])
  BY DEF Units
<1>2. ASSUME NEW x PROVE u \in {x} \X (1..f[x]) <=> \E n \in 1..f[x] : u = <<x, n>>
  OBVIOUS
<1>3. QED
  BY <1>1, <1>2

\* A sum over a finite set is a natural.
LEMMA SumIsNatural ==
  ASSUME NEW S, IsFiniteSet(S), NEW f \in [S -> Nat]
  PROVE  IsFiniteSet(Units(f)) /\ SumOf(f) \in Nat
<1> DEFINE share == [x \in S |-> {x} \X (1..f[x])]
           T == {{x} \X (1..f[x]) : x \in S}
<1>1. share \in Surjection(S, T)
  BY DEF Surjection
<1>2. IsFiniteSet(T)
  <2> HIDE DEF share, T
  <2>1. QED
    BY <1>1, FS_Surjection
<1>3. \A x \in S : IsFiniteSet({x} \X (1..f[x]))
  <2>1. ASSUME NEW x \in S PROVE IsFiniteSet({x} \X (1..f[x]))
    <3>1. f[x] \in Nat
      BY <2>1
    <3>2. IsFiniteSet({x})
      BY FS_Singleton
    <3>3. IsFiniteSet(1..f[x])
      BY <3>1, FS_Interval
    <3>4. QED
      BY <3>2, <3>3, FS_Product
  <2>2. QED
    BY <2>1
<1>4. \A t \in T : IsFiniteSet(t)
  BY <1>3
<1>5. IsFiniteSet(UNION T)
  <2> HIDE DEF T
  <2>1. QED
    BY <1>2, <1>4, FS_UNION
<1>6. Units(f) = UNION T
  BY DEF Units
<1>7. QED
  BY <1>5, <1>6, FS_CardinalityType DEF SumOf

\* Changing one value changes the sum by as much.
LEMMA SumChanges ==
  ASSUME NEW S, IsFiniteSet(S), NEW f \in [S -> Nat], NEW g \in [S -> Nat],
         NEW x \in S, \A y \in S \ {x} : g[y] = f[y]
  PROVE  SumOf(g) + f[x] = SumOf(f) + g[x]
<1> DEFINE Part(h) == {x} \X (1..h[x])
<1>1. ASSUME NEW h \in [S -> Nat]
      PROVE  /\ Cardinality(Units(h) \ Part(h)) = SumOf(h) - h[x]
             /\ Units(h) \ Part(h) = UNION {{y} \X (1..h[y]) : y \in S \ {x}}
  <2>1. Units(h) \cap Part(h) = Part(h)
    BY <1>1 DEF Units
  <2>2. Cardinality(Part(h)) = h[x]
    <3>1. h[x] \in Nat
      BY <1>1
    <3>2. IsFiniteSet({x}) /\ Cardinality({x}) = 1
      BY FS_Singleton
    <3>3. IsFiniteSet(1..h[x]) /\ Cardinality(1..h[x]) = h[x]
      BY <3>1, FS_Interval
    <3>4. Cardinality(Part(h)) = Cardinality({x}) * Cardinality(1..h[x])
      BY <3>2, <3>3, FS_Product
    <3>5. QED
      BY <3>1, <3>2, <3>3, <3>4
  <2>3. IsFiniteSet(Units(h))
    BY <1>1, SumIsNatural
  <2>4. Cardinality(Units(h) \ Part(h)) = Cardinality(Units(h)) - Cardinality(Part(h))
    <3> HIDE DEF Part
    <3>1. QED
      BY <2>1, <2>3, FS_Difference
  <2>5. Units(h) \ Part(h) = UNION {{y} \X (1..h[y]) : y \in S \ {x}}
    <3>1. Units(h) = UNION {{y} \X (1..h[y]) : y \in S}
      BY <1>1 DEF Units
    <3>2. \A u : u \in Units(h) \ Part(h)
                   <=> \E y \in S : u \in {y} \X (1..h[y]) /\ u \notin {x} \X (1..h[x])
      BY <3>1
    <3>3. \A u : \A y \in S : u \in {y} \X (1..h[y]) /\ u \notin {x} \X (1..h[x])
                            <=> y # x /\ u \in {y} \X (1..h[y])
      OBVIOUS
    <3>4. QED
      BY <3>2, <3>3
  <2>6. QED
    BY <2>2, <2>4, <2>5 DEF SumOf
<1>2. UNION {{y} \X (1..f[y]) : y \in S \ {x}} = UNION {{y} \X (1..g[y]) : y \in S \ {x}}
  OBVIOUS
<1>3. SumOf(f) - f[x] = SumOf(g) - g[x]
  BY <1>1, <1>2
<1>4. QED
  BY <1>3, SumIsNatural

\* A sum of zeros is zero.
LEMMA SumOfZeros ==
  ASSUME NEW S, NEW f \in [S -> Nat], \A x \in S : f[x] = 0
  PROVE  SumOf(f) = 0
<1>1. Units(f) = {}
  BY UnitsOf
<1>2. QED
  BY <1>1, FS_EmptySet DEF SumOf

\* No value exceeds the sum.
LEMMA SumBoundsEach ==
  ASSUME NEW S, IsFiniteSet(S), NEW f \in [S -> Nat], NEW x \in S
  PROVE  f[x] <= SumOf(f)
<1> DEFINE g == [f EXCEPT ![x] = 0]
<1>1. g \in [S -> Nat] /\ g[x] = 0 /\ \A y \in S \ {x} : g[y] = f[y]
  OBVIOUS
<1> HIDE DEF g
<1>2. SumOf(g) + f[x] = SumOf(f) + 0
  BY <1>1, SumChanges
<1>3. SumOf(g) \in Nat /\ SumOf(f) \in Nat /\ f[x] \in Nat
  BY <1>1, SumIsNatural
<1>4. QED
  BY <1>2, <1>3

\* The same value for each member of P and nothing for the others.
LEMMA SumOfEqualShares ==
  ASSUME NEW S, IsFiniteSet(S), NEW P \in SUBSET S, NEW c \in Nat
  PROVE  SumOf([x \in S |-> IF x \in P THEN c ELSE 0]) = Cardinality(P) * c
<1> DEFINE f == [x \in S |-> IF x \in P THEN c ELSE 0]
<1>1. f \in [S -> Nat]
  OBVIOUS
<1>2. \A x \in S : {x} \X (1..f[x]) = IF x \in P THEN {x} \X (1..c) ELSE {}
  OBVIOUS
<1>3. Units(f) = P \X (1..c)
  <2>1. \A u : u \in Units(f) <=> \E x \in S : u \in {x} \X (1..f[x])
    BY DEF Units
  <2>2. QED
    BY <1>2, <2>1
<1>4. IsFiniteSet(P)
  BY FS_Subset
<1>5. IsFiniteSet(1..c) /\ Cardinality(1..c) = c
  BY FS_Interval
<1>6. QED
  BY <1>3, <1>4, <1>5, FS_Product DEF SumOf

\* One value alone, next to zeros.
LEMMA SumOfOne ==
  ASSUME NEW S, IsFiniteSet(S), NEW f \in [S -> Nat], NEW x \in S,
         \A y \in S \ {x} : f[y] = 0
  PROVE  SumOf(f) = f[x]
<1> DEFINE zero == [y \in S |-> 0]
<1>1. /\ zero \in [S -> Nat] /\ zero[x] = 0 /\ (\A y \in S : zero[y] = 0)
      /\ \A y \in S \ {x} : zero[y] = f[y]
  OBVIOUS
<1> HIDE DEF zero
<1>2. SumOf(zero) = 0
  BY <1>1, SumOfZeros
<1>3. SumOf(zero) + f[x] = SumOf(f) + zero[x]
  BY <1>1, SumChanges
<1>4. QED
  BY <1>1, <1>2, <1>3, SumIsNatural

\* Smaller values have a smaller sum.
LEMMA SumIsMonotone ==
  ASSUME NEW S, IsFiniteSet(S), NEW f \in [S -> Nat], NEW g \in [S -> Nat],
         \A x \in S : f[x] <= g[x]
  PROVE  SumOf(f) <= SumOf(g)
<1>1. Units(f) \subseteq Units(g)
  <2>1. ASSUME NEW x \in S, NEW n \in 1..f[x] PROVE n \in 1..g[x]
    <3>1. f[x] \in Nat /\ g[x] \in Nat /\ f[x] <= g[x]
      OBVIOUS
    <3>2. QED
      BY <3>1
  <2>2. QED
    BY <2>1, UnitsOf
<1>2. IsFiniteSet(Units(g))
  BY SumIsNatural
<1>3. QED
  BY <1>1, <1>2, FS_Subset DEF SumOf

-----------------------------------------------------------------------------
(* The invariant of the books. *)

\* Each participant has one seat in the list that accounting counts.
SeatsAreCounted == \A r \in RfqIds : Cardinality(participated[r]) = Len(providers[r])

\* Nothing is paid out of an open request.
OpenIsUnclaimed ==
  \A r \in RfqIds : rfqs[r].status = "OPEN" =>
    claimed[r] = {} /\ claimedFxrp[r] = 0 /\ claimedUsdt0[r] = 0

BooksInv ==
  /\ SeatsAreCounted
  /\ OpenIsUnclaimed
  /\ EntitlementsExhaustDeposits
  /\ EscrowBacksDeposits
  /\ PositionsFollowOutcomes

\* Each id takes part in finite sums.
LEMMA RfqIdsAreFinite == IsFiniteSet(RfqIds)
BY LimitsAreNaturals, FS_Interval DEF RfqIds

\* The amounts the books add up are naturals (accounting, claimable).
LEMMA AmountsAreTyped ==
  ASSUME ContractInv, NEW a \in Accounts
  PROVE  /\ [r \in RfqIds |-> depositedFxrp(r)] \in [RfqIds -> Nat]
         /\ [r \in RfqIds |-> depositedUsdt0(r)] \in [RfqIds -> Nat]
         /\ [r \in RfqIds |-> Locked(a, r).fxrp] \in [RfqIds -> Nat]
         /\ [r \in RfqIds |-> Locked(a, r).usdt0] \in [RfqIds -> Nat]
         /\ [r \in RfqIds |-> Received(a, r).fxrp] \in [RfqIds -> Nat]
         /\ [r \in RfqIds |-> Received(a, r).usdt0] \in [RfqIds -> Nat]
         /\ \A r \in RfqIds :
              /\ [b \in Accounts |-> claimable(r, b).fxrp] \in [Accounts -> Nat]
              /\ [b \in Accounts |-> claimable(r, b).usdt0] \in [Accounts -> Nat]
<1>1. TypeOK /\ SettledIsATrade
  BY DEF ContractInv
<1>2. \A r \in RfqIds : depositedFxrp(r) \in Nat /\ depositedUsdt0(r) \in Nat
  <2>1. ASSUME NEW r \in RfqIds PROVE depositedFxrp(r) \in Nat /\ depositedUsdt0(r) \in Nat
    <3>1. /\ rfqs[r].lotAmount \in Nat /\ rfqs[r].quoteCap \in Nat
          /\ Len(providers[r]) \in Nat
      BY <1>1 DEF TypeOK, Rfq
    <3>2. QED
      BY <3>1 DEF depositedFxrp, depositedUsdt0
  <2>2. QED
    BY <2>1
<1>3. \A r \in RfqIds : Locked(a, r).fxrp \in Nat /\ Locked(a, r).usdt0 \in Nat
  BY <1>1, <1>2 DEF Locked, TypeOK, Rfq
<1>4. \A r \in RfqIds : Received(a, r).fxrp \in Nat /\ Received(a, r).usdt0 \in Nat
  BY <1>1, EntitlementIsTyped DEF Received
<1>5. \A r \in RfqIds, b \in Accounts :
        claimable(r, b).fxrp \in Nat /\ claimable(r, b).usdt0 \in Nat
  BY <1>1, EntitlementIsTyped
<1>6. QED
  BY <1>2, <1>3, <1>4, <1>5

\* An unused id has nothing deposited, locked, received or to claim.
LEMMA BlankHoldsNothing ==
  ASSUME NEW r \in RfqIds, Blank(r), NEW a \in Accounts
  PROVE  /\ depositedFxrp(r) = 0 /\ depositedUsdt0(r) = 0
         /\ Locked(a, r) = [fxrp |-> 0, usdt0 |-> 0]
         /\ Received(a, r) = [fxrp |-> 0, usdt0 |-> 0]
         /\ claimable(r, a) = [fxrp |-> 0, usdt0 |-> 0]
<1> USE AddressesDistinct DEF Blank, ZeroRfq
<1>1. depositedFxrp(r) = 0
  BY DEF depositedFxrp
<1>2. depositedUsdt0(r) = 0
  BY DEF depositedUsdt0
<1>3. Locked(a, r) = [fxrp |-> 0, usdt0 |-> 0]
  BY <1>1 DEF Locked
<1>4. /\ Received(a, r) = [fxrp |-> 0, usdt0 |-> 0]
      /\ claimable(r, a) = [fxrp |-> 0, usdt0 |-> 0]
  BY DEF Received, claimable, Entitlement
<1>5. QED
  BY <1>1, <1>2, <1>3, <1>4

\* Books in which no request was ever created, next to untouched balances, balance.
LEMMA EmptyBooksBalance ==
  ASSUME ContractInv, \A r \in RfqIds : Blank(r),
         \A r \in RfqIds : claimedFxrp[r] = 0 /\ claimedUsdt0[r] = 0,
         fxrp = [h \in Holders |-> IF h = Escrow THEN 0 ELSE InitialBalance],
         usdt0 = [h \in Holders |-> IF h = Escrow THEN 0 ELSE InitialBalance]
  PROVE  BooksInv
<1>1. ContractInv
  OBVIOUS
<1>2. \A r \in RfqIds : Blank(r) /\ rfqs[r].status = "OPEN"
  BY DEF Blank, ZeroRfq
<1>3. /\ claimedFxrp \in [RfqIds -> Nat] /\ claimedUsdt0 \in [RfqIds -> Nat]
      /\ \A r \in RfqIds : claimedFxrp[r] = 0 /\ claimedUsdt0[r] = 0
  BY DEF ContractInv, TypeOK
<1>4. SeatsAreCounted
  <2>1. Cardinality({}) = 0 /\ Len(<<>>) = 0
    BY FS_EmptySet
  <2>2. QED
    BY <1>2, <2>1 DEF SeatsAreCounted, Blank
<1>5. OpenIsUnclaimed /\ EntitlementsExhaustDeposits
  BY <1>2, <1>3 DEF OpenIsUnclaimed, EntitlementsExhaustDeposits, Blank
<1>6. EscrowBacksDeposits
  <2>1. SumOf(claimedFxrp) = 0 /\ SumOf(claimedUsdt0) = 0
    BY <1>3, SumOfZeros
  <2>2. \A r \in RfqIds : depositedFxrp(r) = 0 /\ depositedUsdt0(r) = 0
    BY <1>2 DEF depositedFxrp, depositedUsdt0, Blank, ZeroRfq
  <2>3. /\ SumOf([r \in RfqIds |-> depositedFxrp(r)]) = 0
        /\ SumOf([r \in RfqIds |-> depositedUsdt0(r)]) = 0
    <3> DEFINE f == [r \in RfqIds |-> depositedFxrp(r)]
               u == [r \in RfqIds |-> depositedUsdt0(r)]
    <3>1. f \in [RfqIds -> Nat] /\ u \in [RfqIds -> Nat] /\ \A r \in RfqIds : f[r] = 0 /\ u[r] = 0
      BY <2>2
    <3> HIDE DEF f, u
    <3>2. SumOf(f) = 0 /\ SumOf(u) = 0
      BY <3>1, SumOfZeros
    <3>3. QED
      BY <3>2 DEF f, u
  <2>4. fxrp[Escrow] = 0 /\ usdt0[Escrow] = 0
    BY DEF Holders
  <2>5. QED
    BY <2>1, <2>3, <2>4 DEF EscrowBacksDeposits
<1>7. PositionsFollowOutcomes
  <2> SUFFICES ASSUME NEW a \in Accounts
               PROVE  /\ fxrp[a] + SumOf([r \in RfqIds |-> Locked(a, r).fxrp])
                           = InitialBalance + SumOf([r \in RfqIds |-> Received(a, r).fxrp])
                      /\ usdt0[a] + SumOf([r \in RfqIds |-> Locked(a, r).usdt0])
                           = InitialBalance + SumOf([r \in RfqIds |-> Received(a, r).usdt0])
    BY DEF PositionsFollowOutcomes
  <2> DEFINE lf == [r \in RfqIds |-> Locked(a, r).fxrp]
             lu == [r \in RfqIds |-> Locked(a, r).usdt0]
             rf == [r \in RfqIds |-> Received(a, r).fxrp]
             ru == [r \in RfqIds |-> Received(a, r).usdt0]
  <2>1. /\ lf \in [RfqIds -> Nat] /\ lu \in [RfqIds -> Nat]
        /\ rf \in [RfqIds -> Nat] /\ ru \in [RfqIds -> Nat]
    BY <1>1, AmountsAreTyped
  <2>2. \A r \in RfqIds : lf[r] = 0 /\ lu[r] = 0 /\ rf[r] = 0 /\ ru[r] = 0
    BY <1>2, BlankHoldsNothing
  <2> HIDE DEF lf, lu, rf, ru
  <2>3. SumOf(lf) = 0 /\ SumOf(lu) = 0 /\ SumOf(rf) = 0 /\ SumOf(ru) = 0
    BY <2>1, <2>2, SumOfZeros
  <2>4. fxrp[a] = InitialBalance /\ usdt0[a] = InitialBalance
    BY AddressesDistinct DEF Holders
  <2>5. QED
    BY <2>3, <2>4 DEF lf, lu, rf, ru
<1>8. QED
  BY <1>4, <1>5, <1>6, <1>7 DEF BooksInv

\* The books of a freshly deployed contract balance.
LEMMA BooksBalanceInitially == Init => BooksInv
<1> SUFFICES ASSUME Init PROVE BooksInv
  OBVIOUS
<1>1. \A r \in RfqIds : Blank(r)
  BY DEF Init, Blank
<1>2. \A r \in RfqIds : claimedFxrp[r] = 0 /\ claimedUsdt0[r] = 0
  BY DEF Init
<1>3. QED
  BY <1>1, <1>2, ContractInvHoldsInitially, EmptyBooksBalance DEF Init

-----------------------------------------------------------------------------
(* What each transaction does to the books. *)

\* A step that moves no tokens and leaves terms, quotes and claims alone.
Quiet ==
  /\ UNCHANGED <<fxrp, usdt0, participated, providers, claimed, claimedFxrp, claimedUsdt0>>
  /\ \A r \in RfqIds : KeepsTerms(r)

\* Only createRfq, submitQuote and claim touch the books.
LEMMA QuietUnlessFundsMove ==
  ASSUME ContractInv, [Next]_vars
  PROVE  \/ Quiet
         \/ \E r \in RfqIds, sender \in Accounts :
              \/ \E lotAmount \in LotAmounts, quoteCap \in QuoteCaps, quoteDeadline \in 0..MaxTime,
                    resolutionDeadline \in 0..MaxTime, credited \in Int :
                   /\ r = nextRfqId
                   /\ CreateRfq(sender, lotAmount, quoteCap, quoteDeadline, resolutionDeadline,
                                credited)
              \/ \E credited \in Int : SubmitQuote(sender, r, credited)
              \/ Claim(sender, r)
<1>1. TypeOK
  BY DEF ContractInv
<1> USE DEF Quiet, bookVars, claimVars, tokenVars
<1>2. CASE \/ Tick \/ UNCHANGED vars
           \/ \E id \in ExtensionIds : SetExtensionId(id)
           \/ \E sender \in Accounts \cup {Deployer}, signer \in Signers \cup {ZeroAddress} :
                InitializeTeeSigner(sender, signer)
  BY <1>2 DEF Tick, SetExtensionId, InitializeTeeSigner, vars, KeepsTerms
<1>3. ASSUME NEW r \in RfqIds,
             \/ \E sender \in Accounts : CancelRfq(sender, r)
             \/ \E fee \in InstructionFees,
                   answer \in RemoteActionIds \cup {NoActionId, RegistryReverted} :
                  RequestResolution(r, fee, answer)
             \/ TimeoutRfq(r)
             \/ SubmitResult(r)
      PROVE  Quiet
  <2>1. UNCHANGED <<fxrp, usdt0, participated, providers, claimed, claimedFxrp, claimedUsdt0>>
    BY <1>3 DEF CancelRfq, RequestResolution, TimeoutRfq, SubmitResult
  <2>2. nextRfqId' = nextRfqId
    BY <1>3 DEF CancelRfq, RequestResolution, TimeoutRfq, SubmitResult
  <2>3. \A q \in RfqIds : ~Created(q)
    <3>1. nextRfqId \in Int
      BY <1>1, LimitsAreNaturals DEF TypeOK
    <3>2. \A q \in RfqIds : Created(q) => nextRfqId' = nextRfqId + 1
      BY Zenon DEF Created
    <3>3. QED
      BY <2>2, <3>1, <3>2
  <2>4. \A q \in RfqIds : KeepsTerms(q)
    BY <1>1, <2>3, StepOnRequest, TermsAreKept DEF RequestStep
  <2>5. QED
    BY <2>1, <2>4
<1>4. ASSUME NEW sender \in Accounts, NEW lotAmount \in LotAmounts, NEW quoteCap \in QuoteCaps,
             NEW quoteDeadline \in 0..MaxTime, NEW resolutionDeadline \in 0..MaxTime,
             NEW credited \in Credits(lotAmount),
             CreateRfq(sender, lotAmount, quoteCap, quoteDeadline, resolutionDeadline, credited)
      PROVE  /\ nextRfqId \in RfqIds /\ credited \in Int
  BY <1>4, AmountsAreNaturals DEF CreateRfq, CanCreateRfq, Credits
<1>5. ASSUME NEW r \in RfqIds, NEW credited \in Credits(rfqs[r].quoteCap)
      PROVE  credited \in Int
  BY <1>1 DEF Credits, TypeOK, Rfq
<1> HIDE DEF Quiet
<1>6. QED
  BY <1>2, <1>3, <1>4, <1>5 DEF Next

\* createRfq moves the lot from the seller to the escrow and opens the next id.
LEMMA CreateRfqBooks ==
  ASSUME ContractInv, NEW new \in RfqIds, new = nextRfqId, NEW sender \in Accounts,
         NEW lotAmount \in LotAmounts, NEW quoteCap \in QuoteCaps, NEW quoteDeadline,
         NEW resolutionDeadline, NEW credited,
         CreateRfq(sender, lotAmount, quoteCap, quoteDeadline, resolutionDeadline, credited)
  PROVE  /\ Blank(new)
         /\ UNCHANGED <<usdt0, participated, providers, claimed, claimedFxrp, claimedUsdt0>>
         /\ \A r \in RfqIds \ {new} : rfqs'[r] = rfqs[r]
         /\ rfqs'[new].seller = sender /\ rfqs'[new].lotAmount = lotAmount
         /\ rfqs'[new].status = "OPEN"
         /\ fxrp'[Escrow] = fxrp[Escrow] + lotAmount
         /\ fxrp'[sender] = fxrp[sender] - lotAmount
         /\ \A a \in Accounts \ {sender} : fxrp'[a] = fxrp[a]
<1> USE AddressesDistinct
<1>1. TypeOK /\ lotAmount \in Nat
  BY AmountsAreNaturals DEF ContractInv
<1>2. Blank(new)
  BY <1>1 DEF ContractInv, BlankOrFunded, Funded, RfqIds
<1>3. rfqs' = [rfqs EXCEPT ![new] = [ZeroRfq EXCEPT !.seller = sender, !.lotAmount = lotAmount,
                             !.quoteCap = quoteCap, !.quoteDeadline = quoteDeadline,
                             !.resolutionDeadline = resolutionDeadline]]
  BY DEF CreateRfq
<1>4. /\ rfqs'[new].seller = sender /\ rfqs'[new].lotAmount = lotAmount
      /\ rfqs'[new].status = "OPEN"
  BY <1>1, <1>3 DEF TypeOK, ZeroRfq
<1>5. \A r \in RfqIds \ {new} : rfqs'[r] = rfqs[r]
  BY <1>1, <1>3 DEF TypeOK
<1>6. fxrp' = Pull(fxrp, sender, lotAmount, lotAmount)
  BY DEF CreateRfq, CanCreateRfq, PulledExactly
<1>7. /\ fxrp'[Escrow] = fxrp[Escrow] + lotAmount
      /\ fxrp'[sender] = fxrp[sender] - lotAmount
      /\ \A a \in Accounts \ {sender} : fxrp'[a] = fxrp[a]
  BY <1>1, <1>6 DEF Pull, TypeOK, Holders
<1>8. UNCHANGED <<usdt0, participated, providers, claimed, claimedFxrp, claimedUsdt0>>
  BY DEF CreateRfq, bookVars, claimVars
<1>9. QED
  BY <1>2, <1>4, <1>5, <1>7, <1>8

\* submitQuote moves the cap from the provider to the escrow and seats it.
LEMMA SubmitQuoteBooks ==
  ASSUME ContractInv, NEW r \in RfqIds, NEW sender \in Accounts, NEW credited,
         SubmitQuote(sender, r, credited)
  PROVE  /\ IsOpen(r) /\ sender \notin participated[r]
         /\ UNCHANGED <<rfqs, fxrp, claimed, claimedFxrp, claimedUsdt0>>
         /\ participated'[r] = participated[r] \cup {sender}
         /\ Len(providers'[r]) = Len(providers[r]) + 1
         /\ \A q \in RfqIds \ {r} :
              participated'[q] = participated[q] /\ providers'[q] = providers[q]
         /\ usdt0'[Escrow] = usdt0[Escrow] + rfqs[r].quoteCap
         /\ usdt0'[sender] = usdt0[sender] - rfqs[r].quoteCap
         /\ \A a \in Accounts \ {sender} : usdt0'[a] = usdt0[a]
<1> USE AddressesDistinct
<1> DEFINE cap == rfqs[r].quoteCap
<1>1. TypeOK /\ cap \in Nat
  BY DEF ContractInv, TypeOK, Rfq
<1>2. usdt0' = Pull(usdt0, sender, cap, cap)
  BY DEF SubmitQuote, CanSubmitQuote, PulledExactly
<1>3. /\ usdt0'[Escrow] = usdt0[Escrow] + cap
      /\ usdt0'[sender] = usdt0[sender] - cap
      /\ \A a \in Accounts \ {sender} : usdt0'[a] = usdt0[a]
  <2> HIDE DEF cap
  <2>1. QED
    BY <1>1, <1>2 DEF Pull, TypeOK, Holders
<1>4. /\ participated'[r] = participated[r] \cup {sender}
      /\ providers'[r] = Append(providers[r], sender)
      /\ \A q \in RfqIds \ {r} :
           participated'[q] = participated[q] /\ providers'[q] = providers[q]
  BY <1>1 DEF SubmitQuote, TypeOK
<1>5. Len(providers'[r]) = Len(providers[r]) + 1
  BY <1>1, <1>4 DEF TypeOK
<1>6. /\ IsOpen(r) /\ sender \notin participated[r]
      /\ UNCHANGED <<rfqs, fxrp, claimed, claimedFxrp, claimedUsdt0>>
  BY DEF SubmitQuote, CanSubmitQuote, claimVars
<1>7. QED
  BY <1>3, <1>4, <1>5, <1>6

\* claim moves what is due from the escrow to its caller, and marks it.
LEMMA ClaimBooks ==
  ASSUME ContractInv, NEW r \in RfqIds, NEW sender \in Accounts, Claim(sender, r)
  PROVE  LET due == claimable(r, sender)
         IN  /\ rfqs[r].status # "OPEN" /\ sender \notin claimed[r]
             /\ due = Entitlement(r, sender) /\ due.fxrp \in Nat /\ due.usdt0 \in Nat
             /\ UNCHANGED <<rfqs, participated, providers>>
             /\ claimed'[r] = claimed[r] \cup {sender}
             /\ claimedFxrp'[r] = claimedFxrp[r] + due.fxrp
             /\ claimedUsdt0'[r] = claimedUsdt0[r] + due.usdt0
             /\ \A q \in RfqIds \ {r} :
                  /\ claimed'[q] = claimed[q]
                  /\ claimedFxrp'[q] = claimedFxrp[q] /\ claimedUsdt0'[q] = claimedUsdt0[q]
             /\ fxrp'[Escrow] = fxrp[Escrow] - due.fxrp
             /\ usdt0'[Escrow] = usdt0[Escrow] - due.usdt0
             /\ fxrp'[sender] = fxrp[sender] + due.fxrp
             /\ usdt0'[sender] = usdt0[sender] + due.usdt0
             /\ \A a \in Accounts \ {sender} : fxrp'[a] = fxrp[a] /\ usdt0'[a] = usdt0[a]
<1> USE AddressesDistinct
<1> DEFINE due == claimable(r, sender)
<1>1. TypeOK /\ due.fxrp \in Nat /\ due.usdt0 \in Nat
  BY EntitlementIsTyped DEF ContractInv
<1>2. /\ sender \notin claimed[r] /\ (due.fxrp # 0 \/ due.usdt0 # 0)
      /\ claimed' = [claimed EXCEPT ![r] = @ \cup {sender}]
      /\ claimedFxrp' = [claimedFxrp EXCEPT ![r] = @ + due.fxrp]
      /\ claimedUsdt0' = [claimedUsdt0 EXCEPT ![r] = @ + due.usdt0]
      /\ fxrp' = Pay(fxrp, sender, due.fxrp) /\ usdt0' = Pay(usdt0, sender, due.usdt0)
      /\ UNCHANGED <<rfqs, participated, providers>>
  BY DEF Claim, CanClaim, ClaimedBy, bookVars
<1>3. due = Entitlement(r, sender)
  BY <1>2 DEF claimable
<1>4. rfqs[r].status # "OPEN"
  BY <1>2, <1>3 DEF Entitlement
<1> HIDE DEF due
<1>5. /\ claimed'[r] = claimed[r] \cup {sender}
      /\ claimedFxrp'[r] = claimedFxrp[r] + due.fxrp
      /\ claimedUsdt0'[r] = claimedUsdt0[r] + due.usdt0
      /\ \A q \in RfqIds \ {r} :
           /\ claimed'[q] = claimed[q]
           /\ claimedFxrp'[q] = claimedFxrp[q] /\ claimedUsdt0'[q] = claimedUsdt0[q]
  BY <1>1, <1>2 DEF TypeOK
<1>6. /\ fxrp'[Escrow] = fxrp[Escrow] - due.fxrp
      /\ usdt0'[Escrow] = usdt0[Escrow] - due.usdt0
      /\ fxrp'[sender] = fxrp[sender] + due.fxrp
      /\ usdt0'[sender] = usdt0[sender] + due.usdt0
      /\ \A a \in Accounts \ {sender} : fxrp'[a] = fxrp[a] /\ usdt0'[a] = usdt0[a]
  BY <1>1, <1>2 DEF Pay, TypeOK, Holders
<1>7. QED
  BY <1>1, <1>2, <1>3, <1>4, <1>5, <1>6 DEF due

\* What a step does to the claims of one request: nothing, or one more of them.
LEMMA ClaimsAdd ==
  ASSUME ContractInv, [Next]_vars, NEW r \in RfqIds
  PROVE  \/ /\ claimed'[r] = claimed[r]
            /\ claimedFxrp'[r] = claimedFxrp[r] /\ claimedUsdt0'[r] = claimedUsdt0[r]
         \/ \E sender \in Accounts \ claimed[r] :
              /\ rfqs[r].status # "OPEN" /\ rfqs' = rfqs /\ participated' = participated
              /\ claimed'[r] = claimed[r] \cup {sender}
              /\ claimedFxrp'[r] = claimedFxrp[r] + claimable(r, sender).fxrp
              /\ claimedUsdt0'[r] = claimedUsdt0[r] + claimable(r, sender).usdt0
<1>1. CASE Quiet
  BY <1>1 DEF Quiet
<1>2. ASSUME NEW q \in RfqIds, NEW sender \in Accounts, Claim(sender, q)
      PROVE  \/ /\ claimed'[r] = claimed[r]
                /\ claimedFxrp'[r] = claimedFxrp[r] /\ claimedUsdt0'[r] = claimedUsdt0[r]
             \/ /\ sender \notin claimed[r]
                /\ rfqs[r].status # "OPEN" /\ rfqs' = rfqs /\ participated' = participated
                /\ claimed'[r] = claimed[r] \cup {sender}
                /\ claimedFxrp'[r] = claimedFxrp[r] + claimable(r, sender).fxrp
                /\ claimedUsdt0'[r] = claimedUsdt0[r] + claimable(r, sender).usdt0
  <2>1. CASE q = r
    BY <1>2, <2>1, ClaimBooks, Zenon
  <2>2. CASE q # r
    BY <1>2, <2>2, ClaimBooks
  <2>3. QED
    BY <2>1, <2>2
<1>3. ASSUME NEW q \in RfqIds, NEW sender \in Accounts,
             \/ \E lotAmount \in LotAmounts, quoteCap \in QuoteCaps, quoteDeadline \in 0..MaxTime,
                   resolutionDeadline \in 0..MaxTime, credited \in Int :
                  CreateRfq(sender, lotAmount, quoteCap, quoteDeadline, resolutionDeadline,
                            credited)
             \/ \E credited \in Int : SubmitQuote(sender, q, credited)
      PROVE  /\ claimed'[r] = claimed[r]
             /\ claimedFxrp'[r] = claimedFxrp[r] /\ claimedUsdt0'[r] = claimedUsdt0[r]
  BY <1>3 DEF CreateRfq, SubmitQuote, claimVars
<1>4. QED
  BY <1>1, <1>2, <1>3, QuietUnlessFundsMove

-----------------------------------------------------------------------------
(* Every step keeps the books. *)

\* Every step keeps: one seat for each participant.
LEMMA SeatsAreCountedStep ==
  ContractInv /\ SeatsAreCounted /\ [Next]_vars => SeatsAreCounted'
<1> SUFFICES ASSUME ContractInv, SeatsAreCounted, [Next]_vars, NEW r \in RfqIds
             PROVE  Cardinality(participated'[r]) = Len(providers'[r])
  BY DEF SeatsAreCounted
<1>1. Cardinality(participated[r]) = Len(providers[r])
  BY DEF SeatsAreCounted
<1>2. TypeOK
  BY DEF ContractInv
<1>3. CASE SameQuotes(r)
  BY <1>1, <1>3 DEF SameQuotes
<1>4. CASE Quoted(r)
  <2>1. PICK sender \in Accounts \ participated[r] :
          /\ participated'[r] = participated[r] \cup {sender}
          /\ providers'[r] = Append(providers[r], sender)
    BY <1>4 DEF Quoted
  <2>2. IsFiniteSet(participated[r])
    BY <1>2, AddressesAreFinite, FS_Subset DEF TypeOK
  <2>3. Cardinality(participated'[r]) = Cardinality(participated[r]) + 1
    BY <2>1, <2>2, FS_AddElement
  <2>4. Len(providers'[r]) = Len(providers[r]) + 1
    BY <1>2, <2>1 DEF TypeOK
  <2>5. QED
    BY <1>1, <2>3, <2>4
<1>5. QED
  BY <1>2, <1>3, <1>4, StepOnRequest
    DEF RequestStep, SameBooks, Created, Requested, Abandoned, Resolved, Paid

\* Every step keeps: nothing is paid out of an open request.
LEMMA OpenIsUnclaimedStep ==
  ContractInv /\ OpenIsUnclaimed /\ [Next]_vars => OpenIsUnclaimed'
<1> SUFFICES ASSUME ContractInv, OpenIsUnclaimed, [Next]_vars, NEW r \in RfqIds,
                    rfqs'[r].status = "OPEN"
             PROVE  claimed'[r] = {} /\ claimedFxrp'[r] = 0 /\ claimedUsdt0'[r] = 0
  BY DEF OpenIsUnclaimed
<1>1. TypeOK /\ BlankOrFunded
  BY DEF ContractInv
<1>2. rfqs[r].status = "OPEN"
  <2>1. ASSUME rfqs[r].status # "OPEN" PROVE FALSE
    <3>1. SameBooks(r) \/ Paid(r)
      BY <1>1, <2>1, StepOnRequest, ClosedIsKept
    <3>2. QED
      BY <2>1, <3>1 DEF SameBooks, Paid
  <2>2. QED
    BY <2>1
<1>3. claimed[r] = {} /\ claimedFxrp[r] = 0 /\ claimedUsdt0[r] = 0
  BY <1>2 DEF OpenIsUnclaimed
<1>4. QED
  BY <1>2, <1>3, ClaimsAdd

\* The lot of a request goes to one account.
LEMMA LotGoesToOne ==
  ASSUME NEW f \in [Accounts -> Nat], NEW owner \in Accounts,
         \A a \in Accounts \ {owner} : f[a] = 0
  PROVE  SumOf(f) = f[owner]
BY AddressesAreFinite, SumOfOne

\* Everybody's cap back: the caps times the seats.
LEMMA CapsGoBack ==
  ASSUME NEW f \in [Accounts -> Nat], NEW P \in SUBSET Accounts, NEW cap \in Nat,
         \A a \in Accounts : f[a] = IF a \in P THEN cap ELSE 0
  PROVE  SumOf(f) = Cardinality(P) * cap
<1>1. f = [a \in Accounts |-> IF a \in P THEN cap ELSE 0]
  OBVIOUS
<1>2. QED
  BY <1>1, AddressesAreFinite, SumOfEqualShares

\* Part of the winner's cap for the seller: the same total.
LEMMA PriceComesOutOfACap ==
  ASSUME NEW f \in [Accounts -> Nat], NEW P \in SUBSET Accounts, NEW cap \in Nat,
         NEW winner \in P, NEW seller \in Accounts \ P, NEW price \in 0..cap,
         f[winner] = cap - price, f[seller] = price,
         \A a \in Accounts \ {winner, seller} : f[a] = IF a \in P THEN cap ELSE 0
  PROVE  SumOf(f) = Cardinality(P) * cap
<1> USE AddressesAreFinite
<1> DEFINE g == [f EXCEPT ![seller] = 0]
           h == [g EXCEPT ![winner] = cap]
<1>1. /\ g \in [Accounts -> Nat] /\ h \in [Accounts -> Nat]
      /\ g[seller] = 0 /\ g[winner] = cap - price /\ h[winner] = cap
      /\ \A a \in Accounts \ {seller} : g[a] = f[a]
      /\ \A a \in Accounts \ {winner} : h[a] = g[a]
      /\ \A a \in Accounts : h[a] = IF a \in P THEN cap ELSE 0
  OBVIOUS
<1> HIDE DEF g, h
<1>2. SumOf(g) + f[seller] = SumOf(f) + g[seller]
  BY <1>1, SumChanges
<1>3. SumOf(h) + g[winner] = SumOf(g) + h[winner]
  BY <1>1, SumChanges
<1>4. SumOf(h) = Cardinality(P) * cap
  BY <1>1, CapsGoBack
<1>5. SumOf(f) \in Nat /\ SumOf(g) \in Nat /\ SumOf(h) \in Nat
  BY <1>1, SumIsNatural
<1>6. SumOf(f) = SumOf(h)
  BY <1>1, <1>2, <1>3, <1>5
<1>7. QED
  BY <1>4, <1>6

\* What closes a request shares its deposits out in full.
LEMMA ClosingSharesDeposits ==
  ASSUME ContractInv, ContractInv', SeatsAreCounted, NEW r \in RfqIds,
         Abandoned(r) \/ Resolved(r), claimed[r] = {}
  PROVE  /\ SumOf([a \in Accounts |-> claimable(r, a)'.fxrp]) = depositedFxrp(r)'
         /\ SumOf([a \in Accounts |-> claimable(r, a)'.usdt0]) = depositedUsdt0(r)'
<1> DEFINE rfq == rfqs'[r]
           P == participated[r]
           f == [a \in Accounts |-> claimable(r, a)'.fxrp]
           u == [a \in Accounts |-> claimable(r, a)'.usdt0]
<1>1. /\ TypeOK /\ TypeOK' /\ rfqs[r] \in Rfq /\ rfq \in Rfq
      /\ P \in SUBSET Accounts /\ claimed'[r] = {} /\ participated'[r] = P
      /\ providers'[r] = providers[r] /\ rfqs[r].seller \in Accounts
  BY DEF ContractInv, TypeOK, Abandoned, Resolved, SameQuotes, IsOpen, Exists, Rfq
<1>2. /\ rfq.seller \in Accounts \ P /\ rfq.lotAmount \in Nat /\ rfq.quoteCap \in Nat
      /\ rfq.status # "OPEN"
  <2>1. rfq.seller = rfqs[r].seller
    BY <1>1, TermsAreKept DEF KeepsTerms
  <2>2. rfqs[r].seller \notin P
    BY DEF ContractInv, QuotesMatch
  <2>3. rfq.status # "OPEN"
    BY <1>1 DEF Abandoned, Resolved, Rfq
  <2>4. QED
    BY <1>1, <2>1, <2>2, <2>3 DEF Rfq
<1>3. rfq.status = "SETTLED" => rfq.winningProvider \in P /\ rfq.winningQuote \in 1..rfq.quoteCap
  BY <1>1 DEF ContractInv, SettledIsATrade
<1>4. \A a \in Accounts : claimable(r, a)' = Entitlement(r, a)'
  BY <1>1 DEF claimable
<1>5. f \in [Accounts -> Nat] /\ u \in [Accounts -> Nat]
  <2>1. \A a \in Accounts : claimable(r, a)' \in [fxrp : Nat, usdt0 : Nat]
    <3>1. ASSUME NEW a \in Accounts
          PROVE  Entitlement(r, a)' \in [fxrp : Nat, usdt0 : Nat]
      BY <1>1, <1>2, <1>3 DEF Entitlement, Rfq
    <3>2. QED
      BY <1>4, <3>1
  <2>2. QED
    BY <2>1
<1>6. depositedFxrp(r)' = rfq.lotAmount /\ depositedUsdt0(r)' = Cardinality(P) * rfq.quoteCap
  BY <1>1 DEF depositedFxrp, depositedUsdt0, SeatsAreCounted
<1>7. \A a \in Accounts :
        /\ f[a] = IF \/ rfq.status = "SETTLED" /\ a \in P /\ a = rfq.winningProvider
                     \/ rfq.status # "SETTLED" /\ a = rfq.seller
                  THEN rfq.lotAmount ELSE 0
        /\ u[a] = IF rfq.status = "SETTLED" /\ a \in P /\ a = rfq.winningProvider
                  THEN rfq.quoteCap - rfq.winningQuote
                  ELSE IF a \in P THEN rfq.quoteCap
                  ELSE IF rfq.status = "SETTLED" /\ a = rfq.seller THEN rfq.winningQuote ELSE 0
  BY <1>1, <1>2, <1>4 DEF Entitlement
<1> HIDE DEF f, u, rfq, P
<1>8. CASE rfq.status = "SETTLED"
  <2> DEFINE winner == rfq.winningProvider
  <2>1. winner \in P /\ winner \in Accounts /\ rfq.winningQuote \in 0..rfq.quoteCap
    BY <1>1, <1>2, <1>3, <1>8
  <2>2. f[winner] = rfq.lotAmount /\ \A a \in Accounts \ {winner} : f[a] = 0
    BY <1>7, <1>8, <2>1
  <2>3. /\ u[winner] = rfq.quoteCap - rfq.winningQuote /\ u[rfq.seller] = rfq.winningQuote
        /\ \A a \in Accounts \ {winner, rfq.seller} : u[a] = IF a \in P THEN rfq.quoteCap ELSE 0
    BY <1>2, <1>7, <1>8, <2>1
  <2> HIDE DEF winner
  <2>4. SumOf(f) = rfq.lotAmount
    BY <1>5, <2>1, <2>2, LotGoesToOne
  <2>5. SumOf(u) = Cardinality(P) * rfq.quoteCap
    <3>1. /\ P \in SUBSET Accounts /\ rfq.seller \in Accounts \ P /\ rfq.quoteCap \in Nat
          /\ u \in [Accounts -> Nat]
      BY <1>1, <1>2, <1>5
    <3>2. QED
      BY <2>1, <2>3, <3>1, PriceComesOutOfACap
  <2>6. QED
    BY <1>6, <2>4, <2>5 DEF f, u
<1>9. CASE rfq.status # "SETTLED"
  <2>1. f[rfq.seller] = rfq.lotAmount /\ \A a \in Accounts \ {rfq.seller} : f[a] = 0
    BY <1>2, <1>7, <1>9
  <2>2. \A a \in Accounts : u[a] = IF a \in P THEN rfq.quoteCap ELSE 0
    BY <1>7, <1>9
  <2>3. SumOf(f) = rfq.lotAmount
    BY <1>2, <1>5, <2>1, LotGoesToOne
  <2>4. SumOf(u) = Cardinality(P) * rfq.quoteCap
    BY <1>1, <1>2, <1>5, <2>2, CapsGoBack
  <2>5. QED
    BY <1>6, <2>3, <2>4 DEF f, u
<1>10. QED
  BY <1>8, <1>9

\* Every step keeps: what a closed request still owes and has paid is what it took in.
LEMMA EntitlementsExhaustStep ==
  ContractInv /\ ContractInv' /\ SeatsAreCounted /\ OpenIsUnclaimed
    /\ EntitlementsExhaustDeposits /\ [Next]_vars
    => EntitlementsExhaustDeposits'
<1> SUFFICES ASSUME ContractInv, ContractInv', SeatsAreCounted, OpenIsUnclaimed,
                    EntitlementsExhaustDeposits, [Next]_vars,
                    NEW r \in RfqIds, rfqs'[r].status # "OPEN"
             PROVE  /\ SumOf([a \in Accounts |-> claimable(r, a)'.fxrp]) + claimedFxrp'[r]
                         = depositedFxrp(r)'
                    /\ SumOf([a \in Accounts |-> claimable(r, a)'.usdt0]) + claimedUsdt0'[r]
                         = depositedUsdt0(r)'
  BY DEF EntitlementsExhaustDeposits
<1>1. TypeOK /\ TypeOK' /\ BlankOrFunded
  BY DEF ContractInv
<1>2. CASE rfqs[r].status = "OPEN"
  <2>1. claimed[r] = {} /\ claimedFxrp[r] = 0 /\ claimedUsdt0[r] = 0
    BY <1>2 DEF OpenIsUnclaimed
  <2>2. claimedFxrp'[r] = 0 /\ claimedUsdt0'[r] = 0
    BY <1>2, <2>1, ClaimsAdd
  <2>3. Abandoned(r) \/ Resolved(r)
    <3>1. rfqs[r] \in Rfq
      BY <1>1 DEF TypeOK
    <3>2. ~SameBooks(r) /\ ~Quoted(r) /\ ~Paid(r)
      BY <1>2 DEF SameBooks, Quoted, Paid
    <3>3. ~Created(r)
      BY DEF Created, ZeroRfq
    <3>4. ~Requested(r)
      BY <1>2, <3>1 DEF Requested, Rfq
    <3>5. QED
      BY <1>1, <3>2, <3>3, <3>4, StepOnRequest DEF RequestStep
  <2>4. /\ SumOf([a \in Accounts |-> claimable(r, a)'.fxrp]) = depositedFxrp(r)'
        /\ SumOf([a \in Accounts |-> claimable(r, a)'.usdt0]) = depositedUsdt0(r)'
    BY <2>1, <2>3, ClosingSharesDeposits
  <2>5. depositedFxrp(r)' \in Nat /\ depositedUsdt0(r)' \in Nat
    <3>1. rfqs'[r] \in Rfq /\ providers'[r] \in Seq(Accounts)
      BY <1>1 DEF TypeOK
    <3>2. /\ rfqs'[r].lotAmount \in Nat /\ rfqs'[r].quoteCap \in Nat
          /\ Len(providers'[r]) \in Nat
      BY <3>1 DEF Rfq
    <3>3. QED
      BY <3>2 DEF depositedFxrp, depositedUsdt0
  <2>6. QED
    BY <2>2, <2>4, <2>5
<1>3. CASE rfqs[r].status # "OPEN"
  <2> DEFINE f == [a \in Accounts |-> claimable(r, a).fxrp]
             u == [a \in Accounts |-> claimable(r, a).usdt0]
             ff == [a \in Accounts |-> claimable(r, a)'.fxrp]
             uu == [a \in Accounts |-> claimable(r, a)'.usdt0]
  <2>1. /\ SumOf(f) + claimedFxrp[r] = depositedFxrp(r)
        /\ SumOf(u) + claimedUsdt0[r] = depositedUsdt0(r)
    BY <1>3 DEF EntitlementsExhaustDeposits
  <2>2. rfqs'[r] = rfqs[r] /\ participated'[r] = participated[r] /\ providers'[r] = providers[r]
    <3>1. SameBooks(r) \/ Paid(r)
      BY <1>1, <1>3, StepOnRequest, ClosedIsKept
    <3>2. QED
      BY <3>1 DEF SameBooks, Paid, SameQuotes
  <2>3. depositedFxrp(r)' = depositedFxrp(r) /\ depositedUsdt0(r)' = depositedUsdt0(r)
    BY <2>2 DEF depositedFxrp, depositedUsdt0
  <2>4. \A a \in Accounts : Entitlement(r, a)' = Entitlement(r, a)
    BY <2>2 DEF Entitlement
  <2>5. f \in [Accounts -> Nat] /\ u \in [Accounts -> Nat]
    BY <1>1, EntitlementIsTyped DEF ContractInv
  <2>6. \A a \in Accounts : claimed'[r] = claimed[r] => claimable(r, a)' = claimable(r, a)
    BY <2>4 DEF claimable
  <2>7. CASE claimed'[r] = claimed[r] /\ claimedFxrp'[r] = claimedFxrp[r]
               /\ claimedUsdt0'[r] = claimedUsdt0[r]
    <3>1. ff = f /\ uu = u
      BY <2>6, <2>7
    <3> HIDE DEF f, u, ff, uu
    <3>2. QED
      BY <2>1, <2>3, <2>7, <3>1 DEF ff, uu
  <2>8. ASSUME NEW sender \in Accounts \ claimed[r],
               claimed'[r] = claimed[r] \cup {sender},
               claimedFxrp'[r] = claimedFxrp[r] + claimable(r, sender).fxrp,
               claimedUsdt0'[r] = claimedUsdt0[r] + claimable(r, sender).usdt0
        PROVE  SumOf(ff) + claimedFxrp'[r] = depositedFxrp(r)
                 /\ SumOf(uu) + claimedUsdt0'[r] = depositedUsdt0(r)
    <3>1. claimable(r, sender)' = [fxrp |-> 0, usdt0 |-> 0]
      BY <2>8 DEF claimable
    <3>2. \A a \in Accounts \ {sender} : claimable(r, a)' = claimable(r, a)
      BY <2>4, <2>8 DEF claimable
    <3>3. /\ ff \in [Accounts -> Nat] /\ uu \in [Accounts -> Nat]
          /\ ff[sender] = 0 /\ uu[sender] = 0
          /\ f[sender] = claimable(r, sender).fxrp /\ u[sender] = claimable(r, sender).usdt0
          /\ \A a \in Accounts \ {sender} : ff[a] = f[a] /\ uu[a] = u[a]
      <4>1. \A a \in Accounts : claimable(r, a).fxrp \in Nat /\ claimable(r, a).usdt0 \in Nat
        BY <1>1, EntitlementIsTyped DEF ContractInv
      <4>2. QED
        BY <3>1, <3>2, <4>1
    <3>4. claimedFxrp[r] \in Nat /\ claimedUsdt0[r] \in Nat /\ sender \in Accounts
      BY <1>1 DEF TypeOK
    <3> HIDE DEF f, u, ff, uu
    <3>5. SumOf(ff) + f[sender] = SumOf(f) + ff[sender]
      BY <2>5, <3>3, <3>4, AddressesAreFinite, SumChanges
    <3>6. SumOf(uu) + u[sender] = SumOf(u) + uu[sender]
      BY <2>5, <3>3, <3>4, AddressesAreFinite, SumChanges
    <3>7. /\ SumOf(f) \in Nat /\ SumOf(u) \in Nat /\ SumOf(ff) \in Nat /\ SumOf(uu) \in Nat
          /\ f[sender] \in Nat /\ u[sender] \in Nat
      BY <2>5, <3>3, <3>4, AddressesAreFinite, SumIsNatural
    <3>8. QED
      BY <2>1, <2>8, <3>3, <3>4, <3>5, <3>6, <3>7
  <2> HIDE DEF ff, uu
  <2>9. SumOf(ff) + claimedFxrp'[r] = depositedFxrp(r)'
          /\ SumOf(uu) + claimedUsdt0'[r] = depositedUsdt0(r)'
    <3>1. CASE claimed'[r] = claimed[r] /\ claimedFxrp'[r] = claimedFxrp[r]
                 /\ claimedUsdt0'[r] = claimedUsdt0[r]
      BY <2>7, <3>1 DEF ff, uu
    <3>2. CASE \E sender \in Accounts \ claimed[r] :
                 /\ claimed'[r] = claimed[r] \cup {sender}
                 /\ claimedFxrp'[r] = claimedFxrp[r] + claimable(r, sender).fxrp
                 /\ claimedUsdt0'[r] = claimedUsdt0[r] + claimable(r, sender).usdt0
      BY <2>3, <2>8, <3>2
    <3>3. QED
      BY <3>1, <3>2, ClaimsAdd
  <2>10. QED
    BY <2>9 DEF ff, uu
<1>4. QED
  BY <1>2, <1>3

\* A change of one value of two sums at once.
LEMMA SumsChangeTogether ==
  ASSUME NEW f \in [RfqIds -> Nat], NEW g \in [RfqIds -> Nat], NEW r \in RfqIds,
         NEW more \in Nat, g[r] = f[r] + more, \A q \in RfqIds \ {r} : g[q] = f[q]
  PROVE  SumOf(g) = SumOf(f) + more
<1>1. SumOf(g) + f[r] = SumOf(f) + g[r]
  BY RfqIdsAreFinite, SumChanges
<1>2. SumOf(f) \in Nat /\ SumOf(g) \in Nat
  BY RfqIdsAreFinite, SumIsNatural
<1>3. QED
  BY <1>1, <1>2

\* A step that leaves terms and quotes alone keeps all deposits.
LEMMA QuietKeepsDeposits ==
  ASSUME Quiet, NEW r \in RfqIds
  PROVE  /\ depositedFxrp(r)' = depositedFxrp(r) /\ depositedUsdt0(r)' = depositedUsdt0(r)
         /\ \A a \in Accounts : Locked(a, r)' = Locked(a, r)
BY DEF Quiet, KeepsTerms, depositedFxrp, depositedUsdt0, Locked

\* What has been received stays what it was, whatever the step does besides claims.
LEMMA ReceivedIsKept ==
  ASSUME ContractInv, OpenIsUnclaimed, [Next]_vars, NEW r \in RfqIds, NEW a \in Accounts,
         a \in claimed'[r] <=> a \in claimed[r]
  PROVE  Received(a, r)' = Received(a, r)
<1>1. TypeOK /\ BlankOrFunded
  BY DEF ContractInv
<1>2. CASE a \in claimed[r]
  <2>1. rfqs[r].status # "OPEN"
    BY <1>2 DEF OpenIsUnclaimed
  <2>2. SameBooks(r) \/ Paid(r)
    BY <1>1, <2>1, StepOnRequest, ClosedIsKept
  <2>3. rfqs'[r] = rfqs[r] /\ participated'[r] = participated[r]
    BY <2>2 DEF SameBooks, Paid, SameQuotes
  <2>4. Entitlement(r, a)' = Entitlement(r, a)
    BY <2>3 DEF Entitlement
  <2>5. QED
    BY <1>2, <2>4 DEF Received
<1>3. CASE a \notin claimed[r]
  BY <1>3 DEF Received
<1>4. QED
  BY <1>2, <1>3

\* Every step keeps: the escrow holds exactly the deposits not yet claimed.
LEMMA EscrowBacksStep ==
  ContractInv /\ ContractInv' /\ EscrowBacksDeposits /\ [Next]_vars => EscrowBacksDeposits'
<1> SUFFICES ASSUME ContractInv, ContractInv', EscrowBacksDeposits, [Next]_vars
             PROVE  EscrowBacksDeposits'
  OBVIOUS
<1> DEFINE f == [r \in RfqIds |-> depositedFxrp(r)]
           u == [r \in RfqIds |-> depositedUsdt0(r)]
           ff == [r \in RfqIds |-> depositedFxrp(r)']
           uu == [r \in RfqIds |-> depositedUsdt0(r)']
<1>1. /\ TypeOK /\ TypeOK'
      /\ fxrp[Escrow] \in Nat /\ usdt0[Escrow] \in Nat
      /\ claimedFxrp \in [RfqIds -> Nat] /\ claimedUsdt0 \in [RfqIds -> Nat]
      /\ claimedFxrp' \in [RfqIds -> Nat] /\ claimedUsdt0' \in [RfqIds -> Nat]
  BY DEF ContractInv, TypeOK, Holders
<1>2. /\ fxrp[Escrow] + SumOf(claimedFxrp) = SumOf(f)
      /\ usdt0[Escrow] + SumOf(claimedUsdt0) = SumOf(u)
  BY DEF EscrowBacksDeposits
<1>3. f \in [RfqIds -> Nat] /\ u \in [RfqIds -> Nat] /\ ff \in [RfqIds -> Nat] /\ uu \in [RfqIds -> Nat]
  <2>1. ASSUME NEW r \in RfqIds
        PROVE  /\ depositedFxrp(r) \in Nat /\ depositedUsdt0(r) \in Nat
               /\ depositedFxrp(r)' \in Nat /\ depositedUsdt0(r)' \in Nat
    <3>1. /\ rfqs[r] \in Rfq /\ providers[r] \in Seq(Accounts)
          /\ rfqs'[r] \in Rfq /\ providers'[r] \in Seq(Accounts)
      BY <1>1 DEF TypeOK
    <3> HIDE DEF f, u, ff, uu
    <3>2. /\ rfqs[r].lotAmount \in Nat /\ rfqs[r].quoteCap \in Nat
          /\ rfqs'[r].lotAmount \in Nat /\ rfqs'[r].quoteCap \in Nat
      BY <3>1 DEF Rfq
    <3>3. Len(providers[r]) \in Nat /\ Len(providers'[r]) \in Nat
      BY <3>1
    <3>4. QED
      BY <3>2, <3>3 DEF depositedFxrp, depositedUsdt0
  <2>2. QED
    BY <2>1
<1>4. /\ \A r \in RfqIds : f[r] = depositedFxrp(r) /\ u[r] = depositedUsdt0(r)
      /\ \A r \in RfqIds : ff[r] = depositedFxrp(r)' /\ uu[r] = depositedUsdt0(r)'
  OBVIOUS
<1>5. SUFFICES /\ fxrp'[Escrow] + SumOf(claimedFxrp') = SumOf(ff)
               /\ usdt0'[Escrow] + SumOf(claimedUsdt0') = SumOf(uu)
  BY DEF EscrowBacksDeposits
<1> HIDE DEF f, u, ff, uu
<1>6. /\ SumOf(f) \in Nat /\ SumOf(u) \in Nat
      /\ SumOf(claimedFxrp) \in Nat /\ SumOf(claimedUsdt0) \in Nat
  BY <1>1, <1>3, RfqIdsAreFinite, SumIsNatural
<1>7. CASE Quiet
  <2>1. ff = f /\ uu = u
    BY <1>3, <1>4, <1>7, QuietKeepsDeposits
  <2>2. QED
    BY <1>2, <1>7, <2>1 DEF Quiet
<1>8. ASSUME NEW r \in RfqIds, NEW sender \in Accounts, NEW lotAmount \in LotAmounts,
             NEW quoteCap \in QuoteCaps, NEW quoteDeadline, NEW resolutionDeadline,
             NEW credited, r = nextRfqId,
             CreateRfq(sender, lotAmount, quoteCap, quoteDeadline, resolutionDeadline, credited)
      PROVE  /\ fxrp'[Escrow] + SumOf(claimedFxrp') = SumOf(ff)
             /\ usdt0'[Escrow] + SumOf(claimedUsdt0') = SumOf(uu)
  <2>1. /\ Blank(r)
        /\ UNCHANGED <<usdt0, participated, providers, claimed, claimedFxrp, claimedUsdt0>>
        /\ \A q \in RfqIds \ {r} : rfqs'[q] = rfqs[q]
        /\ rfqs'[r].lotAmount = lotAmount
        /\ fxrp'[Escrow] = fxrp[Escrow] + lotAmount
    BY <1>8, CreateRfqBooks
  <2>2. /\ lotAmount \in Nat /\ f[r] = 0 /\ ff[r] = lotAmount
        /\ \A q \in RfqIds \ {r} : ff[q] = f[q]
    <3>1. f[r] = 0
      BY <1>4, <2>1 DEF depositedFxrp, Blank, ZeroRfq
    <3>2. QED
      BY <1>4, <2>1, <3>1, AmountsAreNaturals DEF depositedFxrp
  <2>3. \A q \in RfqIds : uu[q] = u[q]
    <3>1. providers[r] = <<>> /\ providers'[r] = <<>> /\ rfqs[r].quoteCap \in Nat /\ rfqs'[r].quoteCap \in Nat
      BY <1>1, <2>1 DEF Blank, TypeOK, Rfq
    <3>2. depositedUsdt0(r) = 0 /\ depositedUsdt0(r)' = 0
      BY <3>1 DEF depositedUsdt0
    <3>3. \A q \in RfqIds \ {r} : depositedUsdt0(q)' = depositedUsdt0(q)
      BY <2>1 DEF depositedUsdt0
    <3>4. QED
      BY <1>4, <3>2, <3>3
  <2>4. SumOf(ff) = SumOf(f) + lotAmount
    BY <1>3, <2>2, SumsChangeTogether
  <2>5. uu = u
    BY <1>3, <2>3
  <2>6. QED
    BY <1>1, <1>2, <1>6, <2>1, <2>2, <2>4, <2>5
<1>9. ASSUME NEW r \in RfqIds, NEW sender \in Accounts, NEW credited,
             SubmitQuote(sender, r, credited)
      PROVE  /\ fxrp'[Escrow] + SumOf(claimedFxrp') = SumOf(ff)
             /\ usdt0'[Escrow] + SumOf(claimedUsdt0') = SumOf(uu)
  <2>1. /\ UNCHANGED <<rfqs, fxrp, claimed, claimedFxrp, claimedUsdt0>>
        /\ Len(providers'[r]) = Len(providers[r]) + 1
        /\ \A q \in RfqIds \ {r} : providers'[q] = providers[q]
        /\ usdt0'[Escrow] = usdt0[Escrow] + rfqs[r].quoteCap
    BY <1>9, SubmitQuoteBooks
  <2>2. rfqs[r].quoteCap \in Nat /\ Len(providers[r]) \in Nat
    <3>1. rfqs[r] \in Rfq /\ providers[r] \in Seq(Accounts)
      BY <1>1 DEF TypeOK
    <3>2. QED
      BY <3>1 DEF Rfq
  <2>3. uu[r] = u[r] + rfqs[r].quoteCap /\ \A q \in RfqIds \ {r} : uu[q] = u[q]
    <3>1. (Len(providers[r]) + 1) * rfqs[r].quoteCap
            = Len(providers[r]) * rfqs[r].quoteCap + rfqs[r].quoteCap
      BY <2>2
    <3>2. depositedUsdt0(r)' = depositedUsdt0(r) + rfqs[r].quoteCap
      BY <2>1, <3>1 DEF depositedUsdt0
    <3>3. \A q \in RfqIds \ {r} : depositedUsdt0(q)' = depositedUsdt0(q)
      BY <2>1 DEF depositedUsdt0
    <3>4. QED
      BY <1>4, <3>2, <3>3
  <2>4. ff = f
    <3>1. \A q \in RfqIds : ff[q] = f[q]
      BY <1>4, <2>1 DEF depositedFxrp
    <3>2. QED
      BY <1>3, <3>1
  <2>5. SumOf(uu) = SumOf(u) + rfqs[r].quoteCap
    BY <1>3, <2>2, <2>3, SumsChangeTogether
  <2>6. QED
    BY <1>1, <1>2, <1>6, <2>1, <2>2, <2>4, <2>5
<1>10. ASSUME NEW r \in RfqIds, NEW sender \in Accounts, Claim(sender, r)
       PROVE  /\ fxrp'[Escrow] + SumOf(claimedFxrp') = SumOf(ff)
              /\ usdt0'[Escrow] + SumOf(claimedUsdt0') = SumOf(uu)
  <2> DEFINE due == claimable(r, sender)
  <2>1. /\ due.fxrp \in Nat /\ due.usdt0 \in Nat
        /\ UNCHANGED <<rfqs, participated, providers>>
        /\ claimedFxrp'[r] = claimedFxrp[r] + due.fxrp
        /\ claimedUsdt0'[r] = claimedUsdt0[r] + due.usdt0
        /\ \A q \in RfqIds \ {r} :
             claimedFxrp'[q] = claimedFxrp[q] /\ claimedUsdt0'[q] = claimedUsdt0[q]
        /\ fxrp'[Escrow] = fxrp[Escrow] - due.fxrp
        /\ usdt0'[Escrow] = usdt0[Escrow] - due.usdt0
    BY <1>10, ClaimBooks
  <2> HIDE DEF due
  <2>2. ff = f /\ uu = u
    <3>1. \A q \in RfqIds : ff[q] = f[q]
      BY <1>4, <2>1 DEF depositedFxrp
    <3>2. \A q \in RfqIds : uu[q] = u[q]
      BY <1>4, <2>1 DEF depositedUsdt0
    <3>3. QED
      BY <1>3, <3>1, <3>2
  <2>3. SumOf(claimedFxrp') = SumOf(claimedFxrp) + due.fxrp
    BY <1>1, <2>1, SumsChangeTogether
  <2>4. SumOf(claimedUsdt0') = SumOf(claimedUsdt0) + due.usdt0
    BY <1>1, <2>1, SumsChangeTogether
  <2>5. QED
    BY <1>1, <1>2, <1>6, <2>1, <2>2, <2>3, <2>4
<1>11. QED
  BY <1>7, <1>8, <1>9, <1>10, QuietUnlessFundsMove

\* Every step keeps: each account holds its start, less what it locked, plus what it was
\* given for its claims.
LEMMA PositionsStep ==
  ContractInv /\ ContractInv' /\ OpenIsUnclaimed /\ PositionsFollowOutcomes /\ [Next]_vars
    => PositionsFollowOutcomes'
<1> SUFFICES ASSUME ContractInv, ContractInv', OpenIsUnclaimed, PositionsFollowOutcomes,
                    [Next]_vars, NEW a \in Accounts
             PROVE  /\ fxrp'[a] + SumOf([r \in RfqIds |-> Locked(a, r)'.fxrp])
                         = InitialBalance + SumOf([r \in RfqIds |-> Received(a, r)'.fxrp])
                    /\ usdt0'[a] + SumOf([r \in RfqIds |-> Locked(a, r)'.usdt0])
                         = InitialBalance + SumOf([r \in RfqIds |-> Received(a, r)'.usdt0])
  BY DEF PositionsFollowOutcomes
<1> USE AddressesDistinct
<1> DEFINE lf == [r \in RfqIds |-> Locked(a, r).fxrp]
           lu == [r \in RfqIds |-> Locked(a, r).usdt0]
           rf == [r \in RfqIds |-> Received(a, r).fxrp]
           ru == [r \in RfqIds |-> Received(a, r).usdt0]
           lff == [r \in RfqIds |-> Locked(a, r)'.fxrp]
           luu == [r \in RfqIds |-> Locked(a, r)'.usdt0]
           rff == [r \in RfqIds |-> Received(a, r)'.fxrp]
           ruu == [r \in RfqIds |-> Received(a, r)'.usdt0]
           Balanced == /\ fxrp'[a] + SumOf(lff) = InitialBalance + SumOf(rff)
                       /\ usdt0'[a] + SumOf(luu) = InitialBalance + SumOf(ruu)
<1>1. /\ TypeOK /\ TypeOK' /\ SettledIsATrade
      /\ fxrp[a] \in Nat /\ usdt0[a] \in Nat /\ fxrp'[a] \in Nat /\ usdt0'[a] \in Nat
  BY DEF ContractInv, TypeOK, Holders
<1>2. /\ fxrp[a] + SumOf(lf) = InitialBalance + SumOf(rf)
      /\ usdt0[a] + SumOf(lu) = InitialBalance + SumOf(ru)
  BY DEF PositionsFollowOutcomes
<1>3. /\ lf \in [RfqIds -> Nat] /\ lu \in [RfqIds -> Nat]
      /\ rf \in [RfqIds -> Nat] /\ ru \in [RfqIds -> Nat]
  BY AmountsAreTyped
<1>4. /\ \A r \in RfqIds : lf[r] = Locked(a, r).fxrp /\ lu[r] = Locked(a, r).usdt0
      /\ \A r \in RfqIds : rf[r] = Received(a, r).fxrp /\ ru[r] = Received(a, r).usdt0
      /\ \A r \in RfqIds : lff[r] = Locked(a, r)'.fxrp /\ luu[r] = Locked(a, r)'.usdt0
      /\ \A r \in RfqIds : rff[r] = Received(a, r)'.fxrp /\ ruu[r] = Received(a, r)'.usdt0
      /\ DOMAIN lff = RfqIds /\ DOMAIN luu = RfqIds /\ DOMAIN rff = RfqIds /\ DOMAIN ruu = RfqIds
  OBVIOUS
<1>5. /\ (\A r \in RfqIds : lff[r] = lf[r]) => lff = lf
      /\ (\A r \in RfqIds : luu[r] = lu[r]) => luu = lu
      /\ (\A r \in RfqIds : rff[r] = rf[r]) => rff = rf
      /\ (\A r \in RfqIds : ruu[r] = ru[r]) => ruu = ru
  OBVIOUS
<1>6. /\ (\A r \in RfqIds : lff[r] \in Nat) => lff \in [RfqIds -> Nat]
      /\ (\A r \in RfqIds : luu[r] \in Nat) => luu \in [RfqIds -> Nat]
      /\ (\A r \in RfqIds : rff[r] \in Nat) => rff \in [RfqIds -> Nat]
      /\ (\A r \in RfqIds : ruu[r] \in Nat) => ruu \in [RfqIds -> Nat]
  OBVIOUS
<1>7. /\ SumOf(lf) \in Nat /\ SumOf(lu) \in Nat /\ SumOf(rf) \in Nat /\ SumOf(ru) \in Nat
  BY <1>3, RfqIdsAreFinite, SumIsNatural
<1>8. SUFFICES Balanced
  OBVIOUS
<1> HIDE DEF lf, lu, rf, ru, lff, luu, rff, ruu
<1>9. CASE claimed' = claimed
  <2>1. \A r \in RfqIds : Received(a, r)' = Received(a, r)
    BY <1>9, ReceivedIsKept
  <2>2. rff = rf /\ ruu = ru
    BY <1>4, <1>5, <2>1
  <2>3. CASE Quiet
    <3>1. lff = lf /\ luu = lu
      BY <1>4, <1>5, <2>3, QuietKeepsDeposits
    <3>2. QED
      BY <1>2, <2>2, <2>3, <3>1 DEF Quiet
  <2>4. ASSUME NEW r \in RfqIds, NEW sender \in Accounts, NEW lotAmount \in LotAmounts,
               NEW quoteCap \in QuoteCaps, NEW quoteDeadline, NEW resolutionDeadline,
               NEW credited, r = nextRfqId,
               CreateRfq(sender, lotAmount, quoteCap, quoteDeadline, resolutionDeadline, credited)
        PROVE  Balanced
    <3>1. /\ Blank(r) /\ UNCHANGED <<usdt0, participated>>
          /\ \A q \in RfqIds \ {r} : rfqs'[q] = rfqs[q]
          /\ rfqs'[r].seller = sender /\ rfqs'[r].lotAmount = lotAmount
          /\ fxrp'[sender] = fxrp[sender] - lotAmount
          /\ \A b \in Accounts \ {sender} : fxrp'[b] = fxrp[b]
      BY <2>4, CreateRfqBooks
    <3>2. Locked(a, r) = [fxrp |-> 0, usdt0 |-> 0]
      BY <3>1, BlankHoldsNothing
    <3>3. Locked(a, r)' = [fxrp |-> IF a = sender THEN lotAmount ELSE 0, usdt0 |-> 0]
      BY <3>1 DEF Locked, depositedFxrp, Blank
    <3>4. \A q \in RfqIds \ {r} : Locked(a, q)' = Locked(a, q)
      BY <3>1 DEF Locked, depositedFxrp
    <3>5. \A q \in RfqIds : luu[q] = lu[q]
      BY <1>4, <3>2, <3>3, <3>4
    <3>6. lotAmount \in Nat
      BY AmountsAreNaturals
    <3>7. CASE a = sender
      <4>1. lff[r] = lf[r] + lotAmount /\ \A q \in RfqIds \ {r} : lff[q] = lf[q]
        BY <1>4, <3>2, <3>3, <3>4, <3>6, <3>7
      <4>2. lff \in [RfqIds -> Nat]
        BY <1>3, <1>6, <3>6, <4>1
      <4>3. SumOf(lff) = SumOf(lf) + lotAmount
        BY <1>3, <3>6, <4>1, <4>2, SumsChangeTogether
      <4>4. luu = lu /\ usdt0' = usdt0 /\ fxrp'[a] = fxrp[a] - lotAmount
        BY <1>5, <3>1, <3>5, <3>7
      <4>5. QED
        BY <1>1, <1>2, <1>7, <2>2, <3>6, <4>3, <4>4
    <3>8. CASE a # sender
      <4>1. \A q \in RfqIds : lff[q] = lf[q]
        BY <1>4, <3>2, <3>3, <3>4, <3>8
      <4>2. lff = lf /\ luu = lu /\ usdt0' = usdt0 /\ fxrp'[a] = fxrp[a]
        BY <1>5, <3>1, <3>5, <3>8, <4>1
      <4>3. QED
        BY <1>2, <2>2, <4>2
    <3>9. QED
      BY <3>7, <3>8
  <2>5. ASSUME NEW r \in RfqIds, NEW sender \in Accounts, NEW credited,
               SubmitQuote(sender, r, credited)
        PROVE  Balanced
    <3> DEFINE cap == rfqs[r].quoteCap
    <3>1. /\ sender \notin participated[r] /\ UNCHANGED <<rfqs, fxrp>>
          /\ participated'[r] = participated[r] \cup {sender}
          /\ \A q \in RfqIds \ {r} : participated'[q] = participated[q]
          /\ usdt0'[sender] = usdt0[sender] - cap
          /\ \A b \in Accounts \ {sender} : usdt0'[b] = usdt0[b]
      BY <2>5, SubmitQuoteBooks
    <3>2. cap \in Nat
      BY <1>1 DEF TypeOK, Rfq
    <3>3. \A q \in RfqIds \ {r} : Locked(a, q)' = Locked(a, q)
      BY <3>1 DEF Locked, depositedFxrp
    <3>4. Locked(a, r)'.fxrp = Locked(a, r).fxrp
      BY <3>1 DEF Locked, depositedFxrp
    <3>5. \A q \in RfqIds : lff[q] = lf[q]
      BY <1>4, <3>3, <3>4
    <3>6. CASE a = sender
      <4>1. Locked(a, r).usdt0 = 0 /\ Locked(a, r)'.usdt0 = cap
        BY <3>1, <3>6 DEF Locked
      <4> HIDE DEF cap
      <4>2. luu[r] = lu[r] + cap /\ \A q \in RfqIds \ {r} : luu[q] = lu[q]
        BY <1>4, <3>2, <3>3, <4>1
      <4>3. luu \in [RfqIds -> Nat]
        BY <1>3, <1>6, <3>2, <4>2
      <4>4. SumOf(luu) = SumOf(lu) + cap
        BY <1>3, <3>2, <4>2, <4>3, SumsChangeTogether
      <4>5. lff = lf /\ fxrp' = fxrp /\ usdt0'[a] = usdt0[a] - cap
        BY <1>5, <3>1, <3>5, <3>6
      <4>6. QED
        BY <1>1, <1>2, <1>7, <2>2, <3>2, <4>4, <4>5
    <3>7. CASE a # sender
      <4>1. Locked(a, r)' = Locked(a, r)
        BY <3>1, <3>7 DEF Locked, depositedFxrp
      <4>2. \A q \in RfqIds : luu[q] = lu[q]
        BY <1>4, <3>3, <4>1
      <4>3. lff = lf /\ luu = lu /\ fxrp' = fxrp /\ usdt0'[a] = usdt0[a]
        BY <1>5, <3>1, <3>5, <3>7, <4>2
      <4>4. QED
        BY <1>2, <2>2, <4>3
    <3>8. QED
      BY <3>6, <3>7
  <2>6. CASE \E r \in RfqIds, sender \in Accounts : Claim(sender, r)
    <3>1. PICK r \in RfqIds, sender \in Accounts : Claim(sender, r)
      BY <2>6
    <3>2. sender \notin claimed[r] /\ claimed'[r] = claimed[r] \cup {sender}
      BY <3>1, ClaimBooks
    <3>3. QED
      BY <1>9, <3>2
  <2>7. QED
    BY <2>3, <2>4, <2>5, <2>6, QuietUnlessFundsMove
<1>10. ASSUME NEW r \in RfqIds, NEW sender \in Accounts, Claim(sender, r)
       PROVE  Balanced
  <2> DEFINE due == claimable(r, sender)
  <2>1. /\ sender \notin claimed[r] /\ due = Entitlement(r, sender)
        /\ due.fxrp \in Nat /\ due.usdt0 \in Nat
        /\ UNCHANGED <<rfqs, participated, providers>>
        /\ claimed'[r] = claimed[r] \cup {sender}
        /\ \A q \in RfqIds \ {r} : claimed'[q] = claimed[q]
        /\ fxrp'[sender] = fxrp[sender] + due.fxrp
        /\ usdt0'[sender] = usdt0[sender] + due.usdt0
        /\ \A b \in Accounts \ {sender} : fxrp'[b] = fxrp[b] /\ usdt0'[b] = usdt0[b]
    BY <1>10, ClaimBooks
  <2> HIDE DEF due
  <2>2. \A q \in RfqIds : Locked(a, q)' = Locked(a, q)
    BY <2>1 DEF Locked, depositedFxrp
  <2>3. lff = lf /\ luu = lu
    BY <1>4, <1>5, <2>2
  <2>4. \A q \in RfqIds \ {r} : Received(a, q)' = Received(a, q)
    BY <2>1, ReceivedIsKept
  <2>5. CASE a = sender
    <3>1. Received(a, r) = [fxrp |-> 0, usdt0 |-> 0]
      BY <2>1, <2>5 DEF Received
    <3>2. Received(a, r)' = due
      <4>1. Entitlement(r, a)' = Entitlement(r, a)
        BY <2>1 DEF Entitlement
      <4>2. QED
        BY <2>1, <2>5, <4>1 DEF Received
    <3>3. /\ rff[r] = rf[r] + due.fxrp /\ ruu[r] = ru[r] + due.usdt0
          /\ \A q \in RfqIds \ {r} : rff[q] = rf[q] /\ ruu[q] = ru[q]
      BY <1>4, <2>1, <2>4, <3>1, <3>2
    <3>4. rff \in [RfqIds -> Nat] /\ ruu \in [RfqIds -> Nat]
      BY <1>3, <1>6, <2>1, <3>3
    <3>5. /\ due.fxrp \in Nat
          /\ rf \in [RfqIds -> Nat] /\ rff \in [RfqIds -> Nat]
          /\ rff[r] = rf[r] + due.fxrp /\ \A q \in RfqIds \ {r} : rff[q] = rf[q]
      BY <1>3, <2>1, <3>3, <3>4
    <3>6. /\ due.usdt0 \in Nat
          /\ ru \in [RfqIds -> Nat] /\ ruu \in [RfqIds -> Nat]
          /\ ruu[r] = ru[r] + due.usdt0 /\ \A q \in RfqIds \ {r} : ruu[q] = ru[q]
      BY <1>3, <2>1, <3>3, <3>4
    <3>7. SumOf(rff) = SumOf(rf) + due.fxrp
      BY ONLY <3>5, SumsChangeTogether
    <3>8. SumOf(ruu) = SumOf(ru) + due.usdt0
      BY ONLY <3>6, SumsChangeTogether
    <3>9. fxrp'[a] = fxrp[a] + due.fxrp /\ usdt0'[a] = usdt0[a] + due.usdt0
      BY <2>1, <2>5
    <3>10. InitialBalance \in Nat
      BY AmountsAreNaturals
    <3>11. QED
      BY <1>1, <1>2, <1>7, <2>1, <2>3, <3>7, <3>8, <3>9, <3>10
  <2>6. CASE a # sender
    <3>1. Received(a, r)' = Received(a, r)
      BY <2>1, <2>6, ReceivedIsKept
    <3>2. rff = rf /\ ruu = ru
      BY <1>4, <1>5, <2>4, <3>1
    <3>3. fxrp'[a] = fxrp[a] /\ usdt0'[a] = usdt0[a]
      BY <2>1, <2>6
    <3>4. QED
      BY <1>2, <2>3, <3>2, <3>3
  <2>7. QED
    BY <2>5, <2>6
<1> HIDE DEF Balanced
<1>11. CASE Quiet \/ claimed' = claimed
  BY <1>9, <1>11 DEF Quiet
<1>12. ASSUME NEW r \in RfqIds, NEW sender \in Accounts, NEW lotAmount, NEW quoteCap,
              NEW quoteDeadline, NEW resolutionDeadline, NEW credited,
              \/ CreateRfq(sender, lotAmount, quoteCap, quoteDeadline, resolutionDeadline, credited)
              \/ SubmitQuote(sender, r, credited)
       PROVE  claimed' = claimed
  BY <1>12 DEF CreateRfq, SubmitQuote, claimVars
<1>13. QED
  BY <1>10, <1>11, <1>12, QuietUnlessFundsMove

\* The books of every request balance in every state the contract can reach: the inductive
\* invariant of the accounting.
LEMMA BooksInvIsInductive ==
  ContractInv /\ ContractInv' /\ BooksInv /\ [Next]_vars => BooksInv'
<1> SUFFICES ASSUME ContractInv, ContractInv', BooksInv, [Next]_vars PROVE BooksInv'
  OBVIOUS
<1> USE DEF BooksInv
<1>1. SeatsAreCounted'
  BY SeatsAreCountedStep
<1>2. OpenIsUnclaimed'
  BY OpenIsUnclaimedStep
<1>3. EntitlementsExhaustDeposits'
  BY EntitlementsExhaustStep
<1>4. EscrowBacksDeposits'
  BY EscrowBacksStep
<1>5. PositionsFollowOutcomes'
  BY PositionsStep
<1>6. QED
  BY <1>1, <1>2, <1>3, <1>4, <1>5

-----------------------------------------------------------------------------
(* The results *)

\* The books balance from the deployment on.
THEOREM BooksBalance == Spec => []BooksInv
BY BooksBalanceInitially, BooksInvIsInductive, ContractInvHolds, PTL DEF Spec

\* A request pays out no more than was deposited for it, of either token.
LEMMA ClaimsAreWithinDeposits ==
  ContractInv /\ BooksInv => ClaimsNeverExceedDeposits
<1> SUFFICES ASSUME ContractInv, BooksInv, NEW r \in RfqIds
             PROVE  claimedFxrp[r] <= depositedFxrp(r) /\ claimedUsdt0[r] <= depositedUsdt0(r)
  BY DEF ClaimsNeverExceedDeposits
<1>1. /\ claimedFxrp[r] \in Nat /\ claimedUsdt0[r] \in Nat
      /\ rfqs[r].lotAmount \in Nat /\ rfqs[r].quoteCap \in Nat /\ Len(providers[r]) \in Nat
  <2>1. TypeOK
    BY DEF ContractInv
  <2>2. rfqs[r] \in Rfq /\ providers[r] \in Seq(Accounts)
    BY <2>1 DEF TypeOK
  <2>3. QED
    BY <2>1, <2>2 DEF TypeOK, Rfq
<1>2. depositedFxrp(r) \in Nat /\ depositedUsdt0(r) \in Nat
  BY <1>1 DEF depositedFxrp, depositedUsdt0
<1>3. CASE rfqs[r].status = "OPEN"
  BY <1>2, <1>3 DEF BooksInv, OpenIsUnclaimed
<1>4. CASE rfqs[r].status # "OPEN"
  <2> DEFINE f == [a \in Accounts |-> claimable(r, a).fxrp]
             u == [a \in Accounts |-> claimable(r, a).usdt0]
  <2>1. SumOf(f) + claimedFxrp[r] = depositedFxrp(r) /\ SumOf(u) + claimedUsdt0[r] = depositedUsdt0(r)
    BY <1>4 DEF BooksInv, EntitlementsExhaustDeposits
  <2>2. f \in [Accounts -> Nat] /\ u \in [Accounts -> Nat]
    BY EntitlementIsTyped DEF ContractInv
  <2> HIDE DEF f, u
  <2>3. SumOf(f) \in Nat /\ SumOf(u) \in Nat
    BY <2>2, AddressesAreFinite, SumIsNatural
  <2>4. QED
    BY <1>1, <1>2, <2>1, <2>3
<1>5. QED
  BY <1>3, <1>4

\* The token balances of the contract are exactly the deposits that were not claimed.
THEOREM EscrowIsBacked == Spec => []EscrowBacksDeposits
<1>1. BooksInv => EscrowBacksDeposits
  BY DEF BooksInv
<1>2. QED
  BY <1>1, BooksBalance, PTL

\* What a closed request has paid and still owes is what it took in, whoever claims first.
THEOREM ClosingSharesEverything == Spec => []EntitlementsExhaustDeposits
<1>1. BooksInv => EntitlementsExhaustDeposits
  BY DEF BooksInv
<1>2. QED
  BY <1>1, BooksBalance, PTL

\* Every account's balance is its start, less its deposits, plus what its outcomes gave it.
THEOREM PositionsCorrect == Spec => []PositionsFollowOutcomes
<1>1. BooksInv => PositionsFollowOutcomes
  BY DEF BooksInv
<1>2. QED
  BY <1>1, BooksBalance, PTL

\* No claim draws on another request's deposits.
THEOREM ClaimsStayWithinDeposits == Spec => []ClaimsNeverExceedDeposits
BY ClaimsAreWithinDeposits, ContractInvHolds, BooksBalance, PTL

\* What anybody can claim from a request is in the contract's balances, so that no claim
\* ever reverts for lack of tokens: the transfers of claim cannot fail on a token that
\* moves what it is asked to move.
ClaimsAreFunded ==
  \A r \in RfqIds, a \in Accounts :
    fxrp[Escrow] >= claimable(r, a).fxrp /\ usdt0[Escrow] >= claimable(r, a).usdt0

\* The part of one request in a total never exceeds what remains of the total.
LEMMA OnePartRemains ==
  ASSUME NEW paid \in [RfqIds -> Nat], NEW taken \in [RfqIds -> Nat],
         \A r \in RfqIds : paid[r] <= taken[r], NEW r \in RfqIds
  PROVE  taken[r] - paid[r] <= SumOf(taken) - SumOf(paid)
<1> DEFINE rest == [taken EXCEPT ![r] = paid[r]]
<1>1. /\ rest \in [RfqIds -> Nat] /\ rest[r] = paid[r]
      /\ \A q \in RfqIds \ {r} : rest[q] = taken[q]
      /\ \A q \in RfqIds : paid[q] <= rest[q]
  <2>1. \A q \in RfqIds : paid[q] \in Nat /\ taken[q] \in Nat
    OBVIOUS
  <2>2. QED
    BY <2>1
<1> HIDE DEF rest
<1>2. SumOf(rest) + taken[r] = SumOf(taken) + rest[r]
  BY <1>1, RfqIdsAreFinite, SumChanges
<1>3. SumOf(paid) <= SumOf(rest)
  BY <1>1, RfqIdsAreFinite, SumIsMonotone
<1>4. /\ SumOf(paid) \in Nat /\ SumOf(rest) \in Nat /\ SumOf(taken) \in Nat
      /\ paid[r] \in Nat /\ taken[r] \in Nat
  BY <1>1, RfqIdsAreFinite, SumIsNatural
<1>5. QED
  BY <1>1, <1>2, <1>3, <1>4

\* Books that balance fund every claim.
LEMMA BooksFundClaims == ContractInv /\ BooksInv => ClaimsAreFunded
<1>1. ASSUME ContractInv, BooksInv, NEW r \in RfqIds, NEW a \in Accounts
      PROVE  fxrp[Escrow] >= claimable(r, a).fxrp /\ usdt0[Escrow] >= claimable(r, a).usdt0
  <2> DEFINE f == [b \in Accounts |-> claimable(r, b).fxrp]
             u == [b \in Accounts |-> claimable(r, b).usdt0]
             df == [q \in RfqIds |-> depositedFxrp(q)]
             du == [q \in RfqIds |-> depositedUsdt0(q)]
  <2>1. /\ f \in [Accounts -> Nat] /\ u \in [Accounts -> Nat]
        /\ f[a] = claimable(r, a).fxrp /\ u[a] = claimable(r, a).usdt0
    BY <1>1, EntitlementIsTyped DEF ContractInv
  <2>2. /\ fxrp[Escrow] \in Nat /\ usdt0[Escrow] \in Nat
        /\ claimedFxrp \in [RfqIds -> Nat] /\ claimedUsdt0 \in [RfqIds -> Nat]
    BY <1>1 DEF ContractInv, TypeOK, Holders
  <2>3. CASE rfqs[r].status = "OPEN"
    <3>1. claimable(r, a) = [fxrp |-> 0, usdt0 |-> 0]
      BY <2>3 DEF claimable, Entitlement
    <3>2. QED
      BY <2>2, <3>1
  <2>4. CASE rfqs[r].status # "OPEN"
    <3>1. /\ SumOf(f) + claimedFxrp[r] = depositedFxrp(r)
          /\ SumOf(u) + claimedUsdt0[r] = depositedUsdt0(r)
      BY <1>1, <2>4 DEF BooksInv, EntitlementsExhaustDeposits
    <3>2. /\ fxrp[Escrow] + SumOf(claimedFxrp) = SumOf(df)
          /\ usdt0[Escrow] + SumOf(claimedUsdt0) = SumOf(du)
      BY <1>1 DEF BooksInv, EscrowBacksDeposits
    <3>3. /\ df \in [RfqIds -> Nat] /\ du \in [RfqIds -> Nat]
          /\ df[r] = depositedFxrp(r) /\ du[r] = depositedUsdt0(r)
      BY <1>1, AmountsAreTyped
    <3>4. \A q \in RfqIds : claimedFxrp[q] <= df[q] /\ claimedUsdt0[q] <= du[q]
      BY <1>1, ClaimsAreWithinDeposits DEF ClaimsNeverExceedDeposits
    <3> HIDE DEF f, u, df, du
    <3>5. /\ df[r] - claimedFxrp[r] <= SumOf(df) - SumOf(claimedFxrp)
          /\ du[r] - claimedUsdt0[r] <= SumOf(du) - SumOf(claimedUsdt0)
      BY <2>2, <3>3, <3>4, OnePartRemains
    <3>6. f[a] <= SumOf(f) /\ u[a] <= SumOf(u)
      BY <2>1, AddressesAreFinite, SumBoundsEach
    <3>7. /\ SumOf(f) \in Nat /\ SumOf(u) \in Nat /\ SumOf(df) \in Nat /\ SumOf(du) \in Nat
          /\ SumOf(claimedFxrp) \in Nat /\ SumOf(claimedUsdt0) \in Nat
          /\ f[a] \in Nat /\ u[a] \in Nat /\ claimedFxrp[r] \in Nat /\ claimedUsdt0[r] \in Nat
      BY <2>1, <2>2, <3>3, AddressesAreFinite, RfqIdsAreFinite, SumIsNatural
    <3>8. QED
      BY <2>1, <2>2, <3>1, <3>2, <3>3, <3>5, <3>6, <3>7
  <2>5. QED
    BY <2>3, <2>4
<1>2. QED
  BY <1>1 DEF ClaimsAreFunded

\* A claim finds its tokens in the contract, whoever claimed before (claim).
THEOREM EveryClaimIsFunded == Spec => []ClaimsAreFunded
BY BooksFundClaims, ContractInvHolds, BooksBalance, PTL

-----------------------------------------------------------------------------
(* The ways out *)

\* Only those who locked something in a request claim from it.
OnlyParticipantsClaim ==
  \A r \in RfqIds : claimed[r] \subseteq participated[r] \cup {rfqs[r].seller}

\* Every step keeps: only those who locked something claim.
LEMMA OnlyParticipantsClaimStep ==
  ContractInv /\ OnlyParticipantsClaim /\ [Next]_vars => OnlyParticipantsClaim'
<1> SUFFICES ASSUME ContractInv, OnlyParticipantsClaim, [Next]_vars, NEW r \in RfqIds
             PROVE  claimed'[r] \subseteq participated'[r] \cup {rfqs'[r].seller}
  BY DEF OnlyParticipantsClaim
<1>1. TypeOK /\ SettledIsATrade
  BY DEF ContractInv
<1>2. claimed[r] \subseteq participated[r] \cup {rfqs[r].seller}
  BY DEF OnlyParticipantsClaim
<1>3. RequestStep(r)
  BY <1>1, StepOnRequest
<1>4. CASE Created(r)
  <2>1. claimed[r] = {}
    BY <1>1, <1>4, CreatedWasBlank DEF ContractInv, Blank
  <2>2. QED
    BY <1>4, <2>1 DEF Created
<1>5. CASE Paid(r)
  <2>1. PICK sender \in Accounts \ claimed[r] :
          /\ claimable(r, sender).fxrp # 0 \/ claimable(r, sender).usdt0 # 0
          /\ claimed'[r] = claimed[r] \cup {sender}
    BY <1>5 DEF Paid
  <2>2. sender \in participated[r] \cup {rfqs[r].seller}
    BY <2>1 DEF claimable, Entitlement
  <2>3. QED
    BY <1>2, <1>5, <2>1, <2>2 DEF Paid, SameQuotes
<1>6. CASE SameBooks(r) \/ Quoted(r) \/ Requested(r) \/ Abandoned(r) \/ Resolved(r)
  <2>1. rfqs'[r].seller = rfqs[r].seller
    BY <1>1, <1>6, TermsAreKept DEF KeepsTerms
  <2>2. claimed'[r] = claimed[r] /\ participated[r] \subseteq participated'[r]
    BY <1>6 DEF SameBooks, Quoted, Requested, Abandoned, Resolved, SameQuotes
  <2>3. QED
    BY <1>2, <2>1, <2>2
<1>7. QED
  BY <1>3, <1>4, <1>5, <1>6 DEF RequestStep

\* What an account can still claim from a closed request does not revert.
LEMMA ParticipantsCanClaim ==
  ASSUME ContractInv, BooksInv, NEW r \in RfqIds, rfqs[r].status # "OPEN",
         NEW a \in (participated[r] \cup {rfqs[r].seller}) \ claimed[r]
  PROVE  a \in Accounts /\ CanClaim(a, r)
<1>1. a \in Accounts
  <2>1. participated[r] \subseteq Accounts
    BY DEF ContractInv, TypeOK
  <2>2. Funded(r) /\ rfqs[r] \in Rfq
    BY DEF ContractInv, BlankOrFunded, Blank, ZeroRfq, TypeOK
  <2>3. rfqs[r].seller \in Accounts
    BY <2>2 DEF Funded, Exists, Rfq
  <2>4. QED
    BY <2>1, <2>3
<1>2. claimable(r, a).fxrp + claimable(r, a).usdt0 > 0
  BY ClosedRequestsPay DEF ClosedPaysEveryParticipant
<1>3. claimable(r, a).fxrp \in Nat /\ claimable(r, a).usdt0 \in Nat
  BY <1>1, EntitlementIsTyped DEF ContractInv
<1>4. fxrp[Escrow] >= claimable(r, a).fxrp /\ usdt0[Escrow] >= claimable(r, a).usdt0
  BY <1>1, BooksFundClaims DEF ClaimsAreFunded
<1>5. QED
  BY <1>1, <1>2, <1>3, <1>4 DEF CanClaim

\* Once everybody who locked something has claimed, the request has paid all it took in.
LEMMA AllClaimedIsAllPaid ==
  ASSUME ContractInv, BooksInv, NEW r \in RfqIds, rfqs[r].status # "OPEN",
         participated[r] \cup {rfqs[r].seller} \subseteq claimed[r]
  PROVE  claimedFxrp[r] = depositedFxrp(r) /\ claimedUsdt0[r] = depositedUsdt0(r)
<1> DEFINE f == [a \in Accounts |-> claimable(r, a).fxrp]
           u == [a \in Accounts |-> claimable(r, a).usdt0]
<1>1. SumOf(f) + claimedFxrp[r] = depositedFxrp(r) /\ SumOf(u) + claimedUsdt0[r] = depositedUsdt0(r)
  BY DEF BooksInv, EntitlementsExhaustDeposits
<1>2. \A a \in Accounts : claimable(r, a) = [fxrp |-> 0, usdt0 |-> 0]
  BY DEF claimable, Entitlement
<1>3. /\ f \in [Accounts -> Nat] /\ u \in [Accounts -> Nat]
      /\ \A a \in Accounts : f[a] = 0 /\ u[a] = 0
  BY <1>2
<1> HIDE DEF f, u
<1>4. SumOf(f) = 0 /\ SumOf(u) = 0
  BY <1>3, SumOfZeros
<1>5. claimedFxrp[r] \in Nat /\ claimedUsdt0[r] \in Nat
  BY DEF ContractInv, TypeOK
<1>6. QED
  BY <1>1, <1>4, <1>5

\* Nobody is locked in: every request that exists is waiting for its resolution deadline,
\* or anybody can time it out, or it is closed and each of its accounts that has not
\* claimed yet can, without a revert (timeoutRfq, claim).
EveryExitIsOpen ==
  \A r \in RfqIds : Exists(r) =>
    \/ IsOpen(r) /\ now <= rfqs[r].resolutionDeadline
    \/ CanTimeoutRfq(r)
    \/ /\ ~IsOpen(r)
       /\ \A a \in (participated[r] \cup {rfqs[r].seller}) \ claimed[r] : CanClaim(a, r)

\* No state the contract can reach leaves a participant without a transaction to wait for
\* or to send.
THEOREM NobodyIsLockedIn == Spec => []EveryExitIsOpen
<1>1. ContractInv /\ BooksInv => EveryExitIsOpen
  <2> SUFFICES ASSUME ContractInv, BooksInv, NEW r \in RfqIds, Exists(r)
               PROVE  \/ IsOpen(r) /\ now <= rfqs[r].resolutionDeadline
                      \/ CanTimeoutRfq(r)
                      \/ /\ ~IsOpen(r)
                         /\ \A a \in (participated[r] \cup {rfqs[r].seller}) \ claimed[r] :
                              CanClaim(a, r)
    BY DEF EveryExitIsOpen
  <2>1. CASE IsOpen(r)
    <3>1. now \in Int /\ rfqs[r].resolutionDeadline \in Int
      BY LimitsAreNaturals DEF ContractInv, TypeOK, Rfq
    <3>2. QED
      BY <2>1, <3>1 DEF CanTimeoutRfq, ResolutionOver
  <2>2. CASE ~IsOpen(r)
    <3>1. rfqs[r].status # "OPEN"
      BY <2>2 DEF IsOpen
    <3>2. QED
      BY <2>2, <3>1, ParticipantsCanClaim
  <2>3. QED
    BY <2>1, <2>2
<1>2. QED
  BY <1>1, ContractInvHolds, BooksBalance, PTL

-----------------------------------------------------------------------------
(* Everybody is paid in the end.  Fairness is stated with the guards in the place of     *)
(* ENABLED, which the guards of these two actions are.                                   *)

\* Blocks keep coming; whoever wants a request closed or its deposit back keeps trying.
TimePasses == <>(now = MaxTime)
SomebodyTimesOut(r) == []<>~CanTimeoutRfq(r) \/ []<><<TimeoutRfq(r)>>_vars
KeepsClaiming(a, r) == []<>~CanClaim(a, r) \/ []<><<Claim(a, r)>>_vars

\* A request's window ends before the clock of the model does (CreateRfq's bound).
WindowsEnd == \A r \in RfqIds : Exists(r) => rfqs[r].resolutionDeadline < MaxTime

\* Every step keeps: the windows end in time.
LEMMA WindowsEndStep == ContractInv /\ WindowsEnd /\ [Next]_vars => WindowsEnd'
<1> SUFFICES ASSUME ContractInv, WindowsEnd, [Next]_vars, NEW r \in RfqIds, Exists(r)'
             PROVE  rfqs'[r].resolutionDeadline < MaxTime
  BY DEF WindowsEnd
<1>1. TypeOK /\ RequestStep(r)
  BY StepOnRequest DEF ContractInv
<1>2. CASE Created(r)
  <2>1. PICK seller \in Accounts, lotAmount \in LotAmounts \ {0}, quoteCap \in QuoteCaps \ {0},
             quoteDeadline \in 0..MaxTime, resolutionDeadline \in 0..MaxTime :
          /\ quoteDeadline \in 1..(resolutionDeadline - 1) /\ resolutionDeadline < MaxTime
          /\ rfqs'[r] = [ZeroRfq EXCEPT !.seller = seller, !.lotAmount = lotAmount,
                                        !.quoteCap = quoteCap, !.quoteDeadline = quoteDeadline,
                                        !.resolutionDeadline = resolutionDeadline]
    BY <1>2 DEF Created
  <2>2. QED
    BY <2>1 DEF ZeroRfq
<1>3. CASE ~Created(r)
  <2>1. KeepsTerms(r)
    BY <1>1, <1>3, TermsAreKept DEF RequestStep
  <2>2. QED
    BY <2>1 DEF KeepsTerms, WindowsEnd, Exists
<1>4. QED
  BY <1>2, <1>3

\* The windows end in time in every state.
LEMMA WindowsEndHolds == Spec => []WindowsEnd
<1>1. Init => WindowsEnd
  BY DEF Init, WindowsEnd, Exists, ZeroRfq
<1>2. QED
  BY <1>1, WindowsEndStep, ContractInvHolds, PTL DEF Spec

\* A request that exists goes on existing, with its seller and everybody who quoted.
LEMMA RequestsStay ==
  ASSUME ContractInv, [Next]_vars, NEW r \in RfqIds, Exists(r)
  PROVE  /\ Exists(r)' /\ rfqs'[r].seller = rfqs[r].seller
         /\ participated[r] \subseteq participated'[r]
<1>1. TypeOK /\ RequestStep(r)
  BY StepOnRequest DEF ContractInv
<1>2. ~Created(r)
  BY <1>1, CreatedWasBlank DEF ContractInv, Blank, ZeroRfq, Exists
<1>3. KeepsTerms(r)
  BY <1>1, <1>2, TermsAreKept DEF RequestStep
<1>4. participated[r] \subseteq participated'[r]
  BY <1>1, <1>2 DEF RequestStep, SameBooks, Quoted, Requested, Abandoned, Resolved, Paid,
    SameQuotes
<1>5. QED
  BY <1>3, <1>4 DEF KeepsTerms, Exists

\* The clock stops at the end of the model.
LEMMA TheEndStays ==
  ASSUME ContractInv, [Next]_vars, now = MaxTime
  PROVE  now' = MaxTime
<1>1. TypeOK /\ TypeOK' /\ now' >= now
  BY TypeStep, SharedStateGrows DEF ContractInv, SharedGrows
<1>2. QED
  BY <1>1, LimitsAreNaturals DEF TypeOK

\* By then every open request can be timed out.
LEMMA WindowsAreOverAtTheEnd ==
  ASSUME ContractInv, WindowsEnd, NEW r \in RfqIds, Exists(r), now = MaxTime,
         rfqs[r].status = "OPEN"
  PROVE  CanTimeoutRfq(r)
<1>1. rfqs[r].resolutionDeadline < now
  BY DEF WindowsEnd
<1>2. rfqs[r].resolutionDeadline \in Int /\ now \in Int
  BY LimitsAreNaturals DEF ContractInv, TypeOK, Rfq
<1>3. QED
  BY <1>1, <1>2 DEF CanTimeoutRfq, ResolutionOver, IsOpen

\* Whoever locked something in a request has it closed and has claimed in the end, if time
\* goes on, somebody calls timeoutRfq once it can be called, and the account keeps trying
\* to claim: nothing the seller, the others, the registry or the TEE do or fail to do can
\* keep a deposit (timeoutRfq, claim).
THEOREM EveryoneIsPaid ==
  ASSUME NEW r \in RfqIds, NEW a \in Accounts
  PROVE  Spec /\ TimePasses /\ SomebodyTimesOut(r) /\ KeepsClaiming(a, r)
           => ((Exists(r) /\ a \in participated[r] \cup {rfqs[r].seller})
                 ~> (rfqs[r].status # "OPEN" /\ a \in claimed[r]))
<1> DEFINE Locks == Exists(r) /\ a \in participated[r] \cup {rfqs[r].seller}
           Closed == rfqs[r].status # "OPEN"
           HasClaimed == a \in claimed[r]
           AtTheEnd == now = MaxTime
           Inv == ContractInv /\ BooksInv /\ WindowsEnd
<1>1. Spec => []Inv
  BY WindowsEndHolds, ContractInvHolds, BooksBalance, PTL
<1>2. Inv /\ [Next]_vars /\ Locks => Locks'
  BY RequestsStay
<1>3. Inv /\ [Next]_vars /\ Closed => Closed'
  BY StepOnRequest, ClosedIsKept DEF ContractInv, SameBooks, Paid
<1>4. Inv /\ [Next]_vars /\ AtTheEnd => AtTheEnd'
  BY TheEndStays
<1>5. Inv /\ Locks /\ AtTheEnd /\ ~Closed => CanTimeoutRfq(r)
  BY WindowsAreOverAtTheEnd
<1>6. Inv /\ <<TimeoutRfq(r)>>_vars => Closed'
  BY DEF ContractInv, TypeOK, TimeoutRfq, Rfq
<1>7. Inv /\ Locks /\ Closed /\ ~HasClaimed => CanClaim(a, r)
  BY ParticipantsCanClaim
<1>8. Inv /\ <<Claim(a, r)>>_vars => HasClaimed'
  BY DEF ContractInv, TypeOK, Claim, ClaimedBy
<1>9. Inv /\ [Next]_vars /\ Closed /\ HasClaimed => HasClaimed'
  BY StepOnRequest, ClosedIsKept DEF ContractInv, SameBooks, Paid
<1> HIDE DEF Locks, Closed, HasClaimed, AtTheEnd, Inv
<1>10. QED
  <2>1. Spec /\ TimePasses /\ SomebodyTimesOut(r) /\ KeepsClaiming(a, r)
          => (Locks ~> (Closed /\ HasClaimed))
    BY <1>1, <1>2, <1>3, <1>4, <1>5, <1>6, <1>7, <1>8, <1>9, PTL
      DEF Spec, TimePasses, SomebodyTimesOut, KeepsClaiming, AtTheEnd
  <2>2. QED
    BY <2>1 DEF Locks, Closed, HasClaimed

\* Again and again there is a moment at which nobody can claim anything more from r.  Of
\* finitely many accounts that all keep claiming, each at most once, it is true.
EverybodyClaims(r) == []<>(\A a \in Accounts : ~CanClaim(a, r))

\* The deposits of one request: they leave the contract if time goes on, somebody calls
\* timeoutRfq for it, and its claims do not stop before they are exhausted.
LEMMA DepositsReturn ==
  ASSUME NEW r \in RfqIds
  PROVE  Spec /\ TimePasses /\ SomebodyTimesOut(r) /\ EverybodyClaims(r)
           => (Exists(r) ~> /\ rfqs[r].status # "OPEN"
                            /\ claimedFxrp[r] = depositedFxrp(r)
                            /\ claimedUsdt0[r] = depositedUsdt0(r))
<1> DEFINE Closed == rfqs[r].status # "OPEN"
           AtTheEnd == now = MaxTime
           NobodyCan == \A a \in Accounts : ~CanClaim(a, r)
           Returned == /\ rfqs[r].status # "OPEN"
                       /\ claimedFxrp[r] = depositedFxrp(r)
                       /\ claimedUsdt0[r] = depositedUsdt0(r)
           Inv == ContractInv /\ BooksInv /\ WindowsEnd
<1>1. Spec => []Inv
  BY WindowsEndHolds, ContractInvHolds, BooksBalance, PTL
<1>2. Inv /\ [Next]_vars /\ Exists(r) => Exists(r)'
  BY RequestsStay
<1>3. Inv /\ [Next]_vars /\ Closed => Closed'
  BY StepOnRequest, ClosedIsKept DEF ContractInv, SameBooks, Paid
<1>4. Inv /\ [Next]_vars /\ AtTheEnd => AtTheEnd'
  BY TheEndStays
<1>5. Inv /\ Exists(r) /\ AtTheEnd /\ ~Closed => CanTimeoutRfq(r)
  BY WindowsAreOverAtTheEnd
<1>6. Inv /\ <<TimeoutRfq(r)>>_vars => Closed'
  BY DEF ContractInv, TypeOK, TimeoutRfq, Rfq
<1>7. Inv /\ Closed /\ NobodyCan => Returned
  <2> SUFFICES ASSUME Inv, Closed, NobodyCan PROVE Returned
    OBVIOUS
  <2>1. participated[r] \cup {rfqs[r].seller} \subseteq claimed[r]
    BY ParticipantsCanClaim
  <2>2. QED
    BY <2>1, AllClaimedIsAllPaid
<1> HIDE DEF Closed, AtTheEnd, NobodyCan, Returned, Inv
<1>8. QED
  <2>1. Spec /\ TimePasses /\ SomebodyTimesOut(r) /\ EverybodyClaims(r)
          => (Exists(r) ~> Returned)
    BY <1>1, <1>2, <1>3, <1>4, <1>5, <1>6, <1>7, PTL
      DEF Spec, TimePasses, SomebodyTimesOut, EverybodyClaims, AtTheEnd, NobodyCan
  <2>2. QED
    BY <2>1 DEF Returned

\* Every deposit of every request leaves the contract in the end, if time goes on, somebody
\* calls timeoutRfq wherever it can be called, and the claims do not stop before they are
\* exhausted; whatever the seller, the providers, the registry and the TEE do.
THEOREM AllDepositsReturn ==
  Spec /\ TimePasses /\ (\A r \in RfqIds : SomebodyTimesOut(r) /\ EverybodyClaims(r))
    => EveryDepositReturns
BY DepositsReturn DEF EveryDepositReturns
=============================================================================
