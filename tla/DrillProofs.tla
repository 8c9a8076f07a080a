---------------------------- MODULE DrillProofs ----------------------------
(***************************************************************************)
(* The scripts, the contract and the TEE together, for any amounts, any    *)
(* numbers of requests and providers and whatever the other user does: a   *)
(* drill trades only what was sealed for the very request, its ledger      *)
(* tells of one request, and a ledger of the full demo means that          *)
(* everybody was paid.                                                     *)
(***************************************************************************)
EXTENDS Drill, HushFlowRfqProofs, SequenceTheorems

\* The resolution the TEE runs, with what is proved of it.
Proved == INSTANCE ResolutionProofs WITH Addresses <- Accounts

\* It is the resolution of the model.
LEMMA SameResolution ==
  ASSUME NEW in
  PROVE  Res!ResolveRfqV1(in) = Proved!ResolveRfqV1(in)
BY DEF Res!ResolveRfqV1, Proved!ResolveRfqV1, Res!Rejected, Proved!Rejected, Res!Invalid,
  Proved!Invalid, Res!Verdict, Proved!Verdict, Res!Leader, Proved!Leader, Res!NoWinner,
  Proved!NoWinner, Res!Consider, Proved!Consider, Res!Eligible, Proved!Eligible,
  Res!SellerMinimumAccepted, Proved!SellerMinimumAccepted, Zenon

LEMMA SameVerdict ==
  ASSUME NEW in, NEW outcome
  PROVE  Res!IsBestOutcome(in, outcome) <=> Proved!IsBestOutcome(in, outcome)
BY DEF Res!IsBestOutcome, Proved!IsBestOutcome, Res!Rejected, Proved!Rejected, Res!Invalid,
  Proved!Invalid, Res!Verdict, Proved!Verdict, Res!NoWinner, Proved!NoWinner, Res!Wins,
  Proved!Wins, Res!Eligible, Proved!Eligible, Res!SellerMinimumAccepted,
  Proved!SellerMinimumAccepted, Zenon

\* So what the TEE answers to a typed input is the best outcome.
LEMMA ResolvesToBest ==
  ASSUME NEW in \in Res!ResolveRfqInput
  PROVE  Res!IsBestOutcome(in, Res!ResolveRfqV1(in))
<1>1. in \in Proved!ResolveRfqInput
  BY DEF Res!ResolveRfqInput, Proved!ResolveRfqInput, Res!Envelope, Proved!Envelope,
    Res!EnvelopeV1, Proved!EnvelopeV1, Res!ProviderSubmission, Proved!ProviderSubmission,
    Res!PayloadKind, Proved!PayloadKind
<1>2. Proved!IsBestOutcome(in, Proved!ResolveRfqV1(in))
  <2>1. ZeroAddress \notin Accounts /\ MAX_PROVIDERS \in Nat
    BY AddressesDistinct, LimitsAreNaturals
  <2>2. Unreadable \notin Proved!EnvelopeV1
    BY UnreadableIsNotAnEnvelope DEF Res!EnvelopeV1, Proved!EnvelopeV1, Res!PayloadKind,
      Proved!PayloadKind
  <2>3. QED
    BY <1>1, <2>1, <2>2, Proved!ResolveIsBest
<1>3. QED
  BY <1>2, SameResolution, SameVerdict

-----------------------------------------------------------------------------
(* The inductive invariant *)

Seal == [payloadKind : Res!PayloadKind, sender : Accounts, rfqId : Nat, value : Nat]
Ciphertext == [sender : Accounts, envelope : Seal]

DrillTypes ==
  /\ script \in {"drill", "full"}
  /\ step \in 1..(Len(Plan) + 1)
  /\ phase \in {"ready", "sent", "saved", "rejected"}
  /\ target \in Nat
  /\ deadline \in Nat
  /\ slipped \in BOOLEAN
  /\ sealed \in [RfqIds -> Seq(Ciphertext)]

\* A transaction is out only at a step that sends one, and the ledger is the last step.
InStep ==
  /\ phase = "sent" => step <= Len(Plan) /\ Plan[step] \notin Reads
  /\ phase = "saved" => step = Len(Plan) + 1

\* Whoever takes part in a request has sent a ciphertext along.
SentIn(seals, sender) == \E i \in DOMAIN seals : seals[i].sender = sender
EveryoneSealed ==
  \A r \in RfqIds : Exists(r) =>
    /\ SentIn(sealed[r], rfqs[r].seller)
    /\ \A i \in DOMAIN providers[r] : SentIn(sealed[r], providers[r][i])

\* How far a drill without a slip has come.
TargetRead == target \in 1..nextRfqId
OwnRequestOpened == \E r \in RfqIds : r >= target /\ rfqs[r].seller = Seller
AQuoted ==
  target \in RfqIds /\ \E i \in DOMAIN providers[target] : providers[target][i] = ProviderA
BQuotedAfterA ==
  /\ target \in RfqIds
  /\ \E i, j \in DOMAIN providers[target] :
       i < j /\ providers[target][i] = ProviderA /\ providers[target][j] = ProviderB
ActionRecorded == target \in RfqIds /\ rfqs[target].actionId # NoActionId
Progress ==
  (script = "drill" /\ ~slipped) =>
    /\ step > 1 => TargetRead
    /\ step > 3 => OwnRequestOpened
    /\ step > 4 => AQuoted
    /\ step > 5 => BQuotedAfterA
    /\ step > 7 => ActionRecorded

DrillInv ==
  /\ ContractInv
  /\ DrillTypes
  /\ InStep
  /\ EveryoneSealed
  /\ TradesHonourSeals
  /\ Progress

\* The plans of the two scripts.
LEMMA PlanLengths ==
  /\ Len(drillPlan) = 7 /\ Len(fullPlan) = 11
  /\ Len(Plan) \in {7, 11}
<1>1. Len(drillPlan) = 7 /\ Len(fullPlan) = 11
  BY DEF drillPlan, fullPlan
<1>2. QED
  BY <1>1 DEF Plan

\* Nothing has happened yet.
LEMMA DrillInvHoldsInitially == DrillInit => DrillInv
<1> SUFFICES ASSUME DrillInit PROVE DrillInv
  OBVIOUS
<1>1. /\ extensionId \in ExtensionIds \cup {0} /\ teeSigner \in Signers \cup {ZeroAddress}
      /\ script \in {"drill", "full"}
  BY SignersAreKeys DEF DrillInit, FoundContract, DeployedContract
<1>2. TypeOK
  BY <1>1, ZeroRfqIsTyped, AmountsAreNaturals, LimitsAreNaturals
    DEF DrillInit, TypeOK, Holders, RfqIds
<1>3. \A r \in RfqIds : Blank(r)
  BY DEF DrillInit, Blank
<1>4. ContractInv
  BY <1>2, <1>3, EmptyBooksAreSound
<1>5. \A r \in RfqIds : ~Exists(r) /\ rfqs[r].status = "OPEN"
  BY <1>3 DEF Blank, Exists, ZeroRfq
<1>6. DrillTypes
  <2>1. sealed \in [RfqIds -> Seq(Ciphertext)]
    BY DEF DrillInit
  <2>2. step \in 1..(Len(Plan) + 1) /\ target \in Nat /\ deadline \in Nat
    BY PlanLengths DEF DrillInit
  <2>3. phase = "ready" /\ slipped = FALSE
    BY DEF DrillInit
  <2>4. QED
    BY <1>1, <2>1, <2>2, <2>3 DEF DrillTypes
<1>7. EveryoneSealed /\ TradesHonourSeals
  BY <1>5 DEF EveryoneSealed, TradesHonourSeals
<1>8. InStep /\ Progress
  BY DEF DrillInit, InStep, Progress
<1>9. QED
  BY <1>4, <1>6, <1>7, <1>8 DEF DrillInv

-----------------------------------------------------------------------------
(* What a step does to the contract and to the seals *)

OpensWithSeal ==
  \E seller \in Accounts, lot \in LotAmounts, cap \in QuoteCaps,
     quoteDeadline \in 0..MaxTime, resolutionDeadline \in 0..MaxTime, envelope \in Seal :
    /\ CreateRfq(seller, lot, cap, quoteDeadline, resolutionDeadline, lot)
    /\ Carries(nextRfqId, seller, envelope)
QuotesWithSeal ==
  \E r \in RfqIds, provider \in Accounts, envelope \in Seal :
    /\ SubmitQuote(provider, r, rfqs[r].quoteCap)
    /\ Carries(r, provider, envelope)
SealsNothing ==
  /\ sealed' = sealed
  /\ \/ UNCHANGED vars
     \/ Tick
     \/ \E id \in ExtensionIds : SetExtensionId(id)
     \/ \E r \in RfqIds :
          \/ CancelRfq(Passerby, r)
          \/ \E answer \in RemoteActionIds \cup {NoActionId, RegistryReverted} :
               RequestResolution(r, 0, answer)
          \/ TimeoutRfq(r)
          \/ \E account \in Accounts : Claim(account, r)

\* A deadline that createRfq takes is a timestamp of the model.
LEMMA DeadlinesAreTimes ==
  ASSUME TypeOK, NEW seller, NEW lot, NEW cap, NEW quoteDeadline \in Nat, NEW credited,
         CreateRfq(seller, lot, cap, quoteDeadline, quoteDeadline + RESOLUTION_DURATION,
                   credited)
  PROVE  /\ quoteDeadline \in 0..MaxTime
         /\ quoteDeadline + RESOLUTION_DURATION \in 0..MaxTime
BY LimitsAreNaturals DEF CreateRfq, CanCreateRfq, TypeOK

\* A transaction of the scripts: it opens a request, quotes, settles as the deployer or
\* seals nothing.
LEMMA TransactionsSeal ==
  ASSUME TypeOK, DrillTypes, NEW name, Transaction(name)
  PROVE  OpensWithSeal \/ QuotesWithSeal \/ (name = "result" /\ DeployerSettles) \/ SealsNothing
<1>1. CASE SellerCreates
  <2>1. SellerMinimumEnvelope(Seller, target, sellerMinimum) \in Seal
    BY CallersAreAccounts, SealedAmountsArePositive
      DEF SellerMinimumEnvelope, Seal, Res!PayloadKind, DrillTypes
  <2>2. deadline \in 0..MaxTime /\ deadline + RESOLUTION_DURATION \in 0..MaxTime
    BY <1>1, DeadlinesAreTimes DEF SellerCreates, DrillTypes
  <2>3. lotAmount \in LotAmounts /\ quoteCap \in QuoteCaps /\ Seller \in Accounts
    BY AmountsArePutForward, CallersAreAccounts
  <2>4. QED
    BY <1>1, <2>1, <2>2, <2>3 DEF SellerCreates, OpensWithSeal
<1>2. ASSUME NEW provider \in Accounts, NEW value \in Nat, ProviderQuotes(provider, value)
      PROVE  QuotesWithSeal
  <2>1. ProviderQuoteEnvelope(provider, target, value) \in Seal
    BY DEF ProviderQuoteEnvelope, Seal, Res!PayloadKind, DrillTypes
  <2>2. QED
    BY <1>2, <2>1 DEF ProviderQuotes, CanQuote, CanSubmitQuote, QuotesWithSeal
<1>3. ASSUME NEW account \in Accounts, Claims(account)
      PROVE  SealsNothing
  BY <1>3 DEF Claims, SealsNothing
<1>4. CASE target \in RfqIds /\ Requests(target)
  BY <1>4 DEF Requests, FreshAnswers, SealsNothing
<1>5. CASE Link
  BY <1>5 DEF Link, SealsNothing
<1>6. {Seller, ProviderA, ProviderB} \subseteq Accounts /\ quoteA \in Nat /\ quoteB \in Nat
  BY CallersAreAccounts, SealedAmountsArePositive
<1>7. QED
  BY <1>1, <1>2, <1>3, <1>4, <1>5, <1>6 DEF Transaction

Answered == \E r \in RfqIds : TeeAnswers(r)

\* Every step of the run does one of five things to the contract and the seals.
LEMMA DrillSteps ==
  ASSUME TypeOK, DrillTypes, InStep, [DrillNext]_drillVars
  PROVE  \/ OpensWithSeal \/ QuotesWithSeal \/ Answered \/ SealsNothing
         \/ script = "full" /\ DeployerSettles
<1>1. CASE \/ ReadNextRfqId \/ ReadBlock \/ WaitForQuoteDeadline \/ MinedReverted
           \/ SaveEvidence \/ UNCHANGED drillVars \/ \E i \in DOMAIN Plan : Send(Plan[i])
  <2>1. sealed' = sealed /\ UNCHANGED vars
    BY <1>1 DEF ReadNextRfqId, ReadBlock, WaitForQuoteDeadline, Send, MinedReverted,
      SaveEvidence, drillVars
  <2>2. QED
    BY <2>1 DEF SealsNothing
<1>2. CASE MinedSuccessfully
  <2>1. step \in 1..Len(Plan) /\ Transaction(Plan[step])
    BY <1>2, PlanLengths DEF MinedSuccessfully, Mined, InStep, DrillTypes
  <2>2. script = "drill" => Plan[step] # "result"
    BY <2>1, PlanLengths DEF Plan, drillPlan
  <2>3. script \in {"drill", "full"}
    BY DEF DrillTypes
  <2>4. QED
    BY <2>1, <2>2, <2>3, TransactionsSeal
<1>3. CASE \E r \in RfqIds : TeeAnswers(r)
  BY <1>3 DEF Answered
<1>4. CASE PasserbyActs
  <2>1. CASE PasserbyCreates
    <3>1. PICK cap \in PasserbyCaps :
            /\ CreateRfq(Passerby, lotAmount, cap, now + quoteDuration,
                         now + quoteDuration + RESOLUTION_DURATION, lotAmount)
            /\ Carries(nextRfqId, Passerby,
                       SellerMinimumEnvelope(Passerby, nextRfqId, sellerMinimum))
      BY <2>1 DEF PasserbyCreates
    <3>2. SellerMinimumEnvelope(Passerby, nextRfqId, sellerMinimum) \in Seal
      BY CallersAreAccounts, SealedAmountsArePositive, LimitsAreNaturals
        DEF SellerMinimumEnvelope, Seal, Res!PayloadKind, TypeOK
    <3>3. now + quoteDuration \in Nat
      BY DurationIsNatural, LimitsAreNaturals DEF TypeOK
    <3>4. /\ now + quoteDuration \in 0..MaxTime
          /\ now + quoteDuration + RESOLUTION_DURATION \in 0..MaxTime
      BY <3>1, <3>3, DeadlinesAreTimes
    <3>5. lotAmount \in LotAmounts /\ cap \in QuoteCaps /\ Passerby \in Accounts
      BY AmountsArePutForward, CallersAreAccounts
    <3>6. QED
      BY <3>1, <3>2, <3>4, <3>5 DEF OpensWithSeal
  <2>2. ASSUME NEW r \in RfqIds, PasserbyQuotes(r) PROVE QuotesWithSeal
    <3>1. ProviderQuoteEnvelope(Passerby, r, PasserbyQuote) \in Seal
      BY CallersAreAccounts, SealedAmountsArePositive
        DEF ProviderQuoteEnvelope, Seal, Res!PayloadKind, RfqIds
    <3>2. QED
      BY <2>2, <3>1, CallersAreAccounts DEF PasserbyQuotes, QuotesWithSeal
  <2>3. CASE Link
    BY <2>3 DEF Link, SealsNothing
  <2>4. ASSUME NEW r \in RfqIds,
               \/ Requests(r)
               \/ CancelRfq(Passerby, r) /\ UNCHANGED sealed
               \/ TimeoutRfq(r) /\ UNCHANGED sealed
               \/ Claim(Passerby, r) /\ UNCHANGED sealed
        PROVE  SealsNothing
    BY <2>4, CallersAreAccounts DEF Requests, FreshAnswers, SealsNothing
  <2>5. CASE \E r \in RfqIds :
               \/ PasserbyQuotes(r)
               \/ Requests(r)
               \/ CancelRfq(Passerby, r) /\ UNCHANGED sealed
               \/ TimeoutRfq(r) /\ UNCHANGED sealed
               \/ Claim(Passerby, r) /\ UNCHANGED sealed
    BY <2>2, <2>4, <2>5
  <2>6. QED
    BY <1>4, <2>1, <2>3, <2>5 DEF PasserbyActs
<1>5. CASE DrillTick
  BY <1>5 DEF DrillTick, SealsNothing
<1>6. QED
  BY <1>1, <1>2, <1>3, <1>4, <1>5 DEF DrillNext

\* Whatever the scripts, the TEE and the other user do is a step of the contract, or none.
LEMMA StepsOfTheContract ==
  ASSUME TypeOK, DrillTypes, InStep, [DrillNext]_drillVars
  PROVE  [Next]_vars
<1>1. CASE OpensWithSeal
  <2>1. PICK seller \in Accounts, lot \in LotAmounts, cap \in QuoteCaps,
             quoteDeadline \in 0..MaxTime, resolutionDeadline \in 0..MaxTime :
          CreateRfq(seller, lot, cap, quoteDeadline, resolutionDeadline, lot)
    BY <1>1 DEF OpensWithSeal
  <2>2. lot \in Credits(lot)
    BY DEF Credits
  <2>3. QED
    BY <2>1, <2>2 DEF Next
<1>2. CASE QuotesWithSeal
  <2>1. PICK r \in RfqIds, provider \in Accounts : SubmitQuote(provider, r, rfqs[r].quoteCap)
    BY <1>2 DEF QuotesWithSeal
  <2>2. rfqs[r].quoteCap \in Credits(rfqs[r].quoteCap)
    BY DEF Credits
  <2>3. QED
    BY <2>1, <2>2 DEF Next
<1>3. CASE Answered \/ DeployerSettles
  BY <1>3 DEF Answered, TeeAnswers, DeployerSettles, SubmitOutcome, Next
<1>4. CASE SealsNothing
  BY <1>4, CallersAreAccounts, NoFeeIsAFee DEF SealsNothing, Next
<1>5. QED
  BY <1>1, <1>2, <1>3, <1>4, DrillSteps

-----------------------------------------------------------------------------
(* What a step does to the seals of one request *)

SealsKept(r) ==
  /\ sealed'[r] = sealed[r] /\ providers'[r] = providers[r]
  /\ rfqs'[r].seller = rfqs[r].seller
SealOpens(r) ==
  /\ ~Exists(r) /\ rfqs[r].status = "OPEN" /\ providers'[r] = <<>>
  /\ \E envelope \in Seal :
       sealed'[r] = Append(sealed[r], [sender |-> rfqs'[r].seller, envelope |-> envelope])
SealQuotes(r) ==
  /\ IsOpen(r) /\ rfqs'[r] = rfqs[r]
  /\ \E provider \in Accounts, envelope \in Seal :
       /\ sealed'[r] = Append(sealed[r], [sender |-> provider, envelope |-> envelope])
       /\ providers'[r] = Append(providers[r], provider)

\* A step adds one ciphertext, of the seller that opens a request or of a provider that
\* joins it, or leaves both the ciphertexts and the participants of the request alone.
LEMMA SealStep ==
  ASSUME ContractInv, DrillTypes, InStep, [DrillNext]_drillVars, NEW r \in RfqIds
  PROVE  SealsKept(r) \/ SealOpens(r) \/ SealQuotes(r)
<1> USE DEF DrillTypes
<1>0. TypeOK /\ rfqs[r] \in Rfq
  BY DEF ContractInv, TypeOK
<1>6. ASSUME nextRfqId' = nextRfqId PROVE rfqs'[r].seller = rfqs[r].seller
  <2>0. nextRfqId \in Int
    BY <1>0, LimitsAreNaturals DEF TypeOK
  <2>1. ~Created(r)
    <3>1. nextRfqId + 1 # nextRfqId
      BY <2>0
    <3>2. QED
      BY <1>6, <3>1, Zenon DEF Created
  <2>2. RequestStep(r)
    BY <1>0, StepsOfTheContract, StepOnRequest
  <2>3. QED
    BY <1>0, <2>1, <2>2, TermsAreKept DEF RequestStep, KeepsTerms
<1>1. CASE OpensWithSeal
  <2>1. PICK seller \in Accounts, lot \in LotAmounts, cap \in QuoteCaps,
             quoteDeadline \in 0..MaxTime, resolutionDeadline \in 0..MaxTime,
             envelope \in Seal :
          /\ CreateRfq(seller, lot, cap, quoteDeadline, resolutionDeadline, lot)
          /\ Carries(nextRfqId, seller, envelope)
    BY <1>1 DEF OpensWithSeal
  <2>2. /\ nextRfqId \in RfqIds /\ providers' = providers
        /\ rfqs' = [rfqs EXCEPT ![nextRfqId] =
             [ZeroRfq EXCEPT !.seller = seller, !.lotAmount = lot, !.quoteCap = cap,
                             !.quoteDeadline = quoteDeadline,
                             !.resolutionDeadline = resolutionDeadline]]
    BY <2>1 DEF CreateRfq, CanCreateRfq, bookVars
  <2>3. CASE r # nextRfqId
    BY <1>0, <2>1, <2>2, <2>3 DEF Carries, SealsKept, TypeOK
  <2>4. CASE r = nextRfqId
    <3>1. Blank(r)
      <4>1. ~Funded(r)
        BY <2>4, LimitsAreNaturals, <1>0 DEF Funded, TypeOK
      <4>2. QED
        BY <4>1 DEF ContractInv, BlankOrFunded
    <3>2. rfqs'[r].seller = seller
      BY <1>0, <2>2, <2>4 DEF TypeOK, ZeroRfq
    <3>3. sealed'[r] = Append(sealed[r], [sender |-> seller, envelope |-> envelope])
      BY <2>1, <2>4 DEF Carries
    <3>4. ~Exists(r) /\ rfqs[r].status = "OPEN" /\ providers'[r] = <<>>
      BY <2>2, <3>1 DEF Blank, Exists, ZeroRfq
    <3>5. QED
      BY <3>2, <3>3, <3>4 DEF SealOpens
  <2>5. QED
    BY <2>3, <2>4
<1>2. CASE QuotesWithSeal
  <2>1. PICK q \in RfqIds, provider \in Accounts, envelope \in Seal :
          /\ SubmitQuote(provider, q, rfqs[q].quoteCap)
          /\ Carries(q, provider, envelope)
    BY <1>2 DEF QuotesWithSeal
  <2>2. /\ IsOpen(q) /\ rfqs' = rfqs
        /\ providers' = [providers EXCEPT ![q] = Append(@, provider)]
    BY <2>1 DEF SubmitQuote, CanSubmitQuote
  <2>3. CASE r # q
    BY <1>0, <2>1, <2>2, <2>3 DEF Carries, SealsKept, TypeOK
  <2>4. CASE r = q
    BY <1>0, <2>1, <2>2, <2>4 DEF Carries, SealQuotes, TypeOK
  <2>5. QED
    BY <2>3, <2>4
<1>3. CASE Answered \/ DeployerSettles
  <2>1. PICK q \in RfqIds : SubmitResult(q) /\ sealed' = sealed
    BY <1>3 DEF Answered, TeeAnswers, DeployerSettles, SubmitOutcome
  <2>2. providers' = providers /\ nextRfqId' = nextRfqId
    BY <2>1 DEF SubmitResult, bookVars
  <2>3. QED
    BY <1>6, <2>1, <2>2 DEF SealsKept
<1>4. CASE SealsNothing
  <2>1. providers' = providers /\ nextRfqId' = nextRfqId
    BY <1>4 DEF SealsNothing, vars, bookVars, Tick, SetExtensionId, CancelRfq,
      RequestResolution, TimeoutRfq, Claim
  <2>2. QED
    BY <1>4, <1>6, <2>1 DEF SealsNothing, SealsKept
<1>5. QED
  BY <1>0, <1>1, <1>2, <1>3, <1>4, DrillSteps

\* A ciphertext sent is never lost.
LEMMA CiphertextsStay ==
  ASSUME ContractInv, DrillTypes, InStep, [DrillNext]_drillVars, NEW r \in RfqIds,
         NEW sender, SentIn(sealed[r], sender)
  PROVE  SentIn(sealed'[r], sender)
<1>1. sealed[r] \in Seq(Ciphertext)
  BY DEF DrillTypes
<1>2. ASSUME NEW entry, sealed'[r] = Append(sealed[r], entry)
      PROVE  SentIn(sealed'[r], sender)
  BY <1>1, <1>2 DEF SentIn
<1>3. CASE SealsKept(r)
  BY <1>3 DEF SealsKept, SentIn
<1>4. CASE SealOpens(r) \/ SealQuotes(r)
  BY <1>2, <1>4 DEF SealOpens, SealQuotes
<1>5. QED
  BY <1>3, <1>4, SealStep

\* Whoever sends one has sent one.
LEMMA NewCiphertext ==
  ASSUME NEW seals \in Seq(Ciphertext), NEW sender \in Accounts, NEW envelope \in Seal
  PROVE  SentIn(Append(seals, [sender |-> sender, envelope |-> envelope]), sender)
<1> DEFINE entry == [sender |-> sender, envelope |-> envelope]
<1>1. entry \in Ciphertext /\ entry.sender = sender
  BY DEF Ciphertext
<1> HIDE DEF entry
<1>2. /\ Len(seals) + 1 \in DOMAIN Append(seals, entry)
      /\ Append(seals, entry)[Len(seals) + 1] = entry
  BY <1>1
<1>3. SentIn(Append(seals, entry), sender)
  BY <1>1, <1>2 DEF SentIn
<1>4. QED
  BY <1>3 DEF entry

\* Every step keeps: whoever takes part in a request has sent a ciphertext along.
LEMMA EveryoneSealedStep ==
  ASSUME ContractInv, DrillTypes, InStep, EveryoneSealed, [DrillNext]_drillVars
  PROVE  EveryoneSealed'
<1> SUFFICES ASSUME NEW r \in RfqIds, Exists(r)'
             PROVE  /\ SentIn(sealed'[r], rfqs'[r].seller)
                    /\ \A i \in DOMAIN providers'[r] : SentIn(sealed'[r], providers'[r][i])
  BY DEF EveryoneSealed
<1>1. CASE SealsKept(r)
  BY <1>1, CiphertextsStay DEF SealsKept, EveryoneSealed, Exists
<1>2. CASE SealOpens(r)
  <2>1. providers'[r] = <<>>
    BY <1>2 DEF SealOpens
  <2>2. PICK envelope \in Seal :
          sealed'[r] = Append(sealed[r], [sender |-> rfqs'[r].seller, envelope |-> envelope])
    BY <1>2 DEF SealOpens
  <2>3. sealed[r] \in Seq(Ciphertext) /\ rfqs'[r].seller \in Accounts
    <3>1. TypeOK'
      BY StepsOfTheContract, TypeStep DEF ContractInv
    <3>2. QED
      BY <3>1 DEF DrillTypes, TypeOK, Rfq, Exists
  <2>4. SentIn(sealed'[r], rfqs'[r].seller)
    BY <2>2, <2>3, NewCiphertext
  <2>5. QED
    BY <2>1, <2>4
<1>3. CASE SealQuotes(r)
  <2>1. PICK provider \in Accounts, envelope \in Seal :
          /\ sealed'[r] = Append(sealed[r], [sender |-> provider, envelope |-> envelope])
          /\ providers'[r] = Append(providers[r], provider)
    BY <1>3 DEF SealQuotes
  <2>2. Exists(r) /\ rfqs'[r] = rfqs[r]
    BY <1>3 DEF SealQuotes, IsOpen
  <2>3. SentIn(sealed'[r], rfqs'[r].seller)
    BY <2>2, CiphertextsStay DEF EveryoneSealed
  <2>4. ASSUME NEW i \in DOMAIN providers'[r] PROVE SentIn(sealed'[r], providers'[r][i])
    <3>1. providers[r] \in Seq(Accounts) /\ sealed[r] \in Seq(Ciphertext)
      BY DEF ContractInv, TypeOK, DrillTypes
    <3>2. CASE i = Len(providers[r]) + 1
      <4>1. providers'[r][i] = provider
        BY <2>1, <3>1, <3>2
      <4>2. QED
        BY <2>1, <3>1, <4>1, NewCiphertext
    <3>3. CASE i # Len(providers[r]) + 1
      <4>1. i \in DOMAIN providers[r] /\ providers'[r][i] = providers[r][i]
        BY <2>1, <3>1, <3>3
      <4>2. QED
        BY <2>2, <4>1, CiphertextsStay DEF EveryoneSealed
    <3>4. QED
      BY <3>2, <3>3
  <2>5. QED
    BY <2>3, <2>4
<1>4. QED
  BY <1>1, <1>2, <1>3, SealStep

-----------------------------------------------------------------------------
(* Trades *)

\* What the TEE finds in the ciphertext of somebody who sent one.
LEMMA OpenedIsTyped ==
  ASSUME DrillTypes, NEW r \in RfqIds, NEW sender, SentIn(sealed[r], sender)
  PROVE  /\ CiphertextOf(r, sender) \in Seal
         /\ Opened(r, sender) \in Res!Envelope
<1>1. sealed[r] \in Seq(Ciphertext)
  BY DEF DrillTypes
<1>2. CiphertextOf(r, sender) \in Seal
  <2>1. PICK i \in DOMAIN sealed[r] : sealed[r][i].sender = sender
    BY DEF SentIn
  <2>2. (CHOOSE j \in DOMAIN sealed[r] : sealed[r][j].sender = sender) \in DOMAIN sealed[r]
    BY <2>1
  <2>3. ASSUME NEW j \in DOMAIN sealed[r] PROVE sealed[r][j].envelope \in Seal
    <3>1. sealed[r][j] \in Ciphertext
      BY <1>1
    <3>2. QED
      BY <3>1 DEF Ciphertext
  <2>4. QED
    BY <2>2, <2>3 DEF CiphertextOf
<1>3. Opened(r, sender) \in Res!Envelope
  <2>1. CASE CiphertextOf(r, sender) = Unreadable
    BY <2>1 DEF Opened, Res!Envelope
  <2>2. CASE CiphertextOf(r, sender) # Unreadable
    BY <1>2, <2>2 DEF Opened, Seal, Res!Envelope, Res!EnvelopeV1, Res!PayloadKind
  <2>3. QED
    BY <2>1, <2>2
<1>4. QED
  BY <1>2, <1>3

\* The input the TEE builds from an instruction is what the algorithm expects.
LEMMA InputIsTyped ==
  ASSUME ContractInv, DrillTypes, EveryoneSealed, NEW r \in RfqIds, Exists(r),
         instruction[r] = ResolutionMessage(r)
  PROVE  ResolveRfqInput(r) \in Res!ResolveRfqInput
<1>1. /\ rfqs[r].seller \in Accounts /\ rfqs[r].quoteCap \in Nat
      /\ providers[r] \in Seq(Accounts)
  BY DEF ContractInv, TypeOK, Rfq, Exists
<1>2. /\ instruction[r].seller = rfqs[r].seller
      /\ instruction[r].quoteCap = rfqs[r].quoteCap
      /\ instruction[r].providers = providers[r]
  BY DEF ResolutionMessage
<1>3. Opened(r, rfqs[r].seller) \in Res!Envelope
  BY OpenedIsTyped DEF EveryoneSealed
<1>4. ASSUME NEW i \in 1..Len(providers[r])
      PROVE  [address |-> providers[r][i], quoteCap |-> rfqs[r].quoteCap,
              envelope |-> Opened(r, providers[r][i])] \in Res!ProviderSubmission
  <2>1. providers[r][i] \in Accounts /\ i \in DOMAIN providers[r]
    BY <1>1
  <2>2. Opened(r, providers[r][i]) \in Res!Envelope
    BY <2>1, OpenedIsTyped DEF EveryoneSealed
  <2>3. QED
    BY <1>1, <2>1, <2>2 DEF Res!ProviderSubmission
<1>5. [i \in DOMAIN providers[r] |->
        [address |-> providers[r][i], quoteCap |-> rfqs[r].quoteCap,
         envelope |-> Opened(r, providers[r][i])]] \in Seq(Res!ProviderSubmission)
  <2>1. DOMAIN providers[r] = 1..Len(providers[r]) /\ Len(providers[r]) \in Nat
    BY <1>1
  <2>2. QED
    BY <1>4, <2>1
<1>6. QED
  BY <1>1, <1>2, <1>3, <1>5 DEF ResolveRfqInput, Res!ResolveRfqInput

\* What a trade of request r owes to the seals.
HonoursSeals(r) ==
  LET minimum == CiphertextOf(r, rfqs[r].seller)
      quote == CiphertextOf(r, rfqs[r].winningProvider)
  IN  /\ minimum.rfqId = r
      /\ quote.rfqId = r /\ quote.sender = rfqs[r].winningProvider
      /\ rfqs[r].winningQuote = quote.value
      /\ quote.value \in minimum.value..rfqs[r].quoteCap

\* A trade the TEE answers names a provider whose seal for this request is the price.
LEMMA AnsweredTrade ==
  ASSUME ContractInv, DrillTypes, EveryoneSealed, NEW r \in RfqIds, Exists(r),
         instruction[r] = ResolutionMessage(r),
         NEW outcome, outcome = Res!ResolveRfqV1(ResolveRfqInput(r)),
         OutcomeStatus(outcome.resultType) = "SETTLED"
  PROVE  LET minimum == CiphertextOf(r, rfqs[r].seller)
             quote == CiphertextOf(r, outcome.winningProvider)
         IN  /\ minimum.rfqId = r
             /\ quote.rfqId = r /\ quote.sender = outcome.winningProvider
             /\ outcome.winningQuote = quote.value
             /\ quote.value \in minimum.value..rfqs[r].quoteCap
<1> DEFINE input == ResolveRfqInput(r)
<1>1. input \in Res!ResolveRfqInput
  BY InputIsTyped
<1>2. Res!IsBestOutcome(input, outcome)
  BY <1>1, ResolvesToBest
<1>3. outcome.resultType = "TRADE"
  <2>1. outcome.resultType \notin {"INVALID_RFQ", "NO_VALID_QUOTE"}
    BY DEF OutcomeStatus
  <2>2. Res!Invalid.resultType = "INVALID_RFQ"
    BY DEF Res!Invalid
  <2>3. Res!Verdict(Res!NoWinner).resultType = "NO_VALID_QUOTE"
    BY DEF Res!Verdict, Res!NoWinner
  <2>4. PICK i \in DOMAIN input.providers :
          outcome = [resultType |-> "TRADE", winningProvider |-> input.providers[i].address,
                     winningQuote |-> input.providers[i].envelope.value]
    BY <1>2, <2>1, <2>2, <2>3, Zenon DEF Res!IsBestOutcome
  <2>5. QED
    BY <2>4
<1>4. ~Res!Rejected(input)
  BY <1>2, <1>3 DEF Res!IsBestOutcome, Res!Invalid
<1>5. PICK i \in DOMAIN input.providers :
        /\ Res!Eligible(input, input.providers[i])
        /\ outcome = [resultType |-> "TRADE", winningProvider |-> input.providers[i].address,
                      winningQuote |-> input.providers[i].envelope.value]
  <2>1. outcome # Res!Verdict(Res!NoWinner)
    BY <1>3 DEF Res!Verdict, Res!NoWinner
  <2>2. QED
    BY <1>2, <1>4, <2>1, Zenon DEF Res!IsBestOutcome, Res!Wins
<1>6. /\ instruction[r].seller = rfqs[r].seller
      /\ instruction[r].quoteCap = rfqs[r].quoteCap
      /\ instruction[r].providers = providers[r]
  BY DEF ResolutionMessage
<1>7. /\ input.sellerEnvelope = Opened(r, rfqs[r].seller)
      /\ DOMAIN input.providers = DOMAIN providers[r]
      /\ input.providers[i] = [address |-> providers[r][i], quoteCap |-> rfqs[r].quoteCap,
                               envelope |-> Opened(r, providers[r][i])]
  BY <1>6 DEF ResolveRfqInput
<1> DEFINE minimum == CiphertextOf(r, rfqs[r].seller)
           quote == CiphertextOf(r, providers[r][i])
<1>8. minimum \in Seal /\ quote \in Seal
  BY <1>7, OpenedIsTyped DEF EveryoneSealed
<1>9. /\ minimum # Unreadable /\ Opened(r, rfqs[r].seller).bound
      /\ Opened(r, rfqs[r].seller) # Unreadable
  BY <1>4, <1>7 DEF Res!Rejected, Res!SellerMinimumAccepted, Opened
<1>10. minimum.rfqId = r /\ Opened(r, rfqs[r].seller).value = minimum.value
  BY <1>9 DEF Opened
<1>11. /\ Opened(r, providers[r][i]) # Unreadable
       /\ Opened(r, providers[r][i]).sender = providers[r][i]
       /\ Opened(r, providers[r][i]).bound
       /\ Opened(r, providers[r][i]).value <= rfqs[r].quoteCap
       /\ Opened(r, providers[r][i]).value >= minimum.value
  BY <1>5, <1>7, <1>10 DEF Res!Eligible
<1>12. quote.rfqId = r /\ quote.sender = providers[r][i]
       /\ Opened(r, providers[r][i]).value = quote.value
  BY <1>11 DEF Opened
<1>13. /\ outcome.winningProvider = providers[r][i]
       /\ outcome.winningQuote = quote.value
  BY <1>5, <1>7, <1>12
<1>14. minimum.value \in Nat /\ quote.value \in Nat /\ rfqs[r].quoteCap \in Nat
  BY <1>8 DEF Seal, ContractInv, TypeOK, Rfq
<1>15. quote.value \in minimum.value..rfqs[r].quoteCap
  BY <1>11, <1>12, <1>14
<1>16. QED
  BY <1>10, <1>12, <1>13, <1>15

\* A step other than an answer or the deployer's settles nothing.
LEMMA OnlyAnswersSettle ==
  ASSUME ContractInv, DrillTypes, InStep, [DrillNext]_drillVars, NEW r \in RfqIds, Resolved(r)
  PROVE  Answered \/ (script = "full" /\ DeployerSettles)
<1>1. consumedActionIds' # consumedActionIds
  BY DEF Resolved
<1>2. ~OpensWithSeal /\ ~QuotesWithSeal
  <2>1. ~OpensWithSeal
    <3>1. ASSUME NEW seller, NEW lot, NEW cap, NEW quoteDeadline, NEW resolutionDeadline,
                 CreateRfq(seller, lot, cap, quoteDeadline, resolutionDeadline, lot)
          PROVE  FALSE
      BY <1>1, <3>1 DEF CreateRfq, replayVars
    <3>2. QED
      BY <3>1 DEF OpensWithSeal
  <2>2. ~QuotesWithSeal
    BY <1>1 DEF QuotesWithSeal, SubmitQuote, replayVars
  <2>3. QED
    BY <2>1, <2>2
<1>3. ~SealsNothing
  BY <1>1 DEF SealsNothing, vars, replayVars, Tick, SetExtensionId, CancelRfq,
    RequestResolution, TimeoutRfq, Claim
<1>4. QED
  BY <1>2, <1>3, DrillSteps DEF ContractInv

\* Every step keeps: in a drill, whatever has traded honours the seals.
LEMMA TradesHonourSealsStep ==
  ASSUME ContractInv, DrillTypes, InStep, EveryoneSealed, TradesHonourSeals,
         [DrillNext]_drillVars, script' = script
  PROVE  TradesHonourSeals'
<1> SUFFICES ASSUME script = "drill", NEW r \in RfqIds, rfqs'[r].status = "SETTLED"
             PROVE  HonoursSeals(r)'
  BY DEF TradesHonourSeals, HonoursSeals
<1>1. TypeOK /\ TypeOK' /\ [Next]_vars /\ rfqs[r] \in Rfq
  BY StepsOfTheContract, TypeStep DEF ContractInv, TypeOK
<1>2. RequestStep(r)
  BY <1>1, StepOnRequest
<1>3. CASE rfqs[r].status # "OPEN"
  <2>1. SameBooks(r) \/ Paid(r)
    BY <1>1, <1>2, <1>3, ClosedIsKept DEF ContractInv
  <2>2. rfqs'[r] = rfqs[r]
    BY <2>1 DEF SameBooks, Paid
  <2>3. sealed'[r] = sealed[r]
    BY <1>3, SealStep DEF SealsKept, SealOpens, SealQuotes, IsOpen
  <2>4. HonoursSeals(r)
    BY <2>2 DEF TradesHonourSeals, HonoursSeals
  <2>5. QED
    BY <2>2, <2>3, <2>4 DEF HonoursSeals, CiphertextOf
<1>4. CASE rfqs[r].status = "OPEN"
  <2>1. Resolved(r)
    <3>1. rfqs'[r] # rfqs[r]
      BY <1>4
    <3>2. ~SameBooks(r) /\ ~Quoted(r) /\ ~Paid(r)
      BY <3>1 DEF SameBooks, Quoted, Paid
    <3>3. ~Created(r) /\ ~Requested(r) /\ ~Abandoned(r)
      BY <1>1, <1>4 DEF Created, Requested, Abandoned, ZeroRfq, Rfq
    <3>4. QED
      BY <1>2, <3>2, <3>3 DEF RequestStep
  <2>2. PICK q \in RfqIds : TeeAnswers(q)
    BY <2>1, OnlyAnswersSettle DEF Answered
  <2>3. q = r
    <3>1. SubmitResult(q)
      BY <2>2 DEF TeeAnswers, SubmitOutcome
    <3>2. ASSUME q # r PROVE rfqs'[r] = rfqs[r]
      BY <1>1, <3>1, <3>2 DEF SubmitResult, TypeOK
    <3>3. QED
      BY <1>4, <3>2
  <2> DEFINE outcome == Res!ResolveRfqV1(ResolveRfqInput(r))
  <2>4. /\ sealed' = sealed
        /\ rfqs'[r].status = OutcomeStatus(outcome.resultType)
        /\ rfqs'[r].winningProvider = outcome.winningProvider
        /\ rfqs'[r].winningQuote = outcome.winningQuote
        /\ rfqs[r].actionId \in RemoteActionIds
    BY <2>2, <2>3 DEF TeeAnswers, SubmitOutcome
  <2>5. instruction[r] = ResolutionMessage(r)
    BY <2>4, HashesAreNotZero DEF ContractInv, InstructionStaysCurrent, ActionIds
  <2>6. Exists(r)
    BY <2>1 DEF Resolved, IsOpen
  <2>7. KeepsTerms(r)
    BY <1>1, <2>1, TermsAreKept
  <2> HIDE DEF outcome
  <2>8. LET minimum == CiphertextOf(r, rfqs[r].seller)
            quote == CiphertextOf(r, outcome.winningProvider)
        IN  /\ minimum.rfqId = r
            /\ quote.rfqId = r /\ quote.sender = outcome.winningProvider
            /\ outcome.winningQuote = quote.value
            /\ quote.value \in minimum.value..rfqs[r].quoteCap
    BY <2>4, <2>5, <2>6, AnsweredTrade DEF outcome
  <2>9. \A account : CiphertextOf(r, account)' = CiphertextOf(r, account)
    BY <2>4 DEF CiphertextOf
  <2>10. QED
    BY <2>4, <2>7, <2>8, <2>9 DEF HonoursSeals, KeepsTerms
<1>5. QED
  BY <1>3, <1>4

-----------------------------------------------------------------------------
(* The course of a drill *)

\* A request keeps its seller, its quotes and its recorded action.
LEMMA RequestsRemember ==
  ASSUME ContractInv, [Next]_vars, NEW r \in RfqIds
  PROVE  /\ Exists(r) => rfqs'[r].seller = rfqs[r].seller
         /\ \A i \in DOMAIN providers[r] :
              i \in DOMAIN providers'[r] /\ providers'[r][i] = providers[r][i]
         /\ rfqs[r].actionId # NoActionId => rfqs'[r].actionId # NoActionId
<1>1. TypeOK /\ rfqs[r] \in Rfq /\ providers[r] \in Seq(Accounts)
  BY DEF ContractInv, TypeOK
<1>2. RequestStep(r)
  BY <1>1, StepOnRequest
<1>3. CASE Created(r)
  <2>1. Blank(r)
    BY <1>1, <1>3, CreatedWasBlank DEF ContractInv
  <2>2. ~Exists(r) /\ providers[r] = <<>> /\ rfqs[r].actionId = NoActionId
    BY <2>1 DEF Blank, Exists, ZeroRfq
  <2>3. QED
    BY <2>2
<1>4. CASE ~Created(r)
  <2>1. rfqs'[r].seller = rfqs[r].seller
    BY <1>1, <1>2, <1>4, TermsAreKept DEF RequestStep, KeepsTerms
  <2>2. CASE Quoted(r)
    <3>1. PICK sender \in Accounts : providers'[r] = Append(providers[r], sender)
      BY <2>2 DEF Quoted
    <3>2. rfqs'[r] = rfqs[r]
      BY <2>2 DEF Quoted
    <3>3. QED
      BY <1>1, <2>1, <3>1, <3>2
  <2>3. CASE ~Quoted(r)
    <3>1. providers'[r] = providers[r]
      BY <1>2, <1>4, <2>3 DEF RequestStep, SameBooks, Requested, Abandoned, Resolved, Paid,
        SameQuotes
    <3>2. CASE Requested(r)
      BY <2>1, <3>1, <3>2 DEF Requested
    <3>3. CASE SameBooks(r) \/ Abandoned(r) \/ Resolved(r) \/ Paid(r)
      <4>1. rfqs'[r].actionId = rfqs[r].actionId
        BY <1>1, <3>3 DEF SameBooks, Abandoned, Resolved, Paid, Rfq
      <4>2. QED
        BY <2>1, <3>1, <4>1
    <3>4. QED
      BY <1>2, <1>4, <2>3, <3>2, <3>3 DEF RequestStep
  <2>4. QED
    BY <2>2, <2>3
<1>5. QED
  BY <1>3, <1>4

\* So a milestone once passed stays passed.
LEMMA MilestonesStay ==
  ASSUME ContractInv, [Next]_vars, target' = target
  PROVE  /\ TargetRead => TargetRead'
         /\ OwnRequestOpened => OwnRequestOpened'
         /\ AQuoted => AQuoted'
         /\ BQuotedAfterA => BQuotedAfterA'
         /\ ActionRecorded => ActionRecorded'
<1>1. TargetRead => TargetRead'
  <2>1. nextRfqId' >= nextRfqId /\ nextRfqId \in Int /\ nextRfqId' \in Int
    BY SharedStateGrows, TypeStep, LimitsAreNaturals DEF ContractInv, SharedGrows, TypeOK
  <2>2. QED
    BY <2>1 DEF TargetRead
<1>2. OwnRequestOpened => OwnRequestOpened'
  <2>1. Seller # ZeroAddress
    BY CallersAreAccounts, AddressesDistinct
  <2>2. QED
    BY <2>1, RequestsRemember DEF OwnRequestOpened, Exists
<1>3. AQuoted => AQuoted'
  BY RequestsRemember DEF AQuoted
<1>4. BQuotedAfterA => BQuotedAfterA'
  BY RequestsRemember DEF BQuotedAfterA
<1>5. ActionRecorded => ActionRecorded'
  BY RequestsRemember DEF ActionRecorded
<1>6. QED
  BY <1>1, <1>2, <1>3, <1>4, <1>5

\* The entries of the drill's plan.
LEMMA DrillPlanEntries ==
  ASSUME script = "drill"
  PROVE  /\ Len(Plan) = 7
         /\ Plan[1] = "nextRfqId" /\ Plan[2] = "getBlock" /\ Plan[3] = "createRfq"
         /\ Plan[4] = "quoteA" /\ Plan[5] = "quoteB" /\ Plan[6] = "wait"
         /\ Plan[7] = "request"
BY DEF Plan, drillPlan

\* Where a drill is when it is at an entry of its plan.
LEMMA DrillIsAt ==
  ASSUME DrillTypes, script = "drill"
  PROVE  /\ step \in 1..8
         /\ At("nextRfqId") => step = 1
         /\ At("getBlock") => step = 2
         /\ At("wait") => step = 6
         /\ step <= Len(Plan) /\ Plan[step] \notin Reads => step \in {3, 4, 5, 7}
<1>0. Len(Plan) = 7
  BY DrillPlanEntries
<1>1. step \in 1..8
  <2>1. step \in 1..(Len(Plan) + 1)
    BY DEF DrillTypes
  <2>2. QED
    BY <1>0, <2>1
<1>2. ASSUME step <= Len(Plan) PROVE step \in {1, 2, 3, 4, 5, 6, 7}
  BY <1>0, <1>1, <1>2
<1>3. QED
  BY <1>1, <1>2, DrillPlanEntries DEF At, Reads

\* Every step keeps the types of the scripts, and a script at its place.
LEMMA ScriptStep ==
  ASSUME ContractInv, DrillTypes, InStep, [DrillNext]_drillVars
  PROVE  script' = script /\ DrillTypes' /\ InStep'
<1>1. /\ TypeOK /\ now \in Nat /\ nextRfqId \in Nat
      /\ Len(Plan) \in Nat /\ step \in Nat
  BY PlanLengths, LimitsAreNaturals DEF ContractInv, TypeOK, DrillTypes
<1>2. script' = script
  BY DEF DrillNext, drillVars, scriptVars, ReadNextRfqId, ReadBlock, WaitForQuoteDeadline,
    Send, Mined, MinedSuccessfully, MinedReverted, SaveEvidence, TeeAnswers, PasserbyActs,
    DrillTick
<1>3. Plan' = Plan
  BY <1>2 DEF Plan
<1>4. sealed' \in [RfqIds -> Seq(Ciphertext)]
  <2>1. ASSUME NEW r \in RfqIds, NEW sender \in Accounts, NEW envelope \in Seal,
               Carries(r, sender, envelope)
        PROVE  sealed' \in [RfqIds -> Seq(Ciphertext)]
    <3>1. [sender |-> sender, envelope |-> envelope] \in Ciphertext
      BY DEF Ciphertext
    <3>2. Append(sealed[r], [sender |-> sender, envelope |-> envelope]) \in Seq(Ciphertext)
      BY <3>1 DEF DrillTypes
    <3>3. QED
      BY <2>1, <3>2 DEF Carries, DrillTypes
  <2>2. CASE OpensWithSeal
    BY <2>1, <2>2 DEF OpensWithSeal, CreateRfq, CanCreateRfq
  <2>3. CASE QuotesWithSeal
    BY <2>1, <2>3 DEF QuotesWithSeal
  <2>4. CASE Answered \/ DeployerSettles \/ SealsNothing
    BY <2>4 DEF Answered, TeeAnswers, DeployerSettles, SealsNothing, DrillTypes
  <2>5. QED
    BY <1>1, <2>2, <2>3, <2>4, DrillSteps
<1>5. CASE UNCHANGED scriptVars
  BY <1>3, <1>4, <1>5 DEF scriptVars, DrillTypes, InStep
<1>6. CASE ReadNextRfqId \/ ReadBlock \/ WaitForQuoteDeadline
  <2>1. target' \in Nat /\ deadline' \in Nat
    BY <1>1, <1>6, DurationIsNatural DEF ReadNextRfqId, ReadBlock, WaitForQuoteDeadline,
      Predicted, DrillTypes
  <2>2. /\ step <= Len(Plan) /\ step' = step + 1 /\ phase' = phase /\ phase = "ready"
        /\ slipped' = slipped
    BY <1>6 DEF ReadNextRfqId, ReadBlock, WaitForQuoteDeadline, At
  <2>3. QED
    BY <1>1, <1>2, <1>3, <1>4, <2>1, <2>2 DEF DrillTypes, InStep
<1>7. CASE MinedSuccessfully \/ MinedReverted
  <2>1. /\ phase = "sent" /\ phase' = "ready" /\ step' = step + 1
        /\ target' = target /\ deadline' = deadline /\ slipped' \in BOOLEAN
    BY <1>7 DEF MinedSuccessfully, MinedReverted, Mined, DrillTypes
  <2>2. QED
    BY <1>1, <1>2, <1>3, <1>4, <2>1 DEF DrillTypes, InStep
<1>8. ASSUME NEW i \in DOMAIN Plan, Send(Plan[i]) PROVE DrillTypes' /\ InStep'
  <2>1. /\ phase' \in {"sent", "rejected"} /\ step <= Len(Plan) /\ Plan[step] \notin Reads
        /\ UNCHANGED <<step, target, deadline, slipped>>
    BY <1>8 DEF Send, At
  <2>2. QED
    BY <1>1, <1>2, <1>3, <1>4, <2>1 DEF DrillTypes, InStep
<1>9. CASE SaveEvidence
  <2>1. /\ phase' = "saved" /\ step = Len(Plan) + 1
        /\ UNCHANGED <<step, target, deadline, slipped>>
    BY <1>9 DEF SaveEvidence
  <2>2. QED
    BY <1>1, <1>2, <1>3, <1>4, <2>1 DEF DrillTypes, InStep
<1>10. QED
  BY <1>2, <1>5, <1>6, <1>7, <1>8, <1>9 DEF DrillNext, drillVars, TeeAnswers, PasserbyActs,
    DrillTick

\* What each transaction of the drill adds.
LEMMA TransactionMilestones ==
  ASSUME ContractInv, DrillTypes, target' = target, NEW name, Transaction(name)
  PROVE  /\ name = "createRfq" /\ TargetRead => OwnRequestOpened'
         /\ name = "quoteA" => AQuoted'
         /\ name = "quoteB" /\ AQuoted => BQuotedAfterA'
         /\ name = "request" => ActionRecorded'
<1>1. TypeOK
  BY DEF ContractInv
<1>2. ASSUME name = "createRfq", TargetRead PROVE OwnRequestOpened'
  <2>1. CreateRfq(Seller, lotAmount, quoteCap, deadline, deadline + RESOLUTION_DURATION,
                  lotAmount)
    BY <1>2 DEF Transaction, SellerCreates
  <2>2. nextRfqId \in RfqIds /\ rfqs'[nextRfqId].seller = Seller
    BY <1>1, <2>1 DEF CreateRfq, CanCreateRfq, TypeOK, ZeroRfq
  <2>3. nextRfqId >= target
    BY <1>1, <1>2, LimitsAreNaturals DEF TargetRead, TypeOK
  <2>4. QED
    BY <2>2, <2>3 DEF OwnRequestOpened
<1>3. ASSUME NEW provider, NEW value, ProviderQuotes(provider, value)
      PROVE  target \in RfqIds /\ providers'[target] = Append(providers[target], provider)
  BY <1>1, <1>3 DEF ProviderQuotes, CanQuote, SubmitQuote, CanSubmitQuote, TypeOK
<1>4. target \in RfqIds => providers[target] \in Seq(Accounts)
  BY <1>1 DEF TypeOK
<1>5. ASSUME name = "quoteA" PROVE AQuoted'
  <2>1. target \in RfqIds /\ providers'[target] = Append(providers[target], ProviderA)
    BY <1>3, <1>5 DEF Transaction
  <2>2. /\ Len(providers[target]) + 1 \in DOMAIN providers'[target]
        /\ providers'[target][Len(providers[target]) + 1] = ProviderA
    BY <1>4, <2>1, CallersAreAccounts
  <2>3. QED
    BY <2>1, <2>2 DEF AQuoted
<1>6. ASSUME name = "quoteB", AQuoted PROVE BQuotedAfterA'
  <2>1. target \in RfqIds /\ providers'[target] = Append(providers[target], ProviderB)
    BY <1>3, <1>6 DEF Transaction
  <2>2. PICK i \in DOMAIN providers[target] : providers[target][i] = ProviderA
    BY <1>6 DEF AQuoted
  <2>3. /\ Len(providers[target]) + 1 \in DOMAIN providers'[target]
        /\ providers'[target][Len(providers[target]) + 1] = ProviderB
        /\ i \in DOMAIN providers'[target] /\ providers'[target][i] = ProviderA
        /\ i < Len(providers[target]) + 1
    BY <1>4, <2>1, <2>2, CallersAreAccounts
  <2>4. QED
    BY <2>1, <2>3 DEF BQuotedAfterA
<1>7. ASSUME name = "request" PROVE ActionRecorded'
  <2>1. PICK answer \in FreshAnswers : RequestResolution(target, 0, answer) /\ target \in RfqIds
    BY <1>7 DEF Transaction, Requests
  <2>2. rfqs'[target].actionId =
          IF answer \in RemoteActionIds THEN answer ELSE LocalActionId(target, now)
    BY <1>1, <2>1 DEF RequestResolution, TypeOK, Rfq
  <2>3. rfqs'[target].actionId \in ActionIds
    BY <1>1, <2>1, <2>2 DEF ActionIds, TypeOK
  <2>4. QED
    BY <2>1, <2>3, HashesAreNotZero DEF ActionRecorded
<1>8. QED
  BY <1>2, <1>5, <1>6, <1>7

\* Every step keeps: a drill without a slip has passed the milestones behind it.
LEMMA ProgressStep ==
  ASSUME ContractInv, DrillTypes, InStep, Progress, [DrillNext]_drillVars
  PROVE  Progress'
<1>1. script' = script /\ [Next]_vars
  BY ScriptStep, StepsOfTheContract DEF ContractInv
<1> SUFFICES ASSUME script = "drill", ~slipped'
             PROVE  /\ step' > 1 => TargetRead'
                    /\ step' > 3 => OwnRequestOpened'
                    /\ step' > 4 => AQuoted'
                    /\ step' > 5 => BQuotedAfterA'
                    /\ step' > 7 => ActionRecorded'
  BY <1>1 DEF Progress
<1>2. CASE ReadNextRfqId
  <2>1. step = 1 /\ step' = 2
    BY <1>2, DrillIsAt DEF ReadNextRfqId
  <2>2. target' = nextRfqId /\ nextRfqId' = nextRfqId /\ nextRfqId \in 1..(MaxRfqs + 1)
    BY <1>2 DEF ReadNextRfqId, Predicted, vars, ContractInv, TypeOK
  <2>3. TargetRead'
    BY <2>2, LimitsAreNaturals DEF TargetRead
  <2>4. QED
    BY <2>1, <2>3
<1>3. CASE ~ReadNextRfqId
  <2>1. target' = target /\ (slipped' = slipped \/ slipped')
    BY <1>3 DEF DrillNext, drillVars, scriptVars, ReadNextRfqId, ReadBlock,
      WaitForQuoteDeadline, Send, Mined, MinedSuccessfully, MinedReverted, SaveEvidence,
      TeeAnswers, PasserbyActs, DrillTick
  <2>2. /\ step > 1 => TargetRead
        /\ step > 3 => OwnRequestOpened
        /\ step > 4 => AQuoted
        /\ step > 5 => BQuotedAfterA
        /\ step > 7 => ActionRecorded
    BY <2>1 DEF Progress
  <2>3. /\ step > 1 => TargetRead'
        /\ step > 3 => OwnRequestOpened'
        /\ step > 4 => AQuoted'
        /\ step > 5 => BQuotedAfterA'
        /\ step > 7 => ActionRecorded'
    BY <1>1, <2>1, <2>2, MilestonesStay
  <2>4. CASE step' = step
    BY <2>3, <2>4
  <2>5. CASE ReadBlock
    <3>1. step = 2 /\ step' = 3
      BY <2>5, DrillIsAt DEF ReadBlock
    <3>2. QED
      BY <2>3, <3>1
  <2>6. CASE WaitForQuoteDeadline
    <3>1. step = 6 /\ step' = 7
      BY <2>6, DrillIsAt DEF WaitForQuoteDeadline
    <3>2. QED
      BY <2>3, <3>1
  <2>7. CASE MinedSuccessfully
    <3>1. step' = step + 1 /\ step <= Len(Plan) /\ Plan[step] \notin Reads
      BY <2>7 DEF MinedSuccessfully, Mined, InStep
    <3>2. step \in {3, 4, 5, 7}
      BY <3>1, DrillIsAt
    <3>3. Transaction(Plan[step])
      BY <2>7 DEF MinedSuccessfully
    <3>4. /\ step = 3 => OwnRequestOpened'
          /\ step = 4 => AQuoted'
          /\ step = 5 => BQuotedAfterA'
          /\ step = 7 => ActionRecorded'
      BY <2>1, <2>2, <3>2, <3>3, TransactionMilestones, DrillPlanEntries
    <3>5. QED
      BY <2>3, <3>1, <3>2, <3>4
  <2>8. CASE MinedReverted
    BY <2>8 DEF MinedReverted
  <2>9. CASE \/ SaveEvidence \/ UNCHANGED drillVars \/ PasserbyActs \/ DrillTick
             \/ \E i \in DOMAIN Plan : Send(Plan[i])
             \/ \E r \in RfqIds : TeeAnswers(r)
    <3>1. step' = step
      BY <2>9 DEF SaveEvidence, drillVars, scriptVars, Send, TeeAnswers, PasserbyActs,
        DrillTick
    <3>2. QED
      BY <2>4, <3>1
  <2>10. QED
    BY <1>3, <2>5, <2>6, <2>7, <2>8, <2>9 DEF DrillNext
<1>4. QED
  BY <1>2, <1>3

-----------------------------------------------------------------------------
(* The results *)

\* Every step of the run preserves the invariant.
LEMMA DrillInvIsInductive == DrillInv /\ [DrillNext]_drillVars => DrillInv'
<1> SUFFICES ASSUME DrillInv, [DrillNext]_drillVars PROVE DrillInv'
  OBVIOUS
<1>1. ContractInv' /\ script' = script /\ DrillTypes' /\ InStep'
  BY StepsOfTheContract, ContractInvIsInductive, ScriptStep DEF DrillInv, ContractInv
<1>2. EveryoneSealed' /\ TradesHonourSeals' /\ Progress'
  BY <1>1, EveryoneSealedStep, TradesHonourSealsStep, ProgressStep DEF DrillInv
<1>3. QED
  BY <1>1, <1>2 DEF DrillInv

\* The scripts, the TEE and the other user keep the contract's invariant, the seals of
\* everybody who takes part, and the milestones behind a drill.
THEOREM DrillIsInOrder == DrillSpec => []DrillInv
BY DrillInvHoldsInitially, DrillInvIsInductive, PTL DEF DrillSpec

\* A lot trades in a drill only at the price the winner sealed for that very request, and
\* never below what its seller sealed for it (HushFlowRfq with resolveRfqV1).
THEOREM TradesCorrect == DrillSpec => []TradesHonourSeals
<1>1. DrillInv => TradesHonourSeals
  BY DEF DrillInv
<1>2. QED
  BY <1>1, DrillIsInOrder, PTL

\* A drill that saves its ledger without a slip has run on one request, or next to one that
\* took the predicted id (execute-coston2-drill.ts).
THEOREM LedgerCorrect == DrillSpec => []LedgerTellsOneRequest
<1>1. DrillInv => LedgerTellsOneRequest
  <2> SUFFICES ASSUME DrillInv, script = "drill", phase = "saved", ~slipped
               PROVE  /\ target \in RfqIds
                      /\ \E i, j \in DOMAIN providers[target] :
                           /\ i < j
                           /\ providers[target][i] = ProviderA
                           /\ providers[target][j] = ProviderB
                      /\ rfqs[target].actionId # NoActionId
                      /\ \E r \in target..MaxRfqs : rfqs[r].seller = Seller
    BY DEF LedgerTellsOneRequest
  <2>1. step = 8
    <3>1. step = Len(Plan) + 1
      BY DEF DrillInv, InStep
    <3>2. Len(Plan) = 7
      BY DrillPlanEntries
    <3>3. QED
      BY <3>1, <3>2
  <2>2. BQuotedAfterA /\ ActionRecorded /\ OwnRequestOpened
    BY <2>1 DEF DrillInv, Progress
  <2>3. \E r \in target..MaxRfqs : rfqs[r].seller = Seller
    BY <2>2, LimitsAreNaturals DEF OwnRequestOpened, ActionRecorded, RfqIds
  <2>4. QED
    BY <2>2, <2>3 DEF BQuotedAfterA, ActionRecorded
<1>2. QED
  BY <1>1, DrillIsInOrder, PTL

-----------------------------------------------------------------------------
(* The course of the full demo *)

ClaimSteps == {"claimSeller", "claimB", "claimA"}
Claimant(name) ==
  IF name = "claimSeller" THEN Seller ELSE IF name = "claimB" THEN ProviderB ELSE ProviderA

\* Whose requests and quotes there can be, and what the seller's request asks for.
EverybodyIsKnown ==
  \A r \in RfqIds :
    /\ rfqs[r].seller \in {ZeroAddress, Seller, Passerby}
    /\ participated[r] \subseteq {ProviderA, ProviderB, Passerby}
    /\ rfqs[r].seller = Seller => rfqs[r].lotAmount = lotAmount /\ rfqs[r].quoteCap = quoteCap

\* A claim that has passed its estimate still succeeds when it is mined.
ClaimGoesThrough == target \in RfqIds /\ CanClaim(Claimant(Plan[step]), target)
EstimatesHold == phase = "sent" /\ Plan[step] \in ClaimSteps => ClaimGoesThrough

\* How far the full demo has come.  A claim that passes its estimate is its account's
\* first, so that three claims are those of three accounts.
HasClaimed(account) == target \in RfqIds /\ account \in claimed[target]
Settled ==
  target \in RfqIds /\ rfqs[target].status # "OPEN" /\ rfqs[target].winningProvider = ProviderB
FullProgress ==
  script = "full" =>
    /\ step > 8 /\ ~slipped => Settled
    /\ step > 9 => HasClaimed(Seller)
    /\ step > 10 => HasClaimed(ProviderB) /\ ProviderB # Seller
    /\ step > 11 => HasClaimed(ProviderA) /\ ProviderA \notin {Seller, ProviderB}

FullInv ==
  /\ BooksInv
  /\ OnlyParticipantsClaim
  /\ EverybodyIsKnown
  /\ EstimatesHold
  /\ FullProgress

\* The entries of the full plan.
LEMMA FullPlanEntries ==
  ASSUME script = "full"
  PROVE  /\ Len(Plan) = 11
         /\ Plan[1] = "link" /\ Plan[2] = "getBlock" /\ Plan[3] = "createRfq"
         /\ Plan[4] = "quoteA" /\ Plan[5] = "quoteB" /\ Plan[6] = "wait"
         /\ Plan[7] = "request" /\ Plan[8] = "result" /\ Plan[9] = "claimSeller"
         /\ Plan[10] = "claimB" /\ Plan[11] = "claimA"
BY DEF Plan, fullPlan

\* Where a full demo is when it is at an entry of its plan.
LEMMA FullIsAt ==
  ASSUME DrillTypes, script = "full"
  PROVE  /\ step \in 1..12
         /\ ~At("nextRfqId")
         /\ At("getBlock") => step = 2
         /\ At("wait") => step = 6
<1>0. Len(Plan) = 11
  BY FullPlanEntries
<1>1. step \in 1..12
  <2>1. step \in 1..(Len(Plan) + 1)
    BY DEF DrillTypes
  <2>2. QED
    BY <1>0, <2>1
<1>2. ASSUME step <= Len(Plan) PROVE step \in {1, 2, 3, 4, 5, 6, 7, 8, 9, 10, 11}
  BY <1>0, <1>1, <1>2
<1>3. QED
  BY <1>1, <1>2, FullPlanEntries DEF At

\* The steps that open a request, quote or claim, and who takes them.
SellerOpens ==
  CreateRfq(Seller, lotAmount, quoteCap, deadline, deadline + RESOLUTION_DURATION, lotAmount)
PasserbyOpens ==
  \E cap \in PasserbyCaps, quoteDeadline \in Nat :
    CreateRfq(Passerby, lotAmount, cap, quoteDeadline, quoteDeadline + RESOLUTION_DURATION,
              lotAmount)
KnownQuotes ==
  \E r \in RfqIds, provider \in {ProviderA, ProviderB, Passerby} :
    SubmitQuote(provider, r, rfqs[r].quoteCap)
PasserbyClaims == \E r \in RfqIds : Claim(Passerby, r)
ScriptClaims ==
  /\ phase = "sent" /\ phase' = "ready" /\ Plan[step] \in ClaimSteps
  /\ target \in RfqIds /\ Claim(Claimant(Plan[step]), target)
NobodyMoves == UNCHANGED <<nextRfqId, participated, claimed>>

\* Every step is one of these.
LEMMA WhoMoves ==
  ASSUME TypeOK, DrillTypes, InStep, [DrillNext]_drillVars
  PROVE  SellerOpens \/ PasserbyOpens \/ KnownQuotes \/ PasserbyClaims \/ ScriptClaims
           \/ NobodyMoves
<1>1. CASE \/ ReadNextRfqId \/ ReadBlock \/ WaitForQuoteDeadline \/ MinedReverted
           \/ SaveEvidence \/ UNCHANGED drillVars \/ \E i \in DOMAIN Plan : Send(Plan[i])
  <2>1. UNCHANGED vars
    BY <1>1 DEF ReadNextRfqId, ReadBlock, WaitForQuoteDeadline, Send, MinedReverted,
      SaveEvidence, drillVars
  <2>2. QED
    BY <2>1 DEF NobodyMoves, vars, bookVars, claimVars
<1>2. ASSUME NEW r \in RfqIds, SubmitResult(r) PROVE NobodyMoves
  BY <1>2 DEF SubmitResult, NobodyMoves, bookVars, claimVars
<1>3. ASSUME NEW r \in RfqIds, Requests(r) PROVE NobodyMoves
  BY <1>3 DEF Requests, RequestResolution, NobodyMoves, bookVars, claimVars
<1>4. CASE Link
  BY <1>4 DEF Link, SetExtensionId, NobodyMoves, bookVars, claimVars
<1>5. CASE MinedSuccessfully
  <2> DEFINE name == Plan[step]
  <2>1. phase = "sent" /\ phase' = "ready" /\ Transaction(name)
    BY <1>5 DEF MinedSuccessfully, Mined
  <2>2. CASE SellerCreates
    BY <2>2 DEF SellerCreates, SellerOpens
  <2>3. ASSUME NEW provider \in {ProviderA, ProviderB}, NEW value,
               ProviderQuotes(provider, value)
        PROVE  KnownQuotes
    BY <2>3 DEF ProviderQuotes, CanQuote, KnownQuotes
  <2>4. CASE DeployerSettles
    BY <1>2, <2>4 DEF DeployerSettles, SubmitOutcome
  <2>5. CASE \/ name = "claimSeller" /\ Claims(Seller)
             \/ name = "claimB" /\ Claims(ProviderB)
             \/ name = "claimA" /\ Claims(ProviderA)
    BY <2>1, <2>5 DEF Claims, ScriptClaims, ClaimSteps, Claimant
  <2> HIDE DEF name
  <2>6. QED
    BY <1>3, <1>4, <2>1, <2>2, <2>3, <2>4, <2>5 DEF Transaction
<1>6. CASE \E r \in RfqIds : TeeAnswers(r)
  BY <1>2, <1>6 DEF TeeAnswers, SubmitOutcome
<1>7. CASE PasserbyActs
  <2>1. CASE PasserbyCreates
    <3>1. now + quoteDuration \in Nat
      BY DurationIsNatural, LimitsAreNaturals DEF TypeOK
    <3>2. QED
      BY <2>1, <3>1 DEF PasserbyCreates, PasserbyOpens
  <2>2. ASSUME NEW r \in RfqIds, PasserbyQuotes(r) PROVE KnownQuotes
    BY <2>2 DEF PasserbyQuotes, KnownQuotes
  <2>3. ASSUME NEW r \in RfqIds, CancelRfq(Passerby, r) \/ TimeoutRfq(r) PROVE NobodyMoves
    BY <2>3 DEF CancelRfq, TimeoutRfq, NobodyMoves, bookVars, claimVars
  <2>4. QED
    BY <1>3, <1>4, <1>7, <2>1, <2>2, <2>3 DEF PasserbyActs, PasserbyClaims
<1>8. CASE DrillTick
  BY <1>8 DEF DrillTick, Tick, NobodyMoves, bookVars, claimVars
<1>9. QED
  BY <1>1, <1>5, <1>6, <1>7, <1>8 DEF DrillNext

\* Every step keeps: requests and quotes are those of known callers.
LEMMA EverybodyIsKnownStep ==
  ASSUME ContractInv, DrillTypes, InStep, EverybodyIsKnown, [DrillNext]_drillVars
  PROVE  EverybodyIsKnown'
<1> SUFFICES ASSUME NEW r \in RfqIds
             PROVE  /\ rfqs'[r].seller \in {ZeroAddress, Seller, Passerby}
                    /\ participated'[r] \subseteq {ProviderA, ProviderB, Passerby}
                    /\ rfqs'[r].seller = Seller =>
                         rfqs'[r].lotAmount = lotAmount /\ rfqs'[r].quoteCap = quoteCap
  BY DEF EverybodyIsKnown
<1>1. TypeOK /\ [Next]_vars /\ rfqs \in [RfqIds -> Rfq] /\ participated \in [RfqIds -> SUBSET Accounts]
  BY StepsOfTheContract DEF ContractInv, TypeOK
<1>2. /\ rfqs[r].seller \in {ZeroAddress, Seller, Passerby}
      /\ participated[r] \subseteq {ProviderA, ProviderB, Passerby}
      /\ rfqs[r].seller = Seller => rfqs[r].lotAmount = lotAmount /\ rfqs[r].quoteCap = quoteCap
  BY DEF EverybodyIsKnown
<1>3. participated'[r] \subseteq {ProviderA, ProviderB, Passerby}
  <2>1. CASE KnownQuotes
    BY <1>1, <1>2, <2>1 DEF KnownQuotes, SubmitQuote
  <2>2. CASE ~KnownQuotes
    <3>1. participated' = participated
      BY <1>1, <2>2, WhoMoves DEF SellerOpens, PasserbyOpens, CreateRfq, PasserbyClaims,
        ScriptClaims, Claim, NobodyMoves, bookVars
    <3>2. QED
      BY <1>2, <3>1
  <2>3. QED
    BY <2>1, <2>2
<1>4. CASE Created(r)
  <2>1. nextRfqId' # nextRfqId /\ r = nextRfqId
    BY <1>1, <1>4, LimitsAreNaturals DEF Created, TypeOK
  <2>2. SellerOpens \/ PasserbyOpens
    BY <1>1, <2>1, WhoMoves DEF KnownQuotes, SubmitQuote, PasserbyClaims, ScriptClaims, Claim,
      NobodyMoves
  <2>3. CASE SellerOpens
    BY <1>1, <1>3, <2>1, <2>3 DEF SellerOpens, CreateRfq, ZeroRfq
  <2>4. CASE PasserbyOpens
    <3>1. rfqs'[r].seller = Passerby
      BY <1>1, <2>1, <2>4 DEF PasserbyOpens, CreateRfq, ZeroRfq
    <3>2. QED
      BY <1>3, <3>1, PasserbyIsSomebodyElse
  <2>5. QED
    BY <1>3, <2>2, <2>3, <2>4
<1>5. CASE ~Created(r)
  <2>1. KeepsTerms(r)
    BY <1>1, <1>5, StepOnRequest, TermsAreKept DEF RequestStep
  <2>2. QED
    BY <1>2, <1>3, <2>1 DEF KeepsTerms
<1>6. QED
  BY <1>4, <1>5

\* While a claim of the script is out, nobody else claims in its account's place.
LEMMA ClaimsOfOthers ==
  ASSUME ContractInv, DrillTypes, InStep, [DrillNext]_drillVars, ~ScriptClaims,
         NEW r \in RfqIds
  PROVE  claimed'[r] \subseteq claimed[r] \cup {Passerby}
<1>1. TypeOK /\ claimed \in [RfqIds -> SUBSET Accounts]
  BY DEF ContractInv, TypeOK
<1>2. CASE PasserbyClaims
  BY <1>1, <1>2 DEF PasserbyClaims, Claim, ClaimedBy
<1>3. CASE ~PasserbyClaims
  BY <1>1, <1>3, WhoMoves DEF SellerOpens, PasserbyOpens, CreateRfq, KnownQuotes, SubmitQuote,
    NobodyMoves, claimVars
<1>4. QED
  BY <1>2, <1>3

\* A claim that would succeed before a step of somebody else would succeed after it.
LEMMA ClaimsStayPossible ==
  ASSUME ContractInv, ContractInv', BooksInv', [Next]_vars, NEW r \in RfqIds,
         NEW a \in Accounts, a \notin claimed'[r], CanClaim(a, r)
  PROVE  CanClaim(a, r)'
<1>1. TypeOK /\ BlankOrFunded
  BY DEF ContractInv
<1>2. /\ a \notin claimed[r]
      /\ Entitlement(r, a).fxrp # 0 \/ Entitlement(r, a).usdt0 # 0
      /\ rfqs[r].status # "OPEN"
  BY DEF CanClaim, claimable, Entitlement
<1>3. SameBooks(r) \/ Paid(r)
  BY <1>1, <1>2, StepOnRequest, ClosedIsKept
<1>4. rfqs'[r] = rfqs[r] /\ participated'[r] = participated[r]
  BY <1>3 DEF SameBooks, Paid, SameQuotes
<1>5. Entitlement(r, a)' = Entitlement(r, a)
  BY <1>4 DEF Entitlement
<1>6. claimable(r, a)' = Entitlement(r, a)
  BY <1>5 DEF claimable
<1>7. ClaimsAreFunded'
  BY BooksFundClaims, PTL
<1>8. fxrp'[Escrow] >= claimable(r, a)'.fxrp /\ usdt0'[Escrow] >= claimable(r, a)'.usdt0
  BY <1>7 DEF ClaimsAreFunded
<1>9. QED
  BY <1>2, <1>6, <1>8 DEF CanClaim

\* Every step keeps: a claim that has passed its estimate can be mined.
LEMMA EstimatesHoldStep ==
  ASSUME ContractInv, ContractInv', BooksInv', DrillTypes, InStep, EstimatesHold,
         [DrillNext]_drillVars
  PROVE  EstimatesHold'
<1> SUFFICES ASSUME phase' = "sent", Plan'[step'] \in ClaimSteps PROVE ClaimGoesThrough'
  BY DEF EstimatesHold
<1> USE DEF ClaimGoesThrough
<1>1. TypeOK /\ [Next]_vars /\ script' = script
  BY StepsOfTheContract, ScriptStep DEF ContractInv
<1>2. Plan' = Plan
  BY <1>1 DEF Plan
<1>3. CASE \E i \in DOMAIN Plan : Send(Plan[i])
  <2>1. /\ step' = step /\ target' = target
        /\ UNCHANGED vars /\ CanTransact(Plan[step])
    BY <1>3 DEF Send, At, PassesEstimate
  <2>2. ClaimGoesThrough
    BY <1>2, <2>1 DEF CanTransact, ClaimSteps, Claimant
  <2>3. QED
    BY <1>2, <2>1, <2>2 DEF CanClaim, claimable, Entitlement, Claimant, vars, claimVars,
      bookVars, tokenVars
<1>4. CASE ~\E i \in DOMAIN Plan : Send(Plan[i])
  <2>1. phase = "sent" /\ step' = step /\ target' = target
    BY <1>4 DEF DrillNext, drillVars, scriptVars, ReadNextRfqId, ReadBlock,
      WaitForQuoteDeadline, Mined, MinedSuccessfully, MinedReverted, SaveEvidence,
      TeeAnswers, PasserbyActs, DrillTick, At
  <2>2. ClaimGoesThrough
    BY <1>2, <2>1 DEF EstimatesHold
  <2>3. PICK a \in Accounts, r \in RfqIds :
          a = Claimant(Plan[step]) /\ r = target /\ CanClaim(a, r)
    BY <2>2, CallersAreAccounts DEF Claimant
  <2>4. a # Passerby
    BY <2>3, PasserbyIsSomebodyElse DEF Claimant
  <2>5. ~ScriptClaims
    BY DEF ScriptClaims
  <2>6. a \notin claimed'[r]
    BY <2>3, <2>4, <2>5, ClaimsOfOthers DEF CanClaim
  <2>7. CanClaim(a, r)'
    BY <1>1, <2>3, <2>6, ClaimsStayPossible
  <2>8. QED
    BY <1>2, <2>1, <2>3, <2>7 DEF CanClaim, claimable, Entitlement, Claimant
<1>5. QED
  BY <1>3, <1>4

\* A transaction the script has sent is out at an entry of the plan that sends one.
LEMMA SentAt ==
  ASSUME DrillTypes, InStep, script = "full", phase = "sent"
  PROVE  step \in {1, 3, 4, 5, 7, 8, 9, 10, 11}
<1>1. step <= 11 /\ Plan[step] \notin Reads
  BY FullPlanEntries DEF InStep
<1>2. step \in 1..11
  BY <1>1, FullIsAt
<1>3. step \in {1, 2, 3, 4, 5, 6, 7, 8, 9, 10, 11}
  BY <1>2
<1>4. QED
  BY <1>1, <1>3, FullPlanEntries DEF Reads

\* A closed request stays closed, with its winner, and no claim is forgotten.
LEMMA OutcomesStay ==
  ASSUME ContractInv, OpenIsUnclaimed, [Next]_vars, target' = target
  PROVE  /\ Settled => Settled'
         /\ \A account \in Accounts : HasClaimed(account) => HasClaimed(account)'
<1>1. TypeOK /\ BlankOrFunded
  BY DEF ContractInv
<1>2. ASSUME target \in RfqIds, rfqs[target].status # "OPEN"
      PROVE  rfqs'[target] = rfqs[target] /\ claimed[target] \subseteq claimed'[target]
  <2>1. SameBooks(target) \/ Paid(target)
    BY <1>1, <1>2, StepOnRequest, ClosedIsKept
  <2>2. QED
    BY <2>1 DEF SameBooks, Paid
<1>3. Settled => Settled'
  BY <1>2 DEF Settled
<1>4. ASSUME NEW account \in Accounts, HasClaimed(account) PROVE HasClaimed(account)'
  <2>1. target \in RfqIds /\ account \in claimed[target]
    BY <1>4 DEF HasClaimed
  <2>2. rfqs[target].status # "OPEN"
    BY <2>1 DEF OpenIsUnclaimed
  <2>3. QED
    BY <1>2, <2>1, <2>2 DEF HasClaimed
<1>5. QED
  BY <1>3, <1>4

\* What the last transactions of the full demo add.
LEMMA FullMilestones ==
  ASSUME ContractInv, target' = target, NEW name, Transaction(name)
  PROVE  /\ name = "result" => Settled'
         /\ name \in ClaimSteps =>
              /\ HasClaimed(Claimant(name))'
              /\ \A account \in Accounts : HasClaimed(account) => Claimant(name) # account
<1>1. TypeOK
  BY DEF ContractInv
<1>2. ASSUME name = "result" PROVE Settled'
  <2>1. DeployerSettles
    BY <1>2 DEF Transaction
  <2>2. /\ target \in RfqIds /\ rfqs'[target].status = "SETTLED"
        /\ rfqs'[target].winningProvider = ProviderB
    BY <2>1 DEF DeployerSettles, SubmitOutcome, OutcomeStatus
  <2>3. QED
    BY <2>2 DEF Settled
<1>3. ASSUME NEW account \in Accounts, Claims(account)
      PROVE  target \in RfqIds /\ account \in claimed'[target] /\ account \notin claimed[target]
  BY <1>1, <1>3 DEF Claims, Claim, CanClaim, ClaimedBy, TypeOK
<1>4. ASSUME name \in ClaimSteps
      PROVE  /\ target \in RfqIds /\ Claimant(name) \in claimed'[target]
             /\ Claimant(name) \notin claimed[target]
  <2>1. Claimant(name) \in Accounts /\ Claims(Claimant(name))
    BY <1>4, CallersAreAccounts DEF ClaimSteps, Claimant, Transaction
  <2>2. QED
    BY <1>3, <2>1
<1>5. QED
  BY <1>2, <1>4 DEF HasClaimed, Claimant

\* Every step keeps: the full demo has passed the milestones behind it.
LEMMA FullProgressStep ==
  ASSUME ContractInv, OpenIsUnclaimed, DrillTypes, InStep, EstimatesHold, FullProgress,
         [DrillNext]_drillVars
  PROVE  FullProgress'
<1>1. script' = script /\ [Next]_vars /\ Plan' = Plan
  BY ScriptStep, StepsOfTheContract DEF ContractInv, Plan
<1> SUFFICES ASSUME script = "full"
             PROVE  /\ step' > 8 /\ ~slipped' => Settled'
                    /\ step' > 9 => HasClaimed(Seller)'
                    /\ step' > 10 => HasClaimed(ProviderB)' /\ ProviderB # Seller
                    /\ step' > 11 => HasClaimed(ProviderA)' /\ ProviderA \notin {Seller, ProviderB}
  BY <1>1 DEF FullProgress
<1>2. ~ReadNextRfqId
  BY FullIsAt DEF ReadNextRfqId
<1>3. target' = target /\ (slipped' = slipped \/ slipped')
  BY <1>2 DEF DrillNext, drillVars, scriptVars, ReadBlock, WaitForQuoteDeadline, Send, Mined,
    MinedSuccessfully, MinedReverted, SaveEvidence, TeeAnswers, PasserbyActs, DrillTick
<1>4. /\ step > 8 /\ ~slipped' => Settled'
      /\ step > 9 => HasClaimed(Seller)' /\ HasClaimed(Seller)
      /\ step > 10 => HasClaimed(ProviderB)' /\ HasClaimed(ProviderB) /\ ProviderB # Seller
      /\ step > 11 => HasClaimed(ProviderA)' /\ ProviderA \notin {Seller, ProviderB}
  BY <1>1, <1>3, OutcomesStay, CallersAreAccounts DEF FullProgress
<1>5. CASE step' = step
  BY <1>4, <1>5
<1>6. CASE ReadBlock \/ WaitForQuoteDeadline
  <2>1. step \in {2, 6} /\ step' = step + 1
    BY <1>6, FullIsAt DEF ReadBlock, WaitForQuoteDeadline
  <2>2. QED
    BY <2>1
<1>7. CASE MinedSuccessfully
  <2>1. phase = "sent" /\ step' = step + 1 /\ Transaction(Plan[step])
    BY <1>7 DEF MinedSuccessfully, Mined
  <2>2. step \in {1, 3, 4, 5, 7, 8, 9, 10, 11}
    BY <2>1, SentAt
  <2>3. /\ step = 8 => Settled'
        /\ step = 9 => HasClaimed(Seller)'
        /\ step = 10 => HasClaimed(ProviderB)' /\ (HasClaimed(Seller) => ProviderB # Seller)
        /\ step = 11 => /\ HasClaimed(ProviderA)'
                        /\ HasClaimed(Seller) => ProviderA # Seller
                        /\ HasClaimed(ProviderB) => ProviderA # ProviderB
    <3>1. /\ step = 8 => Plan[step] = "result"
          /\ step = 9 => Plan[step] = "claimSeller"
          /\ step = 10 => Plan[step] = "claimB"
          /\ step = 11 => Plan[step] = "claimA"
      BY FullPlanEntries
    <3>2. QED
      BY <1>3, <2>1, <3>1, FullMilestones, CallersAreAccounts
        DEF ClaimSteps, Claimant, HasClaimed
  <2>4. QED
    BY <1>4, <2>1, <2>2, <2>3
<1>8. CASE MinedReverted
  <2>1. phase = "sent" /\ step' = step + 1 /\ ~CanTransact(Plan[step]) /\ slipped'
    BY <1>8 DEF MinedReverted, Mined, RevertsNow
  <2>2. step \in {1, 3, 4, 5, 7, 8, 9, 10, 11}
    BY <2>1, SentAt
  <2>3. Plan[step] \notin ClaimSteps
    BY <2>1 DEF EstimatesHold, ClaimGoesThrough, CanTransact, ClaimSteps, Claimant
  <2>4. step \in {1, 3, 4, 5, 7, 8}
    BY <2>2, <2>3, FullPlanEntries DEF ClaimSteps
  <2>5. QED
    BY <2>1, <2>4
<1>9. CASE \/ SaveEvidence \/ UNCHANGED drillVars \/ PasserbyActs \/ DrillTick
           \/ \E i \in DOMAIN Plan : Send(Plan[i])
           \/ \E r \in RfqIds : TeeAnswers(r)
  <2>1. step' = step
    BY <1>9 DEF SaveEvidence, drillVars, scriptVars, Send, TeeAnswers, PasserbyActs, DrillTick
  <2>2. QED
    BY <1>5, <2>1
<1>10. QED
  BY <1>2, <1>6, <1>7, <1>8, <1>9 DEF DrillNext

\* Nothing has been claimed and nobody has quoted.
LEMMA FullInvHoldsInitially == DrillInit => FullInv
<1> SUFFICES ASSUME DrillInit PROVE FullInv
  OBVIOUS
<1>1. ContractInv
  BY DrillInvHoldsInitially DEF DrillInv
<1>2. \A r \in RfqIds : Blank(r)
  BY DEF DrillInit, Blank
<1>3. BooksInv
  BY <1>1, <1>2, EmptyBooksBalance DEF DrillInit
<1>4. OnlyParticipantsClaim
  BY <1>2 DEF OnlyParticipantsClaim, Blank
<1>5. EverybodyIsKnown
  <2>1. Seller # ZeroAddress
    BY CallersAreAccounts, AddressesDistinct
  <2>2. QED
    BY <1>2, <2>1 DEF EverybodyIsKnown, Blank, ZeroRfq
<1>6. EstimatesHold /\ FullProgress
  BY DEF DrillInit, EstimatesHold, FullProgress
<1>7. QED
  BY <1>3, <1>4, <1>5, <1>6 DEF FullInv

\* Every step of the run preserves the invariant of the full demo.
LEMMA FullInvIsInductive ==
  DrillInv /\ DrillInv' /\ FullInv /\ [DrillNext]_drillVars => FullInv'
<1> SUFFICES ASSUME DrillInv, DrillInv', FullInv, [DrillNext]_drillVars PROVE FullInv'
  OBVIOUS
<1>1. /\ ContractInv /\ ContractInv' /\ DrillTypes /\ InStep /\ [Next]_vars
      /\ OpenIsUnclaimed
  BY StepsOfTheContract DEF DrillInv, ContractInv, FullInv, BooksInv
<1>2. BooksInv'
  BY <1>1, BooksInvIsInductive DEF FullInv
<1>3. OnlyParticipantsClaim'
  BY <1>1, OnlyParticipantsClaimStep DEF FullInv
<1>4. EverybodyIsKnown'
  BY <1>1, EverybodyIsKnownStep DEF FullInv
<1>5. EstimatesHold'
  BY <1>1, <1>2, EstimatesHoldStep DEF FullInv
<1>6. FullProgress'
  BY <1>1, FullProgressStep DEF FullInv
<1>7. QED
  BY <1>2, <1>3, <1>4, <1>5, <1>6 DEF FullInv

\* The contract's books, the callers of its requests, the estimates and the milestones of
\* the full demo hold throughout.
LEMMA FullIsInOrder == DrillSpec => []FullInv
BY FullInvHoldsInitially, FullInvIsInductive, DrillIsInOrder, PTL DEF DrillSpec

\* A ledger of the full demo is only saved when the seller's request is closed and has paid
\* the seller and both providers (run-full-coston2-demo.ts).
THEOREM FullLedgerCorrect == DrillSpec => []FullLedgerMeansPaid
<1>1. DrillInv /\ FullInv => FullLedgerMeansPaid
  <2> SUFFICES ASSUME DrillInv, FullInv, script = "full", phase = "saved"
               PROVE  /\ rfqs[target].seller = Seller
                      /\ rfqs[target].status # "OPEN"
                      /\ {Seller, ProviderA, ProviderB} \subseteq claimed[target]
                      /\ ~slipped => rfqs[target].winningProvider = ProviderB
                      /\ Len(providers[target]) = 2 =>
                           /\ claimedFxrp[target] = lotAmount
                           /\ claimedUsdt0[target] = 2 * quoteCap
    BY DEF FullLedgerMeansPaid
  <2>1. step = 12
    <3>1. step = Len(Plan) + 1
      BY DEF DrillInv, InStep
    <3>2. Len(Plan) = 11
      BY FullPlanEntries
    <3>3. QED
      BY <3>1, <3>2
  <2>2. /\ target \in RfqIds /\ {Seller, ProviderA, ProviderB} \subseteq claimed[target]
        /\ ProviderB # Seller /\ ProviderA # Seller /\ ProviderA # ProviderB
        /\ ~slipped => rfqs[target].winningProvider = ProviderB
    BY <2>1 DEF FullInv, FullProgress, HasClaimed, Settled
  <2>3. ContractInv /\ TypeOK /\ BooksInv
    BY DEF DrillInv, ContractInv, FullInv
  <2>4. rfqs[target].status # "OPEN"
    BY <2>2, <2>3 DEF BooksInv, OpenIsUnclaimed
  <2>5. claimed[target] \subseteq participated[target] \cup {rfqs[target].seller}
    BY <2>2 DEF FullInv, OnlyParticipantsClaim
  <2>6. /\ participated[target] \subseteq {ProviderA, ProviderB, Passerby}
        /\ rfqs[target].seller = Seller =>
             rfqs[target].lotAmount = lotAmount /\ rfqs[target].quoteCap = quoteCap
    BY <2>2 DEF FullInv, EverybodyIsKnown
  <2>7. rfqs[target].seller = Seller
    BY <2>2, <2>5, <2>6, PasserbyIsSomebodyElse
  <2>8. ASSUME Len(providers[target]) = 2
        PROVE  claimedFxrp[target] = lotAmount /\ claimedUsdt0[target] = 2 * quoteCap
    <3>1. {ProviderA, ProviderB} \subseteq participated[target]
      BY <2>2, <2>5, <2>7
    <3>2. Cardinality(participated[target]) = 2
      BY <2>2, <2>3, <2>8 DEF BooksInv, SeatsAreCounted
    <3>3. IsFiniteSet({ProviderA, ProviderB}) /\ Cardinality({ProviderA, ProviderB}) = 2
      <4>1. IsFiniteSet({ProviderA}) /\ Cardinality({ProviderA}) = 1
        BY FS_Singleton
      <4>2. {ProviderA, ProviderB} = {ProviderA} \cup {ProviderB}
        OBVIOUS
      <4>3. QED
        BY <2>2, <4>1, <4>2, FS_AddElement
    <3>4. IsFiniteSet(participated[target])
      BY <2>2, <2>3, AddressesAreFinite, FS_Subset DEF TypeOK
    <3>5. participated[target] = {ProviderA, ProviderB}
      BY <3>1, <3>2, <3>3, <3>4, FS_Subset
    <3>6. /\ claimedFxrp[target] = depositedFxrp(target)
          /\ claimedUsdt0[target] = depositedUsdt0(target)
      BY <2>2, <2>3, <2>4, <2>7, <3>5, AllClaimedIsAllPaid
    <3>7. QED
      BY <2>6, <2>7, <2>8, <3>6 DEF depositedFxrp, depositedUsdt0
  <2>9. QED
    BY <2>2, <2>4, <2>7, <2>8
<1>2. QED
  BY <1>1, DrillIsInOrder, FullIsInOrder, PTL
=============================================================================
