------------------------- MODULE IndexedRfqProofs -------------------------
(***************************************************************************)
(* The indexer's rows are the contract's state, and nothing but a repeated *)
(* instruction id stops ingestion, for any number of requests, accounts,   *)
(* amounts, nonces and registry ids.                                       *)
(***************************************************************************)
EXTENDS IndexedRfq, HushFlowRfqProofs

-----------------------------------------------------------------------------
(* What the contract never does, and its readers rely on. *)

\* The list of providers names each participant, and nobody twice.
EachSitsOnce ==
  \A r \in RfqIds :
    /\ \A a : a \in participated[r] <=> \E i \in 1..Len(providers[r]) : providers[r][i] = a
    /\ \A i, j \in 1..Len(providers[r]) : providers[r][i] = providers[r][j] => i = j

\* Ids are used in order, and each request has two deadlines ahead of time zero.
RequestsAreDated ==
  \A r \in RfqIds :
    IF r < nextRfqId
    THEN /\ Exists(r)
         /\ rfqs[r].quoteDeadline > 0 /\ rfqs[r].resolutionDeadline > rfqs[r].quoteDeadline
    ELSE ~Exists(r)

\* An accepted result leaves an outcome, and only a trade leaves a winner.
ResultsLeaveOutcomes ==
  \A r \in RfqIds :
    /\ evidence[r] # None => HasOutcome(r)
    /\ rfqs[r].status # "SETTLED" =>
         rfqs[r].winningProvider = ZeroAddress /\ rfqs[r].winningQuote = 0

ReaderInv == EachSitsOnce /\ RequestsAreDated /\ ResultsLeaveOutcomes

\* A freshly deployed contract has nothing to misread.
LEMMA ReaderInvHoldsInitially == Init => ReaderInv
<1> SUFFICES ASSUME Init, NEW r \in RfqIds
             PROVE  /\ rfqs[r] = ZeroRfq /\ participated[r] = {} /\ providers[r] = <<>>
                    /\ evidence[r] = None /\ ~(r < nextRfqId)
  BY DEF ReaderInv, EachSitsOnce, RequestsAreDated, ResultsLeaveOutcomes, ZeroRfq, Exists
<1>1. QED
  BY DEF Init, RfqIds

\* What createRfq stores.
LEMMA CreatedFields ==
  ASSUME NEW r, Created(r)
  PROVE  /\ rfqs'[r].seller \in Accounts
         /\ rfqs'[r].lotAmount \in LotAmounts \ {0} /\ rfqs'[r].quoteCap \in QuoteCaps \ {0}
         /\ rfqs'[r].quoteDeadline \in 1..(rfqs'[r].resolutionDeadline - 1)
         /\ rfqs'[r].resolutionDeadline \in 0..MaxTime
         /\ rfqs'[r].status = "OPEN" /\ rfqs'[r].actionId = NoActionId
         /\ rfqs'[r].winningProvider = ZeroAddress /\ rfqs'[r].winningQuote = 0
<1>1. PICK seller \in Accounts, lotAmount \in LotAmounts \ {0}, quoteCap \in QuoteCaps \ {0},
           quoteDeadline \in 0..MaxTime, resolutionDeadline \in 0..MaxTime :
        /\ quoteDeadline \in 1..(resolutionDeadline - 1) /\ resolutionDeadline < MaxTime
        /\ rfqs'[r] = [ZeroRfq EXCEPT !.seller = seller, !.lotAmount = lotAmount,
                                      !.quoteCap = quoteCap, !.quoteDeadline = quoteDeadline,
                                      !.resolutionDeadline = resolutionDeadline]
  BY Zenon DEF Created
<1>2. QED
  BY <1>1 DEF ZeroRfq

\* Every step keeps: one seat for each participant (submitQuote).
LEMMA EachSitsOnceStep ==
  ASSUME ContractInv, EachSitsOnce, [Next]_vars
  PROVE  EachSitsOnce'
<1> SUFFICES ASSUME NEW r \in RfqIds
             PROVE  /\ \A a : a \in participated'[r]
                              <=> \E i \in 1..Len(providers'[r]) : providers'[r][i] = a
                    /\ \A i, j \in 1..Len(providers'[r]) :
                         providers'[r][i] = providers'[r][j] => i = j
  BY DEF EachSitsOnce
<1>1. /\ TypeOK /\ providers[r] \in Seq(Accounts)
      /\ \A a : a \in participated[r] <=> \E i \in 1..Len(providers[r]) : providers[r][i] = a
      /\ \A i, j \in 1..Len(providers[r]) : providers[r][i] = providers[r][j] => i = j
  BY DEF ContractInv, TypeOK, EachSitsOnce
<1>2. CASE SameQuotes(r)
  BY <1>1, <1>2 DEF SameQuotes
<1>3. CASE Quoted(r)
  <2>1. PICK sender \in Accounts : /\ sender \notin participated[r]
                                   /\ participated'[r] = participated[r] \cup {sender}
                                   /\ providers'[r] = Append(providers[r], sender)
    BY <1>3 DEF Quoted
  <2> DEFINE n == Len(providers[r])
  <2>2. /\ n \in Nat /\ Len(providers'[r]) = n + 1 /\ providers'[r][n + 1] = sender
        /\ \A i \in 1..n : providers'[r][i] = providers[r][i]
    BY <1>1, <2>1
  <2>3. \A i \in 1..n : providers[r][i] # sender
    BY <1>1, <2>1
  <2> HIDE DEF n
  <2>4. \A i \in 1..(n + 1) : i \in 1..n \/ i = n + 1
    BY <2>2
  <2>5. \A a : (\E i \in 1..(n + 1) : providers'[r][i] = a)
               <=> (a = sender \/ \E i \in 1..n : providers[r][i] = a)
    BY <2>2, <2>4
  <2>6. \A i, j \in 1..(n + 1) : providers'[r][i] = providers'[r][j] => i = j
    BY <1>1, <2>2, <2>3, <2>4 DEF n
  <2>7. QED
    BY <1>1, <2>1, <2>2, <2>5, <2>6 DEF n
<1>4. SameQuotes(r) \/ Quoted(r)
  BY <1>1, StepOnRequest
  DEF RequestStep, SameBooks, Created, Requested, Abandoned, Resolved, Paid
<1>5. QED
  BY <1>2, <1>3, <1>4

\* A step leaves all requests as they are, or creates one, or does one of five things to
\* one of them.
LEMMA OneRequestAtATime ==
  ASSUME ContractInv, [Next]_vars
  PROVE  \/ nextRfqId' = nextRfqId /\ \A r \in RfqIds : SameBooks(r)
         \/ \E r \in RfqIds :
              /\ \A q \in RfqIds \ {r} : SameBooks(q)
              /\ \/ Created(r)
                 \/ /\ nextRfqId' = nextRfqId
                    /\ Quoted(r) \/ Requested(r) \/ Abandoned(r) \/ Resolved(r) \/ Paid(r)
<1>1. TypeOK /\ BlankOrFunded /\ nextRfqId \in Int
  BY LimitsAreNaturals DEF ContractInv, TypeOK
<1>2. nextRfqId' = nextRfqId \/ \E r \in RfqIds : Created(r)
  <2>1. ASSUME NEW sender \in Accounts, NEW lotAmount \in LotAmounts, NEW quoteCap \in QuoteCaps,
               NEW quoteDeadline \in 0..MaxTime, NEW resolutionDeadline \in 0..MaxTime,
               NEW credited,
               CreateRfq(sender, lotAmount, quoteCap, quoteDeadline, resolutionDeadline, credited)
        PROVE  \E r \in RfqIds : Created(r)
    <3>1. nextRfqId \in RfqIds
      BY <2>1 DEF CreateRfq, CanCreateRfq
    <3>2. PICK r \in RfqIds : r = nextRfqId
      BY <3>1
    <3>3. Blank(r) /\ rfqs'[r].seller = sender
      BY <2>1, <3>2, CreateRfqBooks
    <3>4. rfqs[r].seller = ZeroAddress /\ rfqs[r].status = "OPEN"
      BY <3>3 DEF Blank, ZeroRfq
    <3>5. ~SameBooks(r) /\ ~IsOpen(r) /\ ~Paid(r)
      BY <3>3, <3>4, AddressesDistinct DEF SameBooks, IsOpen, Exists, Paid
    <3>6. ~Quoted(r) /\ ~Requested(r) /\ ~Abandoned(r) /\ ~Resolved(r)
      BY <3>5 DEF Quoted, Requested, Abandoned, Resolved
    <3>7. QED
      BY <1>1, <3>5, <3>6, StepOnRequest DEF RequestStep
  <2>2. ASSUME NEW r \in RfqIds,
               \/ \E sender \in Accounts : \E credited \in Credits(rfqs[r].quoteCap) :
                    SubmitQuote(sender, r, credited)
               \/ \E sender \in Accounts : CancelRfq(sender, r)
               \/ \E fee \in InstructionFees,
                     answer \in RemoteActionIds \cup {NoActionId, RegistryReverted} :
                    RequestResolution(r, fee, answer)
               \/ TimeoutRfq(r)
               \/ \E sender \in Accounts : Claim(sender, r)
        PROVE  nextRfqId' = nextRfqId
    BY <2>2 DEF SubmitQuote, CancelRfq, RequestResolution, TimeoutRfq, Claim
  <2>3. ASSUME NEW r \in RfqIds, SubmitResult(r) PROVE nextRfqId' = nextRfqId
    BY <2>3 DEF SubmitResult
  <2>4. ASSUME \/ Tick \/ UNCHANGED vars
               \/ \E id \in ExtensionIds : SetExtensionId(id)
               \/ \E sender \in Accounts \cup {Deployer}, signer \in Signers \cup {ZeroAddress} :
                    InitializeTeeSigner(sender, signer)
        PROVE  nextRfqId' = nextRfqId
    BY <2>4 DEF Tick, SetExtensionId, InitializeTeeSigner, vars
  <2>5. QED
    BY <2>1, <2>2, <2>3, <2>4, Zenon DEF Next
<1>3. ASSUME NEW r \in RfqIds, Created(r), NEW q \in RfqIds \ {r}
      PROVE  SameBooks(q)
  <2>1. Exists(r)' /\ Blank(r)
    BY <1>1, <1>3, CreatedWasBlank, AddressesDistinct DEF Created, Exists, ZeroRfq
  <2>2. ~SameBooks(r)
    BY <2>1 DEF Blank, SameBooks, Exists, ZeroRfq
  <2>3. QED
    BY <1>1, <2>2, StepsTouchOneRequest
<1>4. ASSUME nextRfqId' = nextRfqId, NEW r \in RfqIds, ~SameBooks(r)
      PROVE  /\ \A q \in RfqIds \ {r} : SameBooks(q)
             /\ Quoted(r) \/ Requested(r) \/ Abandoned(r) \/ Resolved(r) \/ Paid(r)
  <2>1. Created(r) => nextRfqId' = nextRfqId + 1
    BY Zenon DEF Created
  <2>2. ~Created(r)
    BY <1>1, <1>4, <2>1
  <2>3. QED
    BY <1>1, <1>4, <2>2, StepOnRequest, StepsTouchOneRequest DEF RequestStep
<1>5. QED
  BY <1>2, <1>3, <1>4

\* Every step keeps: ids in order, deadlines ahead (createRfq).
LEMMA RequestsAreDatedStep ==
  ASSUME ContractInv, RequestsAreDated, [Next]_vars
  PROVE  RequestsAreDated'
<1> DEFINE Dated(r) == /\ Exists(r)
                       /\ rfqs[r].quoteDeadline > 0
                       /\ rfqs[r].resolutionDeadline > rfqs[r].quoteDeadline
<1>1. TypeOK /\ nextRfqId \in Int
  BY LimitsAreNaturals DEF ContractInv, TypeOK
<1>2. \A r \in RfqIds : IF r < nextRfqId THEN Dated(r) ELSE ~Exists(r)
  BY DEF RequestsAreDated
<1>3. ASSUME NEW r \in RfqIds, KeepsTerms(r)
      PROVE  (Dated(r)' <=> Dated(r)) /\ (Exists(r)' <=> Exists(r))
  BY <1>3 DEF KeepsTerms, Exists
<1>4. SUFFICES \A r \in RfqIds : IF r < nextRfqId' THEN Dated(r)' ELSE ~Exists(r)'
  BY DEF RequestsAreDated
<1>5. ASSUME NEW r \in RfqIds, Created(r)
      PROVE  Dated(r)' /\ r = nextRfqId /\ nextRfqId' = nextRfqId + 1
  <2>1. Dated(r)'
    BY <1>5, CreatedFields, LimitsAreNaturals, AddressesDistinct DEF Exists
  <2>2. QED
    BY <1>5, <2>1 DEF Created
<1> HIDE DEF Dated
<1>6. CASE nextRfqId' = nextRfqId
  <2>1. \A r \in RfqIds : ~Created(r)
    BY <1>1, <1>5, <1>6
  <2>2. \A r \in RfqIds : KeepsTerms(r)
    BY <1>1, <2>1, StepOnRequest, TermsAreKept DEF RequestStep
  <2>3. QED
    BY <1>2, <1>3, <1>6, <2>2
<1>7. ASSUME NEW r \in RfqIds, Created(r), \A q \in RfqIds \ {r} : SameBooks(q)
      PROVE  \A q \in RfqIds : IF q < nextRfqId' THEN Dated(q)' ELSE ~Exists(q)'
  <2>1. \A q \in RfqIds \ {r} : KeepsTerms(q)
    BY <1>1, <1>7, TermsAreKept
  <2>2. Dated(r)' /\ r = nextRfqId /\ nextRfqId' = nextRfqId + 1
    BY <1>5, <1>7
  <2>3. ASSUME NEW q \in RfqIds \ {r} PROVE IF q < nextRfqId' THEN Dated(q)' ELSE ~Exists(q)'
    <3>1. (Dated(q)' <=> Dated(q)) /\ (Exists(q)' <=> Exists(q))
      BY <1>3, <2>1
    <3>2. q < nextRfqId' <=> q < nextRfqId
      BY <1>1, <2>2 DEF RfqIds
    <3>3. QED
      BY <1>2, <3>1, <3>2
  <2>4. r < nextRfqId'
    BY <1>1, <2>2
  <2>5. QED
    BY <2>2, <2>3, <2>4
<1>8. QED
  BY <1>6, <1>7, OneRequestAtATime

\* Every step keeps: results leave outcomes, trades alone leave winners (submitResult).
LEMMA ResultsLeaveOutcomesStep ==
  ASSUME ContractInv, ResultsLeaveOutcomes, [Next]_vars
  PROVE  ResultsLeaveOutcomes'
<1> SUFFICES ASSUME NEW r \in RfqIds
             PROVE  /\ evidence'[r] # None => HasOutcome(r)'
                    /\ rfqs'[r].status # "SETTLED" =>
                         rfqs'[r].winningProvider = ZeroAddress /\ rfqs'[r].winningQuote = 0
  BY DEF ResultsLeaveOutcomes
<1>1. /\ TypeOK /\ BlankOrFunded /\ rfqs[r] \in Rfq
      /\ evidence[r] # None => HasOutcome(r)
      /\ rfqs[r].status # "SETTLED" =>
           rfqs[r].winningProvider = ZeroAddress /\ rfqs[r].winningQuote = 0
  BY DEF ContractInv, TypeOK, ResultsLeaveOutcomes
<1>2. CASE SameBooks(r) \/ Quoted(r) \/ Paid(r)
  BY <1>1, <1>2 DEF SameBooks, Quoted, Paid, SameHistory, HasOutcome
<1>3. CASE Created(r)
  <2>1. evidence'[r] = None
    BY <1>1, <1>3, CreatedWasBlank DEF Created, SameHistory, Blank
  <2>2. QED
    BY <1>3, <2>1, CreatedFields
<1>4. CASE Requested(r)
  BY <1>1, <1>4 DEF Requested, HasOutcome, Rfq
<1>5. CASE Abandoned(r)
  BY <1>1, <1>5 DEF Abandoned, SameHistory, HasOutcome, IsOpen, Rfq
<1>6. CASE Resolved(r)
  <2>1. PICK status \in {"SETTLED", "NO_VALID_QUOTE", "INVALID_RFQ"},
             provider \in Accounts \cup {ZeroAddress}, quote \in Nat :
          /\ rfqs'[r] = [rfqs[r] EXCEPT !.status = status, !.winningProvider = provider,
                                        !.winningQuote = quote]
          /\ status # "SETTLED" => provider = ZeroAddress /\ quote = 0
    BY <1>6 DEF Resolved
  <2>2. QED
    BY <1>1, <2>1 DEF HasOutcome, Rfq
<1>7. QED
  BY <1>1, <1>2, <1>3, <1>4, <1>5, <1>6, StepOnRequest DEF RequestStep

-----------------------------------------------------------------------------
(* Each transaction emits one event, or none. *)

\* What an event is an event of.
LEMMA WhatIsEmitted ==
  \A event : event \in Emitted <=>
    \/ \E r \in CreatedIds : event = RfqCreated(r)
    \/ \E r \in QuotedIds : event = QuoteSubmitted(r)
    \/ \E r \in RequestedIds : event = ResolutionRequested(r)
    \/ \E r \in ClosedIds({"SETTLED", "NO_VALID_QUOTE", "INVALID_RFQ"}) : event = RfqFinalized(r)
    \/ \E r \in ClosedIds({"CANCELLED"}) : event = RfqCancelled(r)
    \/ \E r \in ClosedIds({"TIMED_OUT"}) : event = RfqTimedOut(r)
    \/ \E k \in NewClaims : event = Claimed(k)
BY DEF Emitted

\* A step that leaves every request as it is emits nothing.
LEMMA QuietStepsAreSilent ==
  ASSUME nextRfqId \in Int, nextRfqId' = nextRfqId, \A r \in RfqIds : SameBooks(r)
  PROVE  Emitted = {}
<1>1. CreatedIds = {}
  BY DEF CreatedIds
<1>2. QuotedIds = {} /\ RequestedIds = {} /\ NewClaims = {}
  BY DEF QuotedIds, RequestedIds, NewClaims, SameBooks, SameQuotes
<1>3. \A statuses : ClosedIds(statuses) = {}
  BY DEF ClosedIds, SameBooks
<1>4. QED
  BY <1>1, <1>2, <1>3, WhatIsEmitted

\* When one request changes, the events are about that one.
LEMMA OneRequestTells ==
  ASSUME NEW r \in RfqIds, \A q \in RfqIds \ {r} : SameBooks(q)
  PROVE  /\ QuotedIds = IF providers'[r] # providers[r] THEN {r} ELSE {}
         /\ RequestedIds = IF rfqs'[r].actionId # rfqs[r].actionId THEN {r} ELSE {}
         /\ \A statuses : ClosedIds(statuses)
              = IF rfqs'[r].status # rfqs[r].status /\ rfqs'[r].status \in statuses
                THEN {r} ELSE {}
         /\ \A k : k \in NewClaims
              <=> k \in RfqIds \X Accounts /\ k[1] = r /\ k[2] \in claimed'[r] \ claimed[r]
<1>1. \A q \in RfqIds \ {r} : /\ providers'[q] = providers[q] /\ rfqs'[q] = rfqs[q]
                              /\ claimed'[q] = claimed[q]
  BY DEF SameBooks, SameQuotes
<1>2. QuotedIds = IF providers'[r] # providers[r] THEN {r} ELSE {}
  BY <1>1 DEF QuotedIds
<1>3. RequestedIds = IF rfqs'[r].actionId # rfqs[r].actionId THEN {r} ELSE {}
  BY <1>1 DEF RequestedIds
<1>4. ASSUME NEW statuses
      PROVE  ClosedIds(statuses)
               = IF rfqs'[r].status # rfqs[r].status /\ rfqs'[r].status \in statuses
                 THEN {r} ELSE {}
  BY <1>1 DEF ClosedIds
<1>5. \A k : k \in NewClaims
        <=> k \in RfqIds \X Accounts /\ k[1] = r /\ k[2] \in claimed'[r] \ claimed[r]
  BY <1>1 DEF NewClaims
<1>6. QED
  BY <1>2, <1>3, <1>4, <1>5

\* createRfq emits RfqCreated.
LEMMA CreationIsTold ==
  ASSUME ContractInv, NEW r \in RfqIds, \A q \in RfqIds \ {r} : SameBooks(q), Created(r)
  PROVE  Emitted = {RfqCreated(r)}
<1>1. TypeOK /\ BlankOrFunded /\ nextRfqId \in Int
  BY LimitsAreNaturals DEF ContractInv, TypeOK
<1>2. Blank(r) /\ rfqs[r].actionId = NoActionId /\ rfqs[r].status = "OPEN"
  BY <1>1, CreatedWasBlank DEF Blank, ZeroRfq
<1>3. CreatedIds = {r}
  BY <1>1 DEF Created, CreatedIds
<1>4. /\ rfqs'[r].status = rfqs[r].status /\ rfqs'[r].actionId = rfqs[r].actionId
      /\ providers'[r] = providers[r] /\ claimed'[r] = claimed[r]
  <2>1. /\ providers'[r] = providers[r] /\ claimed'[r] = claimed[r]
    BY Zenon DEF Created, SameQuotes
  <2>2. QED
    BY <1>2, <2>1, CreatedFields
<1>5. QuotedIds = {} /\ RequestedIds = {} /\ NewClaims = {} /\ \A S : ClosedIds(S) = {}
  BY <1>4, OneRequestTells
<1>6. QED
  BY <1>3, <1>5, WhatIsEmitted

\* submitQuote emits QuoteSubmitted.
LEMMA QuoteIsTold ==
  ASSUME ContractInv, NEW r \in RfqIds, \A q \in RfqIds \ {r} : SameBooks(q),
         nextRfqId' = nextRfqId, Quoted(r)
  PROVE  Emitted = {QuoteSubmitted(r)}
<1>1. /\ nextRfqId \in Int /\ providers[r] \in Seq(Accounts)
  BY LimitsAreNaturals DEF ContractInv, TypeOK
<1>2. CreatedIds = {}
  BY <1>1 DEF CreatedIds
<1>3. rfqs'[r] = rfqs[r] /\ claimed'[r] = claimed[r]
  BY DEF Quoted
<1>4. providers'[r] # providers[r]
  <2>1. PICK sender \in Accounts : providers'[r] = Append(providers[r], sender)
    BY DEF Quoted
  <2>2. Len(providers'[r]) = Len(providers[r]) + 1 /\ Len(providers[r]) \in Nat
    BY <1>1, <2>1
  <2>3. QED
    BY <2>2
<1>5. QuotedIds = {r} /\ RequestedIds = {} /\ NewClaims = {} /\ \A S : ClosedIds(S) = {}
  BY <1>3, <1>4, OneRequestTells
<1>6. QED
  BY <1>2, <1>5, WhatIsEmitted

\* requestResolution emits ResolutionRequested.
LEMMA RequestIsTold ==
  ASSUME ContractInv, NEW r \in RfqIds, \A q \in RfqIds \ {r} : SameBooks(q),
         nextRfqId' = nextRfqId, Requested(r)
  PROVE  Emitted = {ResolutionRequested(r)}
<1>1. nextRfqId \in Int /\ rfqs[r] \in Rfq
  BY LimitsAreNaturals DEF ContractInv, TypeOK
<1>2. CreatedIds = {}
  BY <1>1 DEF CreatedIds
<1>3. /\ rfqs'[r].actionId # rfqs[r].actionId /\ rfqs'[r].status = rfqs[r].status
      /\ providers'[r] = providers[r] /\ claimed'[r] = claimed[r]
  BY <1>1, HashesAreNotZero DEF Requested, SameQuotes, Rfq
<1>4. QuotedIds = {} /\ RequestedIds = {r} /\ NewClaims = {} /\ \A S : ClosedIds(S) = {}
  BY <1>3, OneRequestTells
<1>5. QED
  BY <1>2, <1>4, WhatIsEmitted

\* cancelRfq emits RfqCancelled, timeoutRfq RfqTimedOut.
LEMMA AbandonmentIsTold ==
  ASSUME ContractInv, NEW r \in RfqIds, \A q \in RfqIds \ {r} : SameBooks(q),
         nextRfqId' = nextRfqId, Abandoned(r)
  PROVE  \/ rfqs'[r].status = "CANCELLED" /\ Emitted = {RfqCancelled(r)}
         \/ rfqs'[r].status = "TIMED_OUT" /\ Emitted = {RfqTimedOut(r)}
<1>1. nextRfqId \in Int /\ rfqs[r] \in Rfq
  BY LimitsAreNaturals DEF ContractInv, TypeOK
<1>2. CreatedIds = {}
  BY <1>1 DEF CreatedIds
<1>3. /\ rfqs'[r].status \in {"CANCELLED", "TIMED_OUT"} /\ rfqs[r].status = "OPEN"
      /\ rfqs'[r].actionId = rfqs[r].actionId
      /\ providers'[r] = providers[r] /\ claimed'[r] = claimed[r]
  BY <1>1 DEF Abandoned, IsOpen, SameQuotes, Rfq
<1>4. QuotedIds = {} /\ RequestedIds = {} /\ NewClaims = {}
  BY <1>3, OneRequestTells
<1>5. ClosedIds({"SETTLED", "NO_VALID_QUOTE", "INVALID_RFQ"}) = {}
  BY <1>3, OneRequestTells
<1>6. CASE rfqs'[r].status = "CANCELLED"
  <2>1. ClosedIds({"CANCELLED"}) = {r} /\ ClosedIds({"TIMED_OUT"}) = {}
    BY <1>3, <1>6, OneRequestTells
  <2>2. QED
    BY <1>2, <1>4, <1>5, <1>6, <2>1, WhatIsEmitted
<1>7. CASE rfqs'[r].status = "TIMED_OUT"
  <2>1. ClosedIds({"CANCELLED"}) = {} /\ ClosedIds({"TIMED_OUT"}) = {r}
    BY <1>3, <1>7, OneRequestTells
  <2>2. QED
    BY <1>2, <1>4, <1>5, <1>7, <2>1, WhatIsEmitted
<1>8. QED
  BY <1>3, <1>6, <1>7

\* submitResult emits RfqFinalized.
LEMMA OutcomeIsTold ==
  ASSUME ContractInv, NEW r \in RfqIds, \A q \in RfqIds \ {r} : SameBooks(q),
         nextRfqId' = nextRfqId, Resolved(r)
  PROVE  Emitted = {RfqFinalized(r)}
<1>1. nextRfqId \in Int /\ rfqs[r] \in Rfq
  BY LimitsAreNaturals DEF ContractInv, TypeOK
<1>2. CreatedIds = {}
  BY <1>1 DEF CreatedIds
<1>3. /\ rfqs'[r].status \in {"SETTLED", "NO_VALID_QUOTE", "INVALID_RFQ"}
      /\ rfqs[r].status = "OPEN" /\ rfqs'[r].actionId = rfqs[r].actionId
      /\ providers'[r] = providers[r] /\ claimed'[r] = claimed[r]
  BY <1>1 DEF Resolved, IsOpen, SameQuotes, Rfq
<1>4. QuotedIds = {} /\ RequestedIds = {} /\ NewClaims = {}
  BY <1>3, OneRequestTells
<1>5. /\ ClosedIds({"SETTLED", "NO_VALID_QUOTE", "INVALID_RFQ"}) = {r}
      /\ ClosedIds({"CANCELLED"}) = {} /\ ClosedIds({"TIMED_OUT"}) = {}
  BY <1>3, OneRequestTells
<1>6. QED
  BY <1>2, <1>4, <1>5, WhatIsEmitted

\* claim emits Claimed with what it paid.
LEMMA ClaimIsTold ==
  ASSUME ContractInv, [Next]_vars, NEW r \in RfqIds, \A q \in RfqIds \ {r} : SameBooks(q),
         nextRfqId' = nextRfqId, Paid(r)
  PROVE  \E a \in Accounts \ claimed[r] :
           /\ rfqs[r].status # "OPEN" /\ claimed'[r] = claimed[r] \cup {a}
           /\ Emitted = {[eventName |-> "Claimed", rfqId |-> r, account |-> a,
                          fxrpAmount |-> Entitlement(r, a).fxrp,
                          usdt0Amount |-> Entitlement(r, a).usdt0]}
<1>1. /\ nextRfqId \in Int /\ TypeOK
      /\ claimedFxrp[r] \in Nat /\ claimedUsdt0[r] \in Nat
  BY LimitsAreNaturals DEF ContractInv, TypeOK
<1>2. CreatedIds = {}
  BY <1>1 DEF CreatedIds
<1>3. rfqs'[r] = rfqs[r] /\ providers'[r] = providers[r]
  BY DEF Paid, SameQuotes
<1>4. QuotedIds = {} /\ RequestedIds = {} /\ \A S : ClosedIds(S) = {}
  BY <1>3, OneRequestTells
<1>5. claimed'[r] # claimed[r]
  BY DEF Paid
<1>6. PICK a \in Accounts \ claimed[r] :
        /\ rfqs[r].status # "OPEN"
        /\ claimed'[r] = claimed[r] \cup {a}
        /\ claimedFxrp'[r] = claimedFxrp[r] + claimable(r, a).fxrp
        /\ claimedUsdt0'[r] = claimedUsdt0[r] + claimable(r, a).usdt0
  BY <1>5, ClaimsAdd
<1>7. NewClaims = {<<r, a>>}
  <2>1. \A k \in RfqIds \X Accounts :
          k[1] = r /\ k[2] \in claimed'[r] \ claimed[r] <=> k = <<r, a>>
    BY <1>6
  <2>2. QED
    BY <2>1, OneRequestTells
<1>8. /\ claimable(r, a) = Entitlement(r, a)
      /\ Entitlement(r, a).fxrp \in Nat /\ Entitlement(r, a).usdt0 \in Nat
  BY <1>1, <1>6, EntitlementIsTyped DEF claimable, ContractInv
<1>9. Claimed(<<r, a>>) = [eventName |-> "Claimed", rfqId |-> r, account |-> a,
                           fxrpAmount |-> Entitlement(r, a).fxrp,
                           usdt0Amount |-> Entitlement(r, a).usdt0]
  <2>1. /\ claimedFxrp'[r] - claimedFxrp[r] = Entitlement(r, a).fxrp
        /\ claimedUsdt0'[r] - claimedUsdt0[r] = Entitlement(r, a).usdt0
    BY <1>1, <1>6, <1>8
  <2>2. QED
    BY <2>1 DEF Claimed
<1>10. Emitted = {Claimed(<<r, a>>)}
  BY <1>2, <1>4, <1>7, WhatIsEmitted
<1>11. QED
  BY <1>6, <1>9, <1>10

-----------------------------------------------------------------------------
(* The invariant of the tables. *)

\* The projection is five tables.
Tables(p) ==
  p = [rfqs |-> p.rfqs, providers |-> p.providers, actions |-> p.actions,
       outcomes |-> p.outcomes, claims |-> p.claims]

\* No two requests share a recorded action.
ActionsDiffer ==
  \A r, q \in RfqIds : rfqs[r].actionId = rfqs[q].actionId /\ rfqs[r].actionId # NoActionId
                         => r = q

RowsInv == ~wedged => Tables(derived) /\ FitsSchema(derived) /\ ActionsDiffer

IndexedInv == /\ ContractInv /\ BooksInv /\ ReaderInv
              /\ RowsInv /\ RowsMirrorContract /\ OnlyRepeatedIdsWedge

\* What a state of the composition is like while nothing was refused.
InStep == /\ ContractInv /\ BooksInv /\ ReaderInv
          /\ Tables(derived) /\ FitsSchema(derived) /\ ActionsDiffer
          /\ RequestsMirrored /\ SeatsMirrored /\ ActionsMirrored
          /\ OutcomesMirrored /\ ClaimsMirrored

\* A row depends on its own request only.
LEMMA RowsAreLocal ==
  ASSUME NEW r \in RfqIds, SameBooks(r)
  PROVE  /\ RequestRow(r)' = RequestRow(r)
         /\ HasOutcome(r)' = HasOutcome(r)
         /\ ActionRow(r)' = ActionRow(r)
         /\ OutcomeRow(r)' = OutcomeRow(r)
         /\ \A a : SeatOf(r, a)' = SeatOf(r, a) /\ Entitlement(r, a)' = Entitlement(r, a)
<1>1. /\ rfqs'[r] = rfqs[r] /\ providers'[r] = providers[r]
      /\ participated'[r] = participated[r] /\ evidence'[r] = evidence[r]
  BY DEF SameBooks, SameQuotes, SameHistory
<1>2. QED
  BY <1>1 DEF RequestRow, HasOutcome, ActionRow, OutcomeRow, SeatOf, Entitlement

\* The table of requests follows one request's row.
LEMMA RequestsFollow ==
  ASSUME TypeOK, RequestsMirrored, NEW r \in RfqIds, r < nextRfqId, nextRfqId' = nextRfqId,
         \A q \in RfqIds \ {r} : SameBooks(q),
         derived'.rfqs = [derived.rfqs EXCEPT ![r] = RequestRow(r)']
  PROVE  RequestsMirrored'
<1>1. nextRfqId \in 1..(MaxRfqs + 1) /\ MaxRfqs \in Nat
  BY LimitsAreNaturals DEF TypeOK
<1>2. \A q \in 1..(nextRfqId - 1) : q \in RfqIds
  BY <1>1 DEF RfqIds
<1>3. \A q \in 1..(nextRfqId - 1) : q # r => RequestRow(q)' = RequestRow(q)
  BY <1>2, RowsAreLocal
<1>4. derived'.rfqs = [q \in 1..(nextRfqId - 1) |-> RequestRow(q)']
  <2>1. derived.rfqs = [q \in 1..(nextRfqId - 1) |-> RequestRow(q)]
    BY DEF RequestsMirrored
  <2>2. QED
    BY <1>3, <2>1
<1>5. QED
  BY <1>4 DEF RequestsMirrored

\* The table of providers stays while nobody quotes.
LEMMA SeatsStay ==
  ASSUME SeatsMirrored, \A q \in RfqIds : SameQuotes(q), derived'.providers = derived.providers
  PROVE  SeatsMirrored'
<1>1. \A k \in RfqIds \X Accounts : SeatOf(k[1], k[2])' = SeatOf(k[1], k[2])
  BY DEF SameQuotes, SeatOf
<1>2. Seats' = Seats
  BY DEF Seats, SameQuotes
<1>3. Seats \subseteq RfqIds \X Accounts
  BY DEF Seats
<1> HIDE DEF Seats
<1>4. [k \in Seats' |-> SeatOf(k[1], k[2])' - 1] = [k \in Seats |-> SeatOf(k[1], k[2]) - 1]
  BY <1>1, <1>2, <1>3
<1>5. QED
  BY <1>4 DEF SeatsMirrored

\* A recorded action names its request.
LEMMA NamedByAction ==
  ASSUME NEW f, NEW r \in RfqIds, f[r].actionId # NoActionId,
         \A p, q \in RfqIds : f[p].actionId = f[q].actionId /\ f[p].actionId # NoActionId => p = q
  PROVE  (CHOOSE q \in RfqIds : f[q].actionId = f[r].actionId) = r
OBVIOUS

\* The table of actions, request by request.
LEMMA ActionRowsAre ==
  ASSUME ActionsDiffer, ActionsMirrored
  PROVE  /\ DOMAIN derived.actions = RecordedActions
         /\ derived.actions = [i \in RecordedActions |-> derived.actions[i]]
         /\ \A r \in RfqIds : rfqs[r].actionId # NoActionId =>
              derived.actions[rfqs[r].actionId] = ActionRow(r)
<1>1. ASSUME NEW r \in RfqIds, rfqs[r].actionId # NoActionId
      PROVE  RequestOf(rfqs[r].actionId) = r
  BY <1>1, NamedByAction DEF RequestOf, ActionsDiffer
<1>2. \A r \in RfqIds : rfqs[r].actionId # NoActionId => rfqs[r].actionId \in RecordedActions
  BY DEF RecordedActions
<1> HIDE DEF RecordedActions
<1>3. QED
  BY <1>1, <1>2 DEF ActionsMirrored

\* What it takes for the table to mirror the actions after a step.
LEMMA ActionsFollow ==
  ASSUME ActionsDiffer', NEW table, derived'.actions = [i \in RecordedActions' |-> table[i]],
         \A r \in RfqIds : rfqs'[r].actionId # NoActionId =>
           table[rfqs'[r].actionId] = ActionRow(r)'
  PROVE  ActionsMirrored'
<1>1. ASSUME NEW i \in RecordedActions'
      PROVE  table[i] = ActionRow(RequestOf(i))'
  <2>1. PICK r \in RfqIds : i = rfqs'[r].actionId /\ rfqs'[r].actionId # NoActionId
    BY DEF RecordedActions
  <2>2. RequestOf(i)' = r
    BY <2>1, NamedByAction DEF RequestOf, ActionsDiffer
  <2>3. QED
    BY <2>1, <2>2
<1> HIDE DEF RecordedActions
<1>2. QED
  BY <1>1 DEF ActionsMirrored

\* The table of actions stays while nothing is requested or resolved.
LEMMA ActionsStay ==
  ASSUME ActionsDiffer, ActionsMirrored, derived'.actions = derived.actions,
         \A r \in RfqIds : /\ rfqs'[r].actionId = rfqs[r].actionId
                           /\ HasOutcome(r)' <=> HasOutcome(r)
  PROVE  ActionsDiffer' /\ ActionsMirrored'
<1>1. ActionsDiffer'
  BY DEF ActionsDiffer
<1>2. RecordedActions' = RecordedActions
  BY DEF RecordedActions
<1>3. \A r \in RfqIds : ActionRow(r)' = ActionRow(r)
  BY DEF ActionRow
<1>4. \A r \in RfqIds : rfqs'[r].actionId # NoActionId =>
        derived'.actions[rfqs'[r].actionId] = ActionRow(r)'
  BY <1>3, ActionRowsAre
<1>5. derived'.actions = [i \in RecordedActions' |-> derived'.actions[i]]
  BY <1>2, ActionRowsAre
<1>6. QED
  BY <1>1, <1>4, <1>5, ActionsFollow

\* The table of outcomes stays while no result is accepted.
LEMMA OutcomesStay ==
  ASSUME OutcomesMirrored, derived'.outcomes = derived.outcomes,
         \A r \in RfqIds : /\ HasOutcome(r)' <=> HasOutcome(r)
                           /\ HasOutcome(r) => OutcomeRow(r)' = OutcomeRow(r)
  PROVE  OutcomesMirrored'
<1> DEFINE D == {r \in RfqIds : HasOutcome(r)}
<1>1. D' = D /\ \A r \in D : OutcomeRow(r)' = OutcomeRow(r)
  OBVIOUS
<1>2. [r \in D' |-> OutcomeRow(r)'] = [r \in D |-> OutcomeRow(r)]
  BY <1>1
<1>3. QED
  BY <1>2 DEF OutcomesMirrored

\* The table of claims stays while nobody claims.
LEMMA ClaimsStay ==
  ASSUME ClaimsMirrored, derived'.claims = derived.claims,
         \A r \in RfqIds : /\ claimed'[r] = claimed[r]
                           /\ claimed[r] # {} =>
                                \A a : Entitlement(r, a)' = Entitlement(r, a)
  PROVE  ClaimsMirrored'
<1>1. PaidOut' = PaidOut
  BY DEF PaidOut
<1>2. \A k \in PaidOut : Entitlement(k[1], k[2])' = Entitlement(k[1], k[2])
  BY DEF PaidOut
<1> HIDE DEF PaidOut
<1>3. [k \in PaidOut' |-> Entitlement(k[1], k[2])'] = [k \in PaidOut |-> Entitlement(k[1], k[2])]
  BY <1>1, <1>2
<1>4. QED
  BY <1>3 DEF ClaimsMirrored

-----------------------------------------------------------------------------
(* Each event is ingested, and leaves the rows the mirror of the new state. *)

Mirrored == /\ RequestsMirrored /\ SeatsMirrored /\ ActionsMirrored
            /\ OutcomesMirrored /\ ClaimsMirrored

Told(event) ==
  /\ Ingestible(derived, event)
  /\ derived' = Applied(derived, event) => Tables(derived)' /\ ActionsDiffer' /\ Mirrored'

\* What the rows say of the requests and the seats.
LEMMA RowsSay ==
  ASSUME InStep
  PROVE  /\ TypeOK /\ nextRfqId \in Nat
         /\ DOMAIN derived.rfqs = 1..(nextRfqId - 1)
         /\ \A r \in RfqIds : r \in DOMAIN derived.rfqs <=> Exists(r)
         /\ \A r \in DOMAIN derived.rfqs : r \in RfqIds /\ derived.rfqs[r] = RequestRow(r)
         /\ DOMAIN derived.providers = Seats
         /\ \A k \in Seats :
              /\ derived.providers[k] = SeatOf(k[1], k[2]) - 1
              /\ SeatOf(k[1], k[2]) \in 1..Len(providers[k[1]])
              /\ providers[k[1]][SeatOf(k[1], k[2])] = k[2]
<1>1. TypeOK /\ nextRfqId \in 1..(MaxRfqs + 1) /\ MaxRfqs \in Nat
  BY LimitsAreNaturals DEF InStep, ContractInv, TypeOK
<1>2. /\ DOMAIN derived.rfqs = 1..(nextRfqId - 1)
      /\ \A r \in DOMAIN derived.rfqs : derived.rfqs[r] = RequestRow(r)
  BY DEF InStep, RequestsMirrored
<1>3. \A r \in 1..(nextRfqId - 1) : r \in RfqIds
  BY <1>1 DEF RfqIds
<1>4. \A r \in RfqIds : r \in 1..(nextRfqId - 1) <=> Exists(r)
  BY <1>1 DEF InStep, ReaderInv, RequestsAreDated, RfqIds
<1>5. ASSUME NEW k \in Seats
      PROVE  /\ SeatOf(k[1], k[2]) \in 1..Len(providers[k[1]])
             /\ providers[k[1]][SeatOf(k[1], k[2])] = k[2]
  <2>1. k[1] \in RfqIds /\ k[2] \in participated[k[1]] /\ providers[k[1]] \in Seq(Accounts)
    BY <1>1 DEF Seats, TypeOK
  <2>2. \E i \in 1..Len(providers[k[1]]) : providers[k[1]][i] = k[2]
    BY <2>1 DEF InStep, ReaderInv, EachSitsOnce
  <2>3. DOMAIN providers[k[1]] = 1..Len(providers[k[1]])
    BY <2>1
  <2>4. QED
    BY <2>2, <2>3 DEF SeatOf
<1>6. /\ DOMAIN derived.providers = Seats
      /\ \A k \in Seats : derived.providers[k] = SeatOf(k[1], k[2]) - 1
  BY DEF InStep, SeatsMirrored
<1>7. QED
  BY <1>1, <1>2, <1>3, <1>4, <1>5, <1>6

\* An open request has an open row.
LEMMA OpenRowsAreOpen ==
  ASSUME InStep, NEW r \in RfqIds, IsOpen(r)
  PROVE  /\ IsOpenRow(derived, r) /\ r < nextRfqId /\ r > 0
         /\ derived.rfqs[r] = RequestRow(r)
<1>1. Exists(r) /\ rfqs[r].status = "OPEN"
  BY DEF IsOpen
<1>2. r \in DOMAIN derived.rfqs /\ derived.rfqs[r] = RequestRow(r)
  BY <1>1, RowsSay
<1>3. derived.rfqs[r].status = "OPEN"
  BY <1>1, <1>2 DEF RequestRow
<1>4. r < nextRfqId /\ r > 0
  BY <1>2, RowsSay DEF RfqIds
<1>5. QED
  BY <1>2, <1>3, <1>4 DEF IsOpenRow

\* RfqCreated adds the row of the new request (createRfq).
LEMMA CreationIsIngested ==
  ASSUME InStep, NEW r \in RfqIds, \A q \in RfqIds \ {r} : SameBooks(q), Created(r)
  PROVE  Told(RfqCreated(r))
<1> DEFINE event == RfqCreated(r)
           p == Applied(derived, event)
<1>1. /\ event.eventName = "RfqCreated" /\ event.rfqId = r
      /\ event.seller = rfqs'[r].seller /\ event.lotAmount = rfqs'[r].lotAmount
      /\ event.quoteCap = rfqs'[r].quoteCap /\ event.quoteDeadline = rfqs'[r].quoteDeadline
      /\ event.resolutionDeadline = rfqs'[r].resolutionDeadline
  BY DEF RfqCreated
<1>2. /\ TypeOK /\ BlankOrFunded /\ nextRfqId \in Nat /\ r = nextRfqId
      /\ nextRfqId' = nextRfqId + 1 /\ r \in Nat \ {0}
  BY RowsSay DEF InStep, ContractInv, Created, RfqIds
<1>3. Blank(r) /\ ~Exists(r)
  BY <1>2, CreatedWasBlank DEF Blank, Exists, ZeroRfq
<1>4. /\ rfqs'[r].lotAmount \in Nat \ {0} /\ rfqs'[r].quoteCap \in Nat \ {0}
      /\ rfqs'[r].quoteDeadline \in Nat \ {0}
      /\ rfqs'[r].resolutionDeadline \in Nat
      /\ rfqs'[r].resolutionDeadline > rfqs'[r].quoteDeadline
      /\ rfqs'[r].status = "OPEN" /\ rfqs'[r].actionId = NoActionId
  <2>1. /\ rfqs'[r].lotAmount \in LotAmounts \ {0} /\ rfqs'[r].quoteCap \in QuoteCaps \ {0}
        /\ rfqs'[r].quoteDeadline \in 1..(rfqs'[r].resolutionDeadline - 1)
        /\ rfqs'[r].resolutionDeadline \in 0..MaxTime
        /\ rfqs'[r].status = "OPEN" /\ rfqs'[r].actionId = NoActionId
    BY CreatedFields
  <2>2. rfqs'[r].resolutionDeadline \in Nat
    BY <2>1, LimitsAreNaturals
  <2>3. /\ rfqs'[r].quoteDeadline \in Nat \ {0}
        /\ rfqs'[r].resolutionDeadline > rfqs'[r].quoteDeadline
    BY <2>1, <2>2
  <2>4. QED
    BY <2>1, <2>2, <2>3, AmountsAreNaturals
<1>5. WellFormed(event)
  BY <1>1, <1>2, <1>4 DEF WellFormed
<1>6. Accepts(derived, event)
  BY <1>1, <1>3, RowsSay DEF Accepts
<1>7. p = [derived EXCEPT !.rfqs = With(@, r, NewRow(event))]
  BY <1>1 DEF Applied
<1> HIDE DEF event, p
<1>8. /\ Tables(p) /\ p.rfqs = With(derived.rfqs, r, NewRow(event))
      /\ p.providers = derived.providers /\ p.actions = derived.actions
      /\ p.outcomes = derived.outcomes /\ p.claims = derived.claims
  BY <1>7 DEF InStep, Tables
<1>9. NewRow(event) = RequestRow(r)'
  <2>1. providers'[r] = <<>>
    BY <1>3 DEF Created, SameQuotes, Blank
  <2>2. QED
    BY <1>1, <1>4, <2>1 DEF NewRow, RequestRow
<1>10. /\ DOMAIN p.rfqs = 1..r
       /\ p.rfqs = [q \in 1..r |-> IF q = r THEN RequestRow(r)' ELSE derived.rfqs[q]]
  <2>1. 1..(nextRfqId - 1) \cup {r} = 1..r
    BY <1>2
  <2>2. DOMAIN derived.rfqs = 1..(nextRfqId - 1)
    BY RowsSay
  <2>3. QED
    BY <1>8, <1>9, <2>1, <2>2 DEF With
<1>11. DOMAIN derived.rfqs \subseteq DOMAIN p.rfqs
  BY <1>2, <1>10, RowsSay
<1>12. FitsSchema(p)
  <2>1. RequestsFit(p)
    <3>1. ASSUME NEW q \in DOMAIN derived.rfqs, q # r
          PROVE  p.rfqs[q] = derived.rfqs[q] /\ q \in 1..r
      BY <1>2, <1>10, <3>1, RowsSay
    <3>2. p.rfqs[r] = RequestRow(r)'
      BY <1>2, <1>10
    <3>3. \A q \in DOMAIN p.rfqs : q = r \/ (q \in DOMAIN derived.rfqs /\ q # r)
      BY <1>2, <1>10, RowsSay
    <3>4. /\ {r, p.rfqs[r].lotAmount, p.rfqs[r].quoteCap, p.rfqs[r].quoteDeadline}
               \subseteq Nat \ {0}
          /\ p.rfqs[r].resolutionDeadline > p.rfqs[r].quoteDeadline
      BY <1>2, <1>4, <3>2 DEF RequestRow
    <3>5. RequestsFit(derived)
      BY DEF InStep, FitsSchema
    <3>6. QED
      BY <3>1, <3>3, <3>4, <3>5 DEF RequestsFit
  <2>2. SeatsFit(p) /\ ActionsFit(p) /\ OutcomesFit(p) /\ ClaimsFit(p)
    BY <1>8, <1>11 DEF InStep, FitsSchema, SeatsFit, ActionsFit, OutcomesFit, ClaimsFit
  <2>3. QED
    BY <2>1, <2>2 DEF FitsSchema
<1>13. ASSUME derived' = p PROVE Tables(derived)' /\ ActionsDiffer' /\ Mirrored'
  <2>1. /\ derived'.rfqs = p.rfqs /\ derived'.providers = derived.providers
        /\ derived'.actions = derived.actions /\ derived'.outcomes = derived.outcomes
        /\ derived'.claims = derived.claims /\ Tables(derived)'
    BY <1>8, <1>13
  <2>2. \A q \in RfqIds : SameQuotes(q) /\ claimed'[q] = claimed[q]
    BY DEF Created, SameBooks
  <2>3. \A q \in RfqIds : rfqs'[q].actionId = rfqs[q].actionId
    BY <1>3, <1>4 DEF Blank, ZeroRfq, SameBooks
  <2>4. ~HasOutcome(r) /\ ~HasOutcome(r)' /\ claimed[r] = {}
    BY <1>3, <1>4 DEF Blank, ZeroRfq, HasOutcome
  <2>5. RequestsMirrored'
    <3>1. \A q \in 1..r : q # r => q \in RfqIds \ {r} /\ derived.rfqs[q] = RequestRow(q)
      BY <1>2, RowsSay DEF RfqIds
    <3>2. \A q \in 1..r : q # r => derived.rfqs[q] = RequestRow(q)'
      BY <3>1, RowsAreLocal
    <3>3. derived'.rfqs = [q \in 1..r |-> RequestRow(q)']
      BY <1>10, <2>1, <3>2
    <3>4. 1..r = 1..(nextRfqId' - 1)
      BY <1>2
    <3>5. QED
      BY <3>3, <3>4 DEF RequestsMirrored
  <2>6. SeatsMirrored'
    BY <2>1, <2>2, SeatsStay DEF InStep
  <2>7. \A q \in RfqIds : /\ HasOutcome(q)' <=> HasOutcome(q)
                          /\ HasOutcome(q) => OutcomeRow(q)' = OutcomeRow(q)
                          /\ claimed[q] # {} => \A a : Entitlement(q, a)' = Entitlement(q, a)
    BY <2>4, RowsAreLocal
  <2>8. ActionsDiffer' /\ ActionsMirrored'
    BY <2>1, <2>3, <2>7, ActionsStay DEF InStep
  <2>9. OutcomesMirrored' /\ ClaimsMirrored'
    BY <2>1, <2>2, <2>7, OutcomesStay, ClaimsStay DEF InStep
  <2>10. QED
    BY <2>1, <2>5, <2>6, <2>8, <2>9 DEF Mirrored
<1>14. QED
  BY <1>5, <1>6, <1>12, <1>13 DEF Told, Ingestible, event, p

\* An update that keeps a request's terms keeps its row within the constraints.
LEMMA RowUpdateFits ==
  ASSUME NEW p, NEW q, RequestsFit(p), NEW r \in DOMAIN p.rfqs, NEW row,
         q.rfqs = [p.rfqs EXCEPT ![r] = row],
         row.lotAmount = p.rfqs[r].lotAmount, row.quoteCap = p.rfqs[r].quoteCap,
         row.quoteDeadline = p.rfqs[r].quoteDeadline,
         row.resolutionDeadline = p.rfqs[r].resolutionDeadline
  PROVE  RequestsFit(q) /\ DOMAIN q.rfqs = DOMAIN p.rfqs
<1>1. DOMAIN q.rfqs = DOMAIN p.rfqs
  OBVIOUS
<1>2. \A s \in DOMAIN p.rfqs : q.rfqs[s] = IF s = r THEN row ELSE p.rfqs[s]
  OBVIOUS
<1>3. QED
  BY <1>1, <1>2 DEF RequestsFit

\* QuoteSubmitted adds the next seat (submitQuote).
LEMMA QuoteIsIngested ==
  ASSUME InStep, EachSitsOnce', NEW r \in RfqIds, \A q \in RfqIds \ {r} : SameBooks(q),
         nextRfqId' = nextRfqId, Quoted(r)
  PROVE  Told(QuoteSubmitted(r))
<1> DEFINE event == QuoteSubmitted(r)
           p == Applied(derived, event)
           n == Len(providers[r])
<1>1. PICK sender \in Accounts : /\ sender \notin participated[r]
                                 /\ participated'[r] = participated[r] \cup {sender}
                                 /\ providers'[r] = Append(providers[r], sender)
  BY DEF Quoted
<1>2. /\ TypeOK /\ IsOpen(r) /\ rfqs'[r] = rfqs[r] /\ claimed'[r] = claimed[r]
      /\ evidence'[r] = evidence[r] /\ providers[r] \in Seq(Accounts)
  BY RowsSay DEF Quoted, SameHistory, TypeOK
<1>3. /\ n \in Nat /\ Len(providers'[r]) = n + 1 /\ providers'[r][n + 1] = sender
      /\ \A i \in 1..n : providers'[r][i] = providers[r][i]
  BY <1>1, <1>2
<1> HIDE DEF n
<1>4. event.eventName = "QuoteSubmitted" /\ event.rfqId = r /\ event.provider = sender
  BY <1>3 DEF QuoteSubmitted
<1>5. /\ IsOpenRow(derived, r) /\ r > 0 /\ r < nextRfqId
      /\ derived.rfqs[r] = RequestRow(r) /\ r \in DOMAIN derived.rfqs
  BY <1>2, OpenRowsAreOpen DEF IsOpenRow
<1>6. <<r, sender>> \notin DOMAIN derived.providers
  BY <1>1, RowsSay DEF Seats
<1>7. WellFormed(event) /\ Accepts(derived, event)
  BY <1>4, <1>5, <1>6 DEF WellFormed, Accepts
<1>8. p = [derived EXCEPT
             !.providers = With(@, <<r, sender>>, derived.rfqs[r].providerCount),
             !.rfqs[r].providerCount = @ + 1]
  BY <1>4 DEF Applied
<1>9. derived.rfqs[r].providerCount = n
  BY <1>5 DEF RequestRow, n
<1> HIDE DEF event, p
<1>10. /\ Tables(p)
       /\ p.rfqs = [derived.rfqs EXCEPT ![r] = [@ EXCEPT !.providerCount = n + 1]]
       /\ p.providers = With(derived.providers, <<r, sender>>, n)
       /\ p.actions = derived.actions
       /\ p.outcomes = derived.outcomes /\ p.claims = derived.claims
  BY <1>8, <1>9 DEF InStep, Tables
<1>11. p.rfqs = [derived.rfqs EXCEPT ![r] = RequestRow(r)']
  <2>1. [derived.rfqs[r] EXCEPT !.providerCount = n + 1] = RequestRow(r)'
    BY <1>2, <1>3, <1>5 DEF RequestRow
  <2>2. QED
    BY <1>10, <2>1
<1>12. DOMAIN p.rfqs = DOMAIN derived.rfqs
  BY <1>10
<1>13. Seats' = Seats \cup {<<r, sender>>}
  <2>1. \A q \in RfqIds : q # r => participated'[q] = participated[q]
    BY DEF SameBooks, SameQuotes
  <2>2. QED
    BY <1>1, <2>1 DEF Seats
<1>14. \A k \in Seats :
         SeatOf(k[1], k[2])' = SeatOf(k[1], k[2]) /\ SeatOf(k[1], k[2]) - 1 \in Nat
  <2> SUFFICES ASSUME NEW k \in Seats
               PROVE  /\ SeatOf(k[1], k[2])' = SeatOf(k[1], k[2])
                      /\ SeatOf(k[1], k[2]) - 1 \in Nat
    OBVIOUS
  <2> DEFINE i == SeatOf(k[1], k[2])
  <2>1. /\ k[1] \in RfqIds /\ i \in 1..Len(providers[k[1]]) /\ providers[k[1]][i] = k[2]
    BY RowsSay DEF Seats
  <2>2. CASE k[1] # r
    BY <2>1, <2>2, RowsAreLocal
  <2>3. CASE k[1] = r
    <3>1. i \in 1..n /\ providers'[r][i] = k[2] /\ i \in 1..Len(providers'[r])
      BY <1>3, <2>1, <2>3 DEF n
    <3>2. \A j \in 1..Len(providers'[r]) : providers'[r][j] = k[2] => j = i
      BY <3>1 DEF EachSitsOnce
    <3>3. DOMAIN providers'[r] = 1..Len(providers'[r])
      BY <1>1, <1>2
    <3>4. (CHOOSE j \in DOMAIN providers'[r] : providers'[r][j] = k[2]) = i
      BY <3>1, <3>2, <3>3
    <3>5. SeatOf(k[1], k[2])' = i
      BY <2>3, <3>4 DEF SeatOf
    <3>6. i - 1 \in Nat
      BY <3>1, <1>3
    <3>7. QED
      BY <3>5, <3>6
  <2>4. i - 1 \in Nat
    BY <2>1
  <2>5. QED
    BY <2>2, <2>3, <2>4
<1>15. SeatOf(r, sender)' = n + 1
  <2>1. n + 1 \in 1..Len(providers'[r]) /\ DOMAIN providers'[r] = 1..Len(providers'[r])
    BY <1>1, <1>2, <1>3
  <2>2. \A j \in 1..Len(providers'[r]) : providers'[r][j] = sender => j = n + 1
    BY <1>3, <2>1 DEF EachSitsOnce
  <2>3. QED
    BY <1>3, <2>1, <2>2 DEF SeatOf
<1>16. p.providers = [k \in Seats' |-> SeatOf(k[1], k[2])' - 1]
  <2>1. p.providers = [k \in Seats \cup {<<r, sender>>} |->
                         IF k = <<r, sender>> THEN n ELSE derived.providers[k]]
    BY <1>10, RowsSay DEF With
  <2>2. \A k \in Seats : /\ k # <<r, sender>>
                         /\ derived.providers[k] = SeatOf(k[1], k[2])' - 1
    BY <1>6, <1>14, RowsSay
  <2>3. n = SeatOf(<<r, sender>>[1], <<r, sender>>[2])' - 1
    <3>1. <<r, sender>>[1] = r /\ <<r, sender>>[2] = sender
      OBVIOUS
    <3>2. SeatOf(r, sender)' - 1 = n
      BY <1>3, <1>15
    <3>3. QED
      BY <3>1, <3>2
  <2>4. QED
    BY <1>13, <2>1, <2>2, <2>3
<1>17. FitsSchema(p)
  <2>1. FitsSchema(derived)
    BY DEF InStep
  <2>2. RequestsFit(p)
    <3>1. /\ RequestRow(r)'.lotAmount = derived.rfqs[r].lotAmount
          /\ RequestRow(r)'.quoteCap = derived.rfqs[r].quoteCap
          /\ RequestRow(r)'.quoteDeadline = derived.rfqs[r].quoteDeadline
          /\ RequestRow(r)'.resolutionDeadline = derived.rfqs[r].resolutionDeadline
      BY <1>2, <1>5 DEF RequestRow
    <3>2. QED
      BY <1>5, <1>11, <2>1, <3>1, RowUpdateFits DEF FitsSchema
  <2>3. SeatsFit(p)
    <3>1. DOMAIN p.providers = Seats \cup {<<r, sender>>} /\ p.providers[<<r, sender>>] = n
      BY <1>10, RowsSay DEF With
    <3>2. \A k \in Seats : p.providers[k] = derived.providers[k]
      BY <1>6, <1>10, RowsSay DEF With
    <3>3. SeatsFit(derived) /\ DOMAIN derived.providers = Seats
      BY <2>1, RowsSay DEF FitsSchema
    <3>4. \A k \in Seats : k[1] = r => p.providers[k] # n
      <4>1. ASSUME NEW k \in Seats, k[1] = r PROVE derived.providers[k] # n
        BY <1>3, <4>1, RowsSay DEF n
      <4>2. QED
        BY <3>2, <4>1
    <3>5. \A k \in DOMAIN p.providers : k[1] \in DOMAIN p.rfqs /\ p.providers[k] \in Nat
      BY <1>3, <1>5, <1>12, <3>1, <3>2, <3>3 DEF SeatsFit
    <3>6. ASSUME NEW j \in DOMAIN p.providers, NEW k \in DOMAIN p.providers,
                 j[1] = k[1], p.providers[j] = p.providers[k]
          PROVE  j = k
      <4>1. <<r, sender>>[1] = r
        OBVIOUS
      <4>2. QED
        BY <3>1, <3>2, <3>3, <3>4, <3>6, <4>1 DEF SeatsFit
    <3>7. QED
      BY <3>5, <3>6 DEF SeatsFit
  <2>4. ActionsFit(p) /\ OutcomesFit(p) /\ ClaimsFit(p)
    BY <1>10, <1>12, <2>1 DEF FitsSchema, ActionsFit, OutcomesFit, ClaimsFit
  <2>5. QED
    BY <2>2, <2>3, <2>4 DEF FitsSchema
<1>18. ASSUME derived' = p PROVE Tables(derived)' /\ ActionsDiffer' /\ Mirrored'
  <2>1. /\ derived'.rfqs = [derived.rfqs EXCEPT ![r] = RequestRow(r)']
        /\ derived'.providers = [k \in Seats' |-> SeatOf(k[1], k[2])' - 1]
        /\ derived'.actions = derived.actions
        /\ derived'.outcomes = derived.outcomes
        /\ derived'.claims = derived.claims /\ Tables(derived)'
    BY <1>10, <1>11, <1>16, <1>18
  <2>2. RequestsMirrored' /\ SeatsMirrored'
    BY <1>2, <1>5, <2>1, RequestsFollow DEF InStep, SeatsMirrored
  <2>3. \A q \in RfqIds : /\ rfqs'[q].actionId = rfqs[q].actionId
                          /\ claimed'[q] = claimed[q]
                          /\ HasOutcome(q)' <=> HasOutcome(q)
                          /\ HasOutcome(q) => OutcomeRow(q)' = OutcomeRow(q)
    <3>1. ~HasOutcome(r) /\ ~HasOutcome(r)'
      BY <1>2 DEF IsOpen, HasOutcome
    <3>2. QED
      BY <1>2, <3>1, RowsAreLocal DEF SameBooks
  <2>4. \A q \in RfqIds : claimed[q] # {} => \A a : Entitlement(q, a)' = Entitlement(q, a)
    <3>1. claimed[r] = {}
      BY <1>2 DEF InStep, BooksInv, OpenIsUnclaimed, IsOpen
    <3>2. QED
      BY <3>1, RowsAreLocal
  <2>5. ActionsDiffer' /\ ActionsMirrored'
    BY <2>1, <2>3, ActionsStay DEF InStep
  <2>6. OutcomesMirrored' /\ ClaimsMirrored'
    BY <2>1, <2>3, <2>4, OutcomesStay, ClaimsStay DEF InStep
  <2>7. QED
    BY <2>1, <2>2, <2>5, <2>6 DEF Mirrored
<1>19. QED
  BY <1>7, <1>17, <1>18 DEF Told, Ingestible, event, p
\* An open request has no outcome and has paid nothing.
LEMMA OpenIsUntouched ==
  ASSUME InStep, NEW r \in RfqIds, IsOpen(r)
  PROVE  /\ ~HasOutcome(r) /\ claimed[r] = {}
         /\ rfqs[r] \in Rfq /\ providers[r] \in Seq(Accounts)
BY RowsSay DEF InStep, BooksInv, OpenIsUnclaimed, IsOpen, HasOutcome, TypeOK

\* ResolutionRequested records the action, unless another request already has it
\* (requestResolution).
LEMMA RequestIsIngested ==
  ASSUME InStep, NEW r \in RfqIds, \A q \in RfqIds \ {r} : SameBooks(q),
         nextRfqId' = nextRfqId, Requested(r)
  PROVE  \/ Told(ResolutionRequested(r))
         \/ /\ ~Ingestible(derived, ResolutionRequested(r))
            /\ \E q \in RfqIds \ {r} : /\ rfqs'[q].actionId = rfqs'[r].actionId
                                      /\ rfqs'[r].actionId # NoActionId
<1> DEFINE event == ResolutionRequested(r)
           p == Applied(derived, event)
           id == rfqs'[r].actionId
<1>1. /\ TypeOK /\ IsOpen(r) /\ rfqs[r].actionId = NoActionId
      /\ SameQuotes(r) /\ claimed'[r] = claimed[r] /\ evidence'[r] = evidence[r]
  BY RowsSay DEF Requested
<1>2. /\ ~HasOutcome(r) /\ claimed[r] = {} /\ rfqs[r] \in Rfq
  BY <1>1, OpenIsUntouched
<1>3. id # NoActionId /\ rfqs'[r] = [rfqs[r] EXCEPT !.actionId = id]
  BY <1>2, HashesAreNotZero DEF Requested, Rfq
<1>4. event.eventName = "ResolutionRequested" /\ event.rfqId = r /\ event.actionId = id
  BY DEF ResolutionRequested
<1>5. /\ IsOpenRow(derived, r) /\ r > 0 /\ r < nextRfqId
      /\ derived.rfqs[r] = RequestRow(r) /\ r \in DOMAIN derived.rfqs
      /\ derived.rfqs[r].actionId = None
  BY <1>1, OpenRowsAreOpen DEF IsOpenRow, RequestRow
<1>6. ActionsDiffer /\ ActionsMirrored /\ DOMAIN derived.actions = RecordedActions
  BY ActionRowsAre DEF InStep
<1>7. CASE id \in RecordedActions
  <2>1. PICK q \in RfqIds : rfqs[q].actionId = id
    BY <1>7 DEF RecordedActions
  <2>2. q # r /\ rfqs'[q].actionId = id
    BY <1>1, <1>3, <2>1 DEF SameBooks
  <2>3. ~Ingestible(derived, event)
    BY <1>4, <1>6, <1>7 DEF Ingestible, Accepts
  <2>4. QED
    BY <1>3, <2>2, <2>3
<1>8. CASE id \notin RecordedActions
  <2>1. WellFormed(event) /\ Accepts(derived, event)
    BY <1>4, <1>5, <1>6, <1>8 DEF WellFormed, Accepts
  <2>2. p = [derived EXCEPT !.rfqs[r].actionId = id,
                            !.actions = With(@, id, [rfqId |-> r, status |-> "REQUESTED"])]
    BY <1>4 DEF Applied
  <2> HIDE DEF event, p, id
  <2>3. /\ Tables(p) /\ p.rfqs = [derived.rfqs EXCEPT ![r] = [@ EXCEPT !.actionId = id]]
        /\ p.actions = With(derived.actions, id, [rfqId |-> r, status |-> "REQUESTED"])
        /\ p.providers = derived.providers
        /\ p.outcomes = derived.outcomes /\ p.claims = derived.claims
    BY <2>2 DEF InStep, Tables
  <2>4. p.rfqs = [derived.rfqs EXCEPT ![r] = RequestRow(r)']
    <3>1. providers'[r] = providers[r]
      BY <1>1 DEF SameQuotes
    <3>2. [derived.rfqs[r] EXCEPT !.actionId = id] = RequestRow(r)'
      BY <1>2, <1>3, <1>5, <3>1 DEF RequestRow, Rfq
    <3>3. QED
      BY <2>3, <3>2
  <2>5. /\ DOMAIN p.actions = RecordedActions \cup {id}
        /\ p.actions = [i \in RecordedActions \cup {id} |-> p.actions[i]]
        /\ p.actions[id] = [rfqId |-> r, status |-> "REQUESTED"]
        /\ \A i \in RecordedActions : p.actions[i] = derived.actions[i]
    BY <1>6, <1>8, <2>3 DEF With
  <2>6. ASSUME NEW q \in RfqIds, rfqs[q].actionId # NoActionId
        PROVE  /\ q # r /\ rfqs[q].actionId \in RecordedActions
               /\ rfqs[q].actionId # id
               /\ p.actions[rfqs[q].actionId] = ActionRow(q)
    <3>1. rfqs[q].actionId \in RecordedActions
      BY <2>6 DEF RecordedActions
    <3>2. QED
      BY <1>1, <1>6, <1>8, <2>5, <2>6, <3>1, ActionRowsAre
  <2>7. FitsSchema(p)
    <3>1. FitsSchema(derived)
      BY DEF InStep
    <3>2. RequestsFit(p) /\ DOMAIN p.rfqs = DOMAIN derived.rfqs
      <4>1. /\ RequestRow(r)'.lotAmount = derived.rfqs[r].lotAmount
            /\ RequestRow(r)'.quoteCap = derived.rfqs[r].quoteCap
            /\ RequestRow(r)'.quoteDeadline = derived.rfqs[r].quoteDeadline
            /\ RequestRow(r)'.resolutionDeadline = derived.rfqs[r].resolutionDeadline
        BY <1>2, <1>3, <1>5 DEF RequestRow, Rfq
      <4>2. QED
        BY <1>5, <2>4, <3>1, <4>1, RowUpdateFits DEF FitsSchema
    <3>3. \A i \in RecordedActions : p.actions[i].rfqId # r
      <4>1. ASSUME NEW i \in RecordedActions PROVE p.actions[i].rfqId # r
        <5>1. PICK q \in RfqIds : i = rfqs[q].actionId /\ i # NoActionId
          BY DEF RecordedActions
        <5>2. p.actions[i] = ActionRow(q) /\ q # r
          BY <2>6, <5>1
        <5>3. ActionRow(q).rfqId = q
          BY DEF ActionRow
        <5>4. QED
          BY <5>2, <5>3
      <4>2. QED
        BY <4>1
    <3>4. \A i \in DOMAIN p.actions : p.actions[i].rfqId \in DOMAIN p.rfqs
      BY <1>5, <1>6, <2>5, <3>1, <3>2 DEF FitsSchema, ActionsFit
    <3>5. ASSUME NEW i \in DOMAIN p.actions, NEW j \in DOMAIN p.actions,
                 p.actions[i].rfqId = p.actions[j].rfqId
          PROVE  i = j
      BY <1>6, <2>5, <3>1, <3>3, <3>5 DEF FitsSchema, ActionsFit
    <3>6. ActionsFit(p)
      BY <3>4, <3>5 DEF ActionsFit
    <3>7. SeatsFit(p) /\ OutcomesFit(p) /\ ClaimsFit(p)
      BY <2>3, <3>1, <3>2 DEF FitsSchema, SeatsFit, OutcomesFit, ClaimsFit
    <3>8. QED
      BY <3>2, <3>6, <3>7 DEF FitsSchema
  <2>8. ASSUME derived' = p PROVE Tables(derived)' /\ ActionsDiffer' /\ Mirrored'
    <3>1. /\ derived'.rfqs = [derived.rfqs EXCEPT ![r] = RequestRow(r)']
          /\ derived'.actions = p.actions
          /\ derived'.providers = derived.providers
          /\ derived'.outcomes = derived.outcomes
          /\ derived'.claims = derived.claims /\ Tables(derived)'
      BY <2>3, <2>4, <2>8
    <3>2. RequestsMirrored'
      BY <1>1, <1>5, <3>1, RequestsFollow DEF InStep
    <3>3. \A q \in RfqIds : SameQuotes(q) /\ claimed'[q] = claimed[q]
      BY <1>1 DEF SameBooks
    <3>4. SeatsMirrored'
      BY <3>1, <3>3, SeatsStay DEF InStep
    <3>5. ~HasOutcome(r)'
      BY <1>2, <1>3 DEF HasOutcome, Rfq
    <3>6. \A q \in RfqIds :
            /\ HasOutcome(q)' <=> HasOutcome(q)
            /\ HasOutcome(q) => OutcomeRow(q)' = OutcomeRow(q)
            /\ claimed[q] # {} => \A a : Entitlement(q, a)' = Entitlement(q, a)
      BY <1>2, <3>5, RowsAreLocal
    <3>7. OutcomesMirrored' /\ ClaimsMirrored'
      BY <3>1, <3>3, <3>6, OutcomesStay, ClaimsStay DEF InStep
    <3>8. \A q \in RfqIds : q # r => rfqs'[q].actionId = rfqs[q].actionId
      BY DEF SameBooks
    <3>9. ActionsDiffer'
      BY <1>6, <2>6, <3>8 DEF ActionsDiffer, id
    <3>10. RecordedActions' = RecordedActions \cup {id}
      BY <1>1, <1>3, <3>8 DEF RecordedActions, id
    <3>11. ASSUME NEW q \in RfqIds, rfqs'[q].actionId # NoActionId
           PROVE  p.actions[rfqs'[q].actionId] = ActionRow(q)'
      <4>1. CASE q = r
        BY <2>5, <3>5, <4>1 DEF ActionRow, id
      <4>2. CASE q # r
        BY <2>6, <3>8, <3>11, <4>2, RowsAreLocal
      <4>3. QED
        BY <4>1, <4>2
    <3>12. derived'.actions = [i \in RecordedActions' |-> p.actions[i]]
      BY <2>5, <3>1, <3>10
    <3>13. ActionsMirrored'
      BY <3>9, <3>11, <3>12, ActionsFollow
    <3>14. QED
      BY <3>1, <3>2, <3>4, <3>7, <3>9, <3>13 DEF Mirrored
  <2>9. QED
    BY <2>1, <2>7, <2>8 DEF Told, Ingestible, event, p
<1>9. QED
  BY <1>7, <1>8

\* RfqCancelled and RfqTimedOut close the row (cancelRfq, timeoutRfq).
LEMMA AbandonmentIsIngested ==
  ASSUME InStep, NEW r \in RfqIds, \A q \in RfqIds \ {r} : SameBooks(q),
         nextRfqId' = nextRfqId, Abandoned(r), NEW event, event.rfqId = r,
         \/ rfqs'[r].status = "CANCELLED" /\ event.eventName = "RfqCancelled"
         \/ rfqs'[r].status = "TIMED_OUT" /\ event.eventName = "RfqTimedOut"
  PROVE  Told(event)
<1> DEFINE p == Applied(derived, event)
           status == rfqs'[r].status
<1>1. /\ TypeOK /\ IsOpen(r) /\ SameQuotes(r) /\ claimed'[r] = claimed[r]
      /\ evidence'[r] = evidence[r]
  BY RowsSay DEF Abandoned, SameHistory
<1>2. /\ ~HasOutcome(r) /\ claimed[r] = {} /\ rfqs[r] \in Rfq
  BY <1>1, OpenIsUntouched
<1>3. /\ status \in {"CANCELLED", "TIMED_OUT"} /\ rfqs'[r] = [rfqs[r] EXCEPT !.status = status]
      /\ status = "CANCELLED" => Len(providers[r]) = 0
  BY <1>2 DEF Abandoned, Rfq
<1>4. /\ IsOpenRow(derived, r) /\ r > 0 /\ r < nextRfqId
      /\ derived.rfqs[r] = RequestRow(r) /\ r \in DOMAIN derived.rfqs
      /\ derived.rfqs[r].providerCount = Len(providers[r])
  BY <1>1, OpenRowsAreOpen DEF IsOpenRow, RequestRow
<1>5. WellFormed(event) /\ Accepts(derived, event)
  BY <1>3, <1>4 DEF WellFormed, Accepts
<1>6. p = [derived EXCEPT !.rfqs[r].status = status]
  BY DEF Applied
<1> HIDE DEF p, status
<1>7. /\ Tables(p) /\ p.rfqs = [derived.rfqs EXCEPT ![r] = [@ EXCEPT !.status = status]]
      /\ p.providers = derived.providers /\ p.actions = derived.actions
      /\ p.outcomes = derived.outcomes /\ p.claims = derived.claims
  BY <1>6 DEF InStep, Tables
<1>8. p.rfqs = [derived.rfqs EXCEPT ![r] = RequestRow(r)']
  <2>1. providers'[r] = providers[r]
    BY <1>1 DEF SameQuotes
  <2>2. [derived.rfqs[r] EXCEPT !.status = status] = RequestRow(r)'
    BY <1>2, <1>3, <1>4, <2>1 DEF RequestRow, Rfq
  <2>3. QED
    BY <1>7, <2>2
<1>9. FitsSchema(p)
  <2>1. FitsSchema(derived)
    BY DEF InStep
  <2>2. RequestsFit(p) /\ DOMAIN p.rfqs = DOMAIN derived.rfqs
    <3>1. /\ RequestRow(r)'.lotAmount = derived.rfqs[r].lotAmount
          /\ RequestRow(r)'.quoteCap = derived.rfqs[r].quoteCap
          /\ RequestRow(r)'.quoteDeadline = derived.rfqs[r].quoteDeadline
          /\ RequestRow(r)'.resolutionDeadline = derived.rfqs[r].resolutionDeadline
      BY <1>2, <1>3, <1>4 DEF RequestRow, Rfq
    <3>2. QED
      BY <1>4, <1>8, <2>1, <3>1, RowUpdateFits DEF FitsSchema
  <2>3. SeatsFit(p) /\ ActionsFit(p) /\ OutcomesFit(p) /\ ClaimsFit(p)
    BY <1>7, <2>1, <2>2 DEF FitsSchema, SeatsFit, ActionsFit, OutcomesFit, ClaimsFit
  <2>4. QED
    BY <2>2, <2>3 DEF FitsSchema
<1>10. ASSUME derived' = p PROVE Tables(derived)' /\ ActionsDiffer' /\ Mirrored'
  <2>1. /\ derived'.rfqs = [derived.rfqs EXCEPT ![r] = RequestRow(r)']
        /\ derived'.providers = derived.providers
        /\ derived'.actions = derived.actions /\ derived'.outcomes = derived.outcomes
        /\ derived'.claims = derived.claims /\ Tables(derived)'
    BY <1>7, <1>8, <1>10
  <2>2. RequestsMirrored'
    BY <1>1, <1>4, <2>1, RequestsFollow DEF InStep
  <2>3. ~HasOutcome(r)' /\ rfqs'[r].actionId = rfqs[r].actionId
    BY <1>2, <1>3 DEF HasOutcome, Rfq
  <2>4. \A q \in RfqIds : /\ SameQuotes(q) /\ claimed'[q] = claimed[q]
                          /\ rfqs'[q].actionId = rfqs[q].actionId
    BY <1>1, <2>3 DEF SameBooks
  <2>5. \A q \in RfqIds :
          /\ HasOutcome(q)' <=> HasOutcome(q)
          /\ HasOutcome(q) => OutcomeRow(q)' = OutcomeRow(q)
          /\ claimed[q] # {} => \A a : Entitlement(q, a)' = Entitlement(q, a)
    BY <1>2, <2>3, RowsAreLocal
  <2>6. SeatsMirrored'
    BY <2>1, <2>4, SeatsStay DEF InStep
  <2>7. ActionsDiffer' /\ ActionsMirrored'
    BY <2>1, <2>4, <2>5, ActionsStay DEF InStep
  <2>8. OutcomesMirrored' /\ ClaimsMirrored'
    BY <2>1, <2>4, <2>5, OutcomesStay, ClaimsStay DEF InStep
  <2>9. QED
    BY <2>1, <2>2, <2>6, <2>7, <2>8 DEF Mirrored
<1>11. QED
  BY <1>5, <1>9, <1>10 DEF Told, Ingestible, p

\* Claimed records what was paid (claim).
LEMMA ClaimIsIngested ==
  ASSUME InStep, NEW r \in RfqIds, \A q \in RfqIds \ {r} : SameBooks(q),
         nextRfqId' = nextRfqId, Paid(r), NEW a \in Accounts \ claimed[r],
         rfqs[r].status # "OPEN", claimed'[r] = claimed[r] \cup {a}, NEW event,
         event = [eventName |-> "Claimed", rfqId |-> r, account |-> a,
                  fxrpAmount |-> Entitlement(r, a).fxrp,
                  usdt0Amount |-> Entitlement(r, a).usdt0]
  PROVE  Told(event)
<1> DEFINE p == Applied(derived, event)
           due == Entitlement(r, a)
<1>1. /\ event.eventName = "Claimed" /\ event.rfqId = r /\ event.account = a
      /\ event.fxrpAmount = due.fxrp /\ event.usdt0Amount = due.usdt0
  OBVIOUS
<1>2. /\ TypeOK /\ rfqs'[r] = rfqs[r] /\ SameQuotes(r) /\ evidence'[r] = evidence[r]
  BY RowsSay DEF Paid, SameHistory
<1>3. due \in [fxrp : Nat, usdt0 : Nat]
  BY <1>2, EntitlementIsTyped DEF InStep, ContractInv
<1>4. Exists(r)
  <2>1. Blank(r) \/ Funded(r)
    BY DEF InStep, ContractInv, BlankOrFunded
  <2>2. ~Blank(r)
    BY DEF Blank, ZeroRfq
  <2>3. QED
    BY <2>1, <2>2, AddressesDistinct DEF Funded, Exists
<1>5. r \in DOMAIN derived.rfqs /\ derived.rfqs[r].status # "OPEN" /\ r < nextRfqId
  <2>1. r \in DOMAIN derived.rfqs /\ derived.rfqs[r] = RequestRow(r) /\ r < nextRfqId
    BY <1>4, RowsSay
  <2>2. QED
    BY <2>1 DEF RequestRow
<1>6. DOMAIN derived.claims = PaidOut /\ <<r, a>> \notin PaidOut
  BY DEF InStep, ClaimsMirrored, PaidOut
<1>7. WellFormed(event) /\ Accepts(derived, event)
  <2>1. event.rfqId > 0
    BY <1>1, LimitsAreNaturals DEF RfqIds
  <2>2. QED
    BY <1>1, <1>5, <1>6, <2>1 DEF WellFormed, Accepts
<1>8. p = [derived EXCEPT !.claims = With(@, <<r, a>>, [fxrp |-> due.fxrp, usdt0 |-> due.usdt0])]
  BY <1>1 DEF Applied
<1>9. [fxrp |-> due.fxrp, usdt0 |-> due.usdt0] = due
  BY <1>3
<1> HIDE DEF p, due
<1>10. /\ Tables(p) /\ p.claims = With(derived.claims, <<r, a>>, due)
       /\ p.rfqs = derived.rfqs /\ p.providers = derived.providers
       /\ p.actions = derived.actions /\ p.outcomes = derived.outcomes
  BY <1>8, <1>9 DEF InStep, Tables
<1>11. /\ DOMAIN p.claims = PaidOut \cup {<<r, a>>} /\ p.claims[<<r, a>>] = due
       /\ \A k \in PaidOut : p.claims[k] = derived.claims[k]
  BY <1>6, <1>10 DEF With
<1>12. FitsSchema(p)
  <2>1. FitsSchema(derived)
    BY DEF InStep
  <2>2. RequestsFit(p) /\ SeatsFit(p) /\ ActionsFit(p) /\ OutcomesFit(p)
    BY <1>10, <2>1 DEF FitsSchema, RequestsFit, SeatsFit, ActionsFit, OutcomesFit
  <2>3. ASSUME NEW k \in DOMAIN p.claims
        PROVE  k[1] \in DOMAIN p.rfqs /\ {p.claims[k].fxrp, p.claims[k].usdt0} \subseteq Nat
    <3>1. CASE k = <<r, a>>
      BY <1>3, <1>5, <1>10, <1>11, <3>1 DEF due
    <3>2. CASE k \in PaidOut
      BY <1>6, <1>10, <1>11, <2>1, <3>2 DEF FitsSchema, ClaimsFit
    <3>3. QED
      BY <1>11, <3>1, <3>2
  <2>4. QED
    BY <2>2, <2>3 DEF FitsSchema, ClaimsFit
<1>13. ASSUME derived' = p PROVE Tables(derived)' /\ ActionsDiffer' /\ Mirrored'
  <2>1. /\ derived'.rfqs = derived.rfqs /\ derived'.providers = derived.providers
        /\ derived'.actions = derived.actions /\ derived'.outcomes = derived.outcomes
        /\ derived'.claims = p.claims /\ Tables(derived)'
    BY <1>10, <1>13
  <2>2. \A q \in RfqIds : /\ SameQuotes(q) /\ rfqs'[q] = rfqs[q]
                          /\ evidence'[q] = evidence[q]
    BY <1>2 DEF SameBooks, SameHistory
  <2>3. \A q \in RfqIds : /\ RequestRow(q)' = RequestRow(q)
                          /\ HasOutcome(q)' = HasOutcome(q) /\ OutcomeRow(q)' = OutcomeRow(q)
                          /\ \A b : Entitlement(q, b)' = Entitlement(q, b)
    BY <2>2 DEF RequestRow, HasOutcome, OutcomeRow, Entitlement, SameQuotes
  <2>4. RequestsMirrored'
    <3>1. derived.rfqs = [derived.rfqs EXCEPT ![r] = RequestRow(r)']
      BY <1>4, <2>3, RowsSay DEF InStep, RequestsMirrored
    <3>2. QED
      BY <1>2, <1>5, <2>1, <3>1, RequestsFollow DEF InStep
  <2>5. SeatsMirrored'
    BY <2>1, <2>2, SeatsStay DEF InStep
  <2>6. ActionsDiffer' /\ ActionsMirrored'
    BY <2>1, <2>2, <2>3, ActionsStay DEF InStep
  <2>7. OutcomesMirrored'
    BY <2>1, <2>3, OutcomesStay DEF InStep
  <2>8. ClaimsMirrored'
    <3>1. PaidOut' = PaidOut \cup {<<r, a>>}
      <4>1. \A q \in RfqIds : q # r => claimed'[q] = claimed[q]
        BY DEF SameBooks
      <4>2. QED
        BY <4>1 DEF PaidOut
    <3>2. \A k \in PaidOut : p.claims[k] = Entitlement(k[1], k[2])'
      <4>1. ASSUME NEW k \in PaidOut PROVE p.claims[k] = Entitlement(k[1], k[2])'
        <5>1. k[1] \in RfqIds /\ derived.claims[k] = Entitlement(k[1], k[2])
          BY DEF InStep, ClaimsMirrored, PaidOut
        <5>2. QED
          BY <1>11, <2>3, <5>1
      <4>2. QED
        BY <4>1
    <3>3. p.claims[<<r, a>>] = Entitlement(<<r, a>>[1], <<r, a>>[2])'
      <4>1. <<r, a>>[1] = r /\ <<r, a>>[2] = a
        OBVIOUS
      <4>2. QED
        BY <1>11, <2>3, <4>1 DEF due
    <3>4. p.claims = [k \in PaidOut' |-> Entitlement(k[1], k[2])']
      BY <1>6, <1>10, <1>11, <3>1, <3>2, <3>3 DEF With
    <3>5. QED
      BY <2>1, <3>4 DEF ClaimsMirrored
  <2>9. QED
    BY <2>1, <2>4, <2>5, <2>6, <2>7, <2>8 DEF Mirrored
<1>14. QED
  BY <1>7, <1>12, <1>13 DEF Told, Ingestible, p

\* The projector reads the status number of a result back as the status it was.
LEMMA StatusIsReadBack ==
  ASSUME NEW status \in {"SETTLED", "NO_VALID_QUOTE", "INVALID_RFQ"}
  PROVE  /\ StatusCode(status) \in DOMAIN ResultStatus
         /\ ResultStatus[StatusCode(status)] = status
         /\ ResultOf(StatusCode(status)) = IF status = "SETTLED" THEN "TRADE" ELSE status
<1>1. /\ DOMAIN StatusEnum = 1..5 /\ DOMAIN ResultStatus = 1..3
      /\ StatusEnum[1] = "SETTLED" /\ StatusEnum[2] = "NO_VALID_QUOTE"
      /\ StatusEnum[3] = "INVALID_RFQ" /\ StatusEnum[4] = "CANCELLED"
      /\ StatusEnum[5] = "TIMED_OUT"
      /\ ResultStatus[1] = "SETTLED" /\ ResultStatus[2] = "NO_VALID_QUOTE"
      /\ ResultStatus[3] = "INVALID_RFQ"
  BY DEF StatusEnum, ResultStatus
<1>2. \A i \in 1..5 : i = 1 \/ i = 2 \/ i = 3 \/ i = 4 \/ i = 5
  OBVIOUS
<1> HIDE DEF StatusEnum, ResultStatus
<1>3. PICK i \in 1..3 : StatusEnum[i] = status /\ ResultStatus[i] = status
  BY <1>1
<1>4. StatusCode(status) \in 1..5 /\ StatusEnum[StatusCode(status)] = status
  BY <1>1, <1>3 DEF StatusCode
<1>5. StatusCode(status) = i
  BY <1>1, <1>2, <1>3, <1>4
<1>6. QED
  BY <1>1, <1>3, <1>5 DEF ResultOf

\* RfqFinalized closes the row, resolves its action and records the outcome (submitResult).
LEMMA OutcomeIsIngested ==
  ASSUME InStep, NEW r \in RfqIds, \A q \in RfqIds \ {r} : SameBooks(q),
         nextRfqId' = nextRfqId, Resolved(r)
  PROVE  Told(RfqFinalized(r))
<1> DEFINE event == RfqFinalized(r)
           p == Applied(derived, event)
           id == rfqs[r].actionId
           status == rfqs'[r].status
           provider == rfqs'[r].winningProvider
           quote == rfqs'[r].winningQuote
<1>1. /\ TypeOK /\ IsOpen(r) /\ SameQuotes(r) /\ claimed'[r] = claimed[r]
      /\ evidence'[r].actionId = id /\ evidence'[r] \in Evidence
  BY RowsSay DEF Resolved
<1>2. /\ ~HasOutcome(r) /\ claimed[r] = {} /\ rfqs[r] \in Rfq
  BY <1>1, OpenIsUntouched
<1>3. PICK s \in {"SETTLED", "NO_VALID_QUOTE", "INVALID_RFQ"},
           w \in Accounts \cup {ZeroAddress}, x \in Nat :
        /\ rfqs'[r] = [rfqs[r] EXCEPT !.status = s, !.winningProvider = w, !.winningQuote = x]
        /\ s = "SETTLED" => w \in participated[r] /\ x \in 1..rfqs[r].quoteCap
        /\ s # "SETTLED" => w = ZeroAddress /\ x = 0
  BY DEF Resolved
<1>4. /\ status = s /\ provider = w /\ quote = x /\ id # NoActionId
      /\ rfqs'[r].actionId = id
  BY <1>1, <1>2, <1>3, HashesAreNotZero DEF Rfq, Evidence
<1>5. /\ status \in {"SETTLED", "NO_VALID_QUOTE", "INVALID_RFQ"} /\ quote \in Nat
      /\ status = "SETTLED" => provider \in participated[r] /\ quote > 0
      /\ status # "SETTLED" => provider = ZeroAddress /\ quote = 0
  BY <1>3, <1>4
<1>6. /\ event.eventName = "RfqFinalized" /\ event.rfqId = r
      /\ event.status = StatusCode(status)
      /\ event.winningProvider = provider /\ event.winningQuote = quote
      /\ event.resultNonce = evidence'[r].nonce
  BY DEF RfqFinalized
<1>7. /\ IsOpenRow(derived, r) /\ r > 0 /\ r < nextRfqId
      /\ derived.rfqs[r] = RequestRow(r) /\ r \in DOMAIN derived.rfqs
      /\ derived.rfqs[r].actionId = id
  BY <1>1, <1>4, OpenRowsAreOpen DEF IsOpenRow, RequestRow
<1>8. /\ ActionsDiffer /\ ActionsMirrored /\ DOMAIN derived.actions = RecordedActions
      /\ id \in RecordedActions /\ derived.actions[id] = ActionRow(r)
  <2>1. id \in RecordedActions
    BY <1>4 DEF RecordedActions
  <2>2. QED
    BY <1>4, <2>1, ActionRowsAre DEF InStep
<1>9. /\ event.status \in DOMAIN ResultStatus /\ ResultStatus[event.status] = status
      /\ ResultOf(event.status) = IF status = "SETTLED" THEN "TRADE" ELSE status
  BY <1>5, <1>6, StatusIsReadBack
<1> HIDE DEF status, provider, quote, id
<1>10. status = "SETTLED" => <<r, provider>> \in DOMAIN derived.providers
  <2>1. \A a : a \in participated[r] => a \in Accounts
    BY <1>1 DEF TypeOK
  <2>2. QED
    BY <1>5, <2>1, RowsSay DEF Seats
<1>11. WellFormed(event) /\ Accepts(derived, event)
  <2>1. WellFormed(event)
    BY <1>6, <1>7 DEF WellFormed
  <2>2. /\ IsOpenRow(derived, r) /\ derived.rfqs[r].actionId \in DOMAIN derived.actions
        /\ IF ResultOf(event.status) = "TRADE"
           THEN <<r, event.winningProvider>> \in DOMAIN derived.providers
                  /\ event.winningQuote # 0
           ELSE event.winningProvider = ZeroAddress /\ event.winningQuote = 0
    BY <1>5, <1>6, <1>7, <1>8, <1>9, <1>10
  <2> HIDE DEF event
  <2>3. QED
    BY <1>6, <1>9, <2>1, <2>2 DEF Accepts
<1> DEFINE winner == IF status = "SETTLED" THEN [provider |-> provider, quote |-> quote] ELSE None
           outcome == [resultType |-> IF status = "SETTLED" THEN "TRADE" ELSE status,
                       winner |-> winner, resultNonce |-> evidence'[r].nonce]
<1>12. WinnerOf(event) = winner
  BY <1>5, <1>6, <1>9 DEF WinnerOf
<1>13. p = [derived EXCEPT !.rfqs[r].status = status, !.actions[id].status = "RESOLVED",
                           !.outcomes = With(@, r, outcome)]
  <2> HIDE DEF event
  <2>1. p = [derived EXCEPT !.rfqs[r].status = ResultStatus[event.status],
                       !.actions[derived.rfqs[r].actionId].status = "RESOLVED",
                       !.outcomes = With(@, r, [resultType |-> ResultOf(event.status),
                                                winner |-> WinnerOf(event),
                                                resultNonce |-> event.resultNonce])]
    BY <1>6 DEF Applied
  <2>2. QED
    BY <1>6, <1>7, <1>9, <1>12, <2>1
<1>14. outcome = OutcomeRow(r)'
  BY <1>5 DEF OutcomeRow, status, provider, quote
<1> HIDE DEF event, p, winner
<1>15. /\ (outcome.resultType = "TRADE") = (outcome.winner # None)
       /\ outcome.winner # None => outcome.winner.quote > 0
  BY <1>5 DEF winner, None
<1> HIDE DEF outcome
<1>16. /\ Tables(p) /\ p.rfqs = [derived.rfqs EXCEPT ![r] = [@ EXCEPT !.status = status]]
       /\ p.actions = [derived.actions EXCEPT ![id] = [@ EXCEPT !.status = "RESOLVED"]]
       /\ p.outcomes = With(derived.outcomes, r, outcome)
       /\ p.providers = derived.providers /\ p.claims = derived.claims
  BY <1>13 DEF InStep, Tables
<1>17. p.rfqs = [derived.rfqs EXCEPT ![r] = RequestRow(r)']
  <2>1. providers'[r] = providers[r]
    BY <1>1 DEF SameQuotes
  <2>2. [derived.rfqs[r] EXCEPT !.status = status] = RequestRow(r)'
    BY <1>2, <1>3, <1>4, <1>7, <2>1 DEF RequestRow, Rfq, status, id
  <2>3. QED
    BY <1>16, <2>2
<1>18. HasOutcome(r)' /\ HasOutcome(r)' = TRUE
  BY <1>5 DEF HasOutcome, status
<1>19. /\ DOMAIN p.actions = RecordedActions
       /\ p.actions = [i \in RecordedActions |-> p.actions[i]]
       /\ p.actions[id] = ActionRow(r)' /\ p.actions[id].rfqId = derived.actions[id].rfqId
       /\ \A i \in RecordedActions : i # id => p.actions[i] = derived.actions[i]
  <2>1. [derived.actions[id] EXCEPT !.status = "RESOLVED"] = ActionRow(r)'
    BY <1>2, <1>8, <1>18 DEF ActionRow
  <2>2. ActionRow(r)'.rfqId = r /\ ActionRow(r).rfqId = r
    BY DEF ActionRow
  <2>3. QED
    BY <1>8, <1>16, <2>1, <2>2
<1>20. /\ DOMAIN p.outcomes = DOMAIN derived.outcomes \cup {r} /\ p.outcomes[r] = outcome
       /\ \A q \in DOMAIN derived.outcomes : q # r => p.outcomes[q] = derived.outcomes[q]
  BY <1>16 DEF With
<1>21. FitsSchema(p)
  <2>1. FitsSchema(derived)
    BY DEF InStep
  <2>2. RequestsFit(p) /\ DOMAIN p.rfqs = DOMAIN derived.rfqs
    <3>1. /\ RequestRow(r)'.lotAmount = derived.rfqs[r].lotAmount
          /\ RequestRow(r)'.quoteCap = derived.rfqs[r].quoteCap
          /\ RequestRow(r)'.quoteDeadline = derived.rfqs[r].quoteDeadline
          /\ RequestRow(r)'.resolutionDeadline = derived.rfqs[r].resolutionDeadline
      BY <1>2, <1>3, <1>7 DEF RequestRow, Rfq
    <3>2. QED
      BY <1>7, <1>17, <2>1, <3>1, RowUpdateFits DEF FitsSchema
  <2>3. ActionsFit(p)
    <3>1. \A i \in RecordedActions : p.actions[i].rfqId = derived.actions[i].rfqId
      BY <1>19
    <3>2. QED
      BY <1>8, <1>19, <2>1, <2>2, <3>1 DEF FitsSchema, ActionsFit
  <2>4. OutcomesFit(p)
    <3>1. ASSUME NEW q \in DOMAIN p.outcomes
          PROVE  /\ q \in DOMAIN p.rfqs
                 /\ (p.outcomes[q].resultType = "TRADE") = (p.outcomes[q].winner # None)
                 /\ p.outcomes[q].winner # None => p.outcomes[q].winner.quote > 0
      <4>1. CASE q = r
        BY <1>7, <1>15, <1>20, <2>2, <4>1
      <4>2. CASE q # r
        BY <1>20, <2>1, <2>2, <4>2 DEF FitsSchema, OutcomesFit
      <4>3. QED
        BY <4>1, <4>2
    <3>2. QED
      BY <3>1 DEF OutcomesFit
  <2>5. SeatsFit(p) /\ ClaimsFit(p)
    BY <1>16, <2>1, <2>2 DEF FitsSchema, SeatsFit, ClaimsFit
  <2>6. QED
    BY <2>2, <2>3, <2>4, <2>5 DEF FitsSchema
<1>22. ASSUME derived' = p PROVE Tables(derived)' /\ ActionsDiffer' /\ Mirrored'
  <2>1. /\ derived'.rfqs = [derived.rfqs EXCEPT ![r] = RequestRow(r)']
        /\ derived'.providers = derived.providers
        /\ derived'.actions = p.actions /\ derived'.outcomes = p.outcomes
        /\ derived'.claims = derived.claims /\ Tables(derived)'
    BY <1>16, <1>17, <1>22
  <2>2. RequestsMirrored'
    BY <1>1, <1>7, <2>1, RequestsFollow DEF InStep
  <2>3. \A q \in RfqIds : /\ SameQuotes(q) /\ claimed'[q] = claimed[q]
                          /\ rfqs'[q].actionId = rfqs[q].actionId
    BY <1>1, <1>4 DEF SameBooks, id
  <2>4. SeatsMirrored'
    BY <2>1, <2>3, SeatsStay DEF InStep
  <2>5. ActionsDiffer' /\ RecordedActions' = RecordedActions
    BY <1>8, <2>3 DEF ActionsDiffer, RecordedActions
  <2>6. ASSUME NEW q \in RfqIds, rfqs'[q].actionId # NoActionId
        PROVE  p.actions[rfqs'[q].actionId] = ActionRow(q)'
    <3>1. CASE q = r
      BY <1>4, <1>19, <3>1 DEF id
    <3>2. CASE q # r
      <4>1. rfqs[q].actionId # id /\ rfqs[q].actionId \in RecordedActions
        BY <1>4, <1>8, <2>3, <2>6, <3>2 DEF ActionsDiffer, RecordedActions, id
      <4>2. derived.actions[rfqs[q].actionId] = ActionRow(q)
        BY <1>8, <2>3, <2>6, ActionRowsAre
      <4>3. QED
        BY <1>19, <2>3, <3>2, <4>1, <4>2, RowsAreLocal
    <3>3. QED
      BY <3>1, <3>2
  <2>7. ActionsMirrored'
    <3>1. derived'.actions = [i \in RecordedActions' |-> p.actions[i]]
      BY <1>19, <2>1, <2>5
    <3>2. QED
      BY <2>5, <2>6, <3>1, ActionsFollow
  <2>8. OutcomesMirrored'
    <3> DEFINE D == {q \in RfqIds : HasOutcome(q)}
    <3>1. \A q \in RfqIds : q # r => /\ HasOutcome(q)' <=> HasOutcome(q)
                                   /\ OutcomeRow(q)' = OutcomeRow(q)
      BY RowsAreLocal
    <3>2. D' = D \cup {r}
      BY <1>18, <3>1
    <3>3. DOMAIN derived.outcomes = D /\ \A q \in D : derived.outcomes[q] = OutcomeRow(q)
      BY DEF InStep, OutcomesMirrored
    <3>4. \A q \in D \cup {r} : (IF q = r THEN outcome ELSE derived.outcomes[q]) = OutcomeRow(q)'
      BY <1>14, <3>1, <3>3
    <3> HIDE DEF D
    <3>5. p.outcomes = [q \in D \cup {r} |-> OutcomeRow(q)']
      BY <1>16, <3>3, <3>4 DEF With
    <3>6. p.outcomes = [q \in D' |-> OutcomeRow(q)']
      BY <3>2, <3>5
    <3>7. QED
      BY <2>1, <3>6 DEF OutcomesMirrored, D
  <2>9. \A q \in RfqIds : claimed[q] # {} => \A a : Entitlement(q, a)' = Entitlement(q, a)
    BY <1>2, RowsAreLocal
  <2>10. ClaimsMirrored'
    BY <2>1, <2>3, <2>9, ClaimsStay DEF InStep
  <2>11. QED
    BY <2>1, <2>2, <2>4, <2>5, <2>7, <2>8, <2>10 DEF Mirrored
<1>23. QED
  BY <1>11, <1>21, <1>22 DEF Told, Ingestible, event, p

-----------------------------------------------------------------------------
(* The invariant of the composition. *)

\* An event that was told is ingested, and the rows go on mirroring the contract.
LEMMA ToldIsFollowed ==
  ASSUME Ingest, ~wedged, NEW event, Emitted = {event}, Told(event)
  PROVE  ~wedged' /\ Tables(derived)' /\ FitsSchema(derived)' /\ ActionsDiffer' /\ Mirrored'
<1>1. derived' = Applied(derived, event) /\ wedged' = FALSE
  BY DEF Ingest, Told
<1>2. FitsSchema(derived')
  BY <1>1 DEF Told, Ingestible
<1>3. FitsSchema(derived)'
  BY <1>2 DEF FitsSchema, RequestsFit, SeatsFit, ActionsFit, OutcomesFit, ClaimsFit
<1>4. QED
  BY <1>1, <1>3 DEF Told

\* Rows that stay while every request stays go on mirroring the contract.
LEMMA RowsStay ==
  ASSUME InStep, nextRfqId' = nextRfqId, \A r \in RfqIds : SameBooks(r), derived' = derived
  PROVE  Tables(derived)' /\ FitsSchema(derived)' /\ ActionsDiffer' /\ Mirrored'
<1>1. Tables(derived)' /\ FitsSchema(derived)'
  BY DEF InStep, Tables, FitsSchema, RequestsFit, SeatsFit, ActionsFit, OutcomesFit, ClaimsFit
<1>2. \A r \in RfqIds : /\ RequestRow(r)' = RequestRow(r) /\ HasOutcome(r)' = HasOutcome(r)
                        /\ OutcomeRow(r)' = OutcomeRow(r)
                        /\ \A a : Entitlement(r, a)' = Entitlement(r, a)
                        /\ SameQuotes(r) /\ claimed'[r] = claimed[r]
                        /\ rfqs'[r].actionId = rfqs[r].actionId
  BY RowsAreLocal DEF SameBooks
<1>3. RequestsMirrored'
  <2>1. \A r \in 1..(nextRfqId - 1) : r \in RfqIds
    BY RowsSay
  <2>2. [r \in 1..(nextRfqId' - 1) |-> RequestRow(r)']
          = [r \in 1..(nextRfqId - 1) |-> RequestRow(r)]
    BY <1>2, <2>1
  <2>3. QED
    BY <2>2 DEF InStep, RequestsMirrored
<1>4. SeatsMirrored'
  BY <1>2, SeatsStay DEF InStep
<1>5. ActionsDiffer' /\ ActionsMirrored'
  BY <1>2, ActionsStay DEF InStep
<1>6. OutcomesMirrored' /\ ClaimsMirrored'
  BY <1>2, OutcomesStay, ClaimsStay DEF InStep
<1>7. QED
  BY <1>1, <1>3, <1>4, <1>5, <1>6 DEF Mirrored

\* A recorded action stays recorded.
LEMMA ActionIdsStay ==
  ASSUME ContractInv, [Next]_vars, NEW r \in RfqIds, rfqs[r].actionId # NoActionId
  PROVE  rfqs'[r].actionId = rfqs[r].actionId
<1>1. TypeOK /\ BlankOrFunded /\ rfqs[r] \in Rfq
  BY DEF ContractInv, TypeOK
<1>2. ~Created(r)
  <2>1. ~Blank(r)
    BY DEF Blank, ZeroRfq
  <2>2. QED
    BY <1>1, <2>1, CreatedWasBlank
<1>3. CASE SameBooks(r) \/ Quoted(r) \/ Requested(r) \/ Paid(r)
  BY <1>3 DEF SameBooks, Quoted, Requested, Paid
<1>4. CASE Abandoned(r)
  BY <1>1, <1>4 DEF Abandoned, Rfq
<1>5. CASE Resolved(r)
  BY <1>1, <1>5 DEF Resolved, Rfq
<1>6. QED
  BY <1>1, <1>2, <1>3, <1>4, <1>5, StepOnRequest DEF RequestStep

\* What an unwedged composition is: in step, row for row.
LEMMA UnwedgedIsInStep ==
  ~wedged /\ ContractInv /\ BooksInv /\ ReaderInv /\ RowsInv /\ RowsMirrorContract <=>
  ~wedged /\ InStep
BY DEF InStep, RowsInv, RowsMirrorContract

\* Every step keeps the rows in step with the contract, or repeats an action
\* (ingestBatch after each handler).
LEMMA RowsFollow ==
  ASSUME InStep, ~wedged, [IndexedNext]_indexedVars, ReaderInv'
  PROVE  \/ ~wedged' /\ Tables(derived)' /\ FitsSchema(derived)' /\ ActionsDiffer' /\ Mirrored'
         \/ wedged' /\ OnlyRepeatedIdsWedge'
<1>1. [Next]_vars /\ ContractInv /\ nextRfqId \in Nat
  BY RowsSay DEF IndexedNext, indexedVars, InStep
<1>2. CASE UNCHANGED indexedVars
  <2>1. \A r \in RfqIds : SameBooks(r)
    BY <1>2 DEF indexedVars, vars, bookVars, claimVars, replayVars, requestVars, SameBooks,
       SameQuotes, SameHistory
  <2>2. nextRfqId' = nextRfqId /\ derived' = derived /\ wedged' = wedged
    BY <1>2 DEF indexedVars, vars, bookVars
  <2>3. QED
    BY <2>1, <2>2, RowsStay
<1>3. CASE IndexedNext
  <2>1. Ingest
    BY <1>3 DEF IndexedNext
  <2>2. CASE nextRfqId' = nextRfqId /\ \A r \in RfqIds : SameBooks(r)
    <3>1. derived' = derived /\ wedged' = wedged
      BY <1>1, <2>1, <2>2, QuietStepsAreSilent DEF Ingest
    <3>2. QED
      BY <2>2, <3>1, RowsStay
  <2>3. ASSUME NEW r \in RfqIds, \A q \in RfqIds \ {r} : SameBooks(q), Created(r)
        PROVE  ~wedged' /\ Tables(derived)' /\ FitsSchema(derived)' /\ ActionsDiffer' /\ Mirrored'
    BY <1>1, <2>1, <2>3, CreationIsTold, CreationIsIngested, ToldIsFollowed
  <2>4. ASSUME NEW r \in RfqIds, \A q \in RfqIds \ {r} : SameBooks(q), nextRfqId' = nextRfqId,
               Quoted(r)
        PROVE  ~wedged' /\ Tables(derived)' /\ FitsSchema(derived)' /\ ActionsDiffer' /\ Mirrored'
    BY <1>1, <2>1, <2>4, QuoteIsTold, QuoteIsIngested, ToldIsFollowed DEF ReaderInv
  <2>5. ASSUME NEW r \in RfqIds, \A q \in RfqIds \ {r} : SameBooks(q), nextRfqId' = nextRfqId,
               Requested(r)
        PROVE  \/ /\ ~wedged' /\ Tables(derived)' /\ FitsSchema(derived)'
                  /\ ActionsDiffer' /\ Mirrored'
               \/ wedged' /\ OnlyRepeatedIdsWedge'
    <3>1. Emitted = {ResolutionRequested(r)}
      BY <1>1, <2>5, RequestIsTold
    <3>2. CASE Told(ResolutionRequested(r))
      BY <2>1, <3>1, <3>2, ToldIsFollowed
    <3>3. CASE /\ ~Ingestible(derived, ResolutionRequested(r))
               /\ \E q \in RfqIds \ {r} : /\ rfqs'[q].actionId = rfqs'[r].actionId
                                         /\ rfqs'[r].actionId # NoActionId
      <4>1. wedged' = TRUE
        BY <2>1, <3>1, <3>3 DEF Ingest
      <4>2. QED
        BY <3>3, <4>1 DEF OnlyRepeatedIdsWedge
    <3>4. QED
      BY <2>5, <3>2, <3>3, RequestIsIngested
  <2>6. ASSUME NEW r \in RfqIds, \A q \in RfqIds \ {r} : SameBooks(q), nextRfqId' = nextRfqId,
               Abandoned(r)
        PROVE  ~wedged' /\ Tables(derived)' /\ FitsSchema(derived)' /\ ActionsDiffer' /\ Mirrored'
    <3>1. CASE rfqs'[r].status = "CANCELLED" /\ Emitted = {RfqCancelled(r)}
      <4>1. RfqCancelled(r).rfqId = r /\ RfqCancelled(r).eventName = "RfqCancelled"
        BY DEF RfqCancelled
      <4>2. Told(RfqCancelled(r))
        BY <2>6, <3>1, <4>1, AbandonmentIsIngested
      <4>3. QED
        BY <2>1, <3>1, <4>2, ToldIsFollowed
    <3>2. CASE rfqs'[r].status = "TIMED_OUT" /\ Emitted = {RfqTimedOut(r)}
      <4>1. RfqTimedOut(r).rfqId = r /\ RfqTimedOut(r).eventName = "RfqTimedOut"
        BY DEF RfqTimedOut
      <4>2. Told(RfqTimedOut(r))
        BY <2>6, <3>2, <4>1, AbandonmentIsIngested
      <4>3. QED
        BY <2>1, <3>2, <4>2, ToldIsFollowed
    <3>3. QED
      BY <1>1, <2>6, <3>1, <3>2, AbandonmentIsTold
  <2>7. ASSUME NEW r \in RfqIds, \A q \in RfqIds \ {r} : SameBooks(q), nextRfqId' = nextRfqId,
               Resolved(r)
        PROVE  ~wedged' /\ Tables(derived)' /\ FitsSchema(derived)' /\ ActionsDiffer' /\ Mirrored'
    BY <1>1, <2>1, <2>7, OutcomeIsTold, OutcomeIsIngested, ToldIsFollowed
  <2>8. ASSUME NEW r \in RfqIds, \A q \in RfqIds \ {r} : SameBooks(q), nextRfqId' = nextRfqId,
               Paid(r)
        PROVE  ~wedged' /\ Tables(derived)' /\ FitsSchema(derived)' /\ ActionsDiffer' /\ Mirrored'
    <3>1. PICK a \in Accounts \ claimed[r] :
            /\ rfqs[r].status # "OPEN" /\ claimed'[r] = claimed[r] \cup {a}
            /\ Emitted = {[eventName |-> "Claimed", rfqId |-> r, account |-> a,
                           fxrpAmount |-> Entitlement(r, a).fxrp,
                           usdt0Amount |-> Entitlement(r, a).usdt0]}
      BY <1>1, <2>8, ClaimIsTold
    <3>2. PICK event : event = [eventName |-> "Claimed", rfqId |-> r, account |-> a,
                                fxrpAmount |-> Entitlement(r, a).fxrp,
                                usdt0Amount |-> Entitlement(r, a).usdt0]
      OBVIOUS
    <3>3. Told(event)
      BY <2>8, <3>1, <3>2, ClaimIsIngested
    <3>4. Emitted = {event}
      BY <3>1, <3>2
    <3>5. QED
      BY <2>1, <3>3, <3>4, ToldIsFollowed
  <2>9. QED
    BY <1>1, <2>2, <2>3, <2>4, <2>5, <2>6, <2>7, <2>8, OneRequestAtATime
<1>4. QED
  BY <1>2, <1>3

\* A fresh contract and empty tables agree.
LEMMA IndexedInvHoldsInitially == IndexedInit => IndexedInv
<1> SUFFICES ASSUME IndexedInit PROVE IndexedInv
  OBVIOUS
<1>1. ContractInv /\ BooksInv /\ ReaderInv
  BY ContractInvHoldsInitially, BooksBalanceInitially, ReaderInvHoldsInitially DEF IndexedInit
<1>2. derived = EmptyProjection /\ wedged = FALSE /\ nextRfqId = 1
  BY DEF IndexedInit, Init
<1>3. \A r \in RfqIds : rfqs[r] = ZeroRfq /\ participated[r] = {} /\ claimed[r] = {}
  BY DEF IndexedInit, Init
<1>4. Tables(derived) /\ FitsSchema(derived)
  BY <1>2 DEF Tables, EmptyProjection, FitsSchema, RequestsFit, SeatsFit, ActionsFit,
     OutcomesFit, ClaimsFit
<1>5. ActionsDiffer
  BY <1>3 DEF ActionsDiffer, ZeroRfq
<1>6. /\ 1..(nextRfqId - 1) = {} /\ Seats = {} /\ RecordedActions = {}
      /\ {q \in RfqIds : HasOutcome(q)} = {} /\ PaidOut = {}
  BY <1>2, <1>3 DEF Seats, RecordedActions, HasOutcome, PaidOut, ZeroRfq
<1>7. Mirrored
  BY <1>2, <1>6 DEF Mirrored, EmptyProjection, RequestsMirrored, SeatsMirrored,
     ActionsMirrored, OutcomesMirrored, ClaimsMirrored
<1>8. QED
  BY <1>1, <1>2, <1>4, <1>5, <1>7
  DEF IndexedInv, RowsInv, RowsMirrorContract, OnlyRepeatedIdsWedge, Mirrored

\* Every step of the contract with its indexer keeps the invariant.
LEMMA IndexedInvIsInductive == IndexedInv /\ [IndexedNext]_indexedVars => IndexedInv'
<1> SUFFICES ASSUME IndexedInv, [IndexedNext]_indexedVars PROVE IndexedInv'
  OBVIOUS
<1>1. [Next]_vars /\ ContractInv /\ BooksInv /\ ReaderInv
  BY DEF IndexedNext, indexedVars, IndexedInv
<1>2. ContractInv' /\ BooksInv'
  BY <1>1, ContractInvIsInductive, BooksInvIsInductive
<1>3. ReaderInv'
  BY <1>1, EachSitsOnceStep, RequestsAreDatedStep, ResultsLeaveOutcomesStep DEF ReaderInv
<1>4. CASE wedged
  <2>1. wedged' = wedged
    BY <1>4 DEF IndexedNext, indexedVars, Ingest
  <2>2. PICK r \in RfqIds, q \in RfqIds : /\ r # q /\ rfqs[r].actionId = rfqs[q].actionId
                                        /\ rfqs[r].actionId # NoActionId
    BY <1>4 DEF IndexedInv, OnlyRepeatedIdsWedge
  <2>3. rfqs'[r].actionId = rfqs[r].actionId /\ rfqs'[q].actionId = rfqs[q].actionId
    BY <1>1, <2>2, ActionIdsStay
  <2>4. OnlyRepeatedIdsWedge'
    BY <2>2, <2>3 DEF OnlyRepeatedIdsWedge
  <2>5. QED
    BY <1>2, <1>3, <1>4, <2>1, <2>4 DEF IndexedInv, RowsInv, RowsMirrorContract
<1>5. CASE ~wedged
  <2>1. InStep
    BY <1>5, UnwedgedIsInStep DEF IndexedInv
  <2>2. CASE ~wedged' /\ Tables(derived)' /\ FitsSchema(derived)' /\ ActionsDiffer' /\ Mirrored'
    BY <1>2, <1>3, <2>2
    DEF IndexedInv, RowsInv, RowsMirrorContract, OnlyRepeatedIdsWedge, Mirrored
  <2>3. CASE wedged' /\ OnlyRepeatedIdsWedge'
    BY <1>2, <1>3, <2>3 DEF IndexedInv, RowsInv, RowsMirrorContract
  <2>4. QED
    BY <1>3, <1>5, <2>1, <2>2, <2>3, RowsFollow
<1>6. QED
  BY <1>4, <1>5

\* The invariant of the contract with its indexer.
LEMMA IndexedInvHolds == IndexedSpec => []IndexedInv
BY IndexedInvHoldsInitially, IndexedInvIsInductive, PTL DEF IndexedSpec

\* Whatever the order of handlers, the rows the indexer keeps are the contract's state, as
\* long as it ingests (applyProjectorEvent against every handler of the contract).
THEOREM RowsCorrect == IndexedSpec => []RowsMirrorContract
<1>1. IndexedInv => RowsMirrorContract
  BY DEF IndexedInv
<1>2. QED
  BY <1>1, IndexedInvHolds, PTL

\* The decoder, the projector and the tables refuse no event of the contract, except the
\* second request the registry gives the same instruction id (applyProjectorEvent,
\* 001_initial.sql).
THEOREM OnlyRepeatsStopIngestion == IndexedSpec => []OnlyRepeatedIdsWedge
<1>1. IndexedInv => OnlyRepeatedIdsWedge
  BY DEF IndexedInv
<1>2. QED
  BY <1>1, IndexedInvHolds, PTL

-----------------------------------------------------------------------------
(* What the read API computes from the rows. *)

\* A sum over some keys is the sum over all of them when the others have nothing.
LEMMA SumOverAPart ==
  ASSUME NEW S, NEW T, S \subseteq T, NEW f \in [S -> Nat], NEW g \in [T -> Nat],
         \A x \in S : f[x] = g[x], \A x \in T \ S : g[x] = 0
  PROVE  SumOf(f) = SumOf(g)
<1>1. ASSUME NEW u PROVE u \in Units(f) <=> u \in Units(g)
  <2>1. u \in Units(f) <=> \E x \in S : \E n \in 1..f[x] : u = <<x, n>>
    BY UnitsOf
  <2>2. u \in Units(g) <=> \E x \in T : \E n \in 1..g[x] : u = <<x, n>>
    BY UnitsOf
  <2>3. \A x \in T \ S : 1..g[x] = {}
    OBVIOUS
  <2>4. QED
    BY <2>1, <2>2, <2>3
<1>2. Units(f) = Units(g)
  BY <1>1
<1>3. QED
  BY <1>2 DEF SumOf

\* An id that was never created has nobody's quote in it and no lot.
LEMMA UnusedIsEmpty ==
  ASSUME InStep, NEW r \in RfqIds, ~Exists(r)
  PROVE  rfqs[r].lotAmount = 0 /\ participated[r] = {} /\ rfqs[r].seller = ZeroAddress
<1>1. Blank(r)
  BY DEF InStep, ContractInv, BlankOrFunded, Funded
<1>2. QED
  BY <1>1 DEF Blank, ZeroRfq

\* The fields of a row.
LEMMA RowFields ==
  ASSUME InStep, NEW r \in DOMAIN derived.rfqs
  PROVE  /\ r \in RfqIds /\ rfqs[r] \in Rfq
         /\ derived.rfqs[r].seller = rfqs[r].seller /\ derived.rfqs[r].status = rfqs[r].status
         /\ derived.rfqs[r].lotAmount = rfqs[r].lotAmount
         /\ derived.rfqs[r].quoteCap = rfqs[r].quoteCap
<1>1. r \in RfqIds /\ derived.rfqs[r] = RequestRow(r) /\ TypeOK
  BY RowsSay
<1>2. QED
  BY <1>1 DEF RequestRow, TypeOK

\* The portfolio shows what was paid, or what claim would pay (getPortfolio).
LEMMA PortfolioIsRight ==
  ASSUME InStep, NEW a \in Accounts
  PROVE  /\ PortfolioOf(derived, a) = {r \in RfqIds : a = rfqs[r].seller \/ a \in participated[r]}
         /\ \A r \in PortfolioOf(derived, a) :
              LET shown == ClaimShown(derived, r, a)
              IN  /\ shown.claimed = (a \in claimed[r])
                  /\ shown.amounts = IF shown.claimed THEN Entitlement(r, a) ELSE claimable(r, a)
<1>1. \A r \in DOMAIN derived.rfqs :
        /\ r \in RfqIds
        /\ <<r, a>> \in DOMAIN derived.providers <=> a \in participated[r]
        /\ derived.rfqs[r].seller = rfqs[r].seller /\ derived.rfqs[r].status = rfqs[r].status
        /\ derived.rfqs[r].lotAmount = rfqs[r].lotAmount
        /\ derived.rfqs[r].quoteCap = rfqs[r].quoteCap
  BY RowFields, RowsSay DEF Seats
<1>2. ASSUME NEW r \in RfqIds
      PROVE  r \in PortfolioOf(derived, a) <=> a = rfqs[r].seller \/ a \in participated[r]
  <2>1. CASE Exists(r)
    BY <1>1, <2>1, RowsSay DEF PortfolioOf
  <2>2. CASE ~Exists(r)
    <3>1. r \notin DOMAIN derived.rfqs
      BY <2>2, RowsSay
    <3>2. a # rfqs[r].seller /\ a \notin participated[r]
      BY <2>2, UnusedIsEmpty, AddressesDistinct
    <3>3. QED
      BY <3>1, <3>2 DEF PortfolioOf
  <2>3. QED
    BY <2>1, <2>2
<1>3. \A r \in PortfolioOf(derived, a) : r \in DOMAIN derived.rfqs
  BY DEF PortfolioOf
<1>4. ASSUME NEW r \in PortfolioOf(derived, a)
      PROVE  LET shown == ClaimShown(derived, r, a)
             IN  /\ shown.claimed = (a \in claimed[r])
                 /\ shown.amounts = IF shown.claimed THEN Entitlement(r, a) ELSE claimable(r, a)
  <2>1. /\ r \in RfqIds /\ r \in DOMAIN derived.rfqs
        /\ a = rfqs[r].seller \/ a \in participated[r]
    BY <1>1, <1>2, <1>3
  <2>2. /\ DOMAIN derived.claims = PaidOut
        /\ <<r, a>> \in PaidOut <=> a \in claimed[r]
    BY <2>1 DEF InStep, ClaimsMirrored, PaidOut
  <2>3. CASE a \in claimed[r]
    <3>1. derived.claims[<<r, a>>] = Entitlement(<<r, a>>[1], <<r, a>>[2])
      BY <2>2, <2>3 DEF InStep, ClaimsMirrored
    <3>2. derived.claims[<<r, a>>] = Entitlement(r, a)
      BY <3>1
    <3>3. ClaimShown(derived, r, a) = [amounts |-> Entitlement(r, a), claimed |-> TRUE]
      BY <2>2, <2>3, <3>2 DEF ClaimShown
    <3>4. /\ ClaimShown(derived, r, a).claimed = TRUE
          /\ ClaimShown(derived, r, a).amounts = Entitlement(r, a)
      BY <3>3
    <3>5. QED
      BY <2>3, <3>4, Zenon
  <2>4. CASE a \notin claimed[r]
    <3> DEFINE winner == WinnerRow(derived, r)
               amounts == AmountsAfter(derived.rfqs[r], winner, derived.rfqs[r].seller = a, a)
    <3>1. rfqs[r].status = "SETTLED" =>
            winner = [provider |-> rfqs[r].winningProvider, quote |-> rfqs[r].winningQuote]
      <4>1. ASSUME rfqs[r].status = "SETTLED"
            PROVE  winner = [provider |-> rfqs[r].winningProvider, quote |-> rfqs[r].winningQuote]
        <5>1. r \in DOMAIN derived.outcomes /\ derived.outcomes[r] = OutcomeRow(r)
          BY <2>1, <4>1 DEF InStep, OutcomesMirrored, HasOutcome
        <5>2. QED
          BY <4>1, <5>1 DEF WinnerRow, OutcomeRow
      <4>2. QED
        BY <4>1
    <3>2. rfqs[r].seller \notin participated[r]
      BY <2>1 DEF InStep, ContractInv, QuotesMatch
    <3> HIDE DEF winner
    <3>3. rfqs[r].status = "SETTLED" => /\ winner.provider = rfqs[r].winningProvider
                                        /\ winner.quote = rfqs[r].winningQuote
      BY <3>1
    <3>4. amounts = Entitlement(r, a)
      <4>1. CASE rfqs[r].status = "OPEN"
        BY <1>1, <2>1, <4>1 DEF AmountsAfter, Entitlement
      <4>2. CASE rfqs[r].status = "SETTLED"
        BY <1>1, <2>1, <3>2, <3>3, <4>2 DEF AmountsAfter, Entitlement
      <4>3. CASE rfqs[r].status \notin {"OPEN", "SETTLED"}
        BY <1>1, <2>1, <3>2, <4>3 DEF AmountsAfter, Entitlement
      <4>4. QED
        BY <4>1, <4>2, <4>3
    <3>5. ClaimShown(derived, r, a) = [amounts |-> amounts, claimed |-> FALSE]
      <4>1. <<r, a>> \notin DOMAIN derived.claims
        BY <2>2, <2>4
      <4>2. QED
        BY <4>1, Zenon DEF ClaimShown, winner
    <3> HIDE DEF amounts
    <3>6. /\ ClaimShown(derived, r, a).claimed = FALSE
          /\ ClaimShown(derived, r, a).amounts = claimable(r, a)
      BY <2>4, <3>4, <3>5 DEF claimable
    <3>7. (a \in claimed[r]) = FALSE
      BY <2>4
    <3>8. QED
      BY <3>6, <3>7
  <2>5. QED
    BY <2>3, <2>4
<1>5. QED
  BY <1>1, <1>2, <1>3, <1>4

\* The statistics count the contract's seats (getStats).
LEMMA ParticipationsAreSeats ==
  ASSUME InStep
  PROVE  Cardinality(DOMAIN derived.providers) = SumOf([r \in RfqIds |-> Len(providers[r])])
<1> DEFINE len == [r \in RfqIds |-> Len(providers[r])]
           seat == [k \in Seats |-> <<k[1], SeatOf(k[1], k[2])>>]
<1>1. /\ TypeOK /\ \A r \in RfqIds : providers[r] \in Seq(Accounts) /\ Len(providers[r]) \in Nat
      /\ len \in [RfqIds -> Nat]
  BY RowsSay DEF TypeOK
<1>2. \A u : u \in Units(len) <=> \E r \in RfqIds : \E n \in 1..len[r] : u = <<r, n>>
  BY <1>1, UnitsOf
<1>3. \A r \in RfqIds : len[r] = Len(providers[r])
  OBVIOUS
<1> HIDE DEF len
<1>4. ASSUME NEW k \in Seats
      PROVE  /\ k = <<k[1], k[2]>> /\ k[1] \in RfqIds /\ seat[k] = <<k[1], SeatOf(k[1], k[2])>>
             /\ SeatOf(k[1], k[2]) \in 1..Len(providers[k[1]])
             /\ providers[k[1]][SeatOf(k[1], k[2])] = k[2]
             /\ seat[k] \in Units(len)
  <2>1. k = <<k[1], k[2]>> /\ k[1] \in RfqIds
    BY DEF Seats
  <2>2. /\ SeatOf(k[1], k[2]) \in 1..Len(providers[k[1]])
        /\ providers[k[1]][SeatOf(k[1], k[2])] = k[2]
    BY RowsSay
  <2>3. seat[k] = <<k[1], SeatOf(k[1], k[2])>>
    OBVIOUS
  <2>4. QED
    BY <1>2, <1>3, <2>1, <2>2, <2>3
<1>5. DOMAIN seat = Seats /\ seat = [k \in Seats |-> seat[k]]
  OBVIOUS
<1> HIDE DEF seat
<1>6. seat \in [Seats -> Units(len)]
  BY <1>4, <1>5
<1>7. \A j, k \in Seats : seat[j] = seat[k] => j = k
  BY <1>4
<1>8. ASSUME NEW u \in Units(len) PROVE \E k \in Seats : seat[k] = u
  <2>1. PICK r \in RfqIds : \E n \in 1..Len(providers[r]) : u = <<r, n>>
    BY <1>2, <1>3
  <2>2. PICK n \in 1..Len(providers[r]) : u = <<r, n>>
    BY <2>1
  <2> DEFINE a == providers[r][n]
             k == <<r, a>>
  <2>3. a \in Accounts /\ a \in participated[r]
    BY <1>1, <2>2 DEF InStep, ReaderInv, EachSitsOnce
  <2> HIDE DEF a
  <2>4. k \in Seats /\ k[1] = r /\ k[2] = a
    BY <2>3 DEF Seats
  <2>5. SeatOf(r, a) = n
    <3>1. SeatOf(r, a) \in 1..Len(providers[r]) /\ providers[r][SeatOf(r, a)] = a
      BY <1>4, <2>4
    <3>2. QED
      BY <2>2, <3>1 DEF InStep, ReaderInv, EachSitsOnce, a
  <2>6. seat[k] = u
    BY <1>4, <2>2, <2>4, <2>5
  <2>7. QED
    BY <2>4, <2>6
<1>9. ExistsBijection(Seats, Units(len))
  <2>1. seat \in Injection(Seats, Units(len))
    BY <1>6, <1>7 DEF Injection, IsInjective
  <2>2. seat \in Surjection(Seats, Units(len))
    BY <1>6, <1>8 DEF Surjection
  <2>3. QED
    BY <2>1, <2>2 DEF ExistsBijection, Bijection
<1>10. IsFiniteSet(Units(len))
  BY <1>1, RfqIdsAreFinite, SumIsNatural
<1>11. IsFiniteSet(Seats)
  BY <1>6, <1>7, <1>10, FS_Injection DEF Injection, IsInjective
<1>12. Cardinality(Seats) = Cardinality(Units(len))
  BY <1>9, <1>11, FS_Bijection
<1>13. QED
  BY <1>12, RowsSay DEF SumOf, len

\* The statistics add up the lots of the contract and the prices of its trades (getStats).
LEMMA TotalsAreRight ==
  ASSUME InStep
  PROVE  /\ Stats(derived).totalLots = SumOf([r \in RfqIds |-> depositedFxrp(r)])
         /\ Stats(derived).settledQuotes =
              SumOf([r \in RfqIds |->
                       IF Exists(r) THEN Entitlement(r, rfqs[r].seller).usdt0 ELSE 0])
<1>1. /\ TypeOK /\ DOMAIN derived.rfqs \subseteq RfqIds
      /\ \A r \in RfqIds : /\ r \in DOMAIN derived.rfqs <=> Exists(r)
                           /\ rfqs[r] \in Rfq
      /\ \A r \in DOMAIN derived.rfqs : /\ derived.rfqs[r].lotAmount = rfqs[r].lotAmount
                                       /\ derived.rfqs[r].status = rfqs[r].status
  BY RowFields, RowsSay DEF TypeOK
<1>2. Stats(derived).totalLots = SumOf([r \in RfqIds |-> depositedFxrp(r)])
  <2> DEFINE f == [r \in DOMAIN derived.rfqs |-> derived.rfqs[r].lotAmount]
             g == [r \in RfqIds |-> depositedFxrp(r)]
  <2>1. f \in [DOMAIN derived.rfqs -> Nat] /\ g \in [RfqIds -> Nat]
    BY <1>1 DEF Rfq, depositedFxrp
  <2>2. \A r \in DOMAIN derived.rfqs : f[r] = g[r]
    BY <1>1 DEF depositedFxrp
  <2>3. \A r \in RfqIds \ DOMAIN derived.rfqs : g[r] = 0
    BY <1>1, UnusedIsEmpty DEF depositedFxrp
  <2> HIDE DEF f, g
  <2>4. SumOf(f) = SumOf(g)
    BY <1>1, <2>1, <2>2, <2>3, SumOverAPart
  <2>5. QED
    BY <2>4 DEF Stats, f, g
<1>3. Stats(derived).settledQuotes =
        SumOf([r \in RfqIds |-> IF Exists(r) THEN Entitlement(r, rfqs[r].seller).usdt0 ELSE 0])
  <2> DEFINE f == [r \in Settled(derived) |-> derived.outcomes[r].winner.quote]
             g == [r \in RfqIds |-> IF Exists(r) THEN Entitlement(r, rfqs[r].seller).usdt0 ELSE 0]
  <2>1. \A r \in RfqIds : r \in Settled(derived) <=> Exists(r) /\ rfqs[r].status = "SETTLED"
    BY <1>1 DEF Settled
  <2>2. Settled(derived) \subseteq RfqIds
    BY <1>1 DEF Settled
  <2>3. ASSUME NEW r \in Settled(derived) PROVE f[r] = rfqs[r].winningQuote /\ f[r] \in Nat
    <3>1. r \in RfqIds /\ rfqs[r].status = "SETTLED" /\ rfqs[r] \in Rfq
      BY <1>1, <2>1, <2>2
    <3>2. derived.outcomes[r] = OutcomeRow(r)
      BY <3>1 DEF InStep, OutcomesMirrored, HasOutcome
    <3>3. OutcomeRow(r).winner.quote = rfqs[r].winningQuote
      BY <3>1 DEF OutcomeRow
    <3>4. QED
      BY <3>1, <3>2, <3>3 DEF Rfq
  <2>4. ASSUME NEW r \in RfqIds
        PROVE  g[r] = (IF r \in Settled(derived) THEN rfqs[r].winningQuote ELSE 0) /\ g[r] \in Nat
    <3>1. rfqs[r].seller \notin participated[r] /\ rfqs[r] \in Rfq
      BY <1>1 DEF InStep, ContractInv, QuotesMatch
    <3>2. rfqs[r].status = "SETTLED" => Entitlement(r, rfqs[r].seller).usdt0 = rfqs[r].winningQuote
      BY <3>1 DEF Entitlement
    <3>3. rfqs[r].status # "SETTLED" => Entitlement(r, rfqs[r].seller).usdt0 = 0
      BY <3>1 DEF Entitlement
    <3>4. QED
      BY <2>1, <3>1, <3>2, <3>3 DEF Rfq
  <2>5. f \in [Settled(derived) -> Nat] /\ g \in [RfqIds -> Nat]
    BY <2>3, <2>4
  <2> HIDE DEF f, g
  <2>6. SumOf(f) = SumOf(g)
    <3>1. \A r \in Settled(derived) : f[r] = g[r]
      BY <2>2, <2>3, <2>4
    <3>2. \A r \in RfqIds \ Settled(derived) : g[r] = 0
      BY <2>4
    <3>3. QED
      BY <2>2, <2>5, <3>1, <3>2, SumOverAPart
  <2>7. QED
    BY <2>6 DEF Stats, f, g
<1>4. QED
  BY <1>2, <1>3

\* Whatever was traded, claimed or abandoned, the portfolio shows each account what it was
\* paid or could claim, and the statistics are the contract's own (getPortfolio, getStats).
THEOREM PortfoliosCorrect == IndexedSpec => []PortfoliosShowClaimables
<1>1. IndexedInv => PortfoliosShowClaimables
  <2> SUFFICES ASSUME IndexedInv, ~wedged PROVE PortfoliosShowClaimables
    BY DEF PortfoliosShowClaimables
  <2>1. InStep
    BY UnwedgedIsInStep DEF IndexedInv
  <2>2. Stats(derived).participations = Cardinality(DOMAIN derived.providers)
    BY DEF Stats
  <2>3. QED
    BY <2>1, <2>2, PortfolioIsRight, ParticipationsAreSeats, TotalsAreRight
    DEF PortfoliosShowClaimables
<1>2. QED
  BY <1>1, IndexedInvHolds, PTL
=============================================================================
