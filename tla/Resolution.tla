----------------------------- MODULE Resolution -----------------------------
(***************************************************************************)
(* What the TEE extension computes from the decrypted envelopes of one     *)
(* request (services/fcc-extension/src/resolve-rfq.ts, with the schemas of *)
(* packages/protocol/src/fcc.ts).                                          *)
(*                                                                         *)
(* An envelope carries who sealed it (its sender field), what it is, which *)
(* request it is for and an amount.  `bound' stands for the three bindings *)
(* (chain, contract, rfqId) all matching the request.                      *)
(***************************************************************************)
EXTENDS Integers, Sequences

CONSTANTS
  Addresses,       \* sellers and providers; msg.sender is never address(0)
  ZeroAddress,
  Unreadable,      \* what failed to decrypt, to parse as JSON or to match the schema
  MAX_PROVIDERS

ASSUME ZeroAddressUnused == ZeroAddress \notin Addresses
ASSUME ProviderLimitIsNatural == MAX_PROVIDERS \in Nat

PayloadKind == {"SELLER_MINIMUM", "PROVIDER_QUOTE"}
EnvelopeV1 == [payloadKind : PayloadKind, sender : Addresses, bound : BOOLEAN, value : Nat]
Envelope == EnvelopeV1 \cup {Unreadable}
ASSUME UnreadableIsNoEnvelope == Unreadable \notin EnvelopeV1

ProviderSubmission == [address : Addresses, quoteCap : Nat, envelope : Envelope]
ResolveRfqInput == [seller : Addresses, sellerEnvelope : Envelope,
                    providers : Seq(ProviderSubmission)]

Outcome == [resultType : {"TRADE", "NO_VALID_QUOTE", "INVALID_RFQ"},
            winningProvider : Addresses \cup {ZeroAddress}, winningQuote : Nat]
Best == [winningProvider : Addresses \cup {ZeroAddress}, winningQuote : Nat]

NoWinner == [winningProvider |-> ZeroAddress, winningQuote |-> 0]
Invalid == [resultType |-> "INVALID_RFQ", winningProvider |-> ZeroAddress, winningQuote |-> 0]

SellerMinimumForAnyRequest(input) ==   \* mutant
  LET seal == input.sellerEnvelope
  IN  /\ seal # Unreadable
      /\ seal.payloadKind = "SELLER_MINIMUM"
      /\ seal.sender = input.seller
SellerMinimumAccepted(input) ==
  LET seal == input.sellerEnvelope
  IN  /\ seal # Unreadable
      /\ seal.payloadKind = "SELLER_MINIMUM"
      /\ seal.sender = input.seller
      /\ seal.bound

Rejected(input) == Len(input.providers) > MAX_PROVIDERS \/ ~SellerMinimumAccepted(input)

\* A quote that may win: genuine, for this request, positive, within the locked cap
\* and not below the seller's minimum.
EligibleBelowMinimum(input, submission) ==   \* mutant
  LET quote == submission.envelope
  IN  /\ quote # Unreadable
      /\ quote.payloadKind = "PROVIDER_QUOTE"
      /\ quote.sender = submission.address
      /\ quote.bound
      /\ quote.value # 0
      /\ quote.value <= submission.quoteCap
EligibleFromAnybody(input, submission) ==   \* mutant
  LET quote == submission.envelope
  IN  /\ quote # Unreadable
      /\ quote.payloadKind = "PROVIDER_QUOTE"
      /\ quote.bound
      /\ quote.value # 0
      /\ quote.value <= submission.quoteCap
      /\ quote.value >= input.sellerEnvelope.value
Eligible(input, submission) ==
  LET quote == submission.envelope
  IN  /\ quote # Unreadable
      /\ quote.payloadKind = "PROVIDER_QUOTE"
      /\ quote.sender = submission.address
      /\ quote.bound
      /\ quote.value # 0
      /\ quote.value <= submission.quoteCap
      /\ quote.value >= input.sellerEnvelope.value

\* One turn of the selection loop: only a strictly higher quote replaces the leader.
ConsiderTies(input, best, submission) ==   \* mutant
  IF Eligible(input, submission) /\ submission.envelope.value >= best.winningQuote
  THEN [winningProvider |-> submission.envelope.sender,
        winningQuote |-> submission.envelope.value]
  ELSE best
Consider(input, best, submission) ==
  IF Eligible(input, submission) /\ submission.envelope.value > best.winningQuote
  THEN [winningProvider |-> submission.envelope.sender,
        winningQuote |-> submission.envelope.value]
  ELSE best

Verdict(best) ==
  [resultType |-> IF best.winningProvider = ZeroAddress THEN "NO_VALID_QUOTE" ELSE "TRADE",
   winningProvider |-> best.winningProvider,
   winningQuote |-> IF best.winningProvider = ZeroAddress THEN 0 ELSE best.winningQuote]

\* The leader after each turn of the loop, NoWinner before the first.
Leader(input) ==
  LET best[i \in 0..Len(input.providers)] ==
        IF i = 0 THEN NoWinner ELSE Consider(input, best[i - 1], input.providers[i])
  IN  best

ResolveRfqV1(input) ==
  IF Rejected(input) THEN Invalid ELSE Verdict(Leader(input)[Len(input.providers)])

-----------------------------------------------------------------------------
(* What the outcome has to be, in the words of the design. *)

\* Submission i wins: eligible, no eligible one is higher, no earlier one is as high.
Wins(input, i) ==
  /\ i \in DOMAIN input.providers
  /\ Eligible(input, input.providers[i])
  /\ \A j \in DOMAIN input.providers : Eligible(input, input.providers[j]) =>
       /\ input.providers[j].envelope.value <= input.providers[i].envelope.value
       /\ j < i => input.providers[j].envelope.value < input.providers[i].envelope.value

\* The highest eligible quote trades, the earliest of equal ones; without one there is
\* no valid quote; a request without a genuine seller minimum is invalid.
IsBestOutcome(input, outcome) ==
  IF Rejected(input) THEN outcome = Invalid
  ELSE \/ /\ \A i \in DOMAIN input.providers : ~Eligible(input, input.providers[i])
          /\ outcome = Verdict(NoWinner)
       \/ \E i \in DOMAIN input.providers :
            /\ Wins(input, i)
            /\ outcome = [resultType |-> "TRADE",
                          winningProvider |-> input.providers[i].address,
                          winningQuote |-> input.providers[i].envelope.value]
=============================================================================
