----------------------- MODULE HushFlowRfqProperties -----------------------
(***************************************************************************)
(* What makes the escrow contract correct: its safety and liveness         *)
(* properties, and two statements of the repository it does not satisfy.   *)
(***************************************************************************)
EXTENDS HushFlowRfq

-----------------------------------------------------------------------------
(* Safety *)

\* The escrow's token balances are, over all requests together, exactly the deposits
\* not yet claimed: no deposit goes unrecorded, no claim is paid twice or from
\* another request's deposits (_pullExact, claim, accounting).
EscrowBacksDeposits ==
  /\ fxrp[Escrow] + SumOf(claimedFxrp) = SumOf([r \in RfqIds |-> depositedFxrp(r)])
  /\ usdt0[Escrow] + SumOf(claimedUsdt0) = SumOf([r \in RfqIds |-> depositedUsdt0(r)])

\* Once a request is closed, what its accounts can still claim and what they have claimed
\* add up to what was deposited, in both tokens, after any subset of claims in any order:
\* nobody's claim can make another's fail and nothing stays behind (claimable against
\* accounting).
EntitlementsExhaustDeposits ==
  \A r \in RfqIds : rfqs[r].status # "OPEN" =>
    /\ SumOf([a \in Accounts |-> claimable(r, a).fxrp]) + claimedFxrp[r] = depositedFxrp(r)
    /\ SumOf([a \in Accounts |-> claimable(r, a).usdt0]) + claimedUsdt0[r] = depositedUsdt0(r)

\* Every account's ledger position and what it locked are its start and what the outcomes
\* gave it for the requests it has claimed: deposits and payouts reach the right accounts,
\* not only the right totals (createRfq, submitQuote, claim).
Locked(account, r) ==
  [fxrp |-> IF account = rfqs[r].seller THEN depositedFxrp(r) ELSE 0,
   usdt0 |-> IF account \in participated[r] THEN rfqs[r].quoteCap ELSE 0]
Received(account, r) ==
  IF account \in claimed[r] THEN Entitlement(r, account) ELSE [fxrp |-> 0, usdt0 |-> 0]
PositionsFollowOutcomes ==
  \A a \in Accounts :
    /\ fxrp[a] + SumOf([r \in RfqIds |-> Locked(a, r).fxrp])
         = InitialBalance + SumOf([r \in RfqIds |-> Received(a, r).fxrp])
    /\ usdt0[a] + SumOf([r \in RfqIds |-> Locked(a, r).usdt0])
         = InitialBalance + SumOf([r \in RfqIds |-> Received(a, r).usdt0])

\* No request ever pays out more of a token than was deposited for it, so that no claim
\* can draw on another request's deposits (claim, accounting).
ClaimsNeverExceedDeposits ==
  \A r \in RfqIds :
    /\ claimedFxrp[r] <= depositedFxrp(r)
    /\ claimedUsdt0[r] <= depositedUsdt0(r)

\* Every participant of a closed request has something to claim, so that no deposit is
\* out of its owner's reach behind NothingToClaim (claim, claimable).
ClosedPaysEveryParticipant ==
  \A r \in RfqIds : rfqs[r].status # "OPEN" =>
    \A a \in (participated[r] \cup {rfqs[r].seller}) \ claimed[r] :
      claimable(r, a).fxrp + claimable(r, a).usdt0 > 0

\* Each outcome answers the request's own recorded action, is signed by the configured
\* signer, and shares neither its action nor its nonce with another request's outcome,
\* whatever ids the registry repeats (submitResult, verifyActionResult, replay maps).
HasOutcome(r) == rfqs[r].status \in {"SETTLED", "NO_VALID_QUOTE", "INVALID_RFQ"}
OutcomesAreUniquelyBound ==
  \A r \in RfqIds : HasOutcome(r) =>
    /\ evidence[r] # None
    /\ evidence[r].actionId = rfqs[r].actionId
    /\ evidence[r].signer = teeSigner
    /\ \A q \in RfqIds \ {r} : HasOutcome(q) =>
         /\ evidence[q].actionId # evidence[r].actionId
         /\ evidence[q].nonce # evidence[r].nonce

\* What the TEE was asked to resolve stays what the contract will settle: no quote,
\* cap, deadline or seller changes after the resolution message is sent
\* (requestResolution against submitQuote and cancelRfq).
InstructionStaysCurrent ==
  \A r \in RfqIds :
    /\ (rfqs[r].actionId # NoActionId) = (instruction[r] # None)
    /\ instruction[r] # None => instruction[r] = ResolutionMessage(r)

\* A cancelled request holds no provider's deposit, now or later (cancelRfq, submitQuote).
CancelledHasNoQuotes ==
  \A r \in RfqIds : rfqs[r].status = "CANCELLED" => participated[r] = {}

\* Once a request is closed, what each account gets out of it never changes, and no claim
\* is ever forgotten (every handler reads the status first).
EntitlementsAreFinal ==
  [][\A r \in RfqIds : rfqs[r].status # "OPEN" =>
       /\ \A a \in Accounts : Entitlement(r, a)' = Entitlement(r, a)
       /\ claimed[r] \subseteq claimed'[r]]_vars
-----------------------------------------------------------------------------
(* Liveness *)

\* Whatever the seller, the providers, the registry and the TEE do or fail to do, every
\* deposit leaves the contract in the end (timeoutRfq as the way out, claim).
EveryDepositReturns ==
  \A r \in RfqIds :
    Exists(r) ~> /\ rfqs[r].status # "OPEN"
                 /\ claimedFxrp[r] = depositedFxrp(r)
                 /\ claimedUsdt0[r] = depositedUsdt0(r)

-----------------------------------------------------------------------------
(* What the repository says and this code does not do: each is refuted by a run. *)

\* "zero instruction id accepted": the test expects a registry answer of zero to revert,
\* so that only the registry's own ids are ever recorded (requestResolution).
OnlyRegistryIdsAreRecorded ==
  \A r \in RfqIds : rfqs[r].actionId \in RemoteActionIds \cup {NoActionId}

\* "the RFQ contract retains no native currency": the fee sent with requestResolution is
\* forwarded, never kept.
NoNativeCurrencyRetained == nativeBalance = 0
=============================================================================
