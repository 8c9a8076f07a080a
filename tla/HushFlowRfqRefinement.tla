----------------------- MODULE HushFlowRfqRefinement -----------------------
(***************************************************************************)
(* The contract implements the promise of RfqEscrow: every transaction is  *)
(* a step of the abstract escrow, or changes nothing it can see.           *)
(***************************************************************************)
EXTENDS HushFlowRfqProperties

phaseOf(r) == IF ~Exists(r) THEN "unused"
              ELSE IF rfqs[r].status = "OPEN" THEN "open" ELSE "closed"

Promise == INSTANCE RfqEscrow WITH
  Requests <- RfqIds, Lots <- LotAmounts, Caps <- QuoteCaps, Prices <- Quotes \ {0},
  phase <- [r \in RfqIds |-> phaseOf(r)],
  deposit <- [r \in RfqIds |-> [a \in Accounts |-> Locked(a, r)]],
  share <- [r \in RfqIds |-> [a \in Accounts |-> Entitlement(r, a)]],
  withdrawn <- claimed,
  wallet <- [a \in Accounts |-> [fxrp |-> fxrp[a], usdt0 |-> usdt0[a]]]

\* Funds leave the contract only as RfqEscrow promises: back to their owner, or as the
\* two sides of one trade within the winner's deposit, once, fixed when the request
\* closes (createRfq, submitQuote, cancelRfq, submitResult, timeoutRfq, claim).
ImplementsEscrow == Promise!PromiseSpec
=============================================================================
