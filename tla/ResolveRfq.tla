----------------------------- MODULE ResolveRfq -----------------------------
(***************************************************************************)
(* resolveRfqV1 one turn of its loop at a time                             *)
(* (services/fcc-extension/src/resolve-rfq.ts): the checks of the seller's *)
(* envelope, then the scan of the submissions in their order.              *)
(***************************************************************************)
EXTENDS Resolution

CONSTANT Inputs   \* the inputs of a run

ASSUME InputsAreTyped == Inputs \subseteq ResolveRfqInput

VARIABLES
  input,
  turn,         \* the submission the loop looks at next
  best,         \* winningProvider and winningQuote
  result        \* what was returned, or Pending

loopVars == <<input, turn, best, result>>

Pending == [resultType |-> "none"]

ResolveTypeOK ==
  /\ input \in ResolveRfqInput
  /\ turn \in 1..(Len(input.providers) + 1)
  /\ best \in Best
  /\ result \in Outcome \cup {Pending}

ResolveInit ==
  /\ input \in Inputs
  /\ turn = 1
  /\ best = NoWinner
  /\ result = Pending

\* Too many submissions, or no genuine seller minimum: no quote is looked at.
Reject ==
  /\ result = Pending
  /\ Rejected(input)
  /\ result' = Invalid
  /\ UNCHANGED <<input, turn, best>>

\* A loop that leaves at an ineligible submission where the code continues.
ScanBreaks ==   \* mutant
  /\ result = Pending
  /\ ~Rejected(input)
  /\ turn <= Len(input.providers)
  /\ best' = Consider(input, best, input.providers[turn])
  /\ turn' = IF Eligible(input, input.providers[turn]) THEN turn + 1
             ELSE Len(input.providers) + 1
  /\ UNCHANGED <<input, result>>
\* A loop that advances its index twice.
ScanSkips ==   \* mutant
  /\ result = Pending
  /\ ~Rejected(input)
  /\ turn <= Len(input.providers)
  /\ best' = Consider(input, best, input.providers[turn])
  /\ turn' = turn + 2
  /\ UNCHANGED <<input, result>>
Scan ==
  /\ result = Pending
  /\ ~Rejected(input)
  /\ turn <= Len(input.providers)
  /\ best' = Consider(input, best, input.providers[turn])
  /\ turn' = turn + 1
  /\ UNCHANGED <<input, result>>

Conclude ==
  /\ result = Pending
  /\ ~Rejected(input)
  /\ turn > Len(input.providers)
  /\ result' = Verdict(best)
  /\ UNCHANGED <<input, turn, best>>

ResolveNext == Reject \/ Scan \/ Conclude

ResolveSpec == ResolveInit /\ [][ResolveNext]_loopVars

-----------------------------------------------------------------------------

\* The leader is the best of what the loop has seen: the highest eligible quote, the
\* earliest of equal ones, or nobody when none was eligible (the loop's invariant).
Leads(i) ==
  /\ i \in 1..(turn - 1)
  /\ Eligible(input, input.providers[i])
  /\ best = [winningProvider |-> input.providers[i].address,
             winningQuote |-> input.providers[i].envelope.value]
  /\ \A j \in 1..(turn - 1) : Eligible(input, input.providers[j]) =>
       /\ input.providers[j].envelope.value <= input.providers[i].envelope.value
       /\ j < i => input.providers[j].envelope.value < input.providers[i].envelope.value
LeaderIsBestSoFar ==
  ~Rejected(input) =>
    \/ /\ best = NoWinner
       /\ \A j \in 1..(turn - 1) : ~Eligible(input, input.providers[j])
    \/ \E i \in 1..(turn - 1) : Leads(i)

\* The result is the outcome the design asks for: the highest eligible quote wins and the
\* submission order breaks ties (resolveRfqV1).
ResultIsBestOutcome == result # Pending => IsBestOutcome(input, result)

\* n of m places, in their order.
Places(n, m) == {at \in [1..n -> 1..m] : \A j, k \in 1..n : j < k => at[j] < at[k]}
Selected(in, n, at) == [in EXCEPT !.providers = [k \in 1..n |-> in.providers[at[k]]]]

\* Malformed, misbound, over-cap and too low submissions never change the outcome: without
\* any of them, one or several, the result is the same (per-provider isolation in the loop).
IneligibleSubmissionsDoNotMatter ==
  result # Pending /\ ~Rejected(input) =>
    \A n \in 0..Len(input.providers) : \A at \in Places(n, Len(input.providers)) :
      (\A i \in DOMAIN input.providers :
         Eligible(input, input.providers[i]) => \E k \in 1..n : at[k] = i)
      => result = ResolveRfqV1(Selected(input, n, at))

-----------------------------------------------------------------------------

\* "Require malformed, zero, over-cap, or misbound seller minimums to produce INVALID_RFQ
\* rather than a trade": no request whose minimum is zero trades (resolveRfqV1).
ZeroMinimumNeverTrades ==
  result # Pending /\ result.resultType = "TRADE" => input.sellerEnvelope.value # 0
=============================================================================
