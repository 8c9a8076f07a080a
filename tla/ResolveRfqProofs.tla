-------------------------- MODULE ResolveRfqProofs --------------------------
(***************************************************************************)
(* The selection loop, for every input: its leader is the best of what it  *)
(* has seen, its result is the outcome the design asks for, and no         *)
(* ineligible submission has a say in it.                                  *)
(***************************************************************************)
EXTENDS ResolveRfq, ResolutionProofs

\* Every value of the loop's variables is of its type (resolveRfqV1).
THEOREM ResolveTypeCorrect == ResolveSpec => []ResolveTypeOK
<1>1. ResolveInit => ResolveTypeOK
  BY InputsAreTyped DEF ResolveInit, ResolveTypeOK, NoWinner, Best, ResolveRfqInput
<1>2. ResolveTypeOK /\ [ResolveNext]_loopVars => ResolveTypeOK'
  <2> SUFFICES ASSUME ResolveTypeOK, [ResolveNext]_loopVars PROVE ResolveTypeOK'
    OBVIOUS
  <2> USE DEF ResolveTypeOK
  <2>1. CASE Reject
    BY <2>1 DEF Reject, Invalid, Outcome
  <2>2. CASE Scan
    <3>1. Len(input.providers) \in Nat
      BY DEF ResolveRfqInput
    <3>2. turn \in DOMAIN input.providers
      BY <2>2, <3>1 DEF Scan, ResolveRfqInput
    <3>3. best' \in Best
      BY <2>2, <3>2, ConsiderIsTyped DEF Scan
    <3>4. QED
      BY <2>2, <3>1, <3>3 DEF Scan
  <2>3. CASE Conclude
    BY <2>3, VerdictIsTyped DEF Conclude
  <2>4. CASE UNCHANGED loopVars
    BY <2>4 DEF loopVars
  <2>5. QED
    BY <2>1, <2>2, <2>3, <2>4 DEF ResolveNext
<1>3. QED
  BY <1>1, <1>2, PTL DEF ResolveSpec

-----------------------------------------------------------------------------

\* The leader of the selection loop is the best of the submissions it has seen
\* (resolveRfqV1's loop invariant).
THEOREM LeaderCorrect == ResolveSpec => []LeaderIsBestSoFar
<1>1. ResolveTypeOK =>
        (LeaderIsBestSoFar <=> (~Rejected(input) => BestOfFirst(input, best, turn - 1)))
  BY DEF LeaderIsBestSoFar, Leads, BestOfFirst, LeadsFirst
<1>2. ResolveInit => LeaderIsBestSoFar
  BY DEF ResolveInit, LeaderIsBestSoFar
<1>3. ResolveTypeOK /\ ResolveTypeOK' /\ LeaderIsBestSoFar /\ [ResolveNext]_loopVars
      => LeaderIsBestSoFar'
  <2> SUFFICES ASSUME ResolveTypeOK, ResolveTypeOK', LeaderIsBestSoFar,
                      [ResolveNext]_loopVars
               PROVE  LeaderIsBestSoFar'
    OBVIOUS
  <2>1. CASE Reject \/ Conclude \/ UNCHANGED loopVars
    BY <2>1 DEF Reject, Conclude, loopVars, LeaderIsBestSoFar, Leads
  <2>2. CASE Scan
    <3>1. /\ ~Rejected(input) /\ input' = input
          /\ best' = Consider(input, best, input.providers[turn])
          /\ turn' - 1 = turn /\ (turn - 1) + 1 = turn /\ turn - 1 \in Nat
          /\ turn \in DOMAIN input.providers
          /\ input \in ResolveRfqInput /\ best \in Best
      BY <2>2 DEF Scan, ResolveTypeOK, ResolveRfqInput
    <3>2. BestOfFirst(input, best, turn - 1)
      BY <1>1, <3>1
    <3>3. BestOfFirst(input, best', (turn - 1) + 1)
      BY <3>1, <3>2, ConsiderKeepsBest
    <3>4. QED
      BY <3>1, <3>3 DEF LeaderIsBestSoFar, Leads, BestOfFirst, LeadsFirst
  <2>3. QED
    BY <2>1, <2>2 DEF ResolveNext
<1>4. QED
  BY <1>2, <1>3, ResolveTypeCorrect, PTL DEF ResolveSpec

\* The returned outcome is the one the design asks for, whatever the submissions: the
\* highest eligible quote, the earliest of equal ones (resolveRfqV1).
THEOREM ResultCorrect == ResolveSpec => []ResultIsBestOutcome
<1>1. ResolveInit => ResultIsBestOutcome
  BY DEF ResolveInit, ResultIsBestOutcome
<1>2. /\ ResolveTypeOK /\ LeaderIsBestSoFar /\ ResultIsBestOutcome
      /\ [ResolveNext]_loopVars
      => ResultIsBestOutcome'
  <2> SUFFICES ASSUME ResolveTypeOK, LeaderIsBestSoFar, ResultIsBestOutcome,
                      [ResolveNext]_loopVars
               PROVE  ResultIsBestOutcome'
    OBVIOUS
  <2>1. CASE Reject
    BY <2>1 DEF Reject, ResultIsBestOutcome, IsBestOutcome
  <2>2. CASE Scan
    BY <2>2 DEF Scan, ResultIsBestOutcome
  <2>3. CASE Conclude
    <3>1. /\ input' = input /\ result' = Verdict(best) /\ ~Rejected(input)
          /\ turn - 1 = Len(input.providers)
          /\ input \in ResolveRfqInput
      BY <2>3 DEF Conclude, ResolveTypeOK, ResolveRfqInput
    <3>2. BestOfFirst(input, best, Len(input.providers))
      BY <3>1 DEF LeaderIsBestSoFar, Leads, BestOfFirst, LeadsFirst
    <3>3. QED
      BY <3>1, <3>2, BestGivesOutcome DEF ResultIsBestOutcome
  <2>4. CASE UNCHANGED loopVars
    BY <2>4 DEF loopVars, ResultIsBestOutcome
  <2>5. QED
    BY <2>1, <2>2, <2>3, <2>4 DEF ResolveNext
<1>3. QED
  BY <1>1, <1>2, ResolveTypeCorrect, LeaderCorrect, PTL DEF ResolveSpec

-----------------------------------------------------------------------------

LEMMA SelectionIsTyped ==
  ASSUME NEW in \in ResolveRfqInput, NEW n \in 0..Len(in.providers),
         NEW at \in Places(n, Len(in.providers))
  PROVE  /\ Selected(in, n, at) \in ResolveRfqInput
         /\ Selected(in, n, at).sellerEnvelope = in.sellerEnvelope
         /\ Selected(in, n, at).seller = in.seller
         /\ Selected(in, n, at).providers = [k \in 1..n |-> in.providers[at[k]]]
         /\ Len(Selected(in, n, at).providers) = n
<1>1. /\ at \in [1..n -> DOMAIN in.providers] /\ n \in Nat
      /\ in.providers \in Seq(ProviderSubmission)
  BY DEF ResolveRfqInput, Places
<1>2. [k \in 1..n |-> in.providers[at[k]]] \in Seq(ProviderSubmission)
  BY <1>1
<1>3. /\ Selected(in, n, at).sellerEnvelope = in.sellerEnvelope
      /\ Selected(in, n, at).seller = in.seller
      /\ Selected(in, n, at).providers = [k \in 1..n |-> in.providers[at[k]]]
  BY DEF Selected, ResolveRfqInput
<1>4. Selected(in, n, at) \in ResolveRfqInput
  BY <1>2 DEF Selected, ResolveRfqInput
<1>5. Len([k \in 1..n |-> in.providers[at[k]]]) = n
  BY <1>1
<1>6. QED
  BY <1>3, <1>4, <1>5

\* The best outcome of a selection that keeps every eligible submission is the best of all.
LEMMA SelectionKeepsBest ==
  ASSUME NEW in \in ResolveRfqInput, ~Rejected(in),
         NEW n \in 0..Len(in.providers), NEW at \in Places(n, Len(in.providers)),
         \A i \in DOMAIN in.providers :
           Eligible(in, in.providers[i]) => \E k \in 1..n : at[k] = i,
         NEW outcome, IsBestOutcome(Selected(in, n, at), outcome)
  PROVE  IsBestOutcome(in, outcome)
<1> DEFINE fewer == Selected(in, n, at)
<1>1. /\ Len(in.providers) \in Nat /\ DOMAIN in.providers = 1..Len(in.providers)
      /\ in.providers \in Seq(ProviderSubmission)
      /\ at \in [1..n -> 1..Len(in.providers)] /\ n \in Nat
      /\ \A j, k \in 1..n : j < k => at[j] < at[k]
  BY DEF ResolveRfqInput, Places
<1>2. /\ fewer.sellerEnvelope = in.sellerEnvelope /\ fewer.seller = in.seller
      /\ fewer.providers = [k \in 1..n |-> in.providers[at[k]]] /\ Len(fewer.providers) = n
  BY SelectionIsTyped
<1>5. DOMAIN fewer.providers = 1..n
      /\ \A k \in 1..n : fewer.providers[k] = in.providers[at[k]] /\ at[k] \in DOMAIN in.providers
  BY <1>1, <1>2
<1> HIDE DEF fewer
<1>6. \A submission : Eligible(fewer, submission) <=> Eligible(in, submission)
  BY <1>2 DEF Eligible
<1>7. ~Rejected(fewer)
  BY <1>1, <1>2, ProviderLimitIsNatural DEF Rejected, SellerMinimumAccepted
<1>8. CASE /\ \A k \in DOMAIN fewer.providers : ~Eligible(fewer, fewer.providers[k])
           /\ outcome = Verdict(NoWinner)
  <2>1. \A i \in DOMAIN in.providers : ~Eligible(in, in.providers[i])
    BY <1>5, <1>6, <1>8
  <2>2. QED
    BY <1>8, <2>1 DEF IsBestOutcome
<1>9. ASSUME NEW k \in DOMAIN fewer.providers, Wins(fewer, k)
      PROVE  Wins(in, at[k])
  <2>1. Eligible(in, in.providers[at[k]]) /\ k \in 1..n /\ at[k] \in DOMAIN in.providers
    BY <1>5, <1>6, <1>9 DEF Wins
  <2>2. ASSUME NEW i \in DOMAIN in.providers, Eligible(in, in.providers[i])
        PROVE  /\ in.providers[i].envelope.value <= in.providers[at[k]].envelope.value
               /\ i < at[k] =>
                    in.providers[i].envelope.value < in.providers[at[k]].envelope.value
    <3>1. PICK j \in 1..n : at[j] = i
      BY <2>2
    <3>2. Eligible(fewer, fewer.providers[j])
      BY <1>5, <1>6, <2>2, <3>1
    <3>3. /\ in.providers[i].envelope.value <= in.providers[at[k]].envelope.value
          /\ j < k => in.providers[i].envelope.value < in.providers[at[k]].envelope.value
      BY <1>5, <1>9, <3>1, <3>2 DEF Wins
    <3>4. i < at[k] => j < k
      BY <1>1, <2>1, <3>1
    <3>5. QED
      BY <3>3, <3>4
  <2>3. QED
    BY <2>1, <2>2 DEF Wins
<1>10. CASE \E k \in DOMAIN fewer.providers :
              /\ Wins(fewer, k)
              /\ outcome = [resultType |-> "TRADE",
                            winningProvider |-> fewer.providers[k].address,
                            winningQuote |-> fewer.providers[k].envelope.value]
  BY <1>5, <1>9, <1>10 DEF IsBestOutcome
<1>11. QED
  BY <1>7, <1>8, <1>10 DEF IsBestOutcome, fewer

\* Submissions that cannot win have no influence: the result without any of them is the
\* same, however many there are and wherever they stand (resolveRfqV1).
THEOREM IneligibleSubmissionsCorrect == ResolveSpec => []IneligibleSubmissionsDoNotMatter
<1>1. ASSUME ResolveTypeOK, ResultIsBestOutcome PROVE IneligibleSubmissionsDoNotMatter
  <2> SUFFICES ASSUME result # Pending, ~Rejected(input),
                      NEW n \in 0..Len(input.providers),
                      NEW at \in Places(n, Len(input.providers)),
                      \A i \in DOMAIN input.providers :
                        Eligible(input, input.providers[i]) => \E k \in 1..n : at[k] = i
               PROVE  result = ResolveRfqV1(Selected(input, n, at))
    BY DEF IneligibleSubmissionsDoNotMatter
  <2>1. input \in ResolveRfqInput /\ IsBestOutcome(input, result)
    BY <1>1 DEF ResolveTypeOK, ResultIsBestOutcome
  <2>2. Selected(input, n, at) \in ResolveRfqInput
    BY <2>1, SelectionIsTyped
  <2>3. IsBestOutcome(Selected(input, n, at), ResolveRfqV1(Selected(input, n, at)))
    BY <2>2, ResolveIsBest
  <2>4. IsBestOutcome(input, ResolveRfqV1(Selected(input, n, at)))
    BY <2>1, <2>3, SelectionKeepsBest
  <2>5. QED
    BY <2>1, <2>4, BestOutcomeIsUnique
<1>2. QED
  BY <1>1, ResolveTypeCorrect, ResultCorrect, PTL
=============================================================================
