-------------------------- MODULE ResolutionProofs --------------------------
(***************************************************************************)
(* What resolveRfqV1 returns, for every input: the leader after each turn  *)
(* of its loop exists, is of its type and is the best of the submissions   *)
(* looked at, so the outcome is the one the design asks for, and only that *)
(* one.                                                                    *)
(***************************************************************************)
EXTENDS Resolution, NaturalsInduction, WellFoundedInduction, TLAPS

LEMMA LeastNatural ==
  ASSUME NEW T \in SUBSET Nat, T # {}
  PROVE  \E x \in T : \A y \in T : x <= y
<1>1. IsWellFoundedOn(OpToRel(<, Nat), Nat)
  BY NatLessThanWellFounded
<1>2. PICK x \in T : \A y \in T : ~(<<y, x>> \in OpToRel(<, Nat))
  BY <1>1, WFMin
<1>3. ASSUME NEW y \in T PROVE x <= y
  <2>1. y < x => <<y, x>> \in OpToRel(<, Nat)
    <3>1. <<y, x>> \in Nat \X Nat /\ <<y, x>>[1] = y /\ <<y, x>>[2] = x
      OBVIOUS
    <3>2. QED
      BY <3>1 DEF OpToRel
  <2>2. ~(y < x)
    BY <1>2, <2>1
  <2>3. QED
    BY <2>2
<1>4. QED
  BY <1>3

-----------------------------------------------------------------------------
(* One turn of the loop *)

\* An eligible submission carries a readable envelope, so its sender and its value are
\* of their types, and it names a provider, never address(0).
LEMMA EligibleIsTyped ==
  ASSUME NEW in \in ResolveRfqInput, NEW i \in DOMAIN in.providers,
         Eligible(in, in.providers[i])
  PROVE  /\ in.providers[i].address \in Addresses
         /\ in.providers[i].envelope.sender = in.providers[i].address
         /\ in.providers[i].envelope.value \in Nat \ {0}
         /\ in.providers[i].address # ZeroAddress
<1>1. in.providers[i] \in ProviderSubmission
  BY DEF ResolveRfqInput
<1>2. in.providers[i].envelope \in EnvelopeV1
  BY <1>1 DEF ProviderSubmission, Envelope, Eligible
<1>3. QED
  BY <1>1, <1>2, ZeroAddressUnused DEF ProviderSubmission, EnvelopeV1, Eligible

\* Considering a submission leaves a leader of its type.
LEMMA ConsiderIsTyped ==
  ASSUME NEW in \in ResolveRfqInput, NEW i \in DOMAIN in.providers, NEW b \in Best
  PROVE  Consider(in, b, in.providers[i]) \in Best
BY EligibleIsTyped DEF Consider, Best

\* The verdict on a leader is an outcome.
LEMMA VerdictIsTyped ==
  ASSUME NEW b \in Best
  PROVE  Verdict(b) \in Outcome
BY DEF Verdict, Best, Outcome

\* Considering an eligible submission that beats the leader makes it the leader; any other
\* leaves the leader as it is.
LEMMA ConsiderCases ==
  ASSUME NEW in \in ResolveRfqInput, NEW i \in DOMAIN in.providers, NEW b
  PROVE  \/ /\ Eligible(in, in.providers[i])
            /\ in.providers[i].envelope.value > b.winningQuote
            /\ Consider(in, b, in.providers[i])
                 = [winningProvider |-> in.providers[i].address,
                    winningQuote |-> in.providers[i].envelope.value]
         \/ /\ Eligible(in, in.providers[i]) =>
                 ~(in.providers[i].envelope.value > b.winningQuote)
            /\ Consider(in, b, in.providers[i]) = b
BY EligibleIsTyped DEF Consider

\* Submission i is b, and the best of the first k.
LeadsFirst(in, b, k, i) ==
  /\ Eligible(in, in.providers[i])
  /\ b = [winningProvider |-> in.providers[i].address,
          winningQuote |-> in.providers[i].envelope.value]
  /\ \A j \in 1..k : Eligible(in, in.providers[j]) =>
       /\ in.providers[j].envelope.value <= in.providers[i].envelope.value
       /\ j < i => in.providers[j].envelope.value < in.providers[i].envelope.value

BestOfFirst(in, b, k) ==
  \/ /\ b = NoWinner
     /\ \A j \in 1..k : ~Eligible(in, in.providers[j])
  \/ \E i \in 1..k : LeadsFirst(in, b, k, i)

\* The best of k submissions, compared with the next, gives the best of k + 1.
LEMMA ConsiderKeepsBest ==
  ASSUME NEW in \in ResolveRfqInput, NEW k \in Nat, k + 1 \in DOMAIN in.providers,
         NEW b \in Best, BestOfFirst(in, b, k)
  PROVE  BestOfFirst(in, Consider(in, b, in.providers[k + 1]), k + 1)
<1> DEFINE new == in.providers[k + 1]
           next == Consider(in, b, new)
<1>1. 1..(k + 1) = 1..k \cup {k + 1} /\ k + 1 \in 1..(k + 1)
  OBVIOUS
<1>2. \A j \in 1..k : j \in DOMAIN in.providers /\ j < k + 1 /\ j # k + 1
  BY DEF ResolveRfqInput
<1>3. \A j \in 1..k : Eligible(in, in.providers[j]) =>
        in.providers[j].envelope.value \in Nat \ {0}
  BY <1>2, EligibleIsTyped
<1>4. CASE /\ Eligible(in, new)
           /\ new.envelope.value > b.winningQuote
           /\ next = [winningProvider |-> new.address, winningQuote |-> new.envelope.value]
  <2>1. new.envelope.value \in Nat
    BY <1>4, EligibleIsTyped
  <2>2. \A j \in 1..k : Eligible(in, in.providers[j]) =>
          in.providers[j].envelope.value <= b.winningQuote
    BY DEF BestOfFirst, LeadsFirst
  <2>3. \A j \in 1..k : Eligible(in, in.providers[j]) =>
          in.providers[j].envelope.value < new.envelope.value
    BY <1>3, <1>4, <2>1, <2>2 DEF Best
  <2>4. LeadsFirst(in, next, k + 1, k + 1)
    BY <1>1, <1>2, <1>3, <1>4, <2>1, <2>3 DEF LeadsFirst
  <2>5. QED
    BY <1>1, <2>4 DEF BestOfFirst
<1>5. CASE /\ Eligible(in, new) => ~(new.envelope.value > b.winningQuote)
           /\ next = b
  <2>1. CASE b = NoWinner /\ \A j \in 1..k : ~Eligible(in, in.providers[j])
    <3>1. ~Eligible(in, new)
      BY <1>5, <2>1, EligibleIsTyped DEF NoWinner
    <3>2. QED
      BY <1>1, <1>5, <2>1, <3>1 DEF BestOfFirst
  <2>2. ASSUME NEW i \in 1..k, LeadsFirst(in, b, k, i)
        PROVE  LeadsFirst(in, b, k + 1, i)
    <3>1. Eligible(in, new) => new.envelope.value <= in.providers[i].envelope.value
      BY <1>3, <1>5, <2>2, EligibleIsTyped DEF LeadsFirst
    <3>2. QED
      BY <1>1, <1>2, <2>2, <3>1 DEF LeadsFirst
  <2>3. QED
    BY <1>1, <1>5, <2>1, <2>2 DEF BestOfFirst
<1>6. QED
  BY <1>4, <1>5, ConsiderCases

\* The verdict on the best of all submissions is the outcome the design asks for.
LEMMA BestGivesOutcome ==
  ASSUME NEW in \in ResolveRfqInput, ~Rejected(in), NEW b,
         BestOfFirst(in, b, Len(in.providers))
  PROVE  IsBestOutcome(in, Verdict(b))
<1>1. 1..Len(in.providers) = DOMAIN in.providers
  BY DEF ResolveRfqInput
<1>2. CASE b = NoWinner /\ \A j \in 1..Len(in.providers) : ~Eligible(in, in.providers[j])
  BY <1>1, <1>2 DEF IsBestOutcome
<1>3. ASSUME NEW i \in DOMAIN in.providers, LeadsFirst(in, b, Len(in.providers), i)
      PROVE  IsBestOutcome(in, Verdict(b))
  <2>1. Wins(in, i)
    BY <1>1, <1>3 DEF LeadsFirst, Wins
  <2>2. in.providers[i].address # ZeroAddress
    BY <1>3, EligibleIsTyped DEF LeadsFirst
  <2>3. Verdict(b) = [resultType |-> "TRADE",
                      winningProvider |-> in.providers[i].address,
                      winningQuote |-> in.providers[i].envelope.value]
    BY <1>3, <2>2 DEF LeadsFirst, Verdict
  <2>4. QED
    BY <2>1, <2>3 DEF IsBestOutcome
<1>4. QED
  BY <1>1, <1>2, <1>3 DEF BestOfFirst

-----------------------------------------------------------------------------
(* The whole loop *)

\* The leaders after each turn up to m.
LeadersUpTo(in, m, g) ==
  g = [i \in 0..m |-> IF i = 0 THEN NoWinner
                      ELSE Consider(in, g[i - 1], in.providers[i])]

LEMMA LeadersExist ==
  ASSUME NEW in, NEW n \in Nat
  PROVE  \E g : LeadersUpTo(in, n, g)
<1> DEFINE T == {m \in Nat : ~(\E g : LeadersUpTo(in, m, g))}
<1>1. ASSUME T # {} PROVE FALSE
  <2>1. PICK m \in T : \A y \in T : m <= y
    BY <1>1, LeastNatural
  <2>2. CASE m = 0
    <3> DEFINE g == [i \in 0..0 |-> NoWinner]
    <3>1. LeadersUpTo(in, 0, g)
      BY DEF LeadersUpTo
    <3>2. QED
      BY <2>2, <3>1
  <2>3. CASE m # 0
    <3>1. m - 1 \in Nat /\ m - 1 \notin T
      BY <2>1, <2>3
    <3>2. PICK g : LeadersUpTo(in, m - 1, g)
      BY <3>1
    <3> DEFINE last == Consider(in, g[m - 1], in.providers[m])
               h == [i \in 0..m |-> IF i = m THEN last ELSE g[i]]
    <3>3. ASSUME NEW i \in 0..m
          PROVE  h[i] = IF i = 0 THEN NoWinner ELSE Consider(in, h[i - 1], in.providers[i])
      <4>1. CASE i = m
        <5>1. h[i - 1] = g[m - 1] /\ h[i] = last
          BY <2>3, <3>1, <4>1
        <5>2. QED
          BY <2>3, <4>1, <5>1
      <4>2. CASE i # m
        <5>1. i \in 0..(m - 1) /\ h[i] = g[i]
          BY <2>1, <4>2
        <5>2. g[i] = IF i = 0 THEN NoWinner ELSE Consider(in, g[i - 1], in.providers[i])
          BY <3>2, <5>1, Zenon DEF LeadersUpTo
        <5>3. i # 0 => h[i - 1] = g[i - 1]
          BY <2>1, <5>1
        <5>4. QED
          BY <5>1, <5>2, <5>3
      <4>3. QED
        BY <4>1, <4>2
    <3>4. h = [i \in 0..m |-> h[i]]
      OBVIOUS
    <3>5. LeadersUpTo(in, m, h)
      <4> HIDE DEF h
      <4>1. QED
        BY <3>3, <3>4, Zenon DEF LeadersUpTo
    <3>6. QED
      BY <2>1, <3>5
  <2>4. QED
    BY <2>2, <2>3
<1>2. n \notin T
  BY <1>1
<1>3. QED
  BY <1>2

\* What Leader is, turn by turn.
LEMMA LeaderTurns ==
  ASSUME NEW in \in ResolveRfqInput
  PROVE  /\ Leader(in)[0] = NoWinner
         /\ \A i \in 1..Len(in.providers) :
              Leader(in)[i] = Consider(in, Leader(in)[i - 1], in.providers[i])
<1>1. Len(in.providers) \in Nat
  BY DEF ResolveRfqInput
<1>2. PICK g : LeadersUpTo(in, Len(in.providers), g)
  BY <1>1, LeadersExist
<1>3. LeadersUpTo(in, Len(in.providers), Leader(in))
  BY <1>2, Zenon DEF LeadersUpTo, Leader
<1>4. \A i \in 0..Len(in.providers) :
        Leader(in)[i] = IF i = 0 THEN NoWinner
                        ELSE Consider(in, Leader(in)[i - 1], in.providers[i])
  BY <1>3, Zenon DEF LeadersUpTo
<1>5. 0 \in 0..Len(in.providers)
      /\ \A i \in 1..Len(in.providers) : i # 0 /\ i \in 0..Len(in.providers)
  BY <1>1
<1>6. QED
  BY <1>4, <1>5, Zenon

\* After k turns the leader is the best of the first k submissions.
LEMMA LeaderIsBest ==
  ASSUME NEW in \in ResolveRfqInput, NEW n \in 0..Len(in.providers)
  PROVE  Leader(in)[n] \in Best /\ BestOfFirst(in, Leader(in)[n], n)
<1> DEFINE Good(k) == Leader(in)[k] \in Best /\ BestOfFirst(in, Leader(in)[k], k)
           T == {k \in 0..Len(in.providers) : ~Good(k)}
<1>1. Len(in.providers) \in Nat /\ DOMAIN in.providers = 1..Len(in.providers)
  BY DEF ResolveRfqInput
<1>2. ASSUME T # {} PROVE FALSE
  <2>1. T \in SUBSET Nat
    BY <1>1
  <2>2. PICK k \in T : \A y \in T : k <= y
    BY <1>2, <2>1, LeastNatural
  <2>3. CASE k = 0
    <3>1. Leader(in)[0] = NoWinner
      BY LeaderTurns
    <3>2. Good(0)
      BY <3>1 DEF BestOfFirst, NoWinner, Best
    <3>3. QED
      BY <2>2, <2>3, <3>2
  <2>4. CASE k # 0
    <3>1. /\ k - 1 \in Nat /\ (k - 1) + 1 = k
          /\ k - 1 \in 0..Len(in.providers) /\ k \in 1..Len(in.providers)
      BY <1>1, <2>2, <2>4
    <3>2. Good(k - 1)
      BY <2>2, <3>1
    <3>3. Leader(in)[k] = Consider(in, Leader(in)[k - 1], in.providers[k])
      BY <3>1, LeaderTurns
    <3>4. Leader(in)[k] \in Best
      BY <1>1, <3>1, <3>2, <3>3, ConsiderIsTyped
    <3>5. BestOfFirst(in, Leader(in)[k], k)
      BY <1>1, <3>1, <3>2, <3>3, ConsiderKeepsBest
    <3>6. QED
      BY <2>2, <3>4, <3>5
  <2>5. QED
    BY <2>3, <2>4
<1>3. QED
  BY <1>2

\* For every input resolveRfqV1 returns the outcome the design asks for: the highest
\* eligible quote, the earliest of equal ones, no trade without one, and no outcome but
\* INVALID_RFQ without a genuine seller minimum.
THEOREM ResolveIsBest ==
  ASSUME NEW in \in ResolveRfqInput
  PROVE  ResolveRfqV1(in) \in Outcome /\ IsBestOutcome(in, ResolveRfqV1(in))
<1>1. Len(in.providers) \in 0..Len(in.providers)
  BY DEF ResolveRfqInput
<1>2. CASE Rejected(in)
  BY <1>2 DEF ResolveRfqV1, IsBestOutcome, Invalid, Outcome
<1>3. CASE ~Rejected(in)
  <2>1. ResolveRfqV1(in) = Verdict(Leader(in)[Len(in.providers)])
    BY <1>3 DEF ResolveRfqV1
  <2>2. /\ Leader(in)[Len(in.providers)] \in Best
        /\ BestOfFirst(in, Leader(in)[Len(in.providers)], Len(in.providers))
    BY <1>1, LeaderIsBest
  <2>3. QED
    BY <1>3, <2>1, <2>2, VerdictIsTyped, BestGivesOutcome
<1>4. QED
  BY <1>2, <1>3

\* An input has one best outcome: the tie-break leaves no choice, so whatever returns the
\* best outcome returns what resolveRfqV1 returns.
THEOREM BestOutcomeIsUnique ==
  ASSUME NEW in \in ResolveRfqInput, NEW one, IsBestOutcome(in, one),
         NEW other, IsBestOutcome(in, other)
  PROVE  one = other
<1>1. CASE Rejected(in)
  BY <1>1 DEF IsBestOutcome
<1>2. CASE ~Rejected(in) /\ \E i \in DOMAIN in.providers : Eligible(in, in.providers[i])
  <2>1. PICK i \in DOMAIN in.providers :
          /\ Wins(in, i)
          /\ one = [resultType |-> "TRADE", winningProvider |-> in.providers[i].address,
                    winningQuote |-> in.providers[i].envelope.value]
    BY <1>2 DEF IsBestOutcome
  <2>2. PICK j \in DOMAIN in.providers :
          /\ Wins(in, j)
          /\ other = [resultType |-> "TRADE", winningProvider |-> in.providers[j].address,
                      winningQuote |-> in.providers[j].envelope.value]
    BY <1>2 DEF IsBestOutcome
  <2>3. /\ i \in Nat /\ j \in Nat
        /\ in.providers[i].envelope.value \in Nat /\ in.providers[j].envelope.value \in Nat
    <3>1. Eligible(in, in.providers[i]) /\ Eligible(in, in.providers[j])
      BY <2>1, <2>2 DEF Wins
    <3>2. i \in Nat /\ j \in Nat
      BY DEF ResolveRfqInput
    <3>3. QED
      BY <3>1, <3>2, EligibleIsTyped
  <2>4. i = j
    BY <2>1, <2>2, <2>3 DEF Wins
  <2>5. QED
    BY <2>1, <2>2, <2>4
<1>3. CASE ~Rejected(in) /\ \A i \in DOMAIN in.providers : ~Eligible(in, in.providers[i])
  BY <1>3 DEF IsBestOutcome, Wins
<1>4. QED
  BY <1>1, <1>2, <1>3
=============================================================================
