----------------------------- MODULE RfqCommon -----------------------------
(* What the contract and the readers of its events have in common. *)
EXTENDS Integers, FiniteSets

CONSTANT ZeroAddress   \* address(0)

None == <<>>           \* nothing recorded yet; null

\* The sum of the values of f, which are naturals: the number of its units, each kept
\* apart by whose it is.
Units(f) == UNION {{x} \X (1..f[x]) : x \in DOMAIN f}
SumOf(f) == Cardinality(Units(f))
=============================================================================
