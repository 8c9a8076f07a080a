---------------------------- MODULE MCResolveRfq ----------------------------
(* resolveRfqV1 on every list of up to three submissions, each genuine at one of
   four prices or wrong in one way, and on lists that are one too long. *)
EXTENDS ResolveRfq

CONSTANTS s1, p1, p2, p3

Genuine(kind, sender) ==
  {[payloadKind |-> kind, sender |-> sender, bound |-> TRUE, value |-> v] : v \in 0..3}
Faulty(kind, other, sender, stranger) ==
  {[payloadKind |-> other, sender |-> sender, bound |-> TRUE, value |-> 2],
   [payloadKind |-> kind, sender |-> stranger, bound |-> TRUE, value |-> 2],
   [payloadKind |-> kind, sender |-> sender, bound |-> FALSE, value |-> 2],
   Unreadable}

SellerEnvelopes ==
  Genuine("SELLER_MINIMUM", s1) \cup Faulty("SELLER_MINIMUM", "PROVIDER_QUOTE", s1, p1)
Submissions(p) ==
  {[address |-> p, quoteCap |-> 2, envelope |-> e] :
     e \in Genuine("PROVIDER_QUOTE", p)
             \cup Faulty("PROVIDER_QUOTE", "SELLER_MINIMUM", p, s1)}
Lists ==
  {<<>>} \cup {<<x>> : x \in Submissions(p1)}
    \cup {<<x, y>> : x \in Submissions(p1), y \in Submissions(p2)}
    \cup {<<x, y, z>> : x \in Submissions(p1), y \in Submissions(p2), z \in Submissions(p3)}
    \cup {<<x, x, x, x>> : x \in Submissions(p1)}

MCInputs == [seller : {s1}, sellerEnvelope : SellerEnvelopes, providers : Lists]
=============================================================================
