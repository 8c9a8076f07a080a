--------------------------- MODULE MCFccExtension ---------------------------
(* The extension process under three requests. *)
EXTENDS LegacyExtension

CONSTANTS s1, p1, p2

Minimum(v) == [payloadKind |-> "SELLER_MINIMUM", sender |-> s1, bound |-> TRUE, value |-> v]
Quote(p, v) == [payloadKind |-> "PROVIDER_QUOTE", sender |-> p, bound |-> TRUE, value |-> v]
AskAll(providers, minimum, quotes) ==
  [seller |-> s1, quoteCap |-> 3, sellerCiphertext |-> minimum,
   providers |-> providers, quoteCiphertexts |-> quotes]
Ask(minimum, quotes) == AskAll(<<p1, p2>>, minimum, quotes)

\* Equal quotes; a higher second quote with one below the minimum; a message with a
\* ciphertext too few and one with a provider too many, which do not decode.
MCInstructions ==
  {Ask(Minimum(1), <<Quote(p1, 2), Quote(p2, 2)>>),
   Ask(Minimum(2), <<Quote(p1, 1), Quote(p2, 3)>>),
   Ask(Minimum(1), <<Quote(p1, 2)>>),
   AskAll(<<p1, p2, p1>>, Minimum(1), <<Quote(p1, 2), Quote(p2, 2), Quote(p1, 2)>>)}

=============================================================================
