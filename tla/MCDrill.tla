------------------------------ MODULE MCDrill ------------------------------
(* Instance of Drill for TLC: the amounts of the scripts, in whole tokens. *)
EXTENDS Drill

MCAccounts == {Seller, ProviderA, ProviderB, Passerby}
MCQuotes == {0, PasserbyQuote, quoteA, quoteB}
\* Instruction ids and nonces are only compared for equality.
Interchangeable == Permutations(RemoteActionIds) \cup Permutations(ResultNonces)
=============================================================================
