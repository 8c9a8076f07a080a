---------------------------- MODULE MCIndexedRfq ----------------------------
(* The escrow contract and its projection on small instances. *)
EXTENDS IndexedRfq, TLC

Symmetry == Permutations(Accounts) \cup Permutations(ResultNonces)
              \cup Permutations(RemoteActionIds)
=============================================================================
