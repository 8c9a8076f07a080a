--------------------------- MODULE MCHushFlowRfq ---------------------------
(* The escrow contract on small instances. *)
EXTENDS HushFlowRfqRefinement, TLC

Symmetry == Permutations(Accounts) \cup Permutations(ResultNonces)
              \cup Permutations(RemoteActionIds)
=============================================================================
