----------------------------- MODULE MCIndexer -----------------------------
(* The indexer on a chain of a few blocks. *)
EXTENDS Indexer
=============================================================================
