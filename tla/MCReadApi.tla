----------------------------- MODULE MCReadApi -----------------------------
(* Worker, read API and clients on small instances. *)
EXTENDS ReadApi

CONSTANTS worker, api, s1, p1, i1, n1

Created(r) ==
  [eventName |-> "RfqCreated", rfqId |-> r, seller |-> s1, lotAmount |-> 1, quoteCap |-> 2,
   quoteDeadline |-> 1, resolutionDeadline |-> 2]
Quoted(r) == [eventName |-> "QuoteSubmitted", rfqId |-> r, provider |-> p1]
Cancelled(r) == [eventName |-> "RfqCancelled", rfqId |-> r]
Requested(r) == [eventName |-> "ResolutionRequested", rfqId |-> r, actionId |-> i1]
Finalized(r, code, winner, quote) ==
  [eventName |-> "RfqFinalized", rfqId |-> r, status |-> code, winningProvider |-> winner,
   winningQuote |-> quote, resultNonce |-> n1]

MCEvents ==
  {Created(r) : r \in 1..3} \cup {Quoted(r) : r \in 1..2} \cup {Requested(r) : r \in 1..2}
    \cup {Cancelled(2), Finalized(1, 1, p1, 1), Finalized(1, 2, ZeroAddress, 0),
          [eventName |-> "RfqTimedOut", rfqId |-> 1]}

MCRequests ==
  {[path |-> path, rfqId |-> 1] : path \in {"detail", "proof", "proofCenter"}}
    \cup {[path |-> path, rfqId |-> 0] : path \in {"stats", "health", "metadata"}}

List(status, provider) ==
  [path |-> "rfqs", status |-> status, seller |-> s1, provider |-> provider]
MCFilters == {List("OPEN", NotGiven), List(NotGiven, p1), [path |-> "portfolio", account |-> s1]}

\* An upgrade, a release in which the text of the first migration has changed, and one
\* with two files of one number.
First == [version |-> 1, checksum |-> "a"]
Second == [version |-> 2, checksum |-> "b"]
Changed == [First EXCEPT !.checksum = "c"]
MCReleases == {<<First>>, <<First, Second>>, <<Changed, Second>>, <<First, Changed>>}
MCCurrentSchema == <<"a", "b">>

Fixture(path, source) ==
  [valid |-> TRUE, mode |-> "fixture", fixturePath |-> path, source |-> source]
MCEnvironments ==
  {Fixture(TRUE, "a/b"), Fixture(FALSE, "plain"),
   [valid |-> TRUE, mode |-> "live", fixturePath |-> FALSE, source |-> "plain"]}
=============================================================================
