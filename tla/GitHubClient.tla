---------------------------- MODULE GitHubClient ----------------------------
(***************************************************************************)
(* The requests of ingestion/github.py: what GitHub may answer to one, and *)
(* what _request and paginate make of the answer.  A resource is the list  *)
(* of its items, served in pages; an issue or a repository is a list of    *)
(* one item, asked for once.                                               *)
(***************************************************************************)
EXTENDS Naturals, Sequences, SequencesExt

CONSTANTS
  PerPage,      \* items GitHub puts on a page
  MaxPages,     \* paginate's max_pages
  MaxRetries,   \* GitHubClient.max_retries
  None

ASSUME ClientAssumption ==
  /\ PerPage \in Nat \ {0} /\ MaxPages \in Nat \ {0} /\ MaxRetries \in Nat

\* A page of a list, with whether its Link header names a next one; the ETag of the
\* page stands for both.
PageOf(list, n) ==
  [items |-> SubSeq(list, (n - 1) * PerPage + 1, Min({n * PerPage, Len(list)})),
   next  |-> n * PerPage < Len(list)]

\* Mutant: the cache holds the body of a page and not its Link header.
RememberedBody(page) == [page EXCEPT !.next = FALSE]

\* _CacheEntry: what a 304 is turned back into.
Remembered(page) == page

\* GitHub answers 304 when the ETag the client sends is still the page's.
NotModified(cached, list, n) == cached = Remembered(PageOf(list, n))

\* Mutant: when the attempts are used up they start again.
AfterRefusalForever(attempt) == IF attempt > MaxRetries THEN 1 ELSE attempt + 1

\* What follows a rate limit or a 5xx: one more attempt, None when they are used up.
\* The wait before it is bounded by max_wait_seconds or by the backoff's 30 seconds.
AfterRefusal(attempt) == IF attempt > MaxRetries THEN None ELSE attempt + 1

\* paginate goes on while there is a next page, and for max_pages pages at most; the
\* numbers of the pages only grow, so no link is followed twice.
GoesOn(page, n) == page.next /\ n < MaxPages
=============================================================================
