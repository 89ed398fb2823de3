-------------------------- MODULE AutoRunProperties --------------------------
(***************************************************************************)
(* What AutoRun must guarantee, and what its documentation says it         *)
(* guarantees.                                                             *)
(***************************************************************************)
EXTENDS AutoRun

Stages == Running \union {"none", "done", "failed", "dead"}
Shown == Asking \union {"closed", "waiting", "failed", "missing", "unreachable",
                        "unfinished", "outcome"}

TypeOK ==
  /\ stage \in [Runs -> Stages]
  /\ request \in [Runs -> Splits \union {"plan", None}]
  /\ \A r \in Runs : stage[r] # "none" => request[r] # None
  /\ snapshot \in [Runs -> Commits \union {None}]
  /\ pending \in [Runs -> {None, "ingesting", "indexing", "investigating", "failed"}]
  /\ row \subseteq Runs
  /\ checkpoint \in [Runs -> {"none", "started", "outcome"}]
  /\ chunks \in [Commits -> SUBSET ChunkRows]
  /\ service \in [Runs -> {None} \union SUBSET ChunkRows]
  /\ listed \in [Runs -> SUBSET Ids]
  /\ evidence \in [Runs -> SUBSET [id : Ids, text : BOOLEAN]]
  /\ page \in [Runs -> Shown]
  /\ refreshing \subseteq Runs
  /\ up \in BOOLEAN
  /\ dim \in Dims
  /\ splits \in [Commits -> SUBSET Splits]
  /\ restarts \in 0..MaxRestarts

\* A run whose 202 was sent is never unknown to the server that sent it: at
\* every moment there is a pending entry or a checkpoint for its page to show.
AcceptedIsVisible ==
  \A r \in Runs :
    stage[r] \notin {"none", "dead"} /\ restarts = 0
      => pending[r] # None \/ checkpoint[r] # "none"

\* A tab is told "no such run" only of a run the server lost in a restart, or
\* of one that was investigated between the two look-ups for the page.
MissingMeansLost ==
  \A r \in Runs : page[r] = "missing" => restarts > 0 \/ checkpoint[r] # "none"

\* "Retrieval never mixes" (service.py, ensure_embeddings): the index a request
\* searches holds only vectors its embedder's query can be compared with,
\* whatever was re-indexed or re-embedded meanwhile and whatever embedder the
\* server before used.
VectorsComparable ==
  \A r \in Runs : service[r] # None => \A k \in service[r] : k.dim = dim

\* A run that has come to its investigation finds its commit indexed, however
\* often other runs index the same commit again.
InvestigatedIsIndexed ==
  \A r \in Runs :
    stage[r] \in {"create", "invoke", "load", "embed", "reload", "search"}
      => chunks[snapshot[r]] # {}

\* As long as a commit is always cut the same way, re-indexing it under a run
\* that searches is harmless: every excerpt found has its text.
EvidenceHasText ==
  \A r \in Runs : \A e \in evidence[r] :
    Cardinality(splits[snapshot[r]]) = 1 => e.text

\* Together: a search compares what can be compared, and what it finds is there
\* to be read, although other runs re-index and re-embed the same commit.
SearchIsSound == VectorsComparable /\ EvidenceHasText

\* A page that refreshes itself does not do so for ever: it comes to show the
\* run, its failure, or that it is lost.
RefreshingPageSettles == \A r \in Runs : r \in refreshing ~> r \notin refreshing

-----------------------------------------------------------------------------
(***************************************************************************)
(* What the documentation claims and the program does not keep.            *)
(***************************************************************************)

\* docs/project-guide.md:92, the review page "refreshes itself automatically
\* every few seconds, with no need to reload by hand. Once the investigation
\* reaches a real diagnosis (or fails), the page simply shows that instead."
PageShowsOutcome ==
  \A r \in Runs :
    page[r] = "waiting" ~> page[r] \in {"outcome", "failed", "missing", "unreachable"}
=============================================================================
