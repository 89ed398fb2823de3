------------------------------- MODULE AutoRun -------------------------------
(***************************************************************************)
(* POST /runs/auto: the background pipeline that ingests, indexes and      *)
(* investigates, the progress it keeps in memory until the run has a       *)
(* checkpoint, the chunk index all runs of a commit share, and the browser *)
(* page that watches a run.                                                *)
(*                                                                         *)
(* Tasks run interleaved between any two database transactions, calls to   *)
(* the network and files.  The graph is Investigation's; here it is what   *)
(* it does with the index: one RetrievalService per request loads the      *)
(* chunks once, then every hit's text is read from the table.  A run has   *)
(* an outcome when its graph first pauses for review or ends.              *)
(***************************************************************************)
EXTENDS Naturals, FiniteSets

CONSTANTS
  Runs,          \* the runs requested, each once
  Watched,       \* the runs whose page somebody opens
  Commits,       \* the commits of the repository runs may pin
  Splits,        \* values of max_lines: how large classes are cut
  Dims,          \* vector sizes of the configured embedders
  None,
  MaxRestarts    \* bound on crashes of the server

ASSUME AutoRunAssumption ==
  /\ Watched \subseteq Runs
  /\ None \notin Commits \union Splits \union {"plan"}
  /\ None \notin {"ingesting", "indexing", "investigating", "failed"}
  /\ "plan" \notin Splits
  /\ MaxRestarts \in Nat

VARIABLES
  stage,       \* how far the background task of each run is
  request,     \* what each run was asked to do
  snapshot,    \* the commit each run is pinned to
  pending,     \* pending_runs._pending
  row,         \* the runs with a row in the runs table
  checkpoint,  \* what the checkpoint of each run holds
  chunks,      \* the chunks table: the rows of each commit
  service,     \* the index each run's RetrievalService has in memory
  listed,      \* the chunks each run is computing new vectors for
  evidence,    \* what each run has gathered: chunk ids, and if their text was there
  page,        \* what the browser tab of each run shows
  refreshing,  \* the tabs whose document carries the refresh tag
  up, dim,     \* the server runs, with an embedder of this vector size
  splits,      \* how each commit was ever cut (history)
  restarts     \* only bounds the model

taskVars  == <<stage, request, snapshot, pending, row, checkpoint>>
indexVars == <<chunks, splits>>
graphVars == <<service, listed, evidence>>
pageVars  == <<page, refreshing>>
worldVars == <<up, dim, restarts>>
vars == <<taskVars, indexVars, graphVars, pageVars, worldVars>>

-----------------------------------------------------------------------------
(***************************************************************************)
(* The index.                                                              *)
(***************************************************************************)

Pieces == Splits \union {"function"}

\* Whatever the split, functions are whole; classes are cut differently.
PiecesOf(split) == {"function", split}

\* Mutant: the id of a chunk hashes the run's own directory.
MakeIdOfRun(r, commit, piece) == <<r, piece>>

\* Chunk.make_id hashes repository, commit, path and lines: the same piece of
\* the same commit has the same id in every index and every run.
MakeId(r, commit, piece) == <<commit, piece>>

Ids == Commits \X Pieces
ChunkRows == [id : Ids, dim : Dims]

RowsOf(r, commit, split) ==
  {[id |-> MakeId(r, commit, piece), dim |-> dim] : piece \in PiecesOf(split)}

IdsOf(rows) == {k.id : k \in rows}

\* Rows whose vectors cannot be compared with a query's.
Stale(rows) == {k \in rows : k.dim # dim}

\* set_embeddings: one transaction, which skips ids that are gone.
SetEmbeddings(rows, ids) == {IF k.id \in ids THEN [k EXCEPT !.dim = dim] ELSE k : k \in rows}

-----------------------------------------------------------------------------
Init ==
  /\ stage = [r \in Runs |-> "none"]
  /\ request = [r \in Runs |-> None]
  /\ snapshot = [r \in Runs |-> None]
  /\ pending = [r \in Runs |-> None]
  /\ row = {}
  /\ checkpoint = [r \in Runs |-> "none"]
  /\ chunks = [c \in Commits |-> {}]
  /\ service = [r \in Runs |-> None]
  /\ listed = [r \in Runs |-> {}]
  /\ evidence = [r \in Runs |-> {}]
  /\ page = [r \in Runs |-> "closed"]
  /\ refreshing = {}
  /\ up = TRUE
  /\ dim \in Dims
  /\ splits = [c \in Commits |-> {}]
  /\ restarts = 0

Goto(r, s) == stage' = [stage EXCEPT ![r] = s]
Mark(r, s) == pending' = [pending EXCEPT ![r] = s]

-----------------------------------------------------------------------------
(***************************************************************************)
(* The request and its background task.                                    *)
(***************************************************************************)

\* From an issue's URL.
Accept(r) ==
  /\ up /\ stage[r] = "none"
  /\ \E s \in Splits : request' = [request EXCEPT ![r] = s]
  /\ Mark(r, "ingesting")
  /\ Goto(r, "accepted")
  /\ UNCHANGED <<snapshot, row, checkpoint, indexVars, graphVars, pageVars, worldVars>>

\* From a ready plan, whose snapshot must be indexed.
AcceptPlan(r) ==
  /\ up /\ stage[r] = "none"
  /\ \E c \in Commits :
       /\ chunks[c] # {}
       /\ snapshot' = [snapshot EXCEPT ![r] = c]
  /\ request' = [request EXCEPT ![r] = "plan"]
  /\ Mark(r, "ingesting")
  /\ Goto(r, "accepted")
  /\ UNCHANGED <<row, checkpoint, indexVars, graphVars, pageVars, worldVars>>

\* auto_ingest, or the plan's snapshot found once more.
Ingest(r) ==
  /\ up /\ stage[r] = "accepted"
  /\ IF request[r] = "plan"
     THEN /\ chunks[snapshot[r]] # {}
          /\ Mark(r, "investigating") /\ Goto(r, "create")
          /\ UNCHANGED snapshot
     ELSE /\ \E c \in Commits : snapshot' = [snapshot EXCEPT ![r] = c]
          /\ Mark(r, "indexing") /\ Goto(r, "index")
  /\ UNCHANGED <<request, row, checkpoint, indexVars, graphVars, pageVars, worldVars>>

\* index_snapshot: every chunk is embedded before replace_chunks, one
\* transaction, wipes and rewrites the rows of the commit.
IndexSnapshot(r) ==
  LET c == snapshot[r]
  IN  /\ up /\ stage[r] = "index"
      /\ chunks' = [chunks EXCEPT ![c] = RowsOf(r, c, request[r])]
      /\ splits' = [splits EXCEPT ![c] = @ \union {request[r]}]
      /\ Goto(r, "file")
      /\ UNCHANGED <<request, snapshot, pending, row, checkpoint, graphVars, pageVars, worldVars>>

\* chunks.jsonl is written, the worker thread is done.
StartInvestigating(r) ==
  /\ up /\ stage[r] = "file"
  /\ Mark(r, "investigating") /\ Goto(r, "create")
  /\ UNCHANGED <<request, snapshot, row, checkpoint, indexVars, graphVars, pageVars, worldVars>>

CreateRun(r) ==
  /\ up /\ stage[r] = "create"
  /\ row' = row \union {r}
  /\ Goto(r, "invoke")
  /\ UNCHANGED <<request, snapshot, pending, checkpoint, indexVars, graphVars, pageVars, worldVars>>

FirstCheckpoint(r) ==
  /\ up /\ stage[r] = "invoke"
  /\ checkpoint' = [checkpoint EXCEPT ![r] = "started"]
  /\ Goto(r, "load")
  /\ UNCHANGED <<request, snapshot, pending, row, indexVars, graphVars, pageVars, worldVars>>

\* The graph pauses or ends and the worker thread returns: at once if the issue
\* is no issue, otherwise after its searches.
Conclude(r) ==
  /\ up /\ stage[r] \in {"load", "search"}
  /\ checkpoint' = [checkpoint EXCEPT ![r] = "outcome"]
  /\ Goto(r, "settled")
  /\ UNCHANGED <<request, snapshot, pending, row, indexVars, graphVars, pageVars, worldVars>>

Clear(r) ==
  /\ up /\ stage[r] = "settled"
  /\ Mark(r, None) /\ Goto(r, "done")
  /\ UNCHANGED <<request, snapshot, row, checkpoint, indexVars, graphVars, pageVars, worldVars>>

\* Whatever raises, network, provider, disk or graph, ends in the handler of
\* _run_auto_pipeline.
Raising == {"accepted", "index", "file", "create", "invoke", "load", "embed", "reload",
            "search"}

\* Mutant: clear in a finally block.
FailAndClear(r) ==
  /\ up /\ stage[r] \in Raising
  /\ Mark(r, None) /\ Goto(r, "failed")
  /\ UNCHANGED <<request, snapshot, row, checkpoint, indexVars, graphVars, pageVars, worldVars>>

\* Mutant: exceptions are only logged.
FailSilently(r) ==
  /\ up /\ stage[r] \in Raising
  /\ Goto(r, "failed")
  /\ UNCHANGED <<request, snapshot, pending, row, checkpoint, indexVars, graphVars, pageVars, worldVars>>

Fail(r) ==
  /\ up /\ stage[r] \in Raising
  /\ Mark(r, "failed") /\ Goto(r, "failed")
  /\ UNCHANGED <<request, snapshot, row, checkpoint, indexVars, graphVars, pageVars, worldVars>>

-----------------------------------------------------------------------------
(***************************************************************************)
(* Retrieval inside the graph.                                             *)
(***************************************************************************)

graphFrame == <<request, snapshot, pending, row, checkpoint, pageVars, worldVars>>

\* _load: nothing indexed ends the search (the node catches the LookupError).
\* If vectors are stale, ensure_embeddings lists the rows once more before it
\* computes: this step stands for the later of the two reads.
LoadIndex(r) ==
  LET rows == chunks[snapshot[r]]
  IN  /\ up /\ stage[r] = "load" /\ rows # {}
      /\ IF Stale(rows) = {}
         THEN /\ service' = [service EXCEPT ![r] = rows]
              /\ Goto(r, "search")
              /\ UNCHANGED listed
         ELSE /\ listed' = [listed EXCEPT ![r] = IdsOf(Stale(rows))]
              /\ Goto(r, "embed")
              /\ UNCHANGED service
      /\ UNCHANGED <<evidence, indexVars, graphFrame>>

\* ensure_embeddings: the vectors are computed from the rows listed before and
\* stored together.
EnsureEmbeddings(r) ==
  /\ up /\ stage[r] = "embed"
  /\ chunks' = [chunks EXCEPT ![snapshot[r]] = SetEmbeddings(@, listed[r])]
  /\ listed' = [listed EXCEPT ![r] = {}]
  /\ Goto(r, "reload")
  /\ UNCHANGED <<service, evidence, splits, graphFrame>>

ReloadIndex(r) ==
  /\ up /\ stage[r] = "reload"
  /\ service' = [service EXCEPT ![r] = chunks[snapshot[r]]]
  /\ Goto(r, "search")
  /\ UNCHANGED <<listed, evidence, indexVars, graphFrame>>

\* search, by RetrieveCodeContext and DiscoverRelatedFiles: hits come from the
\* index in memory, chunks gathered before are passed over, and get_chunk reads
\* the text of each hit in a transaction of its own; a row that is gone leaves
\* no text.
Gather(r) ==
  /\ up /\ stage[r] = "search"
  /\ \E id \in IdsOf(service[r]) \ {e.id : e \in evidence[r]} :
       evidence' = [evidence EXCEPT ![r] = @ \union
         {[id |-> id, text |-> id \in IdsOf(chunks[snapshot[r]])]}]
  /\ UNCHANGED <<stage, service, listed, indexVars, graphFrame>>

-----------------------------------------------------------------------------
(***************************************************************************)
(* The browser.  run_detail_page looks for a checkpoint, then for a        *)
(* pending entry.  A page navigated to is the document sent, refresh tag   *)
(* and all; swapPage, after the 202, puts the body of the answer into the  *)
(* document it was called from.                                            *)
(***************************************************************************)

pageFrame == <<taskVars, indexVars, graphVars, worldVars>>
Show(r, what) == page' = [page EXCEPT ![r] = what]

\* Tabs where a request for the page is under way.
Asking == {"navigating", "swapping", "navigating-on", "swapping-on"}

\* One tab per run: the one that asked for it.
OpenPage(r) ==
  /\ up /\ r \in Watched /\ stage[r] # "none" /\ page[r] = "closed"
  /\ \/ Show(r, "navigating")
     \/ stage[r] # "dead" /\ Show(r, "swapping")
  /\ UNCHANGED <<refreshing, pageFrame>>

Refresh(r) ==
  /\ up /\ page[r] = "waiting" /\ r \in refreshing
  /\ Show(r, "navigating")
  /\ UNCHANGED <<refreshing, pageFrame>>

\* The browser's own page: it does not refresh.
RefreshFails(r) ==
  /\ ~up /\ page[r] = "waiting" /\ r \in refreshing
  /\ Show(r, "unreachable")
  /\ refreshing' = refreshing \ {r}
  /\ UNCHANGED pageFrame

LookForCheckpoint(r) ==
  /\ up /\ page[r] \in {"navigating", "swapping"}
  /\ IF checkpoint[r] = "none"
     THEN /\ Show(r, IF page[r] = "navigating" THEN "navigating-on" ELSE "swapping-on")
          /\ UNCHANGED refreshing
     ELSE /\ Show(r, IF checkpoint[r] = "outcome" THEN "outcome" ELSE "unfinished")
          /\ refreshing' = refreshing \ {r}
  /\ UNCHANGED pageFrame

\* Only a waiting page that was navigated to refreshes itself.
LookForPending(r) ==
  /\ up /\ page[r] \in {"navigating-on", "swapping-on"}
  /\ LET shown == IF pending[r] = None THEN "missing"
                  ELSE IF pending[r] = "failed" THEN "failed" ELSE "waiting"
     IN  /\ Show(r, shown)
         /\ refreshing' = IF shown = "waiting" /\ page[r] = "navigating-on"
                          THEN refreshing \union {r} ELSE refreshing \ {r}
  /\ UNCHANGED pageFrame

-----------------------------------------------------------------------------
Running == Raising \union {"settled"}

Crash ==
  /\ up /\ restarts < MaxRestarts
  /\ up' = FALSE
  /\ stage' = [r \in Runs |-> IF stage[r] \in Running THEN "dead" ELSE stage[r]]
  /\ pending' = [r \in Runs |-> None]
  /\ service' = [r \in Runs |-> None]
  /\ listed' = [r \in Runs |-> {}]
  /\ page' = [r \in Runs |-> IF page[r] \in Asking THEN "unreachable" ELSE page[r]]
  /\ refreshing' = {r \in refreshing : page[r] \notin Asking}
  /\ restarts' = restarts + 1
  /\ UNCHANGED <<request, snapshot, row, checkpoint, evidence, indexVars, dim>>

\* The configuration may name another embedder.
Restart ==
  /\ ~up
  /\ up' = TRUE
  /\ dim' \in Dims
  /\ UNCHANGED <<taskVars, indexVars, graphVars, pageVars, restarts>>

TaskStep(r) ==
  \/ Ingest(r) \/ IndexSnapshot(r) \/ StartInvestigating(r) \/ CreateRun(r)
  \/ FirstCheckpoint(r) \/ Conclude(r) \/ Clear(r) \/ Fail(r)
  \/ LoadIndex(r) \/ EnsureEmbeddings(r) \/ ReloadIndex(r) \/ Gather(r)

PageStep(r) ==
  Refresh(r) \/ RefreshFails(r) \/ LookForCheckpoint(r) \/ LookForPending(r)

Next ==
  \/ \E r \in Runs : \/ Accept(r) \/ AcceptPlan(r) \/ OpenPage(r)
                     \/ TaskStep(r) \/ PageStep(r)
  \/ Crash \/ Restart

Spec == Init /\ [][Next]_vars

\* Background tasks run, calls to the network and the provider return (they have
\* timeouts), and browsers refresh.  Nobody has to ask for a run, open its page
\* or restart the server.
FairSpec == Spec /\ \A r \in Runs : WF_vars(TaskStep(r)) /\ WF_vars(PageStep(r))
=============================================================================
