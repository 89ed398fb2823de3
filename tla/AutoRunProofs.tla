---------------------------- MODULE AutoRunProofs ----------------------------
(***************************************************************************)
(* Proofs about automatic runs, for any number of runs, commits, ways of   *)
(* cutting, embedders and restarts.                                        *)
(*                                                                         *)
(* A run keeps its pending entry until its graph has an outcome.  No       *)
(* transaction on the table of chunks leaves a commit without rows or a    *)
(* row with a staler vector than it had, so what a run found to embed      *)
(* again stays all there is to embed.  And the rows of a commit are always *)
(* all the pieces of one cut: only where it was cut in two ways may an     *)
(* index in memory name rows that are gone.                                *)
(***************************************************************************)
EXTENDS AutoRunProperties, FiniteSetTheorems, TLAPS

Investigating == {"create", "invoke", "load", "embed", "reload", "search"}
Indexed == Investigating \union {"file"}
Unpinned == {"none", "accepted"}

\* All that a cut makes of a commit.
IdsFor(c, split) == {<<c, piece>> : piece \in PiecesOf(split)}
CutOnce(c, rows) == \E s \in splits[c] : IdsOf(rows) = IdsFor(c, s)
CutTwice(c) == \E s, t \in splits[c] : s # t

CommitOk(c) ==
  /\ IsFiniteSet(splits[c])
  /\ chunks[c] # {} => CutOnce(c, chunks[c])

\* A run that has or needs an index is pinned to its commit, and has its progress shown.
TaskOk(r) ==
  /\ stage[r] \in Indexed \union {"index"} => snapshot[r] \in Commits
  /\ stage[r] = "accepted" /\ request[r] = "plan" => snapshot[r] \in Commits
  /\ stage[r] = "index" => request[r] \in Splits
  /\ ~up => stage[r] \notin Running
  /\ stage[r] \in Running \union {"failed"} /\ restarts = 0 => pending[r] # None
  /\ stage[r] \in {"settled", "done"} => checkpoint[r] # "none"

\* What a run searches or has found is from its commit, and can be compared.
SearchOk(r) ==
  /\ stage[r] \in Indexed => chunks[snapshot[r]] # {}
  /\ stage[r] = "embed" =>
       \A k \in chunks[snapshot[r]] : k.dim = dim \/ k.id \in listed[r]
  /\ stage[r] = "reload" => \A k \in chunks[snapshot[r]] : k.dim = dim
  /\ service[r] # None \/ stage[r] = "search" =>
       /\ up /\ stage[r] \notin Unpinned /\ snapshot[r] \in Commits
       /\ service[r] \subseteq ChunkRows
       /\ CutOnce(snapshot[r], service[r])
       /\ \A k \in service[r] : k.dim = dim
  /\ \A e \in evidence[r] :
       /\ stage[r] \notin Unpinned /\ snapshot[r] \in Commits
       /\ e.text \/ CutTwice(snapshot[r])

IInv ==
  /\ TypeOK
  /\ \A c \in Commits : CommitOk(c)
  /\ \A r \in Runs : TaskOk(r) /\ SearchOk(r)

-----------------------------------------------------------------------------
\* A transaction on the chunks loses no commit and makes no vector stale.
Refreshes ==
  \A c \in Commits :
    /\ splits[c] \subseteq splits'[c]
    /\ chunks[c] # {} => chunks'[c] # {}
    /\ \A k \in chunks'[c] : \/ k.dim = dim
                             \/ \E m \in chunks[c] : m.id = k.id /\ m.dim = k.dim

\* Whoever does nothing keeps what it has.
LEMMA OthersKeep ==
  ASSUME IInv, NEW s \in Runs, Refreshes, up' = up, dim' = dim, restarts' = restarts,
         stage'[s] = stage[s], request'[s] = request[s], snapshot'[s] = snapshot[s],
         pending'[s] = pending[s], checkpoint'[s] = checkpoint[s],
         service'[s] = service[s], listed'[s] = listed[s], evidence'[s] = evidence[s]
  PROVE  TaskOk(s)' /\ SearchOk(s)'
  <1>1. TaskOk(s) /\ SearchOk(s)
    BY DEF IInv
  <1>2. TaskOk(s)'
    BY <1>1 DEF TaskOk
  <1>3. stage[s] \in Indexed => snapshot[s] \in Commits
    BY <1>1 DEF TaskOk
  <1>4. stage[s] \in Indexed => chunks'[snapshot[s]] # {}
    BY <1>1, <1>3 DEF SearchOk, Refreshes
  <1>5. stage[s] = "embed" =>
          \A k \in chunks'[snapshot[s]] : k.dim = dim \/ k.id \in listed[s]
    BY <1>1, <1>3 DEF SearchOk, Refreshes, Indexed, Investigating
  <1>6. stage[s] = "reload" => \A k \in chunks'[snapshot[s]] : k.dim = dim
    BY <1>1, <1>3 DEF SearchOk, Refreshes, Indexed, Investigating
  <1>7. \A c \in Commits : /\ \A rows : CutOnce(c, rows) => CutOnce(c, rows)'
                           /\ CutTwice(c) => CutTwice(c)'
    BY DEF Refreshes, CutOnce, CutTwice
  <1>8. service[s] # None \/ stage[s] = "search" =>
          /\ up /\ stage[s] \notin Unpinned /\ snapshot[s] \in Commits
          /\ service[s] \subseteq ChunkRows
          /\ CutOnce(snapshot[s], service[s])
          /\ \A k \in service[s] : k.dim = dim
    BY <1>1 DEF SearchOk
  <1>9. \A e \in evidence[s] :
          /\ stage[s] \notin Unpinned /\ snapshot[s] \in Commits
          /\ e.text \/ CutTwice(snapshot[s])
    BY <1>1 DEF SearchOk
  <1>10. service[s] # None \/ stage[s] = "search" => CutOnce(snapshot[s], service[s])'
    BY <1>7, <1>8 DEF CutOnce
  <1>11. \A e \in evidence[s] : e.text \/ CutTwice(snapshot[s])'
    BY <1>7, <1>9 DEF CutTwice
  <1>12. SearchOk(s)'
    BY <1>4, <1>5, <1>6, <1>8, <1>9, <1>10, <1>11 DEF SearchOk
  <1> QED
    BY <1>2, <1>12

LEMMA SameChunksRefresh ==
  ASSUME UNCHANGED indexVars PROVE Refreshes
  BY DEF Refreshes, indexVars

LEMMA SameChunksCommits ==
  ASSUME UNCHANGED indexVars, NEW c \in Commits, CommitOk(c) PROVE CommitOk(c)'
  BY DEF CommitOk, CutOnce, indexVars

-----------------------------------------------------------------------------
(***************************************************************************)
(* The background task, outside the graph's searches.                      *)
(***************************************************************************)
\* The task of r goes on to a stage where it computes nothing.
LEMMA MoveKeepsSearch ==
  ASSUME IInv, NEW r \in Runs, UNCHANGED <<indexVars, graphVars, worldVars>>,
         stage'[r] \notin {"embed", "reload", "search"},
         stage'[r] \in Indexed => chunks[snapshot'[r]] # {},
         \/ stage[r] \in Unpinned
         \/ stage'[r] \notin Unpinned /\ snapshot'[r] = snapshot[r]
  PROVE  SearchOk(r)'
  <1>1. SearchOk(r)
    BY DEF IInv
  <1>2. UNCHANGED <<chunks, splits, service, listed, evidence, up, dim>>
    BY DEF indexVars, graphVars, worldVars
  <1>3. \A c, rows : /\ CutOnce(c, rows)' <=> CutOnce(c, rows)
                     /\ CutTwice(c)' <=> CutTwice(c)
    BY <1>2 DEF CutOnce, CutTwice
  <1>4. CASE stage[r] \in Unpinned
    <2>1. service[r] = None /\ evidence[r] = {}
      BY <1>1, <1>4 DEF SearchOk
    <2> QED
      BY <1>2, <2>1 DEF SearchOk
  <1>5. CASE stage'[r] \notin Unpinned /\ snapshot'[r] = snapshot[r]
    <2>1. service[r] # None =>
            /\ up /\ snapshot[r] \in Commits /\ service[r] \subseteq ChunkRows
            /\ CutOnce(snapshot[r], service[r])' /\ \A k \in service[r] : k.dim = dim
      BY <1>1, <1>2 DEF SearchOk, CutOnce
    <2>2. \A e \in evidence[r] : snapshot[r] \in Commits /\ (e.text \/ CutTwice(snapshot[r])')
      BY <1>1, <1>2 DEF SearchOk, CutTwice
    <2>3. service'[r] # None \/ stage'[r] = "search" =>
            /\ up' /\ stage'[r] \notin Unpinned /\ snapshot'[r] \in Commits
            /\ service'[r] \subseteq ChunkRows
            /\ CutOnce(snapshot[r], service[r])'
            /\ \A k \in service'[r] : k.dim = dim'
      BY <1>2, <1>5, <2>1
    <2>4. \A e \in evidence'[r] :
            /\ stage'[r] \notin Unpinned /\ snapshot'[r] \in Commits
            /\ e.text \/ CutTwice(snapshot[r])'
      BY <1>2, <1>5, <2>2
    <2>5. /\ stage'[r] \in Indexed => chunks'[snapshot'[r]] # {}
          /\ stage'[r] # "embed" /\ stage'[r] # "reload"
      BY <1>2
    <2> QED
      BY <1>5, <2>3, <2>4, <2>5 DEF SearchOk
  <1> QED
    BY <1>4, <1>5

\* The steps of a task that leave index, searches and pages alone.
PlainStep(r) ==
  \/ Accept(r) \/ AcceptPlan(r) \/ Ingest(r) \/ StartInvestigating(r) \/ CreateRun(r)
  \/ FirstCheckpoint(r) \/ Conclude(r) \/ Clear(r) \/ Fail(r)

LEMMA PlainTypes ==
  ASSUME IInv, NEW r \in Runs, PlainStep(r) PROVE TypeOK'
  <1>1. UNCHANGED <<indexVars, graphVars, pageVars, worldVars>>
    BY DEF PlainStep, Accept, AcceptPlan, Ingest, StartInvestigating, CreateRun,
       FirstCheckpoint, Conclude, Clear, Fail
  <1>2. /\ stage' \in [Runs -> Stages]
        /\ request' \in [Runs -> Splits \union {"plan", None}]
        /\ \A s \in Runs : stage'[s] # "none" => request'[s] # None
        /\ snapshot' \in [Runs -> Commits \union {None}]
        /\ pending' \in [Runs -> {None, "ingesting", "indexing", "investigating", "failed"}]
        /\ row' \subseteq Runs
        /\ checkpoint' \in [Runs -> {"none", "started", "outcome"}]
    <2> USE DEF IInv, TypeOK, Stages, Running, Raising, Goto, Mark
    <2>1. CASE Accept(r)
      BY <2>1, AutoRunAssumption DEF Accept
    <2>2. CASE AcceptPlan(r)
      BY <2>2, AutoRunAssumption DEF AcceptPlan
    <2>3. CASE Ingest(r)
      BY <2>3 DEF Ingest
    <2>4. CASE StartInvestigating(r)
      BY <2>4 DEF StartInvestigating
    <2>5. CASE CreateRun(r)
      BY <2>5 DEF CreateRun
    <2>6. CASE FirstCheckpoint(r)
      BY <2>6 DEF FirstCheckpoint
    <2>7. CASE Conclude(r)
      BY <2>7 DEF Conclude
    <2>8. CASE Clear(r)
      BY <2>8 DEF Clear
    <2>9. CASE Fail(r)
      BY <2>9 DEF Fail
    <2> QED
      BY <2>1, <2>2, <2>3, <2>4, <2>5, <2>6, <2>7, <2>8, <2>9 DEF PlainStep
  <1> QED
    BY <1>1, <1>2 DEF IInv, TypeOK, indexVars, graphVars, pageVars, worldVars

LEMMA PlainKeeps ==
  ASSUME IInv, NEW r \in Runs, PlainStep(r) PROVE IInv'
  <1>1. TypeOK'
    BY PlainTypes
  <1>2. UNCHANGED <<indexVars, graphVars, pageVars, worldVars>>
    BY DEF PlainStep, Accept, AcceptPlan, Ingest, StartInvestigating, CreateRun,
       FirstCheckpoint, Conclude, Clear, Fail
  <1>3. \A c \in Commits : CommitOk(c)'
    BY <1>2, SameChunksCommits DEF IInv
  <1>4. ASSUME NEW s \in Runs, s # r PROVE TaskOk(s)' /\ SearchOk(s)'
    <2>1. /\ stage'[s] = stage[s] /\ request'[s] = request[s] /\ snapshot'[s] = snapshot[s]
          /\ pending'[s] = pending[s] /\ checkpoint'[s] = checkpoint[s]
      BY <1>4 DEF IInv, TypeOK, PlainStep, Accept, AcceptPlan, Ingest, StartInvestigating,
         CreateRun, FirstCheckpoint, Conclude, Clear, Fail, Goto, Mark
    <2>2. UNCHANGED <<service, listed, evidence, up, dim, restarts>>
      BY <1>2 DEF graphVars, worldVars
    <2> QED
      BY <1>2, <2>1, <2>2, OthersKeep, SameChunksRefresh
  <1>5. TaskOk(r) /\ SearchOk(r) /\ up
    BY DEF IInv, PlainStep, Accept, AcceptPlan, Ingest, StartInvestigating, CreateRun,
       FirstCheckpoint, Conclude, Clear, Fail
  <1>6. TaskOk(r)'
    <2> USE DEF IInv, TypeOK, TaskOk, Goto, Mark, Indexed, Investigating, Running, Raising,
                worldVars
    <2>1. CASE Accept(r)
      BY <1>5, <2>1, AutoRunAssumption DEF Accept
    <2>2. CASE AcceptPlan(r)
      BY <1>5, <2>2, AutoRunAssumption DEF AcceptPlan
    <2>3. CASE Ingest(r)
      <3>1. request[r] \in Splits \union {"plan"}
        BY <2>3 DEF Ingest
      <3> QED
        BY <1>5, <2>3, <3>1, AutoRunAssumption DEF Ingest
    <2>4. CASE StartInvestigating(r)
      BY <1>5, <2>4, AutoRunAssumption DEF StartInvestigating
    <2>5. CASE CreateRun(r)
      BY <1>5, <2>5 DEF CreateRun
    <2>6. CASE FirstCheckpoint(r)
      BY <1>5, <2>6 DEF FirstCheckpoint
    <2>7. CASE Conclude(r)
      BY <1>5, <2>7 DEF Conclude
    <2>8. CASE Clear(r)
      BY <1>5, <2>8 DEF Clear
    <2>9. CASE Fail(r)
      BY <1>5, <2>9, AutoRunAssumption DEF Fail
    <2> QED
      BY <2>1, <2>2, <2>3, <2>4, <2>5, <2>6, <2>7, <2>8, <2>9 DEF PlainStep
  <1>7. SearchOk(r)'
    <2>1. /\ stage'[r] \notin {"embed", "reload", "search"}
          /\ stage'[r] \in Indexed => chunks[snapshot'[r]] # {}
          /\ \/ stage[r] \in Unpinned
             \/ stage'[r] \notin Unpinned /\ snapshot'[r] = snapshot[r]
      <3> USE DEF IInv, TypeOK, SearchOk, Goto, Indexed, Investigating, Unpinned
      <3>1. CASE Accept(r) \/ AcceptPlan(r)
        BY <3>1 DEF Accept, AcceptPlan
      <3>2. CASE Ingest(r)
        BY <3>2 DEF Ingest
      <3>3. CASE StartInvestigating(r)
        BY <1>5, <3>3 DEF StartInvestigating
      <3>4. CASE CreateRun(r) \/ FirstCheckpoint(r)
        BY <1>5, <3>4 DEF CreateRun, FirstCheckpoint
      <3>5. CASE Conclude(r) \/ Clear(r)
        BY <3>5 DEF Conclude, Clear
      <3>6. CASE Fail(r)
        BY <3>6 DEF Fail, Raising
      <3> QED
        BY <3>1, <3>2, <3>3, <3>4, <3>5, <3>6 DEF PlainStep
    <2> QED
      BY <1>2, <2>1, MoveKeepsSearch
  <1> QED
    BY <1>1, <1>3, <1>4, <1>6, <1>7 DEF IInv

-----------------------------------------------------------------------------
(***************************************************************************)
(* The transactions on the table of chunks.                                *)
(***************************************************************************)
\* Cutting a commit gives all the pieces of the cut, with new vectors.
LEMMA RowsOfCut ==
  ASSUME NEW r, NEW c \in Commits, NEW s \in Splits, dim \in Dims
  PROVE  /\ RowsOf(r, c, s) \subseteq ChunkRows /\ RowsOf(r, c, s) # {}
         /\ IdsOf(RowsOf(r, c, s)) = IdsFor(c, s)
         /\ \A k \in RowsOf(r, c, s) : k.dim = dim
  <1> DEFINE new(piece) == [id |-> <<c, piece>>, dim |-> dim]
  <1>1. ASSUME NEW piece \in PiecesOf(s)
        PROVE  new(piece) \in ChunkRows /\ new(piece).id = <<c, piece>> /\ new(piece).dim = dim
    BY DEF ChunkRows, Ids, Pieces, PiecesOf
  <1>2. RowsOf(r, c, s) = {new(piece) : piece \in PiecesOf(s)}
    BY DEF RowsOf, MakeId
  <1>3. s \in PiecesOf(s)
    BY DEF PiecesOf
  <1> HIDE DEF new
  <1> QED
    BY <1>1, <1>2, <1>3 DEF IdsOf, IdsFor

\* New vectors change no ids, and make nothing stale.
LEMMA SetEmbeddingsKeeps ==
  ASSUME NEW rows \in SUBSET ChunkRows, NEW ids, dim \in Dims
  PROVE  /\ SetEmbeddings(rows, ids) \subseteq ChunkRows
         /\ IdsOf(SetEmbeddings(rows, ids)) = IdsOf(rows)
         /\ rows # {} => SetEmbeddings(rows, ids) # {}
         /\ \A k \in SetEmbeddings(rows, ids) :
              /\ k.dim = dim \/ k \in rows
              /\ k.id \in ids => k.dim = dim
  <1> DEFINE new(k) == IF k.id \in ids THEN [k EXCEPT !.dim = dim] ELSE k
  <1>1. ASSUME NEW k \in rows
        PROVE  /\ new(k) \in ChunkRows /\ new(k).id = k.id
               /\ k.id \in ids => new(k).dim = dim
               /\ k.id \notin ids => new(k) = k
    BY DEF ChunkRows
  <1>2. SetEmbeddings(rows, ids) = {new(k) : k \in rows}
    BY DEF SetEmbeddings
  <1> HIDE DEF new
  <1> QED
    BY <1>1, <1>2 DEF IdsOf

LEMMA IndexKeeps ==
  ASSUME IInv, NEW r \in Runs, IndexSnapshot(r) PROVE IInv'
  <1> DEFINE c == snapshot[r]
             new == RowsOf(r, c, request[r])
  <1>1. /\ up /\ stage[r] = "index" /\ chunks' = [chunks EXCEPT ![c] = new]
        /\ splits' = [splits EXCEPT ![c] = @ \union {request[r]}]
        /\ stage' = [stage EXCEPT ![r] = "file"]
        /\ UNCHANGED <<request, snapshot, pending, row, checkpoint, graphVars, pageVars, worldVars>>
    BY DEF IndexSnapshot, Goto
  <1>2. c \in Commits /\ request[r] \in Splits /\ TaskOk(r) /\ SearchOk(r)
    BY <1>1 DEF IInv, TaskOk
  <1>3. /\ new \subseteq ChunkRows /\ new # {} /\ IdsOf(new) = IdsFor(c, request[r])
        /\ \A k \in new : k.dim = dim
    BY <1>2, RowsOfCut DEF IInv, TypeOK
  <1>4. PICK cc, nn, ss : cc = c /\ nn = new /\ ss = request[r]
    OBVIOUS
  <1> HIDE DEF new
  <1>5. /\ chunks' = [chunks EXCEPT ![cc] = nn]
        /\ splits' = [splits EXCEPT ![cc] = @ \union {ss}]
        /\ cc \in Commits /\ ss \in Splits
        /\ nn \subseteq ChunkRows /\ nn # {} /\ IdsOf(nn) = IdsFor(cc, ss)
        /\ \A k \in nn : k.dim = dim
    BY <1>1, <1>2, <1>3, <1>4
  <1>6. chunks \in [Commits -> SUBSET ChunkRows] /\ splits \in [Commits -> SUBSET Splits]
    BY DEF IInv, TypeOK
  <1>7. /\ \A d \in Commits : d # cc => chunks'[d] = chunks[d] /\ splits'[d] = splits[d]
        /\ chunks'[cc] = nn /\ splits'[cc] = splits[cc] \union {ss}
    BY <1>5, <1>6
  <1>8. Refreshes
    BY <1>5, <1>7 DEF Refreshes
  <1>9. TypeOK'
    <2>1. chunks' \in [Commits -> SUBSET ChunkRows] /\ splits' \in [Commits -> SUBSET Splits]
      BY <1>5, <1>6
    <2>2. stage' \in [Runs -> Stages] /\ \A s \in Runs : stage'[s] # "none" => request'[s] # None
      BY <1>1 DEF IInv, TypeOK, Stages, Running, Raising
    <2> QED
      BY <1>1, <2>1, <2>2 DEF IInv, TypeOK, graphVars, pageVars, worldVars
  <1>10. ASSUME NEW d \in Commits PROVE CommitOk(d)'
    <2>1. CASE d = cc
      <3>1. IsFiniteSet(splits'[d])
        BY <1>7, <2>1, FS_AddElement DEF IInv, CommitOk
      <3>2. ss \in splits'[d] /\ IdsOf(chunks'[d]) = IdsFor(d, ss)
        BY <1>5, <1>7, <2>1
      <3> QED
        BY <3>1, <3>2 DEF CommitOk, CutOnce
    <2>2. CASE d # cc
      BY <1>7, <2>2 DEF IInv, CommitOk, CutOnce
    <2> QED
      BY <2>1, <2>2
  <1>11. ASSUME NEW s \in Runs, s # r PROVE TaskOk(s)' /\ SearchOk(s)'
    <2>1. /\ stage'[s] = stage[s]
          /\ UNCHANGED <<request, snapshot, pending, checkpoint, service, listed, evidence,
                         up, dim, restarts>>
      BY <1>1, <1>11 DEF IInv, TypeOK, graphVars, worldVars
    <2> QED
      BY <1>8, <2>1, OthersKeep
  <1>12. TaskOk(r)'
    BY <1>1, <1>2 DEF IInv, TypeOK, TaskOk, Indexed, Investigating, Running, Raising, worldVars
  <1>13. SearchOk(r)'
    <2>1. stage'[r] = "file" /\ snapshot'[r] = cc /\ chunks'[snapshot'[r]] # {}
      BY <1>1, <1>4, <1>5, <1>7 DEF IInv, TypeOK
    <2>2. UNCHANGED <<snapshot, service, evidence, up, dim>>
      BY <1>1 DEF graphVars, worldVars
    <2>3. \A d \in Commits : /\ \A rows : CutOnce(d, rows) => CutOnce(d, rows)'
                             /\ CutTwice(d) => CutTwice(d)'
      BY <1>8 DEF Refreshes, CutOnce, CutTwice
    <2>4. service[r] # None =>
            /\ up /\ snapshot[r] \in Commits /\ service[r] \subseteq ChunkRows
            /\ CutOnce(snapshot[r], service[r])' /\ \A k \in service[r] : k.dim = dim
      BY <1>2, <2>2, <2>3 DEF SearchOk, CutOnce
    <2>5. \A e \in evidence[r] : snapshot[r] \in Commits /\ (e.text \/ CutTwice(snapshot[r])')
      BY <1>2, <2>2, <2>3 DEF SearchOk, CutTwice
    <2> QED
      BY <2>1, <2>2, <2>4, <2>5 DEF SearchOk, Unpinned, Indexed, Investigating
  <1> QED
    BY <1>9, <1>10, <1>11, <1>12, <1>13 DEF IInv

\* What is stale when the vectors are stored was listed when they were computed.
LEMMA EmbedKeeps ==
  ASSUME IInv, NEW r \in Runs, EnsureEmbeddings(r) PROVE IInv'
  <1> DEFINE new == SetEmbeddings(chunks[snapshot[r]], listed[r])
  <1>1. /\ up /\ stage[r] = "embed" /\ chunks' = [chunks EXCEPT ![snapshot[r]] = new]
        /\ stage' = [stage EXCEPT ![r] = "reload"] /\ listed' = [listed EXCEPT ![r] = {}]
        /\ UNCHANGED <<service, evidence, splits, graphFrame>>
    BY DEF EnsureEmbeddings, Goto
  <1>2. /\ snapshot[r] \in Commits /\ TaskOk(r) /\ SearchOk(r)
        /\ chunks \in [Commits -> SUBSET ChunkRows] /\ dim \in Dims
        /\ chunks[snapshot[r]] # {}
        /\ \A k \in chunks[snapshot[r]] : k.dim = dim \/ k.id \in listed[r]
    BY <1>1 DEF IInv, TypeOK, TaskOk, SearchOk, Indexed, Investigating
  <1>3. /\ new \subseteq ChunkRows /\ new # {} /\ IdsOf(new) = IdsOf(chunks[snapshot[r]])
        /\ \A k \in new : /\ k.dim = dim \/ k \in chunks[snapshot[r]]
                          /\ k.id \in listed[r] => k.dim = dim
    BY <1>2, SetEmbeddingsKeeps
  <1>4. \A k \in new : k.dim = dim
    BY <1>2, <1>3
  <1>5. PICK cc, nn : cc = snapshot[r] /\ nn = new
    OBVIOUS
  <1> HIDE DEF new
  <1>6. /\ chunks' = [chunks EXCEPT ![cc] = nn] /\ cc \in Commits
        /\ nn \subseteq ChunkRows /\ nn # {} /\ IdsOf(nn) = IdsOf(chunks[cc])
        /\ (\A k \in nn : k.dim = dim) /\ chunks[cc] # {}
    BY <1>1, <1>2, <1>3, <1>4, <1>5
  <1>7. /\ \A d \in Commits : d # cc => chunks'[d] = chunks[d]
        /\ chunks'[cc] = nn /\ splits' = splits
    BY <1>1, <1>2, <1>6
  <1>8. Refreshes
    BY <1>6, <1>7 DEF Refreshes
  <1>9. TypeOK'
    <2>1. chunks' \in [Commits -> SUBSET ChunkRows]
      BY <1>2, <1>6
    <2>2. /\ stage' \in [Runs -> Stages] /\ listed' \in [Runs -> SUBSET Ids]
          /\ \A s \in Runs : stage'[s] # "none" => request'[s] # None
      BY <1>1 DEF IInv, TypeOK, Stages, Running, Raising, graphFrame
    <2> QED
      BY <1>1, <2>1, <2>2 DEF IInv, TypeOK, graphFrame, pageVars, worldVars
  <1>10. ASSUME NEW d \in Commits PROVE CommitOk(d)'
    <2>1. CASE d = cc
      BY <1>6, <1>7, <2>1 DEF IInv, CommitOk, CutOnce
    <2>2. CASE d # cc
      BY <1>7, <2>2 DEF IInv, CommitOk, CutOnce
    <2> QED
      BY <2>1, <2>2
  <1>11. ASSUME NEW s \in Runs, s # r PROVE TaskOk(s)' /\ SearchOk(s)'
    <2>1. /\ stage'[s] = stage[s] /\ listed'[s] = listed[s]
          /\ UNCHANGED <<request, snapshot, pending, checkpoint, service, evidence,
                         up, dim, restarts>>
      BY <1>1, <1>11 DEF IInv, TypeOK, graphFrame, worldVars
    <2> QED
      BY <1>8, <2>1, OthersKeep
  <1>12. TaskOk(r)'
    BY <1>1, <1>2 DEF IInv, TypeOK, TaskOk, Indexed, Investigating, Running, Raising,
       graphFrame, worldVars
  <1>13. SearchOk(r)'
    <2>1. /\ stage'[r] = "reload" /\ snapshot'[r] = cc /\ chunks'[cc] # {}
          /\ \A k \in chunks'[cc] : k.dim = dim
      BY <1>1, <1>5, <1>6, <1>7 DEF IInv, TypeOK, graphFrame
    <2>2. UNCHANGED <<snapshot, service, evidence, up, dim, splits>>
      BY <1>1 DEF graphFrame, worldVars
    <2>4. service[r] # None =>
            /\ up /\ snapshot[r] \in Commits /\ service[r] \subseteq ChunkRows
            /\ CutOnce(snapshot[r], service[r])' /\ \A k \in service[r] : k.dim = dim
      BY <1>2, <2>2 DEF SearchOk, CutOnce
    <2>5. \A e \in evidence[r] : snapshot[r] \in Commits /\ (e.text \/ CutTwice(snapshot[r])')
      BY <1>2, <2>2 DEF SearchOk, CutTwice
    <2> QED
      BY <2>1, <2>2, <2>4, <2>5 DEF SearchOk, Unpinned, Indexed, Investigating
  <1> QED
    BY <1>9, <1>10, <1>11, <1>12, <1>13 DEF IInv

-----------------------------------------------------------------------------
(***************************************************************************)
(* The searches of the graph.                                              *)
(***************************************************************************)
\* A request begins to search when nothing it would search is stale.
LEMMA LoadKeeps ==
  ASSUME IInv, NEW r \in Runs, LoadIndex(r) \/ ReloadIndex(r) PROVE IInv'
  <1>1. PICK c, rows : c = snapshot[r] /\ rows = chunks[c]
    OBVIOUS
  <1>2. /\ up /\ stage[r] \in {"load", "reload"}
        /\ UNCHANGED <<evidence, indexVars, graphFrame>>
    BY DEF LoadIndex, ReloadIndex
  <1>3. /\ c \in Commits /\ rows # {} /\ rows \subseteq ChunkRows /\ TaskOk(r) /\ SearchOk(r)
        /\ CutOnce(c, rows)
    BY <1>1, <1>2 DEF IInv, TypeOK, TaskOk, SearchOk, CommitOk, Indexed, Investigating
  <1>4. \/ /\ \A k \in rows : k.dim = dim
           /\ service' = [service EXCEPT ![r] = rows]
           /\ stage' = [stage EXCEPT ![r] = "search"] /\ listed' = listed
        \/ /\ listed' = [listed EXCEPT ![r] = IdsOf(Stale(rows))]
           /\ stage' = [stage EXCEPT ![r] = "embed"] /\ service' = service
    <2>1. CASE LoadIndex(r)
      BY <1>1, <2>1 DEF LoadIndex, Goto, Stale
    <2>2. CASE ReloadIndex(r)
      BY <1>1, <1>3, <2>2 DEF ReloadIndex, Goto, SearchOk
    <2> QED
      BY <2>1, <2>2
  <1>5. UNCHANGED <<evidence, chunks, splits, request, snapshot, pending, row, checkpoint,
                    page, refreshing, up, dim, restarts>>
    BY <1>2 DEF indexVars, graphFrame, pageVars, worldVars
  <1>6. IdsOf(Stale(rows)) \in SUBSET Ids
    BY <1>3 DEF IdsOf, Stale, ChunkRows
  <1>7. TypeOK'
    <2>1. stage' \in [Runs -> Stages] /\ listed' \in [Runs -> SUBSET Ids]
      BY <1>4, <1>6 DEF IInv, TypeOK, Stages, Running, Raising
    <2>2. service' \in [Runs -> {None} \union SUBSET ChunkRows]
      BY <1>3, <1>4 DEF IInv, TypeOK
    <2>3. \A s \in Runs : stage'[s] # "none" => request'[s] # None
      BY <1>2, <1>4, <1>5 DEF IInv, TypeOK
    <2> QED
      BY <1>5, <2>1, <2>2, <2>3 DEF IInv, TypeOK
  <1>8. \A d \in Commits : CommitOk(d)'
    BY <1>2, SameChunksCommits DEF IInv
  <1>9. ASSUME NEW s \in Runs, s # r PROVE TaskOk(s)' /\ SearchOk(s)'
    <2>1. stage'[s] = stage[s] /\ listed'[s] = listed[s] /\ service'[s] = service[s]
      BY <1>4, <1>9 DEF IInv, TypeOK
    <2> QED
      BY <1>2, <1>5, <2>1, OthersKeep, SameChunksRefresh
  <1>10. TaskOk(r)'
    BY <1>2, <1>3, <1>4, <1>5 DEF IInv, TypeOK, TaskOk, Indexed, Investigating, Running, Raising
  <1>11. SearchOk(r)'
    <2>1. \A e \in evidence[r] : snapshot[r] \in Commits /\ (e.text \/ CutTwice(snapshot[r])')
      BY <1>3, <1>5 DEF SearchOk, CutTwice
    <2>2. CutOnce(c, rows)'
      BY <1>3, <1>5 DEF CutOnce
    <2>3. CASE /\ \A k \in rows : k.dim = dim
               /\ service' = [service EXCEPT ![r] = rows]
               /\ stage' = [stage EXCEPT ![r] = "search"]
      <3>1. stage'[r] = "search"
        BY <2>3 DEF IInv, TypeOK
      <3>2. CASE service'[r] = rows
        BY <1>1, <1>2, <1>3, <1>5, <2>1, <2>2, <2>3, <3>1, <3>2 DEF SearchOk, Unpinned, CutOnce
      <3> QED
        BY <2>3, <3>2 DEF IInv, TypeOK
    <2>4. CASE /\ listed' = [listed EXCEPT ![r] = IdsOf(Stale(rows))]
               /\ stage' = [stage EXCEPT ![r] = "embed"] /\ service' = service
      <3>1. stage'[r] = "embed" /\ listed'[r] = IdsOf(Stale(rows))
        BY <2>4 DEF IInv, TypeOK
      <3>2. \A k \in rows : k.dim = dim \/ k.id \in IdsOf(Stale(rows))
        BY DEF IdsOf, Stale
      <3>3. service[r] # None =>
              /\ up /\ snapshot[r] \in Commits /\ service[r] \subseteq ChunkRows
              /\ CutOnce(snapshot[r], service[r])' /\ \A k \in service[r] : k.dim = dim
        BY <1>3, <1>5, <2>4 DEF SearchOk, CutOnce
      <3> QED
        BY <1>1, <1>2, <1>3, <1>5, <2>1, <2>4, <3>1, <3>2, <3>3 DEF SearchOk, Unpinned
    <2> QED
      BY <1>4, <2>3, <2>4
  <1> QED
    BY <1>7, <1>8, <1>9, <1>10, <1>11 DEF IInv

\* A hit whose row is gone was cut otherwise than the rows that are there.
LEMMA GatherKeeps ==
  ASSUME IInv, NEW r \in Runs, Gather(r) PROVE IInv'
  <1>1. PICK id \in IdsOf(service[r]) :
          evidence' = [evidence EXCEPT ![r] = @ \union
            {[id |-> id, text |-> id \in IdsOf(chunks[snapshot[r]])]}]
    BY DEF Gather
  <1>2. PICK text : text = (id \in IdsOf(chunks[snapshot[r]]))
    OBVIOUS
  <1> DEFINE e == [id |-> id, text |-> text]
  <1>3. /\ up /\ stage[r] = "search"
        /\ evidence' = [evidence EXCEPT ![r] = @ \union {e}]
        /\ UNCHANGED <<stage, service, listed, chunks, splits, request, snapshot, pending, row,
                       checkpoint, page, refreshing, up, dim, restarts>>
        /\ UNCHANGED indexVars
    BY <1>1, <1>2 DEF Gather, indexVars, graphFrame, pageVars, worldVars
  <1>4. /\ TaskOk(r) /\ SearchOk(r) /\ snapshot[r] \in Commits /\ chunks[snapshot[r]] # {}
        /\ service[r] \subseteq ChunkRows /\ CutOnce(snapshot[r], service[r])
        /\ CutOnce(snapshot[r], chunks[snapshot[r]])
    BY <1>3 DEF IInv, SearchOk, CommitOk, Indexed, Investigating
  <1>5. id \in Ids /\ text \in BOOLEAN
    BY <1>2, <1>4 DEF IdsOf, ChunkRows
  <1>6. e \in [id : Ids, text : BOOLEAN] /\ e.text = text
    BY <1>5
  <1>7. text \/ CutTwice(snapshot[r])
    BY <1>2, <1>4 DEF CutOnce, CutTwice
  <1> HIDE DEF e
  <1>8. TypeOK'
    <2>1. evidence' \in [Runs -> SUBSET [id : Ids, text : BOOLEAN]]
      BY <1>3, <1>6 DEF IInv, TypeOK
    <2> QED
      BY <1>3, <2>1 DEF IInv, TypeOK
  <1>9. \A d \in Commits : CommitOk(d)'
    BY <1>3, SameChunksCommits DEF IInv
  <1>10. ASSUME NEW s \in Runs, s # r PROVE TaskOk(s)' /\ SearchOk(s)'
    <2>1. evidence'[s] = evidence[s]
      BY <1>3, <1>10 DEF IInv, TypeOK
    <2> QED
      BY <1>3, <2>1, OthersKeep, SameChunksRefresh
  <1>11. TaskOk(r)'
    BY <1>3, <1>4 DEF TaskOk
  <1>12. SearchOk(r)'
    <2>1. evidence'[r] = evidence[r] \union {e}
      BY <1>3 DEF IInv, TypeOK
    <2>2. \A d : CutTwice(d)' <=> CutTwice(d)
      BY <1>3 DEF CutTwice
    <2>3. \A f \in evidence[r] : f.text \/ CutTwice(snapshot[r])
      BY <1>4 DEF SearchOk
    <2>4. \A f \in evidence'[r] : f.text \/ CutTwice(snapshot[r])
      BY <1>6, <1>7, <2>1, <2>3
    <2>5. \A f \in evidence'[r] :
            /\ stage'[r] \notin Unpinned /\ snapshot'[r] \in Commits
            /\ f.text \/ CutTwice(snapshot[r])'
      BY <1>3, <1>4, <2>2, <2>4 DEF Unpinned, CutTwice
    <2>6. /\ chunks'[snapshot'[r]] # {} /\ service'[r] \subseteq ChunkRows
          /\ CutOnce(snapshot[r], service[r])' /\ \A k \in service'[r] : k.dim = dim'
      BY <1>3, <1>4 DEF SearchOk, CutOnce
    <2> QED
      BY <1>3, <1>4, <2>5, <2>6 DEF SearchOk, Unpinned
  <1> QED
    BY <1>8, <1>9, <1>10, <1>11, <1>12 DEF IInv

-----------------------------------------------------------------------------
(***************************************************************************)
(* Pages, crashes and restarts.                                            *)
(***************************************************************************)
PageStepOrOpen(r) == OpenPage(r) \/ PageStep(r)

\* A page only looks.
LEMMA PageKeeps ==
  ASSUME IInv, NEW r \in Runs, PageStepOrOpen(r) PROVE IInv'
  <1>1. UNCHANGED pageFrame
    BY DEF PageStepOrOpen, OpenPage, PageStep, Refresh, RefreshFails, LookForCheckpoint,
       LookForPending
  <1>2. page' \in [Runs -> Shown] /\ refreshing' \subseteq Runs
    <2> USE DEF IInv, TypeOK, Show, Shown, Asking
    <2>1. CASE OpenPage(r)
      BY <2>1 DEF OpenPage
    <2>2. CASE Refresh(r)
      BY <2>2 DEF Refresh
    <2>3. CASE RefreshFails(r)
      BY <2>3 DEF RefreshFails
    <2>4. CASE LookForCheckpoint(r)
      BY <2>4 DEF LookForCheckpoint
    <2>5. CASE LookForPending(r)
      BY <2>5 DEF LookForPending
    <2> QED
      BY <2>1, <2>2, <2>3, <2>4, <2>5 DEF PageStepOrOpen, PageStep
  <1>3. UNCHANGED <<stage, request, snapshot, pending, row, checkpoint, chunks, splits,
                    service, listed, evidence, up, dim, restarts, indexVars>>
    BY <1>1 DEF pageFrame, taskVars, indexVars, graphVars, worldVars
  <1>4. TypeOK'
    BY <1>2, <1>3 DEF IInv, TypeOK
  <1>5. \A d \in Commits : CommitOk(d)'
    BY <1>3, SameChunksCommits DEF IInv
  <1>6. \A s \in Runs : TaskOk(s)' /\ SearchOk(s)'
    BY <1>3, OthersKeep, SameChunksRefresh
  <1> QED
    BY <1>4, <1>5, <1>6 DEF IInv

\* A crash leaves nothing in memory, and no task.
LEMMA CrashKeeps ==
  ASSUME IInv, Crash PROVE IInv'
  <1>1. /\ up' = FALSE /\ restarts < MaxRestarts /\ restarts' = restarts + 1
        /\ stage' = [r \in Runs |-> IF stage[r] \in Running THEN "dead" ELSE stage[r]]
        /\ pending' = [r \in Runs |-> None]
        /\ service' = [r \in Runs |-> None]
        /\ listed' = [r \in Runs |-> {}]
        /\ page' = [r \in Runs |-> IF page[r] \in Asking THEN "unreachable" ELSE page[r]]
        /\ refreshing' \subseteq refreshing
        /\ UNCHANGED <<request, snapshot, row, checkpoint, evidence, chunks, splits, dim, indexVars>>
    BY DEF Crash, indexVars
  <1>2. restarts' \in 0..MaxRestarts /\ restarts' # 0
    BY <1>1, AutoRunAssumption DEF IInv, TypeOK
  <1>3. TypeOK'
    <2>1. /\ stage' \in [Runs -> Stages] /\ page' \in [Runs -> Shown]
          /\ \A r \in Runs : stage'[r] # "none" => request'[r] # None
      BY <1>1 DEF IInv, TypeOK, Stages, Running, Raising, Shown, Asking
    <2>2. /\ pending' \in [Runs -> {None, "ingesting", "indexing", "investigating", "failed"}]
          /\ service' \in [Runs -> {None} \union SUBSET ChunkRows]
          /\ listed' \in [Runs -> SUBSET Ids] /\ refreshing' \subseteq Runs
      BY <1>1 DEF IInv, TypeOK
    <2> QED
      BY <1>1, <1>2, <2>1, <2>2 DEF IInv, TypeOK
  <1>4. \A d \in Commits : CommitOk(d)'
    BY <1>1, SameChunksCommits DEF IInv
  <1>5. ASSUME NEW r \in Runs PROVE TaskOk(r)' /\ SearchOk(r)'
    <2>1. TaskOk(r) /\ SearchOk(r)
      BY DEF IInv
    <2>2. /\ stage'[r] = IF stage[r] \in Running THEN "dead" ELSE stage[r]
          /\ service'[r] = None
      BY <1>1
    <2>3. /\ stage'[r] \notin Running /\ (stage'[r] \in Unpinned => stage[r] \in Unpinned)
          /\ stage'[r] = "done" => stage[r] = "done"
      BY <2>2 DEF Running, Raising, Unpinned
    <2>4. TaskOk(r)'
      BY <1>1, <1>2, <2>1, <2>3 DEF TaskOk, Running, Raising, Indexed, Investigating
    <2>5. \A e \in evidence'[r] :
            /\ stage'[r] \notin Unpinned /\ snapshot'[r] \in Commits
            /\ e.text \/ CutTwice(snapshot[r])'
      BY <1>1, <2>1, <2>3 DEF SearchOk, CutTwice
    <2>6. stage'[r] \notin Indexed \union {"search"}
      BY <2>3 DEF Running, Raising, Indexed, Investigating
    <2>7. SearchOk(r)'
      BY <1>1, <2>2, <2>5, <2>6 DEF SearchOk, CutTwice, Indexed, Investigating
    <2> QED
      BY <2>4, <2>7
  <1> QED
    BY <1>3, <1>4, <1>5 DEF IInv

\* Nobody has an index in memory when another embedder comes.
LEMMA RestartKeeps ==
  ASSUME IInv, Restart PROVE IInv'
  <1>1. /\ ~up /\ up' = TRUE /\ dim' \in Dims
        /\ UNCHANGED <<stage, request, snapshot, pending, row, checkpoint, chunks, splits,
                       service, listed, evidence, page, refreshing, restarts, indexVars>>
    BY DEF Restart, taskVars, indexVars, graphVars, pageVars
  <1>2. TypeOK'
    BY <1>1 DEF IInv, TypeOK
  <1>3. \A d \in Commits : CommitOk(d)'
    BY <1>1, SameChunksCommits DEF IInv
  <1>4. ASSUME NEW r \in Runs PROVE TaskOk(r)' /\ SearchOk(r)'
    <2>1. TaskOk(r) /\ SearchOk(r)
      BY DEF IInv
    <2>2. stage[r] \notin Running /\ service[r] = None
      BY <1>1, <2>1 DEF TaskOk, SearchOk
    <2>3. TaskOk(r)'
      BY <1>1, <2>1 DEF TaskOk
    <2>4. stage[r] \notin Indexed
      BY <2>2 DEF Running, Raising, Indexed, Investigating
    <2>5. \A e \in evidence[r] : /\ stage[r] \notin Unpinned /\ snapshot[r] \in Commits
                                 /\ e.text \/ CutTwice(snapshot[r])'
      BY <1>1, <2>1 DEF SearchOk, CutTwice
    <2>6. SearchOk(r)'
      BY <1>1, <2>2, <2>4, <2>5 DEF SearchOk, CutTwice, Indexed, Investigating
    <2> QED
      BY <2>3, <2>6
  <1> QED
    BY <1>2, <1>3, <1>4 DEF IInv

-----------------------------------------------------------------------------
\* A server without runs has it all.
LEMMA InitIInv == Init => IInv
  <1> SUFFICES ASSUME Init PROVE IInv
    OBVIOUS
  <1>1. TypeOK
    BY AutoRunAssumption DEF Init, TypeOK, Stages, Shown
  <1>2. \A c \in Commits : CommitOk(c)
    BY FS_EmptySet DEF Init, CommitOk
  <1>3. \A r \in Runs : TaskOk(r)
    BY DEF Init, TaskOk, Indexed, Investigating, Running, Raising
  <1>4. \A r \in Runs : SearchOk(r)
    BY DEF Init, SearchOk, Indexed, Investigating
  <1> QED
    BY <1>1, <1>2, <1>3, <1>4 DEF IInv

\* Every step keeps the invariant.
LEMMA NextIInv == IInv /\ [Next]_vars => IInv'
  <1> SUFFICES ASSUME IInv, [Next]_vars PROVE IInv'
    OBVIOUS
  <1>1. ASSUME NEW r \in Runs, Accept(r) \/ AcceptPlan(r) \/ OpenPage(r) \/ PageStep(r) PROVE IInv'
    BY <1>1, PlainKeeps, PageKeeps DEF PlainStep, PageStepOrOpen
  <1>2. ASSUME NEW r \in Runs, TaskStep(r) PROVE IInv'
    BY <1>2, PlainKeeps, IndexKeeps, EmbedKeeps, LoadKeeps, GatherKeeps DEF TaskStep, PlainStep
  <1>3. CASE UNCHANGED vars
    <2>1. UNCHANGED <<stage, request, snapshot, pending, row, checkpoint, chunks, splits,
                      service, listed, evidence, page, refreshing, up, dim, restarts, indexVars>>
      BY <1>3 DEF vars, taskVars, indexVars, graphVars, pageVars, worldVars
    <2>2. TypeOK'
      BY <2>1 DEF IInv, TypeOK
    <2>3. \A d \in Commits : CommitOk(d)'
      BY <2>1, SameChunksCommits DEF IInv
    <2>4. \A s \in Runs : TaskOk(s)' /\ SearchOk(s)'
      BY <2>1, OthersKeep, SameChunksRefresh
    <2> QED
      BY <2>2, <2>3, <2>4 DEF IInv
  <1> QED
    BY <1>1, <1>2, <1>3, CrashKeeps, RestartKeeps DEF Next

\* In every state: typed, runs pinned and shown, the index whole, searches comparable.
THEOREM AutoRunInvariant == Spec => []IInv
  BY InitIInv, NextIInv, PTL DEF Spec

\* The server that accepted a run (start_auto_run's 202) can show it at every moment, for
\* its pending entry is only cleared once there is a checkpoint.
THEOREM AcceptedIsVisibleHolds == Spec => []AcceptedIsVisible
  <1>1. IInv => AcceptedIsVisible
    BY DEF IInv, TypeOK, TaskOk, AcceptedIsVisible, Stages, Running
  <1> QED
    BY <1>1, AutoRunInvariant, PTL

\* What RetrievalService searches can be compared with the query, and what it finds has its
\* text as long as the commit was only ever cut in one way, whatever is indexed or embedded
\* meanwhile.
THEOREM SearchIsSoundHolds == Spec => []SearchIsSound
  <1>1. IInv => VectorsComparable
    BY DEF IInv, SearchOk, VectorsComparable
  <1>2. ASSUME IInv, NEW r \in Runs, NEW e \in evidence[r], Cardinality(splits[snapshot[r]]) = 1
        PROVE  e.text
    <2>1. snapshot[r] \in Commits /\ (e.text \/ CutTwice(snapshot[r])) /\ IsFiniteSet(splits[snapshot[r]])
      BY <1>2 DEF IInv, SearchOk, CommitOk
    <2>2. PICK s : splits[snapshot[r]] = {s}
      BY <1>2, <2>1, FS_Singleton
    <2>3. ~CutTwice(snapshot[r])
      BY <2>2 DEF CutTwice
    <2> QED
      BY <2>1, <2>3
  <1>3. IInv => SearchIsSound
    BY <1>1, <1>2 DEF SearchIsSound, EvidenceHasText
  <1> QED
    BY <1>3, AutoRunInvariant, PTL

\* A run that has come to its investigation finds its commit indexed (replace_chunks, one
\* transaction, never leaves a commit without rows).
THEOREM InvestigatedIsIndexedHolds == Spec => []InvestigatedIsIndexed
  <1>1. IInv => InvestigatedIsIndexed
    BY DEF IInv, SearchOk, InvestigatedIsIndexed, Indexed, Investigating
  <1> QED
    BY <1>1, AutoRunInvariant, PTL
=============================================================================
