-------------------------- MODULE IssuePlansProofs --------------------------
(***************************************************************************)
(* Proofs about resolution plans, for any number of requests, users,       *)
(* issues, request ids, commits upstream, crashes and database errors.     *)
(*                                                                         *)
(* Three arguments.  Who is between look-up and insert holds the lock, and *)
(* who is about to insert found no plan: so there is one plan per issue.   *)
(* The plan of a generating job is active, and a job is only started where *)
(* none is: so jobs do not meet.  And what a job carries while it works is *)
(* the result it found, with its evidence, until it has one of its own: so *)
(* all it saves, or puts back, is coherent.                                *)
(***************************************************************************)
EXTENDS IssuePlansProperties, SequenceTheorems, FiniteSetTheorems, TLAPS

CreateAsks == [user : Users, issue : Issues, request_id : Keys]
Creating == {"looking", "inserting", "colliding"}

IsGenerating(r) == jobs[r].stage \in Generating
IsRunning(r) == jobs[r].stage \in Generating \union {"account"}

\* A result stands with the excerpts and the commit it was written from.
Coherent(saved) ==
  saved.result # None => saved.sources = saved.result.job /\ saved.commit = saved.result.commit

\* A request on its way: who may insert is alone and found nothing.
RequestOk(r) ==
  /\ pc[r] \in Creating \union {"locking"} => ask[r] \in CreateAsks
  /\ pc[r] \in Creating => lock = r
  /\ pc[r] = "inserting" => PlansFor(ask[r]) = {}
  /\ pc[r] = "updating" => ask[r] \in [plan : Plans, snapshot : BOOLEAN]
  /\ pc[r] = "handing" => /\ ask[r] \in [plan : Plans, saved : SavedPlans]
                          /\ Coherent(ask[r].saved) /\ ask[r].saved.result # None
  /\ pc[r] \in InFlight \union {"idle"} => jobs[r].stage = "none"
  /\ ~up => pc[r] \notin InFlight /\ ~IsRunning(r)

RequestInv == \A r \in Requests : RequestOk(r)

\* Jobs work on active plans, each on one of its own.
JobInv ==
  /\ \A r \in Requests : IsRunning(r) => jobs[r].plan \in Plans
  /\ \A r \in Requests : IsGenerating(r) => Active(jobs[r].plan)
  /\ \A r, s \in Requests :
       IsGenerating(r) /\ IsGenerating(s) /\ jobs[r].plan = jobs[s].plan => r = s

\* What job j of request r carries at each stage.
JobText(r, j) ==
  /\ j.stage \in Generating \ {"scheduled"} => Coherent(j.original)
  /\ j.stage \in {"fetch", "clone"} =>
       j.original.result = None /\ j.saved.result = None /\ j.saved.commit = None
  /\ j.stage \in {"load", "index", "retrieve"} =>
       /\ j.saved.commit # None /\ j.saved.result = j.original.result
       /\ j.original.result # None => j.saved.commit = j.original.commit
                                      /\ j.saved.sources = j.original.sources
  /\ j.stage = "write" =>
       /\ j.saved.commit # None /\ j.saved.sources = r
       /\ j.original.result # None => j.saved.commit = j.original.commit

\* The rows hold coherent payloads, a job's own keeps the result the job found, and a
\* result is not by a job that is still to write one.
TextInv ==
  /\ \A p \in Plans : Coherent(rows[p].payload)
  /\ \A r \in Requests : JobText(r, jobs[r])
  /\ \A r \in Requests : jobs[r].stage \in Generating \ {"scheduled"} =>
       rows[jobs[r].plan].payload.result = jobs[r].original.result
  /\ \A p \in Plans : rows[p].payload.result # None =>
       jobs[rows[p].payload.result.job].stage \notin Generating \union {"none"}

HandedInv ==
  \A r \in Requests : handed[r] # None => handed[r].guidance.commit = handed[r].commit

IInv ==
  /\ TypeOK /\ RequestInv /\ JobInv /\ TextInv /\ OnePlanPerIssue /\ HandedInv
  /\ ActiveHasJob

-----------------------------------------------------------------------------
\* A step that changes status and payload of plan p, or nothing but its cost.
ChangesRow(p, status, payload) ==
  /\ rows' \in Seq(Rows) /\ Len(rows') = Len(rows)
  /\ \A n \in Plans :
       /\ rows'[n].owner = rows[n].owner /\ rows'[n].issue = rows[n].issue
       /\ rows'[n].request_id = rows[n].request_id
       /\ rows'[n].status = IF n = p THEN status ELSE rows[n].status
       /\ rows'[n].payload = IF n = p THEN payload ELSE rows[n].payload

\* The parts of a row have their types.
LEMMA RowsTyped ==
  ASSUME rows \in Seq(Rows)
  PROVE  /\ Len(rows) \in Nat /\ rows \in [Plans -> Rows]
         /\ \A p \in Plans : /\ rows[p] \in Rows /\ rows[p].payload \in SavedPlans
                             /\ rows[p].status \in PlanStatus /\ rows[p].cost \in Nat
                             /\ rows[p].owner \in Users /\ rows[p].issue \in Issues
  <1>1. Len(rows) \in Nat /\ rows \in [Plans -> Rows]
    BY LenProperties DEF Plans
  <1> QED
    BY <1>1 DEF Rows

\* A row replaced by one of the same owner, issue and request.
LEMMA RowReplaced ==
  ASSUME rows \in Seq(Rows), NEW p \in Plans, NEW row \in Rows,
         row.owner = rows[p].owner, row.issue = rows[p].issue,
         row.request_id = rows[p].request_id, rows' = [rows EXCEPT ![p] = row]
  PROVE  ChangesRow(p, row.status, row.payload)
  BY ExceptSeq DEF Plans, ChangesRow

\* What save_stage does to the table.
LEMMA SavedRow ==
  ASSUME rows \in Seq(Rows), NEW p \in Plans, NEW status \in PlanStatus, NEW saved \in SavedPlans,
         rows' = [rows EXCEPT ![p].status = status, ![p].payload = saved]
  PROVE  ChangesRow(p, status, saved)
  <1> DEFINE row == [rows[p] EXCEPT !.status = status, !.payload = saved]
  <1>1. rows[p] \in Rows /\ rows \in [Plans -> Rows]
    BY RowsTyped
  <1>2. /\ row \in Rows /\ row.status = status /\ row.payload = saved
        /\ row.owner = rows[p].owner /\ row.issue = rows[p].issue
        /\ row.request_id = rows[p].request_id
    BY <1>1 DEF Rows
  <1>3. rows' = [rows EXCEPT ![p] = row]
    BY <1>1
  <1> HIDE DEF row
  <1>4. ChangesRow(p, row.status, row.payload)
    BY <1>2, <1>3, RowReplaced
  <1> QED
    BY <1>2, <1>4

\* What a regeneration does to the table.
LEMMA StatusRow ==
  ASSUME rows \in Seq(Rows), NEW p \in Plans, NEW status \in PlanStatus,
         rows' = [rows EXCEPT ![p].status = status]
  PROVE  ChangesRow(p, status, rows[p].payload)
  <1> DEFINE row == [rows[p] EXCEPT !.status = status]
  <1>1. rows[p] \in Rows /\ rows \in [Plans -> Rows]
    BY RowsTyped
  <1>2. /\ row \in Rows /\ row.status = status /\ row.payload = rows[p].payload
        /\ row.owner = rows[p].owner /\ row.issue = rows[p].issue
        /\ row.request_id = rows[p].request_id
    BY <1>1 DEF Rows
  <1>3. rows' = [rows EXCEPT ![p] = row]
    BY <1>1
  <1> HIDE DEF row
  <1>4. ChangesRow(p, row.status, row.payload)
    BY <1>2, <1>3, RowReplaced
  <1> QED
    BY <1>2, <1>4

\* What the accounting does to the table: status and payload stay.
LEMMA CostRow ==
  ASSUME rows \in Seq(Rows), NEW p \in Plans, NEW cost \in Nat,
         rows' = [rows EXCEPT ![p].cost = @ + cost]
  PROVE  ChangesRow(p, rows[p].status, rows[p].payload)
  <1> DEFINE sum == rows[p].cost + cost
             row == [rows[p] EXCEPT !.cost = sum]
  <1>1. rows[p] \in Rows /\ rows \in [Plans -> Rows] /\ sum \in Nat
    BY RowsTyped
  <1>0. rows' = [rows EXCEPT ![p].cost = sum]
    OBVIOUS
  <1> HIDE DEF sum
  <1>2. /\ row \in Rows /\ row.status = rows[p].status /\ row.payload = rows[p].payload
        /\ row.owner = rows[p].owner /\ row.issue = rows[p].issue
        /\ row.request_id = rows[p].request_id
    BY <1>1 DEF Rows
  <1>3. rows' = [rows EXCEPT ![p] = row]
    BY <1>0, <1>1
  <1> HIDE DEF row
  <1>4. ChangesRow(p, row.status, row.payload)
    BY <1>2, <1>3, RowReplaced
  <1> QED
    BY <1>2, <1>4

\* A step that leaves the table alone is a change to what is there.
LEMMA SameRows ==
  ASSUME rows \in Seq(Rows), UNCHANGED rows, NEW p \in Plans
  PROVE  ChangesRow(p, rows[p].status, rows[p].payload)
  BY DEF ChangesRow

\* Another row changes nothing about plans but their status and payload: whose they are
\* stays, and no plan appears.
LEMMA ChangesKeepOwners ==
  ASSUME NEW p, NEW status, NEW payload, ChangesRow(p, status, payload)
  PROVE  /\ Plans' = Plans /\ \A q : PlansFor(q)' = PlansFor(q)
         /\ OnePlanPerIssue => OnePlanPerIssue'
  BY DEF ChangesRow, Plans, PlansFor, OnePlanPerIssue

-----------------------------------------------------------------------------
\* A step of job r that takes it to the record j and leaves its plan as given.
JobMoves(r, j, status, payload) ==
  /\ IsRunning(r)
  /\ j \in Jobs /\ j.plan = jobs[r].plan /\ j.stage # "none"
  /\ jobs' = [jobs EXCEPT ![r] = j]
  /\ payload \in SavedPlans
  /\ ChangesRow(j.plan, status, payload)
  /\ UNCHANGED <<pc, ask, lock, handed, up>>

\* What such a step must keep: the job stays where it may be, its plan is active while it
\* generates, and what it leaves is coherent.
KeepsFaith(r, j, status, payload) ==
  LET row == rows[jobs[r].plan]
  IN  /\ j.stage \in Generating => IsGenerating(r) /\ status \in ACTIVE
      /\ j.stage \in Generating \ {"scheduled"} => payload.result = j.original.result
      /\ JobText(r, j) /\ Coherent(payload)
      /\ ~IsGenerating(r) => status = row.status /\ payload = row.payload
      /\ \/ payload.result = row.payload.result
         \/ /\ payload.result # None /\ payload.result.job = r /\ j.stage \notin Generating
            /\ IsGenerating(r) /\ status \notin ACTIVE
            /\ row.payload.result # None => payload.commit = row.payload.commit

\* A faithful move of one job keeps the invariant, but for ActiveHasJob.
LEMMA FaithKept ==
  ASSUME IInv, NEW r \in Requests, NEW j, NEW status, NEW payload,
         JobMoves(r, j, status, payload), KeepsFaith(r, j, status, payload),
         j.stage \in Generating \union {"account", "done", "dead"},
         j.stage \in Generating \union {"account"} => up
  PROVE  /\ RequestInv' /\ JobInv' /\ TextInv' /\ OnePlanPerIssue' /\ HandedInv'
         /\ rows' \in Seq(Rows) /\ jobs' \in [Requests -> Jobs]
  <1> USE DEF IInv, JobMoves, KeepsFaith
  <1>1. /\ Plans' = Plans /\ \A q : PlansFor(q)' = PlansFor(q) /\ OnePlanPerIssue'
    BY ChangesKeepOwners
  <1>2. /\ jobs \in [Requests -> Jobs] /\ jobs' \in [Requests -> Jobs]
        /\ jobs'[r] = j /\ \A s \in Requests : s # r => jobs'[s] = jobs[s]
    BY DEF TypeOK
  <1>3. rows' \in Seq(Rows)
    BY DEF ChangesRow
  <1>4. RequestInv'
    BY <1>1, <1>2 DEF RequestInv, RequestOk, IsRunning, Generating
  <1>5. JobInv'
    BY <1>1, <1>2 DEF JobInv, IsRunning, IsGenerating, Active, ChangesRow
  <1>6. TextInv'
    <2>1. \A p \in Plans' : Coherent(rows'[p].payload)
      BY <1>1 DEF ChangesRow, TextInv
    <2>2. \A s \in Requests : JobText(s, jobs'[s])
      BY <1>2 DEF TextInv
    <2>3. ASSUME NEW s \in Requests, jobs'[s].stage \in Generating \ {"scheduled"}
          PROVE  rows'[jobs'[s].plan].payload.result = jobs'[s].original.result
      <3>1. CASE s = r
        BY <1>2, <3>1, <2>3 DEF JobInv, ChangesRow
      <3>2. CASE s # r
        <4>1. /\ jobs'[s] = jobs[s] /\ jobs[s].plan \in Plans
              /\ rows[jobs[s].plan].payload.result = jobs[s].original.result
          BY <1>2, <2>3, <3>2 DEF TextInv, JobInv, IsRunning
        <4>2. rows'[jobs[s].plan].payload = rows[jobs[s].plan].payload
          BY <2>3, <3>2, <4>1 DEF ChangesRow, JobInv, IsGenerating
        <4> QED
          BY <4>1, <4>2
      <3> QED
        BY <3>1, <3>2
    <2>4. ASSUME NEW p \in Plans', rows'[p].payload.result # None
          PROVE  jobs'[rows'[p].payload.result.job].stage \notin Generating \union {"none"}
      <3>0. p \in Plans /\ rows[p].payload \in SavedPlans
        BY <1>1, <2>4, RowsTyped DEF TypeOK
      <3>1. CASE rows'[p].payload.result = rows[p].payload.result
        <4>1. /\ rows[p].payload.result.job \in Requests
              /\ jobs[rows[p].payload.result.job].stage \notin Generating \union {"none"}
          BY <2>4, <3>0, <3>1 DEF TextInv, SavedPlans, Results
        <4> QED
          BY <1>2, <3>1, <4>1 DEF IsGenerating
      <3>2. CASE rows'[p].payload.result # rows[p].payload.result
        <4>1. p = j.plan /\ rows'[p].payload = payload
          BY <3>0, <3>2 DEF ChangesRow
        <4> QED
          BY <1>2, <3>2, <4>1
      <3> QED
        BY <3>1, <3>2
    <2> QED
      BY <2>1, <2>2, <2>3, <2>4 DEF TextInv
  <1>7. HandedInv'
    BY DEF HandedInv
  <1> QED
    BY <1>1, <1>2, <1>3, <1>4, <1>5, <1>6, <1>7

-----------------------------------------------------------------------------
\* Database errors strand plans; nothing else does.
LEMMA StrandedBound ==
  ASSUME rows \in Seq(Rows), rows' \in Seq(Rows), storeFaults \in Nat,
         ActiveHasJob, up,
         \/ Stranded' \subseteq Stranded /\ storeFaults' = storeFaults
         \/ storeFaults' = storeFaults + 1 /\ \E p : Stranded' \subseteq Stranded \union {p}
  PROVE  ActiveHasJob'
  <1>1. IsFiniteSet(Stranded) /\ IsFiniteSet(Stranded')
    <2>1. Len(rows) \in Nat /\ Len(rows') \in Nat
      BY LenProperties
    <2>2. IsFiniteSet(Plans) /\ IsFiniteSet(Plans')
      BY <2>1, FS_Interval DEF Plans
    <2> QED
      BY <2>2, FS_Subset DEF Stranded
  <1>2. Cardinality(Stranded) <= storeFaults
    BY DEF ActiveHasJob
  <1>3. CASE Stranded' \subseteq Stranded /\ storeFaults' = storeFaults
    <2>1. Cardinality(Stranded') <= Cardinality(Stranded)
      BY <1>1, <1>3, FS_Subset
    <2> QED
      BY <1>1, <1>2, <1>3, <2>1, FS_CardinalityType DEF ActiveHasJob
  <1>4. CASE storeFaults' = storeFaults + 1 /\ \E p : Stranded' \subseteq Stranded \union {p}
    <2>1. PICK p : Stranded' \subseteq Stranded \union {p}
      BY <1>4
    <2>0. Cardinality(Stranded) \in Nat
      BY <1>1, FS_CardinalityType
    <2>2. /\ IsFiniteSet(Stranded \union {p})
          /\ Cardinality(Stranded \union {p}) <= Cardinality(Stranded) + 1
      <3> DEFINE A == Stranded
      <3>1. /\ IsFiniteSet(A \union {p})
            /\ Cardinality(A \union {p}) = IF p \in A THEN Cardinality(A) ELSE Cardinality(A) + 1
        <4> HIDE DEF A
        <4>1. IsFiniteSet(A)
          BY <1>1 DEF A
        <4> QED
          BY <4>1, FS_AddElement
      <3> HIDE DEF A
      <3>2. Cardinality(A) \in Nat
        BY <2>0 DEF A
      <3>3. Cardinality(A \union {p}) <= Cardinality(A) + 1
        BY <3>1, <3>2
      <3> QED
        BY <3>1, <3>3 DEF A
    <2>3. Cardinality(Stranded') <= Cardinality(Stranded \union {p})
      BY <2>1, <2>2, FS_Subset
    <2>4. /\ Cardinality(Stranded) \in Nat /\ Cardinality(Stranded') \in Nat
          /\ Cardinality(Stranded \union {p}) \in Nat
      BY <1>1, <2>2, FS_CardinalityType
    <2> QED
      BY <1>2, <1>4, <2>2, <2>3, <2>4 DEF ActiveHasJob
  <1> QED
    BY <1>3, <1>4

\* A job that goes on, or ends with its plan settled, strands nothing.
LEMMA MovesStrandNothing ==
  ASSUME IInv, NEW r \in Requests, NEW j, NEW status, NEW payload,
         JobMoves(r, j, status, payload), KeepsFaith(r, j, status, payload)
  PROVE  /\ Stranded' \subseteq Stranded \union {j.plan}
         /\ (IsGenerating(r) /\ status \in ACTIVE => j.stage \in Generating)
              => Stranded' \subseteq Stranded
  <1> USE DEF IInv, JobMoves
  <1>1. /\ jobs'[r] = j /\ jobs[r].plan = j.plan /\ j.plan \in Plans
        /\ \A s \in Requests : s # r => jobs'[s] = jobs[s]
    BY DEF TypeOK, JobInv
  <1>2. Plans' = Plans
    BY ChangesKeepOwners
  <1>3. ASSUME NEW p \in Stranded', p # j.plan PROVE p \in Stranded
    BY <1>1, <1>2, <1>3 DEF Stranded, JobsOn, Active, ChangesRow
  <1>4. ASSUME IsGenerating(r) /\ status \in ACTIVE => j.stage \in Generating,
               j.plan \in Stranded'
        PROVE  j.plan \in Stranded
    <2>1. rows'[j.plan].status = status /\ status \in ACTIVE
      BY <1>1, <1>4 DEF Stranded, Active, ChangesRow
    <2>2. ~IsGenerating(r)
      BY <1>1, <1>4, <2>1 DEF Stranded, JobsOn
    <2>3. rows[j.plan].status = status
      BY <1>1, <2>2 DEF KeepsFaith
    <2> QED
      BY <1>1, <1>2, <1>4, <2>1, <2>2, <2>3 DEF Stranded, JobsOn, Active, IsGenerating
  <1> QED
    BY <1>3, <1>4

\* A step of a job that keeps the invariant; StoreRaises strands the job's plan.
Faithful(r) ==
  \E j \in Jobs, status \in PlanStatus, payload \in SavedPlans :
    /\ JobMoves(r, j, status, payload) /\ KeepsFaith(r, j, status, payload)
    /\ \/ storeFaults' = storeFaults
          /\ (IsGenerating(r) /\ status \in ACTIVE => j.stage \in Generating)
       \/ storeFaults' = storeFaults + 1

\* The same with ActiveHasJob.
LEMMA FaithfulKeeps ==
  ASSUME IInv, NEW r \in Requests, Faithful(r)
  PROVE  /\ RequestInv' /\ JobInv' /\ TextInv' /\ OnePlanPerIssue' /\ HandedInv'
         /\ ActiveHasJob' /\ rows' \in Seq(Rows) /\ jobs' \in [Requests -> Jobs]
  <1>1. PICK j \in Jobs, status \in PlanStatus, payload \in SavedPlans :
          /\ JobMoves(r, j, status, payload) /\ KeepsFaith(r, j, status, payload)
          /\ \/ storeFaults' = storeFaults
                /\ (IsGenerating(r) /\ status \in ACTIVE => j.stage \in Generating)
             \/ storeFaults' = storeFaults + 1
    BY DEF Faithful
  <1>2. up /\ j.stage \in Generating \union {"account", "done", "dead"}
    BY <1>1 DEF IInv, RequestInv, RequestOk, JobMoves, Jobs, JobStages
  <1>3. /\ RequestInv' /\ JobInv' /\ TextInv' /\ OnePlanPerIssue' /\ HandedInv'
        /\ rows' \in Seq(Rows) /\ jobs' \in [Requests -> Jobs]
    BY <1>1, <1>2, FaithKept
  <1>4. storeFaults \in Nat /\ rows \in Seq(Rows)
    BY PlansAssumption DEF IInv, TypeOK
  <1>5. ActiveHasJob'
    BY <1>1, <1>2, <1>3, <1>4, MovesStrandNothing, StrandedBound DEF IInv
  <1> QED
    BY <1>3, <1>5

-----------------------------------------------------------------------------
(***************************************************************************)
(* The steps of a job, one by one.                                         *)
(***************************************************************************)
LEMMA JobFields ==
  ASSUME jobs \in [Requests -> Jobs], NEW r \in Requests
  PROVE  /\ jobs[r] \in Jobs /\ jobs[r].stage \in JobStages /\ jobs[r].plan \in Nat
         /\ jobs[r].original \in SavedPlans /\ jobs[r].saved \in SavedPlans
         /\ jobs[r].spent \in {0, 1}
  BY DEF Jobs

\* A step that saves a stage is a move of the job; what is left to show is its faith.
LEMMA SavingMoves ==
  ASSUME IInv, NEW r \in Requests, NEW stage \in JobStages \ {"none"}, NEW status \in PlanStatus,
         NEW saved \in SavedPlans, NEW payload \in SavedPlans,
         IsRunning(r), SaveStage(r, status, payload), JobTo(r, stage, saved),
         UNCHANGED <<clientVars, up>>
  PROVE  \E j \in Jobs : /\ JobMoves(r, j, status, payload)
                         /\ j.stage = stage /\ j.saved = saved /\ j.original = jobs[r].original
                         /\ j.plan = jobs[r].plan
  <1>1. jobs \in [Requests -> Jobs] /\ jobs[r].spent \in {0, 1} /\ jobs[r].plan \in Plans
    BY JobFields DEF IInv, TypeOK, JobInv
  <1> DEFINE j == [jobs[r] EXCEPT !.stage = stage, !.saved = saved]
  <1>2. /\ j \in Jobs /\ j.stage = stage /\ j.saved = saved
        /\ j.original = jobs[r].original /\ j.plan = jobs[r].plan
    BY <1>1, JobFields DEF Jobs
  <1>3. jobs' = [jobs EXCEPT ![r] = j]
    BY <1>1 DEF JobTo
  <1> HIDE DEF j
  <1>4. ChangesRow(jobs[r].plan, status, payload)
    BY <1>1, SavedRow DEF SaveStage, IInv, TypeOK
  <1> QED
    BY <1>2, <1>3, <1>4 DEF JobMoves, clientVars

\* The issue is fetched before there is a result, so only the text changes.
LEMMA FetchFaithful ==
  ASSUME IInv, NEW r \in Requests, FetchIssue(r) PROVE Faithful(r)
  <1> DEFINE saved == [jobs[r].saved EXCEPT !.text = TRUE]
  <1>1. /\ jobs[r].saved \in SavedPlans /\ jobs[r].stage = "fetch"
        /\ IsGenerating(r) /\ IsRunning(r)
    BY JobFields DEF IInv, TypeOK, FetchIssue, At, IsGenerating, IsRunning, Generating
  <1>2. /\ saved \in SavedPlans /\ saved.result = jobs[r].saved.result
        /\ saved.commit = jobs[r].saved.commit /\ saved.sources = jobs[r].saved.sources
    BY <1>1 DEF SavedPlans
  <1>3. /\ SaveStage(r, "preparing", saved) /\ JobTo(r, "clone", saved)
        /\ UNCHANGED <<clientVars, up, storeFaults>>
    BY DEF FetchIssue, worldVars
  <1> HIDE DEF saved
  <1>4. PICK j \in Jobs : /\ JobMoves(r, j, "preparing", saved)
                          /\ j.stage = "clone" /\ j.saved = saved
                          /\ j.original = jobs[r].original /\ j.plan = jobs[r].plan
    BY <1>1, <1>2, <1>3, SavingMoves DEF JobStages, Generating, PlanStatus, ACTIVE
  <1>5. /\ JobText(r, jobs[r]) /\ rows[jobs[r].plan].payload.result = jobs[r].original.result
    BY <1>1 DEF IInv, TextInv, Generating
  <1>6. KeepsFaith(r, j, "preparing", saved)
    BY <1>1, <1>2, <1>4, <1>5 DEF KeepsFaith, JobText, Coherent, ACTIVE, Generating
  <1> QED
    BY <1>2, <1>3, <1>4, <1>6 DEF Faithful, PlanStatus, ACTIVE, Generating

\* What is known of a running job and of its plan.
LEMMA JobKnown ==
  ASSUME IInv, NEW r \in Requests, IsRunning(r)
  PROVE  /\ jobs[r] \in Jobs /\ jobs[r].plan \in Plans /\ jobs[r].spent \in {0, 1}
         /\ jobs[r].original \in SavedPlans /\ jobs[r].saved \in SavedPlans
         /\ rows[jobs[r].plan].payload \in SavedPlans
         /\ rows[jobs[r].plan].status \in PlanStatus
         /\ Coherent(rows[jobs[r].plan].payload) /\ JobText(r, jobs[r]) /\ up
         /\ IsGenerating(r) => rows[jobs[r].plan].status \in ACTIVE
         /\ jobs[r].stage \in Generating \ {"scheduled"} =>
              rows[jobs[r].plan].payload.result = jobs[r].original.result
  <1>1. jobs[r] \in Jobs /\ jobs[r].plan \in Plans /\ rows \in Seq(Rows)
    BY DEF IInv, TypeOK, JobInv
  <1>2. /\ jobs[r].spent \in {0, 1}
        /\ jobs[r].original \in SavedPlans /\ jobs[r].saved \in SavedPlans
    BY <1>1 DEF Jobs
  <1>3. /\ rows[jobs[r].plan].payload \in SavedPlans
        /\ rows[jobs[r].plan].status \in PlanStatus
    BY <1>1, RowsTyped
  <1>4. up
    BY DEF IInv, TypeOK, RequestInv, RequestOk
  <1> QED
    BY <1>1, <1>2, <1>3, <1>4 DEF IInv, TextInv, JobInv, Active

\* The first clone pins the plan, which has no result yet.
LEMMA CloneFaithful ==
  ASSUME IInv, NEW r \in Requests, CloneSnapshot(r) PROVE Faithful(r)
  <1> DEFINE saved == [jobs[r].saved EXCEPT !.commit = head]
  <1>1. jobs[r].stage = "clone" /\ IsGenerating(r) /\ IsRunning(r)
    BY DEF CloneSnapshot, At, IsGenerating, IsRunning, Generating
  <1>2. jobs[r].saved \in SavedPlans /\ head \in Commits /\ head # None
    BY <1>1, JobKnown, NoneAssumption DEF IInv, TypeOK
  <1>3. /\ saved \in SavedPlans /\ saved.result = jobs[r].saved.result
        /\ saved.commit = head
    BY <1>2 DEF SavedPlans
  <1>4. /\ SaveStage(r, "preparing", saved) /\ JobTo(r, "index", saved)
        /\ UNCHANGED <<clientVars, up, storeFaults>>
    BY DEF CloneSnapshot, worldVars
  <1> HIDE DEF saved
  <1>5. PICK j \in Jobs : /\ JobMoves(r, j, "preparing", saved)
                          /\ j.stage = "index" /\ j.saved = saved
                          /\ j.original = jobs[r].original /\ j.plan = jobs[r].plan
    BY <1>1, <1>3, <1>4, SavingMoves DEF JobStages, Generating, PlanStatus, ACTIVE
  <1>6. KeepsFaith(r, j, "preparing", saved)
    BY <1>1, <1>2, <1>3, <1>5, JobKnown DEF KeepsFaith, JobText, Coherent, ACTIVE, Generating
  <1> QED
    BY <1>3, <1>4, <1>5, <1>6 DEF Faithful, PlanStatus, ACTIVE, Generating

\* Loading the snapshot again saves what the job found.
LEMMA LoadFaithful ==
  ASSUME IInv, NEW r \in Requests, LoadSnapshot(r) PROVE Faithful(r)
  <1>1. jobs[r].stage = "load" /\ IsGenerating(r) /\ IsRunning(r)
    BY DEF LoadSnapshot, At, IsGenerating, IsRunning, Generating
  <1>2. jobs[r].saved \in SavedPlans
    BY <1>1, JobKnown
  <1>3. /\ SaveStage(r, "preparing", jobs[r].saved) /\ JobTo(r, "index", jobs[r].saved)
        /\ UNCHANGED <<clientVars, up, storeFaults>>
    BY DEF LoadSnapshot, worldVars
  <1>4. PICK j \in Jobs : /\ JobMoves(r, j, "preparing", jobs[r].saved)
                          /\ j.stage = "index" /\ j.saved = jobs[r].saved
                          /\ j.original = jobs[r].original /\ j.plan = jobs[r].plan
    BY <1>1, <1>2, <1>3, SavingMoves DEF JobStages, Generating, PlanStatus, ACTIVE
  <1>5. KeepsFaith(r, j, "preparing", jobs[r].saved)
    BY <1>1, <1>2, <1>4, JobKnown DEF KeepsFaith, JobText, Coherent, ACTIVE, Generating
  <1> QED
    BY <1>2, <1>3, <1>4, <1>5 DEF Faithful, PlanStatus, ACTIVE, Generating

\* So does indexing it.
LEMMA IndexFaithful ==
  ASSUME IInv, NEW r \in Requests, IndexSnapshot(r) PROVE Faithful(r)
  <1>1. jobs[r].stage = "index" /\ IsGenerating(r) /\ IsRunning(r)
    BY DEF IndexSnapshot, At, IsGenerating, IsRunning, Generating
  <1>2. jobs[r].saved \in SavedPlans
    BY <1>1, JobKnown
  <1>3. /\ SaveStage(r, "retrieving", jobs[r].saved) /\ JobTo(r, "retrieve", jobs[r].saved)
        /\ UNCHANGED <<clientVars, up, storeFaults>>
    BY DEF IndexSnapshot, worldVars
  <1>4. PICK j \in Jobs : /\ JobMoves(r, j, "retrieving", jobs[r].saved)
                          /\ j.stage = "retrieve" /\ j.saved = jobs[r].saved
                          /\ j.original = jobs[r].original /\ j.plan = jobs[r].plan
    BY <1>1, <1>2, <1>3, SavingMoves DEF JobStages, Generating, PlanStatus, ACTIVE
  <1>5. KeepsFaith(r, j, "retrieving", jobs[r].saved)
    BY <1>1, <1>2, <1>4, JobKnown DEF KeepsFaith, JobText, Coherent, ACTIVE, Generating
  <1> QED
    BY <1>2, <1>3, <1>4, <1>5 DEF Faithful, PlanStatus, ACTIVE, Generating

\* What is shown meanwhile is the old result, if there is one, with its old excerpts.
LEMMA RetrieveFaithful ==
  ASSUME IInv, NEW r \in Requests, Retrieve(r) PROVE Faithful(r)
  <1> DEFINE saved    == [jobs[r].saved EXCEPT !.sources = r]
             original == jobs[r].original
             restored == [saved EXCEPT !.sources = original.sources]
             interim  == IF original.result # None THEN restored ELSE saved
  <1>1. jobs[r].stage = "retrieve" /\ IsGenerating(r) /\ IsRunning(r)
    BY DEF Retrieve, At, IsGenerating, IsRunning, Generating
  <1>2. jobs[r].saved \in SavedPlans /\ original \in SavedPlans
    BY <1>1, JobKnown
  <1>3. /\ saved \in SavedPlans /\ saved.result = jobs[r].saved.result
        /\ saved.commit = jobs[r].saved.commit /\ saved.sources = r
    BY <1>2 DEF SavedPlans
  <1>4. /\ SaveStage(r, "writing", interim) /\ JobTo(r, "write", saved)
        /\ UNCHANGED <<clientVars, up, storeFaults>>
    BY DEF Retrieve, worldVars
  <1> HIDE DEF saved
  <1>5. /\ restored \in SavedPlans /\ restored.result = saved.result
        /\ restored.commit = saved.commit /\ restored.sources = original.sources
    BY <1>2, <1>3 DEF SavedPlans
  <1> HIDE DEF restored
  <1>6. /\ interim \in SavedPlans /\ interim.result = saved.result
        /\ interim.commit = saved.commit
        /\ original.result # None => interim.sources = original.sources
    BY <1>3, <1>5
  <1> HIDE DEF interim
  <1>7. PICK j \in Jobs : /\ JobMoves(r, j, "writing", interim)
                          /\ j.stage = "write" /\ j.saved = saved
                          /\ j.original = jobs[r].original /\ j.plan = jobs[r].plan
    BY <1>1, <1>3, <1>4, <1>6, SavingMoves DEF JobStages, Generating, PlanStatus, ACTIVE
  <1>8. KeepsFaith(r, j, "writing", interim)
    BY <1>1, <1>3, <1>6, <1>7, JobKnown DEF KeepsFaith, JobText, Coherent, ACTIVE, Generating
  <1> QED
    BY <1>4, <1>6, <1>7, <1>8 DEF Faithful, PlanStatus, ACTIVE, Generating

\* The only result a job adds is its own, with its own excerpts.
LEMMA WriteFaithful ==
  ASSUME IInv, NEW r \in Requests, WritePlan(r) PROVE Faithful(r)
  <1> DEFINE result == [job |-> r, commit |-> jobs[r].saved.commit]
             saved  == [jobs[r].saved EXCEPT !.result = result]
             j      == [jobs[r] EXCEPT !.stage = "account", !.saved = saved, !.spent = 1]
  <1>1. jobs[r].stage = "write" /\ IsGenerating(r) /\ IsRunning(r)
    BY DEF WritePlan, At, IsGenerating, IsRunning, Generating
  <1>2. /\ jobs[r] \in Jobs /\ jobs[r].saved \in SavedPlans /\ jobs[r].plan \in Plans
        /\ jobs[r].saved.commit # None /\ jobs[r].saved.sources = r
    BY <1>1, JobKnown DEF JobText
  <1>3. jobs[r].saved.commit \in Commits
    BY <1>2 DEF SavedPlans
  <1>4. /\ result \in Results /\ result # None /\ result.job = r
        /\ result.commit = jobs[r].saved.commit
    BY <1>3, NoneAssumption DEF Results
  <1> HIDE DEF result
  <1>5. /\ saved \in SavedPlans /\ saved.result = result
        /\ saved.commit = jobs[r].saved.commit /\ saved.sources = r
    BY <1>2, <1>4 DEF SavedPlans
  <1>6. /\ rows' = [rows EXCEPT ![jobs[r].plan].status = "ready",
                                ![jobs[r].plan].payload = saved]
        /\ jobs' = [jobs EXCEPT ![r].stage = "account", ![r].saved = saved, ![r].spent = 1]
        /\ UNCHANGED <<clientVars, up, storeFaults>>
    BY DEF WritePlan, SaveStage, worldVars, result
  <1> HIDE DEF saved
  <1>7. j \in Jobs /\ j.stage = "account" /\ j.plan = jobs[r].plan /\ j.saved = saved
    BY <1>2, <1>5 DEF Jobs, JobStages
  <1>8. jobs' = [jobs EXCEPT ![r] = j]
    BY <1>6
  <1> HIDE DEF j
  <1>9. ChangesRow(jobs[r].plan, "ready", saved)
    BY <1>2, <1>5, <1>6, SavedRow DEF IInv, TypeOK, PlanStatus
  <1>10. JobMoves(r, j, "ready", saved)
    BY <1>1, <1>5, <1>6, <1>7, <1>8, <1>9 DEF JobMoves, clientVars
  <1>12. rows[jobs[r].plan].payload.result # None => saved.commit = rows[jobs[r].plan].payload.commit
    BY <1>1, <1>5, JobKnown DEF JobText, Coherent, Generating
  <1>11. KeepsFaith(r, j, "ready", saved)
    BY <1>1, <1>4, <1>5, <1>7, <1>12 DEF KeepsFaith, JobText, Coherent, ACTIVE, Generating
  <1> QED
    BY <1>5, <1>6, <1>7, <1>10, <1>11 DEF Faithful, PlanStatus, ACTIVE

\* A job begins with a plan that has no commit and so no result, or that has both or none.
LEMMA ReadFaithful ==
  ASSUME IInv, NEW r \in Requests, ReadPlan(r) PROVE Faithful(r)
  <1> DEFINE payload == rows[jobs[r].plan].payload
             stage == IF payload.commit # None THEN "load" ELSE "fetch"
             j == [jobs[r] EXCEPT !.stage = stage, !.original = payload, !.saved = payload]
  <1>1. jobs[r].stage = "scheduled" /\ IsGenerating(r) /\ IsRunning(r)
    BY DEF ReadPlan, At, IsGenerating, IsRunning, Generating
  <1>2. /\ jobs[r] \in Jobs /\ jobs[r].plan \in Plans /\ payload \in SavedPlans
        /\ Coherent(payload) /\ rows[jobs[r].plan].status \in ACTIVE
    BY <1>1, JobKnown
  <1>3. payload.commit = None => payload.result = None
    BY <1>2, NoneAssumption DEF Coherent, SavedPlans, Results
  <1>4. jobs' = [jobs EXCEPT ![r].stage = stage, ![r].original = payload, ![r].saved = payload]
    BY DEF ReadPlan
  <1>5. ChangesRow(jobs[r].plan, rows[jobs[r].plan].status, payload)
    BY <1>2, SameRows DEF ReadPlan, IInv, TypeOK
  <1>6. stage \in {"load", "fetch"} /\ (stage = "load" <=> payload.commit # None)
    OBVIOUS
  <1> HIDE DEF payload, stage
  <1>7. /\ j \in Jobs /\ j.stage = stage /\ j.plan = jobs[r].plan
        /\ j.saved = payload /\ j.original = payload
    BY <1>2, <1>6 DEF Jobs, JobStages, Generating
  <1>8. jobs' = [jobs EXCEPT ![r] = j]
    BY <1>4
  <1> HIDE DEF j
  <1>9. JobMoves(r, j, rows[jobs[r].plan].status, payload)
    BY <1>1, <1>2, <1>5, <1>6, <1>7, <1>8 DEF JobMoves, ReadPlan, clientVars, worldVars
  <1>10. KeepsFaith(r, j, rows[jobs[r].plan].status, payload)
    BY <1>1, <1>2, <1>3, <1>6, <1>7 DEF KeepsFaith, JobText, Generating, payload
  <1>11. storeFaults' = storeFaults /\ j.stage \in Generating
    BY <1>6, <1>7 DEF ReadPlan, worldVars, Generating
  <1> QED
    BY <1>2, <1>7, <1>9, <1>10, <1>11 DEF Faithful, PlanStatus

\* A job that raises goes on to its except block and leaves its plan active.
LEMMA RaiseFaithful ==
  ASSUME IInv, NEW r \in Requests, JobRaises(r) PROVE Faithful(r)
  <1> DEFINE payload == rows[jobs[r].plan].payload
             status == rows[jobs[r].plan].status
  <1>1. /\ jobs[r].stage \in Generating \ {"scheduled"} /\ IsGenerating(r) /\ IsRunning(r)
    BY DEF JobRaises, IsGenerating, IsRunning, Generating
  <1>2. /\ jobs[r] \in Jobs /\ jobs[r].plan \in Plans /\ payload \in SavedPlans
        /\ Coherent(payload) /\ status \in ACTIVE
        /\ payload.result = jobs[r].original.result /\ JobText(r, jobs[r])
    BY <1>1, JobKnown
  <1>3. PICK cost \in {0, 1} :
          jobs' = [jobs EXCEPT ![r].stage = "failing", ![r].spent = cost]
    BY DEF JobRaises
  <1> DEFINE j == [jobs[r] EXCEPT !.stage = "failing", !.spent = cost]
  <1>4. ChangesRow(jobs[r].plan, status, payload)
    BY <1>2, SameRows DEF JobRaises, IInv, TypeOK
  <1> HIDE DEF payload, status
  <1>5. /\ j \in Jobs /\ j.stage = "failing" /\ j.plan = jobs[r].plan
        /\ j.original = jobs[r].original
    BY <1>2, <1>3 DEF Jobs, JobStages, Generating
  <1>6. jobs' = [jobs EXCEPT ![r] = j]
    BY <1>3
  <1> HIDE DEF j
  <1>7. JobMoves(r, j, status, payload)
    BY <1>1, <1>2, <1>4, <1>5, <1>6 DEF JobMoves, JobRaises, clientVars, worldVars
  <1>8. KeepsFaith(r, j, status, payload)
    BY <1>1, <1>2, <1>5 DEF KeepsFaith, JobText, Generating, payload
  <1>9. storeFaults' = storeFaults /\ j.stage \in Generating
    BY <1>5 DEF JobRaises, worldVars, Generating
  <1> QED
    BY <1>2, <1>5, <1>7, <1>8, <1>9 DEF Faithful, PlanStatus

\* What a failing job puts back is what it found, which was coherent.
LEMMA FailFaithful ==
  ASSUME IInv, NEW r \in Requests, FailPlan(r) PROVE Faithful(r)
  <1> DEFINE old == rows[jobs[r].plan].payload
             payload == IF jobs[r].original.result # None THEN jobs[r].original ELSE old
             j == [jobs[r] EXCEPT !.stage = "account"]
  <1>1. jobs[r].stage = "failing" /\ IsGenerating(r) /\ IsRunning(r)
    BY DEF FailPlan, At, IsGenerating, IsRunning, Generating
  <1>2. /\ jobs[r] \in Jobs /\ jobs[r].plan \in Plans /\ old \in SavedPlans
        /\ jobs[r].original \in SavedPlans /\ Coherent(old) /\ Coherent(jobs[r].original)
        /\ old.result = jobs[r].original.result
    BY <1>1, JobKnown DEF JobText, Generating
  <1>3. /\ rows' = [rows EXCEPT ![jobs[r].plan].status = "failed",
                                ![jobs[r].plan].payload = payload]
        /\ jobs' = [jobs EXCEPT ![r].stage = "account"]
    BY DEF FailPlan, SaveStage
  <1>4. payload \in SavedPlans /\ Coherent(payload) /\ payload.result = old.result
    BY <1>2
  <1> HIDE DEF payload
  <1>5. ChangesRow(jobs[r].plan, "failed", payload)
    BY <1>2, <1>3, <1>4, SavedRow DEF IInv, TypeOK, PlanStatus
  <1>6. j \in Jobs /\ j.stage = "account" /\ j.plan = jobs[r].plan
    BY <1>2 DEF Jobs, JobStages
  <1>7. jobs' = [jobs EXCEPT ![r] = j]
    BY <1>3
  <1> HIDE DEF j
  <1>8. JobMoves(r, j, "failed", payload)
    BY <1>1, <1>4, <1>5, <1>6, <1>7 DEF JobMoves, FailPlan, clientVars, worldVars
  <1>9. KeepsFaith(r, j, "failed", payload)
    BY <1>1, <1>4, <1>6 DEF KeepsFaith, JobText, Generating
  <1> QED
    BY <1>4, <1>6, <1>8, <1>9 DEF Faithful, PlanStatus, ACTIVE, FailPlan, worldVars

\* Accounting, and an error of the database, leave the plan as it is.
LEMMA AccountFaithful ==
  ASSUME IInv, NEW r \in Requests, AccountCost(r) PROVE Faithful(r)
  <1> DEFINE payload == rows[jobs[r].plan].payload
             status == rows[jobs[r].plan].status
             j == [jobs[r] EXCEPT !.stage = "done"]
  <1>1. jobs[r].stage = "account" /\ ~IsGenerating(r) /\ IsRunning(r)
    BY DEF AccountCost, At, IsGenerating, IsRunning, Generating
  <1>2. /\ jobs[r] \in Jobs /\ jobs[r].plan \in Plans /\ payload \in SavedPlans
        /\ Coherent(payload) /\ status \in PlanStatus /\ jobs[r].spent \in Nat
    BY <1>1, JobKnown
  <1>3. /\ rows' = [rows EXCEPT ![jobs[r].plan].cost = @ + jobs[r].spent]
        /\ jobs' = [jobs EXCEPT ![r].stage = "done"]
    BY DEF AccountCost
  <1>4. ChangesRow(jobs[r].plan, status, payload)
    BY <1>2, <1>3, CostRow DEF IInv, TypeOK
  <1>5. j \in Jobs /\ j.stage = "done" /\ j.plan = jobs[r].plan
    BY <1>2 DEF Jobs, JobStages
  <1>6. jobs' = [jobs EXCEPT ![r] = j]
    BY <1>3
  <1> HIDE DEF payload, status, j
  <1>7. JobMoves(r, j, status, payload)
    BY <1>1, <1>2, <1>4, <1>5, <1>6 DEF JobMoves, AccountCost, clientVars, worldVars
  <1>8. KeepsFaith(r, j, status, payload)
    BY <1>1, <1>2, <1>5 DEF KeepsFaith, JobText, Generating, payload, status
  <1> QED
    BY <1>1, <1>2, <1>5, <1>7, <1>8 DEF Faithful, AccountCost, worldVars

\* An error of the database strands the plan of the job at most.
LEMMA StoreFaithful ==
  ASSUME IInv, NEW r \in Requests, StoreRaises(r) PROVE Faithful(r)
  <1> DEFINE payload == rows[jobs[r].plan].payload
             status == rows[jobs[r].plan].status
             stage == IF At(r, "failing") THEN "account" ELSE "dead"
             j == [jobs[r] EXCEPT !.stage = stage]
  <1>1. jobs[r].stage \in {"scheduled", "failing", "account"} /\ IsRunning(r)
    BY DEF StoreRaises, IsRunning, Generating
  <1>2. /\ jobs[r] \in Jobs /\ jobs[r].plan \in Plans /\ payload \in SavedPlans
        /\ Coherent(payload) /\ status \in PlanStatus
    BY <1>1, JobKnown
  <1>3. jobs' = [jobs EXCEPT ![r].stage = stage]
    BY DEF StoreRaises
  <1>4. ChangesRow(jobs[r].plan, status, payload)
    BY <1>2, SameRows DEF StoreRaises, IInv, TypeOK
  <1>5. stage \in {"account", "dead"}
    OBVIOUS
  <1> HIDE DEF payload, status, stage
  <1>6. j \in Jobs /\ j.stage = stage /\ j.plan = jobs[r].plan
    BY <1>2, <1>5 DEF Jobs, JobStages
  <1>7. jobs' = [jobs EXCEPT ![r] = j]
    BY <1>3
  <1> HIDE DEF j
  <1>8. JobMoves(r, j, status, payload)
    BY <1>1, <1>2, <1>4, <1>5, <1>6, <1>7 DEF JobMoves, StoreRaises, clientVars
  <1>9. KeepsFaith(r, j, status, payload)
    BY <1>2, <1>5, <1>6 DEF KeepsFaith, JobText, Generating, payload, status
  <1> QED
    BY <1>2, <1>6, <1>8, <1>9 DEF Faithful, StoreRaises

\* Every step of a job is faithful.
LEMMA JobStepFaithful ==
  ASSUME IInv, NEW r \in Requests, JobStep(r) \/ StoreRaises(r) PROVE Faithful(r)
  BY ReadFaithful, FetchFaithful, CloneFaithful, LoadFaithful, IndexFaithful,
     RetrieveFaithful, WriteFaithful, RaiseFaithful, FailFaithful, AccountFaithful,
     StoreFaithful DEF JobStep

-----------------------------------------------------------------------------
(***************************************************************************)
(* The steps of the requests.                                              *)
(***************************************************************************)
ClientTypes ==
  /\ pc \in [Requests -> ClientStages]
  /\ ask \in [Requests -> Asks]
  /\ answer \in [Requests -> Nat \union {None}]
  /\ lock \in Requests \union {None}
  /\ handed \in [Requests -> [commit : Commits, guidance : Results] \union {None}]

\* A step that changes neither plans nor jobs.
LEMMA QuietKeeps ==
  ASSUME IInv, UNCHANGED <<rows, jobs, storeFaults, up>>
  PROVE  /\ JobInv' /\ TextInv' /\ OnePlanPerIssue' /\ ActiveHasJob'
         /\ Plans' = Plans /\ \A q : PlansFor(q)' = PlansFor(q)
  BY DEF IInv, JobInv, TextInv, OnePlanPerIssue, ActiveHasJob, Stranded, JobsOn, Active,
         Plans, IsRunning, IsGenerating, PlansFor

\* A request keeps what it has while another one moves.
LEMMA OthersKeep ==
  ASSUME IInv, NEW s \in Requests, pc'[s] = pc[s], ask'[s] = ask[s],
         jobs'[s].stage = jobs[s].stage, Plans \subseteq Plans', up' = up,
         pc[s] \in Creating => lock' = lock,
         pc[s] = "inserting" => PlansFor(ask[s])' = PlansFor(ask[s])
  PROVE  RequestOk(s)'
  <1>1. RequestOk(s)
    BY DEF IInv, RequestInv
  <1>2. Plans' \in SUBSET Plans' /\ [plan : Plans, snapshot : BOOLEAN] \subseteq [plan : Plans', snapshot : BOOLEAN]
        /\ [plan : Plans, saved : SavedPlans] \subseteq [plan : Plans', saved : SavedPlans]
    OBVIOUS
  <1>3. pc[s] = "inserting" => PlansFor(ask[s])' = {}
    BY <1>1 DEF RequestOk
  <1> QED
    BY <1>1, <1>2, <1>3 DEF RequestOk, IsRunning

\* A user has one plan for an issue at most, so the latest is a plan.
LEMMA LatestTyped ==
  ASSUME OnePlanPerIssue, Len(rows) \in Nat, NEW q, NEW ps \in SUBSET PlansFor(q), ps # {}
  PROVE  Latest(ps) \in Plans
  <1>1. PICK p \in ps : TRUE
    OBVIOUS
  <1>2. p \in Nat /\ \A n \in ps : n = p
    BY <1>1 DEF OnePlanPerIssue, PlansFor, Plans
  <1>3. \A n \in ps : n <= p
    BY <1>2
  <1>4. Latest(ps) \in ps
    BY <1>1, <1>3 DEF Latest
  <1> QED
    BY <1>4 DEF PlansFor

\* A new request holds nothing yet.
LEMMA SubmitCreateKeeps ==
  ASSUME IInv, NEW r \in Requests, SubmitCreate(r)
  PROVE  RequestInv' /\ HandedInv' /\ ClientTypes'
  <1>1. PICK u \in Users, i \in Issues, k \in Keys :
          ask' = [ask EXCEPT ![r] = [user |-> u, issue |-> i, request_id |-> k]]
    BY DEF SubmitCreate
  <1> DEFINE a == [user |-> u, issue |-> i, request_id |-> k]
  <1>2. a \in CreateAsks /\ a \in Asks
    BY DEF CreateAsks, Asks
  <1>3. ask' = [ask EXCEPT ![r] = a]
    BY <1>1
  <1> HIDE DEF a
  <1>4. /\ up /\ pc[r] = "idle" /\ pc' = [pc EXCEPT ![r] = "locking"]
        /\ UNCHANGED <<rows, answer, lock, jobs, handed, storeFaults, up>>
    BY DEF SubmitCreate, Goto, worldVars
  <1>5. ClientTypes'
    BY <1>2, <1>3, <1>4 DEF ClientTypes, IInv, TypeOK, ClientStages
  <1>6. ASSUME NEW s \in Requests, s # r PROVE RequestOk(s)'
    BY <1>3, <1>4, <1>6, QuietKeeps, OthersKeep DEF IInv, TypeOK
  <1>7. RequestOk(r)'
    BY <1>2, <1>3, <1>4 DEF IInv, TypeOK, RequestInv, RequestOk, Creating, InFlight, IsRunning,
       ClientStages, Generating
  <1> QED
    BY <1>4, <1>5, <1>6, <1>7 DEF RequestInv, HandedInv, IInv

\* The lock is taken by one who finds it free, so nobody else is between look-up and insert.
LEMMA AcquireKeeps ==
  ASSUME IInv, NEW r \in Requests, Acquire(r)
  PROVE  RequestInv' /\ HandedInv' /\ ClientTypes'
  <1>1. /\ pc[r] = "locking" /\ lock = None /\ lock' = r
        /\ pc' = [pc EXCEPT ![r] = "looking"]
        /\ UNCHANGED <<rows, ask, answer, jobs, handed, storeFaults, up>>
    BY DEF Acquire, Goto, worldVars
  <1>2. ClientTypes'
    BY <1>1 DEF ClientTypes, IInv, TypeOK, ClientStages
  <1>3. ASSUME NEW s \in Requests, s # r PROVE RequestOk(s)'
    <2>1. pc[s] \notin Creating
      BY <1>1, NoneAssumption DEF IInv, RequestInv, RequestOk
    <2> QED
      BY <1>1, <1>3, <2>1, QuietKeeps, OthersKeep DEF IInv, TypeOK, Creating
  <1>4. RequestOk(r)'
    BY <1>1 DEF IInv, TypeOK, RequestInv, RequestOk, Creating, InFlight, IsRunning,
       ClientStages, Generating
  <1> QED
    BY <1>1, <1>2, <1>3, <1>4 DEF RequestInv, HandedInv, IInv

\* Who goes on to the insert found no plan, under the lock.
LEMMA LookForPlanKeeps ==
  ASSUME IInv, NEW r \in Requests, LookForPlan(r)
  PROVE  RequestInv' /\ HandedInv' /\ ClientTypes'
  <1>1. /\ pc[r] = "looking" /\ lock = r
        /\ UNCHANGED <<rows, ask, jobs, handed, storeFaults, up>>
    BY DEF LookForPlan, worldVars, IInv, RequestInv, RequestOk, Creating
  <1>2. ASSUME NEW s \in Requests, s # r PROVE pc[s] \notin Creating
    BY <1>1, <1>2 DEF IInv, RequestInv, RequestOk
  <1>3. CASE PlansFor(ask[r]) = {}
    <2>1. pc' = [pc EXCEPT ![r] = "inserting"] /\ UNCHANGED <<answer, lock>>
      BY <1>3 DEF LookForPlan, Goto
    <2>2. ClientTypes'
      BY <1>1, <2>1 DEF ClientTypes, IInv, TypeOK, ClientStages
    <2>3. ASSUME NEW s \in Requests, s # r PROVE RequestOk(s)'
      BY <1>1, <1>2, <2>1, <2>3, QuietKeeps, OthersKeep DEF IInv, TypeOK
    <2>4. PlansFor(ask[r])' = {}
      BY <1>1, <1>3 DEF PlansFor, Plans
    <2>5. RequestOk(r)'
      BY <1>1, <2>1, <2>4 DEF IInv, TypeOK, RequestInv, RequestOk, Creating, InFlight, IsRunning,
         ClientStages, Generating
    <2> QED
      BY <1>1, <2>2, <2>3, <2>5 DEF RequestInv, HandedInv, IInv
  <1>4. CASE PlansFor(ask[r]) # {}
    <2>1. /\ answer' = [answer EXCEPT ![r] = Latest(PlansFor(ask[r]))]
          /\ pc' = [pc EXCEPT ![r] = "answered"] /\ lock' = None
      BY <1>4 DEF LookForPlan, AnswerWith, Goto
    <2>2. Latest(PlansFor(ask[r])) \in Nat
      BY <1>4, LatestTyped, RowsTyped DEF IInv, TypeOK, Plans
    <2>3. ClientTypes'
      BY <1>1, <2>1, <2>2 DEF ClientTypes, IInv, TypeOK, ClientStages
    <2>4. ASSUME NEW s \in Requests, s # r PROVE RequestOk(s)'
      BY <1>1, <1>2, <2>1, <2>4, QuietKeeps, OthersKeep DEF IInv, TypeOK, Creating
    <2>5. RequestOk(r)'
      BY <1>1, <2>1 DEF IInv, TypeOK, RequestInv, RequestOk, Creating, InFlight, IsRunning,
         ClientStages, Generating
    <2> QED
      BY <1>1, <2>3, <2>4, <2>5 DEF RequestInv, HandedInv, IInv
  <1> QED
    BY <1>3, <1>4

\* A collision is answered from the table and gives the lock back.
LEMMA ResolveCollisionKeeps ==
  ASSUME IInv, NEW r \in Requests, ResolveCollision(r)
  PROVE  RequestInv' /\ HandedInv' /\ ClientTypes'
  <1> DEFINE same == {p \in PlansFor(ask[r]) : rows[p].request_id = ask[r].request_id}
  <1>1. /\ pc[r] = "colliding" /\ lock = r /\ lock' = None
        /\ pc' = [pc EXCEPT ![r] = "answered"]
        /\ UNCHANGED <<rows, ask, jobs, handed, storeFaults, up>>
        /\ \/ answer' = answer
           \/ same # {} /\ answer' = [answer EXCEPT ![r] = Latest(same)]
    BY DEF ResolveCollision, AnswerWith, Goto, worldVars, IInv, RequestInv, RequestOk, Creating
  <1>2. same # {} => Latest(same) \in Nat
    <2>1. same \in SUBSET PlansFor(ask[r]) /\ Len(rows) \in Nat /\ OnePlanPerIssue
      BY RowsTyped DEF IInv, TypeOK
    <2> HIDE DEF same
    <2>2. same # {} => Latest(same) \in Plans
      BY <2>1, LatestTyped
    <2> QED
      BY <2>2 DEF Plans
  <1>3. ClientTypes'
    BY <1>1, <1>2 DEF ClientTypes, IInv, TypeOK, ClientStages
  <1>4. ASSUME NEW s \in Requests, s # r PROVE RequestOk(s)'
    <2>1. pc[s] \notin Creating
      BY <1>1, <1>4 DEF IInv, RequestInv, RequestOk
    <2> QED
      BY <1>1, <1>4, <2>1, QuietKeeps, OthersKeep DEF IInv, TypeOK, Creating
  <1>5. RequestOk(r)'
    BY <1>1 DEF IInv, TypeOK, RequestInv, RequestOk, Creating, InFlight, IsRunning,
       ClientStages, Generating
  <1> QED
    BY <1>1, <1>3, <1>4, <1>5 DEF RequestInv, HandedInv, IInv

\* A regeneration asks for a plan that exists.
LEMMA SubmitRegenerateKeeps ==
  ASSUME IInv, NEW r \in Requests, SubmitRegenerate(r)
  PROVE  RequestInv' /\ HandedInv' /\ ClientTypes'
  <1>1. PICK p \in Plans :
          ask' = [ask EXCEPT ![r] = [plan |-> p, snapshot |-> rows[p].payload.commit # None]]
    BY DEF SubmitRegenerate
  <1> DEFINE b == rows[p].payload.commit # None
             a == [plan |-> p, snapshot |-> b]
  <1>2. b \in BOOLEAN /\ p \in Nat
    BY DEF Plans
  <1>3. ask' = [ask EXCEPT ![r] = a]
    BY <1>1
  <1> HIDE DEF b
  <1>4. a \in [plan : Plans, snapshot : BOOLEAN] /\ a \in [plan : Nat, snapshot : BOOLEAN]
    BY <1>1, <1>2
  <1>5. a \in Asks
    BY <1>4 DEF Asks
  <1> HIDE DEF a
  <1>6. /\ up /\ pc[r] = "idle" /\ pc' = [pc EXCEPT ![r] = "updating"]
        /\ UNCHANGED <<rows, answer, lock, jobs, handed, storeFaults, up>>
    BY DEF SubmitRegenerate, Goto, worldVars
  <1>7. ClientTypes'
    BY <1>3, <1>5, <1>6 DEF ClientTypes, IInv, TypeOK, ClientStages
  <1>8. ASSUME NEW s \in Requests, s # r PROVE RequestOk(s)'
    BY <1>3, <1>6, <1>8, QuietKeeps, OthersKeep DEF IInv, TypeOK
  <1>9. RequestOk(r)'
    <2>1. ask'[r] = a /\ pc'[r] = "updating" /\ Plans' = Plans /\ up' /\ jobs'[r].stage = "none"
      BY <1>3, <1>6, QuietKeeps DEF IInv, TypeOK, RequestInv, RequestOk, InFlight
    <2> QED
      BY <1>4, <2>1 DEF RequestOk, Creating
  <1> QED
    BY <1>6, <1>7, <1>8, <1>9 DEF RequestInv, HandedInv, IInv

\* Only a ready plan with a result is handed over, as it stands.
LEMMA SubmitHandoffKeeps ==
  ASSUME IInv, NEW r \in Requests, SubmitHandoff(r)
  PROVE  RequestInv' /\ HandedInv' /\ ClientTypes'
  <1>1. /\ up /\ pc[r] = "idle"
        /\ UNCHANGED <<rows, answer, lock, jobs, handed, storeFaults, up>>
    BY DEF SubmitHandoff, worldVars
  <1>2. PICK p \in Plans :
          \/ /\ rows[p].payload.result # None
             /\ ask' = [ask EXCEPT ![r] = [plan |-> p, saved |-> rows[p].payload]]
             /\ pc' = [pc EXCEPT ![r] = "handing"]
          \/ ask' = ask /\ pc' = [pc EXCEPT ![r] = "answered"]
    BY DEF SubmitHandoff, Goto
  <1> DEFINE saved == rows[p].payload
             a == [plan |-> p, saved |-> saved]
  <1>3. saved \in SavedPlans /\ Coherent(saved) /\ p \in Nat
    BY RowsTyped DEF IInv, TypeOK, TextInv, Plans
  <1>4. CASE saved.result # None /\ ask' = [ask EXCEPT ![r] = a]
             /\ pc' = [pc EXCEPT ![r] = "handing"]
    <2> HIDE DEF saved
    <2>1. /\ a \in [plan : Plans, saved : SavedPlans] /\ a \in [plan : Nat, saved : SavedPlans]
          /\ a.saved = saved
      BY <1>2, <1>3
    <2>2. a \in Asks
      BY <2>1 DEF Asks
    <2> HIDE DEF a
    <2>3. ClientTypes'
      BY <1>1, <1>4, <2>2 DEF ClientTypes, IInv, TypeOK, ClientStages
    <2>4. ASSUME NEW s \in Requests, s # r PROVE RequestOk(s)'
      BY <1>1, <1>4, <2>4, QuietKeeps, OthersKeep DEF IInv, TypeOK
    <2>5. RequestOk(r)'
      <3>1. ask'[r] = a /\ pc'[r] = "handing" /\ Plans' = Plans /\ up' /\ jobs'[r].stage = "none"
        BY <1>1, <1>4, QuietKeeps DEF IInv, TypeOK, RequestInv, RequestOk, InFlight
      <3>2. Coherent(ask'[r].saved) /\ ask'[r].saved.result # None
        BY <1>3, <1>4, <2>1, <3>1
      <3> QED
        BY <2>1, <3>1, <3>2 DEF RequestOk, Creating, Coherent
    <2> QED
      BY <1>1, <2>3, <2>4, <2>5 DEF RequestInv, HandedInv, IInv
  <1>5. CASE ask' = ask /\ pc' = [pc EXCEPT ![r] = "answered"]
    <2>1. ClientTypes'
      BY <1>1, <1>5 DEF ClientTypes, IInv, TypeOK, ClientStages
    <2>2. ASSUME NEW s \in Requests, s # r PROVE RequestOk(s)'
      BY <1>1, <1>5, <2>2, QuietKeeps, OthersKeep DEF IInv, TypeOK
    <2>3. RequestOk(r)'
      BY <1>1, <1>5 DEF IInv, TypeOK, RequestInv, RequestOk, Creating, InFlight, IsRunning,
         ClientStages, Generating
    <2> QED
      BY <1>1, <2>1, <2>2, <2>3 DEF RequestInv, HandedInv, IInv
  <1> QED
    BY <1>2, <1>4, <1>5

\* What was handed over was coherent, so the commit is the guidance's own.
LEMMA InvestigateKeeps ==
  ASSUME IInv, NEW r \in Requests, Investigate(r)
  PROVE  RequestInv' /\ HandedInv' /\ ClientTypes'
  <1> DEFINE saved == ask[r].saved
             h == [commit |-> saved.commit, guidance |-> saved.result]
  <1>1. /\ pc[r] = "handing"
        /\ UNCHANGED <<rows, ask, lock, jobs, storeFaults, up>>
        /\ answer' = [answer EXCEPT ![r] = ask[r].plan]
        /\ pc' = [pc EXCEPT ![r] = "answered"]
        /\ handed' = handed \/ handed' = [handed EXCEPT ![r] = h]
    BY DEF Investigate, AnswerWith, Goto, worldVars
  <1>2. /\ saved \in SavedPlans /\ Coherent(saved) /\ saved.result # None
        /\ ask[r].plan \in Nat
    BY <1>1 DEF IInv, RequestInv, RequestOk, Plans
  <1>3. saved.result \in Results /\ saved.commit = saved.result.commit
    BY <1>2 DEF SavedPlans, Coherent
  <1> HIDE DEF saved
  <1>4. h \in [commit : Commits, guidance : Results] /\ h.guidance.commit = h.commit
    BY <1>3 DEF Results
  <1> HIDE DEF h
  <1>5. ClientTypes'
    BY <1>1, <1>2, <1>4 DEF ClientTypes, IInv, TypeOK, ClientStages
  <1>6. HandedInv'
    BY <1>1, <1>4 DEF HandedInv, IInv, TypeOK
  <1>7. ASSUME NEW s \in Requests, s # r PROVE RequestOk(s)'
    BY <1>1, <1>7, QuietKeeps, OthersKeep DEF IInv, TypeOK
  <1>8. RequestOk(r)'
    BY <1>1 DEF IInv, TypeOK, RequestInv, RequestOk, Creating, InFlight, IsRunning,
       ClientStages, Generating
  <1> QED
    BY <1>5, <1>6, <1>7, <1>8 DEF RequestInv

-----------------------------------------------------------------------------
(***************************************************************************)
(* Two steps start a job: the insert of a plan and a regeneration.         *)
(***************************************************************************)
Starts(r, p) ==
  /\ jobs[r].stage = "none" /\ up /\ up' = up /\ storeFaults' = storeFaults
  /\ Schedule(r, p)
  /\ p \in Nat /\ Plans' = Plans \union {p} /\ rows' \in Seq(Rows)
  /\ \A n \in Plans : /\ rows'[n].payload = rows[n].payload
                      /\ n # p => rows'[n].status = rows[n].status
  /\ p \in Plans => ~Active(p)
  /\ p \notin Plans => rows'[p].payload = NewPlan
  /\ rows'[p].status \in ACTIVE

\* The job meets no other, and strands nothing.
LEMMA StartKeeps ==
  ASSUME IInv, NEW r \in Requests, NEW p, Starts(r, p)
  PROVE  /\ JobInv' /\ TextInv' /\ ActiveHasJob' /\ jobs' \in [Requests -> Jobs]
         /\ jobs'[r].stage = "scheduled" /\ \A s \in Requests : s # r => jobs'[s] = jobs[s]
  <1> DEFINE j == [NoJob EXCEPT !.stage = "scheduled", !.plan = p]
  <1>1. NewPlan \in SavedPlans
    BY DEF NewPlan, SavedPlans
  <1>2. j \in Jobs /\ j.stage = "scheduled" /\ j.plan = p
    BY <1>1 DEF NoJob, Jobs, JobStages, Generating, Starts
  <1>3. jobs' = [jobs EXCEPT ![r] = j]
    BY DEF Starts, Schedule
  <1> HIDE DEF j
  <1>4. /\ jobs' \in [Requests -> Jobs] /\ jobs'[r] = j
        /\ \A s \in Requests : s # r => jobs'[s] = jobs[s]
    BY <1>2, <1>3 DEF IInv, TypeOK
  <1>5. JobInv'
    <2>1. \A s \in Requests : IsRunning(s)' => jobs'[s].plan \in Plans'
      BY <1>2, <1>4 DEF IInv, JobInv, IsRunning, Starts
    <2>2. ASSUME NEW s \in Requests, s # r, IsGenerating(s)
          PROVE  jobs[s].plan \in Plans /\ Active(jobs[s].plan) /\ jobs[s].plan # p
      <3>1. jobs[s].plan \in Plans /\ Active(jobs[s].plan)
        BY <2>2 DEF IInv, JobInv, IsRunning, IsGenerating
      <3> QED
        BY <3>1 DEF Starts
    <2>3. ASSUME NEW s \in Requests, IsGenerating(s)' PROVE Active(jobs[s].plan)'
      <3>1. CASE s = r
        BY <1>2, <1>4, <3>1 DEF Active, Starts
      <3>2. CASE s # r
        <4>1. jobs'[s] = jobs[s] /\ IsGenerating(s)
          BY <1>4, <2>3, <3>2 DEF IsGenerating
        <4> QED
          BY <2>2, <3>2, <4>1 DEF Active, Starts
      <3> QED
        BY <3>1, <3>2
    <2> QED
      BY <1>2, <1>4, <2>1, <2>2, <2>3 DEF IInv, JobInv, IsGenerating
  <1>6. TextInv'
    <2>1. \A n \in Plans' : Coherent(rows'[n].payload)
      BY DEF IInv, TextInv, Starts, NewPlan, Coherent
    <2>2. ASSUME NEW s \in Requests PROVE JobText(s, jobs'[s])
      <3>1. JobText(r, j)
        BY <1>2 DEF JobText
      <3>2. JobText(s, jobs[s])
        BY DEF IInv, TextInv
      <3> QED
        BY <1>4, <3>1, <3>2
    <2>3. ASSUME NEW s \in Requests, jobs'[s].stage \in Generating \ {"scheduled"}
          PROVE  rows'[jobs'[s].plan].payload.result = jobs'[s].original.result
      <3>1. jobs'[s] = jobs[s]
        BY <1>2, <1>4, <2>3
      <3>2. jobs[s].plan \in Plans /\ rows[jobs[s].plan].payload.result = jobs[s].original.result
        BY <2>3, <3>1 DEF IInv, TextInv, JobInv, IsRunning
      <3> QED
        BY <3>1, <3>2 DEF Starts
    <2>4. ASSUME NEW n \in Plans', rows'[n].payload.result # None
          PROVE  jobs'[rows'[n].payload.result.job].stage \notin Generating \union {"none"}
      <3>1. n \in Plans /\ rows'[n].payload = rows[n].payload
        BY <2>4 DEF Starts, NewPlan
      <3>2. rows[n].payload \in SavedPlans
        BY <3>1, RowsTyped DEF IInv, TypeOK
      <3>3. /\ rows[n].payload.result.job \in Requests
            /\ jobs[rows[n].payload.result.job].stage \notin Generating \union {"none"}
        BY <2>4, <3>1, <3>2 DEF IInv, TextInv, SavedPlans, Results
      <3> QED
        BY <1>4, <3>1, <3>3 DEF Starts
    <2> QED
      BY <2>1, <2>2, <2>3, <2>4 DEF TextInv
  <1>7. ActiveHasJob'
    <2>1. p \notin Stranded'
      BY <1>2, <1>4 DEF Stranded, JobsOn, Generating
    <2>2. Stranded' \subseteq Stranded
      BY <1>4, <2>1 DEF Stranded, JobsOn, Active, Starts, Generating
    <2> QED
      BY <2>2, StrandedBound, PlansAssumption DEF IInv, TypeOK, Starts
  <1> QED
    BY <1>2, <1>4, <1>5, <1>6, <1>7

\* An insert makes the first plan of its user for its issue and starts a job on it, or collides.
LEMMA InsertPlanKeeps ==
  ASSUME IInv, NEW r \in Requests, InsertPlan(r)
  PROVE  /\ RequestInv' /\ HandedInv' /\ ClientTypes'
         /\ JobInv' /\ TextInv' /\ OnePlanPerIssue' /\ ActiveHasJob'
         /\ rows' \in Seq(Rows) /\ jobs' \in [Requests -> Jobs]
         /\ rows' = rows \/ \E p : Starts(r, p)
  <1>1. /\ pc[r] = "inserting" /\ lock = r /\ up /\ jobs[r].stage = "none"
        /\ ask[r] \in CreateAsks /\ PlansFor(ask[r]) = {} /\ rows \in Seq(Rows)
        /\ Len(rows) \in Nat
        /\ UNCHANGED <<ask, handed, storeFaults, up>>
    BY LenProperties DEF InsertPlan, worldVars, IInv, TypeOK, RequestInv, RequestOk, Creating,
       InFlight, ClientStages
  <1>2. \A s \in Requests : s # r => pc[s] \notin Creating
    BY <1>1 DEF IInv, RequestInv, RequestOk
  <1>3. CASE \E p \in Plans : rows[p].request_id = ask[r].request_id
    <2>1. pc' = [pc EXCEPT ![r] = "colliding"] /\ UNCHANGED <<rows, answer, lock, jobs>>
      BY <1>3 DEF InsertPlan, Goto
    <2>2. ClientTypes'
      BY <1>1, <2>1 DEF ClientTypes, IInv, TypeOK, ClientStages
    <2>3. ASSUME NEW s \in Requests, s # r PROVE RequestOk(s)'
      BY <1>1, <2>1, <2>3, QuietKeeps, OthersKeep DEF IInv, TypeOK
    <2>4. RequestOk(r)'
      BY <1>1, <2>1 DEF IInv, TypeOK, RequestInv, RequestOk, Creating, InFlight, IsRunning,
         ClientStages, Generating
    <2> QED
      BY <1>1, <2>1, <2>2, <2>3, <2>4, QuietKeeps DEF RequestInv, HandedInv, IInv, TypeOK
  <1>4. CASE ~\E p \in Plans : rows[p].request_id = ask[r].request_id
    <2> DEFINE p == Len(rows) + 1
               row == NewRow(ask[r])
    <2>1. /\ rows' = Append(rows, row) /\ Schedule(r, p)
          /\ answer' = [answer EXCEPT ![r] = p] /\ pc' = [pc EXCEPT ![r] = "answered"]
          /\ lock' = None
      BY <1>4 DEF InsertPlan, AnswerWith, Goto
    <2>2. NewPlan \in SavedPlans
      BY DEF NewPlan, SavedPlans
    <2>3. /\ row \in Rows /\ row.status = "fetching" /\ row.payload = NewPlan
          /\ row.owner = ask[r].user /\ row.issue = ask[r].issue
      BY <1>1, <2>2 DEF NewRow, Rows, PlanStatus, ACTIVE, CreateAsks
    <2> HIDE DEF row
    <2>4. /\ rows' \in Seq(Rows) /\ Len(rows') = p /\ rows'[p] = row
          /\ \A n \in Plans : rows'[n] = rows[n]
      BY <1>1, <2>1, <2>3, AppendProperties DEF Plans
    <2>5. p \in Nat /\ p \notin Plans /\ Plans' = Plans \union {p}
      BY <1>1, <2>4 DEF Plans
    <2> HIDE DEF p
    <2>6. Starts(r, p)
      BY <1>1, <2>1, <2>3, <2>4, <2>5 DEF Starts, ACTIVE
    <2>7. /\ JobInv' /\ TextInv' /\ ActiveHasJob' /\ jobs' \in [Requests -> Jobs]
          /\ jobs'[r].stage = "scheduled" /\ \A s \in Requests : s # r => jobs'[s] = jobs[s]
      BY <2>6, StartKeeps
    <2>8. OnePlanPerIssue'
      <3>1. \A n \in Plans : ~(rows[n].owner = row.owner /\ rows[n].issue = row.issue)
        BY <1>1, <2>3 DEF PlansFor
      <3> QED
        BY <2>4, <2>5, <3>1 DEF IInv, OnePlanPerIssue
    <2>9. ClientTypes'
      BY <1>1, <2>1, <2>5 DEF ClientTypes, IInv, TypeOK, ClientStages
    <2>10. ASSUME NEW s \in Requests, s # r PROVE RequestOk(s)'
      BY <1>1, <1>2, <2>1, <2>5, <2>7, <2>10, OthersKeep DEF IInv, TypeOK, Creating
    <2>11. RequestOk(r)'
      BY <1>1, <2>1 DEF IInv, TypeOK, RequestOk, Creating, InFlight, ClientStages
    <2> QED
      BY <1>1, <2>4, <2>6, <2>7, <2>8, <2>9, <2>10, <2>11 DEF RequestInv, HandedInv, IInv
  <1> QED
    BY <1>3, <1>4

\* A regeneration starts a job where none is, or reuses the one there is.
LEMMA UpdateStatusKeeps ==
  ASSUME IInv, NEW r \in Requests, UpdateStatus(r)
  PROVE  /\ RequestInv' /\ HandedInv' /\ ClientTypes'
         /\ JobInv' /\ TextInv' /\ OnePlanPerIssue' /\ ActiveHasJob'
         /\ rows' \in Seq(Rows) /\ jobs' \in [Requests -> Jobs]
         /\ rows' = rows \/ \E p : Starts(r, p)
  <1> DEFINE p == ask[r].plan
  <1>1. /\ pc[r] = "updating" /\ up /\ jobs[r].stage = "none" /\ p \in Plans /\ p \in Nat
        /\ UNCHANGED <<ask, lock, handed, storeFaults, up>>
        /\ answer' = [answer EXCEPT ![r] = p] /\ pc' = [pc EXCEPT ![r] = "answered"]
    BY DEF UpdateStatus, AnswerWith, Goto, worldVars, IInv, TypeOK, RequestInv, RequestOk,
       InFlight, ClientStages, Plans
  <1>2. ClientTypes'
    BY <1>1 DEF ClientTypes, IInv, TypeOK, ClientStages
  <1>3. RequestOk(r)'
    BY <1>1 DEF IInv, TypeOK, RequestOk, Creating, InFlight, ClientStages
  <1>4. CASE Active(p)
    <2>1. UNCHANGED <<rows, jobs>>
      BY <1>4 DEF UpdateStatus
    <2>2. ASSUME NEW s \in Requests, s # r PROVE RequestOk(s)'
      BY <1>1, <2>1, <2>2, QuietKeeps, OthersKeep DEF IInv, TypeOK
    <2> QED
      BY <1>1, <1>2, <1>3, <2>1, <2>2, QuietKeeps DEF RequestInv, HandedInv, IInv, TypeOK
  <1>5. CASE ~Active(p)
    <2>1. /\ rows' = [rows EXCEPT ![p].status = Restaged(r)] /\ Schedule(r, p)
      BY <1>5 DEF UpdateStatus
    <2>2. Restaged(r) \in ACTIVE /\ Restaged(r) \in PlanStatus
      BY DEF Restaged, ACTIVE, PlanStatus
    <2> HIDE DEF p
    <2>3. ChangesRow(p, Restaged(r), rows[p].payload)
      BY <1>1, <2>1, <2>2, StatusRow DEF IInv, TypeOK
    <2>4. Plans' = Plans /\ (\A q : PlansFor(q)' = PlansFor(q)) /\ OnePlanPerIssue'
      BY <2>3, ChangesKeepOwners DEF IInv
    <2>5. Starts(r, p)
      BY <1>1, <1>5, <2>1, <2>2, <2>3, <2>4 DEF Starts, ChangesRow
    <2>6. /\ JobInv' /\ TextInv' /\ ActiveHasJob' /\ jobs' \in [Requests -> Jobs]
          /\ jobs'[r].stage = "scheduled" /\ \A s \in Requests : s # r => jobs'[s] = jobs[s]
      BY <2>5, StartKeeps
    <2>7. ASSUME NEW s \in Requests, s # r PROVE RequestOk(s)'
      BY <1>1, <2>4, <2>6, <2>7, OthersKeep DEF IInv, TypeOK
    <2> QED
      BY <1>1, <1>2, <1>3, <2>3, <2>4, <2>5, <2>6, <2>7 DEF RequestInv, HandedInv, IInv, ChangesRow
  <1> QED
    BY <1>4, <1>5

-----------------------------------------------------------------------------
(***************************************************************************)
(* The world around the server.                                            *)
(***************************************************************************)

\* A crash leaves no request on its way and no job running.
LEMMA CrashKeeps ==
  ASSUME IInv, Crash
  PROVE  /\ RequestInv' /\ HandedInv' /\ ClientTypes'
         /\ JobInv' /\ TextInv' /\ OnePlanPerIssue' /\ ActiveHasJob'
         /\ jobs' \in [Requests -> Jobs]
  <1>1. /\ up' = FALSE /\ lock' = None
        /\ UNCHANGED <<rows, ask, answer, handed>>
        /\ pc' = [r \in Requests |-> IF pc[r] \in InFlight THEN "dead" ELSE pc[r]]
        /\ jobs' = [r \in Requests |->
                      IF jobs[r].stage \in Generating \union {"account"}
                      THEN [jobs[r] EXCEPT !.stage = "dead"] ELSE jobs[r]]
    BY DEF Crash
  <1>2. ASSUME NEW r \in Requests
        PROVE  /\ jobs'[r] \in Jobs
               /\ jobs'[r].stage = IF IsRunning(r) THEN "dead" ELSE jobs[r].stage
               /\ ~IsRunning(r) => jobs'[r] = jobs[r]
    <2>1. jobs[r] \in Jobs
      BY DEF IInv, TypeOK
    <2> DEFINE j == [jobs[r] EXCEPT !.stage = "dead"]
    <2>2. j \in Jobs /\ j.stage = "dead"
      BY <2>1 DEF Jobs, JobStages
    <2>3. jobs'[r] = IF IsRunning(r) THEN j ELSE jobs[r]
      BY <1>1 DEF IsRunning
    <2> HIDE DEF j
    <2> QED
      BY <2>1, <2>2, <2>3
  <1>3. \A r \in Requests : ~IsRunning(r)' /\ ~IsGenerating(r)'
    BY <1>2 DEF IsRunning, IsGenerating, Generating
  <1>4. \A r \in Requests : pc'[r] \notin InFlight /\ (pc'[r] = "idle" => pc[r] = "idle")
    BY <1>1 DEF InFlight
  <1>5. RequestInv'
    <2> SUFFICES ASSUME NEW r \in Requests PROVE RequestOk(r)'
      BY DEF RequestInv
    <2>1. pc[r] = "idle" => jobs[r].stage = "none" /\ jobs'[r].stage = "none"
      BY <1>2 DEF IInv, RequestInv, RequestOk, IsRunning, Generating
    <2> QED
      BY <1>1, <1>3, <1>4, <2>1 DEF RequestOk, Creating, InFlight, ClientStages
  <1>6. ClientTypes'
    BY <1>1 DEF ClientTypes, IInv, TypeOK, ClientStages
  <1>7. JobInv'
    BY <1>3 DEF JobInv
  <1>8. TextInv'
    <2>1. \A p \in Plans' : Coherent(rows'[p].payload)
      BY <1>1 DEF IInv, TextInv, Plans
    <2>2. ASSUME NEW r \in Requests PROVE JobText(r, jobs'[r])
      <3>1. CASE IsRunning(r)
        BY <1>2, <3>1 DEF JobText, Generating
      <3>2. CASE ~IsRunning(r)
        BY <1>2, <3>2 DEF IInv, TextInv
      <3> QED
        BY <3>1, <3>2
    <2>3. \A r \in Requests : jobs'[r].stage \notin Generating
      BY <1>3 DEF IsGenerating
    <2>4. ASSUME NEW p \in Plans', rows'[p].payload.result # None
          PROVE  jobs'[rows'[p].payload.result.job].stage \notin Generating \union {"none"}
      <3>1. /\ rows[p].payload.result.job \in Requests
            /\ jobs[rows[p].payload.result.job].stage \notin Generating \union {"none"}
        BY <1>1, <2>4, RowsTyped DEF IInv, TypeOK, TextInv, Plans, SavedPlans, Results
      <3> QED
        BY <1>1, <1>2, <2>3, <3>1
    <2> QED
      BY <2>1, <2>2, <2>3, <2>4 DEF TextInv
  <1> QED
    BY <1>1, <1>2, <1>5, <1>6, <1>7, <1>8
    DEF IInv, TypeOK, HandedInv, OnePlanPerIssue, Plans, ActiveHasJob

\* No plan is active once the server has come up again.
LEMMA RestartKeeps ==
  ASSUME IInv, Restart
  PROVE  /\ RequestInv' /\ HandedInv' /\ JobInv' /\ TextInv' /\ OnePlanPerIssue'
         /\ ActiveHasJob' /\ rows' \in Seq(Rows) /\ Plans' = Plans
         /\ \A p \in Plans : rows'[p].payload = rows[p].payload /\ rows'[p].status \notin ACTIVE
  <1>1. /\ ~up /\ up' = TRUE /\ UNCHANGED <<clientVars, jobs, storeFaults>>
        /\ rows' = [p \in Plans |-> IF Active(p) THEN [rows[p] EXCEPT !.status = "interrupted"]
                                    ELSE rows[p]]
    BY DEF Restart
  <1>2. rows \in Seq(Rows) /\ Len(rows) \in Nat
    BY RowsTyped DEF IInv, TypeOK
  <1>3. ASSUME NEW p \in Plans
        PROVE  /\ rows'[p] \in Rows /\ rows'[p].owner = rows[p].owner
               /\ rows'[p].issue = rows[p].issue /\ rows'[p].payload = rows[p].payload
               /\ rows'[p].status \notin ACTIVE
    <2> DEFINE row == [rows[p] EXCEPT !.status = "interrupted"]
    <2>1. rows[p] \in Rows
      BY <1>2, RowsTyped
    <2>2. /\ row \in Rows /\ row.status = "interrupted" /\ row.owner = rows[p].owner
          /\ row.issue = rows[p].issue /\ row.payload = rows[p].payload
      BY <2>1 DEF Rows, PlanStatus
    <2>3. rows'[p] = IF Active(p) THEN row ELSE rows[p]
      BY <1>1
    <2> HIDE DEF row
    <2> QED
      BY <2>1, <2>2, <2>3 DEF Active, ACTIVE
  <1>4. rows' \in [1..Len(rows) -> Rows]
    BY <1>1, <1>3 DEF Plans
  <1>5. rows' \in Seq(Rows) /\ Len(rows') = Len(rows) /\ Plans' = Plans
    <2>1. rows' \in Seq(Rows)
      BY <1>2, <1>4, SeqDef
    <2>2. Len(rows') \in Nat /\ DOMAIN rows' = 1..Len(rows')
      BY <2>1, LenProperties
    <2>3. Len(rows') = Len(rows)
      BY <1>2, <1>4, <2>2
    <2> QED
      BY <2>1, <2>3 DEF Plans
  <1>6. \A r \in Requests : pc[r] \notin InFlight /\ ~IsRunning(r)
    BY <1>1 DEF IInv, RequestInv, RequestOk
  <1>7. RequestInv'
    BY <1>1, <1>6 DEF IInv, RequestInv, RequestOk, clientVars, Creating, InFlight, ClientStages
  <1>8. JobInv'
    BY <1>1, <1>6 DEF JobInv, IsRunning, IsGenerating
  <1>9. TextInv'
    BY <1>1, <1>3, <1>5, <1>6 DEF IInv, TextInv, IsRunning
  <1>10. OnePlanPerIssue'
    BY <1>3, <1>5 DEF IInv, OnePlanPerIssue
  <1>11. ActiveHasJob'
    <2>1. Stranded' = {}
      BY <1>3, <1>5 DEF Stranded, Active
    <2>2. storeFaults' \in Nat
      BY <1>1, PlansAssumption DEF IInv, TypeOK
    <2> QED
      BY <2>1, <2>2, FS_EmptySet DEF ActiveHasJob
  <1> QED
    BY <1>1, <1>3, <1>5, <1>7, <1>8, <1>9, <1>10, <1>11 DEF IInv, HandedInv, clientVars

-----------------------------------------------------------------------------
\* An empty table has it all.
LEMMA InitIInv == Init => IInv
  <1> SUFFICES ASSUME Init PROVE IInv
    OBVIOUS
  <1>1. rows = <<>> /\ Len(rows) = 0 /\ rows \in Seq(Rows) /\ Plans = {}
    BY EmptySeq DEF Init, Plans
  <1>2. NewPlan \in SavedPlans
    BY DEF NewPlan, SavedPlans
  <1>3. NoJob \in Jobs /\ NoJob.stage = "none"
    BY <1>2 DEF NoJob, Jobs, JobStages, Generating
  <1>4. TypeOK
    BY <1>1, <1>3, PlansAssumption DEF TypeOK, Init, ClientStages, Asks, Commits
  <1>5. \A r \in Requests : jobs[r].stage = "none" /\ ~IsRunning(r) /\ ~IsGenerating(r)
    BY <1>3 DEF Init, IsRunning, IsGenerating, Generating
  <1>6. RequestInv
    BY <1>5 DEF RequestInv, RequestOk, Init, Creating, InFlight, ClientStages
  <1>7. JobInv
    BY <1>5 DEF JobInv
  <1>8. TextInv
    BY <1>1, <1>5 DEF TextInv, JobText, Generating
  <1>9. OnePlanPerIssue /\ HandedInv
    BY <1>1 DEF OnePlanPerIssue, HandedInv, Init
  <1>10. ActiveHasJob
    <2>1. Stranded = {}
      BY <1>1 DEF Stranded
    <2> QED
      BY <2>1, FS_EmptySet DEF ActiveHasJob, Init
  <1> QED
    BY <1>4, <1>6, <1>7, <1>8, <1>9, <1>10 DEF IInv

WorldTypes ==
  /\ head \in Commits /\ indexed \subseteq Commits /\ deleted \subseteq Nat
  /\ up \in BOOLEAN /\ restarts \in 0..MaxRestarts /\ storeFaults \in 0..MaxStoreFaults

\* TypeOK, by who changes what.
LEMMA SplitTypes ==
  TypeOK' <=> rows' \in Seq(Rows) /\ jobs' \in [Requests -> Jobs] /\ ClientTypes' /\ WorldTypes'
  BY DEF TypeOK, ClientTypes, WorldTypes

\* Only indexing touches the index, and what it adds is the commit of the job's plan.
LEMMA JobStepTypes ==
  ASSUME IInv, NEW r \in Requests, JobStep(r) \/ StoreRaises(r)
  PROVE  ClientTypes' /\ WorldTypes'
  <1>1. UNCHANGED <<clientVars, head, deleted, up, restarts>>
    BY DEF JobStep, ReadPlan, FetchIssue, CloneSnapshot, LoadSnapshot, IndexSnapshot, Retrieve,
       WritePlan, JobRaises, FailPlan, AccountCost, StoreRaises, worldVars
  <1>2. ClientTypes'
    BY <1>1 DEF clientVars, ClientTypes, IInv, TypeOK
  <1>3. indexed' \subseteq Commits
    <2>1. CASE IndexSnapshot(r)
      <3>1. jobs[r].stage = "index" /\ IsRunning(r)
        BY <2>1 DEF IndexSnapshot, At, IsRunning, Generating
      <3>2. jobs[r].saved \in SavedPlans /\ jobs[r].saved.commit # None
        BY <3>1, JobKnown DEF JobText
      <3>3. jobs[r].saved.commit \in Commits
        BY <3>2 DEF SavedPlans
      <3> QED
        BY <2>1, <3>3 DEF IndexSnapshot, IInv, TypeOK
    <2>2. CASE ~IndexSnapshot(r)
      <3>1. indexed' = indexed
        BY <2>2 DEF JobStep, ReadPlan, FetchIssue, CloneSnapshot, LoadSnapshot, Retrieve,
           WritePlan, JobRaises, FailPlan, AccountCost, StoreRaises
      <3> QED
        BY <3>1 DEF IInv, TypeOK
    <2> QED
      BY <2>1, <2>2
  <1>4. storeFaults' \in 0..MaxStoreFaults
    BY PlansAssumption DEF JobStep, ReadPlan, FetchIssue, CloneSnapshot, LoadSnapshot,
       IndexSnapshot, Retrieve, WritePlan, JobRaises, FailPlan, AccountCost, StoreRaises,
       worldVars, IInv, TypeOK
  <1> QED
    BY <1>1, <1>2, <1>3, <1>4 DEF WorldTypes, IInv, TypeOK

\* The steps of a request that neither make a plan nor start a job.
LEMMA QuietStepKeeps ==
  ASSUME IInv, NEW r \in Requests,
         \/ SubmitCreate(r) \/ SubmitRegenerate(r) \/ SubmitHandoff(r) \/ Acquire(r)
         \/ LookForPlan(r) \/ ResolveCollision(r) \/ Investigate(r)
  PROVE  IInv' /\ rows' = rows
  <1>1. UNCHANGED <<rows, jobs, indexed, worldVars>>
    BY DEF SubmitCreate, SubmitRegenerate, SubmitHandoff, Acquire, LookForPlan,
       ResolveCollision, Investigate
  <1>2. RequestInv' /\ HandedInv' /\ ClientTypes'
    BY SubmitCreateKeeps, SubmitRegenerateKeeps, SubmitHandoffKeeps, AcquireKeeps,
       LookForPlanKeeps, ResolveCollisionKeeps, InvestigateKeeps
  <1>3. JobInv' /\ TextInv' /\ OnePlanPerIssue' /\ ActiveHasJob'
    BY <1>1, QuietKeeps DEF worldVars
  <1>4. TypeOK'
    BY <1>1, <1>2, SplitTypes DEF IInv, TypeOK, WorldTypes, worldVars
  <1> QED
    BY <1>1, <1>2, <1>3, <1>4 DEF IInv

\* A push upstream and a cleared directory touch neither plans nor jobs.
LEMMA WorldStepKeeps ==
  ASSUME IInv, PushUpstream \/ DeleteSnapshot
  PROVE  IInv' /\ rows' = rows
  <1>1. UNCHANGED <<rows, clientVars, jobs, indexed, up, restarts, storeFaults>>
    BY DEF PushUpstream, DeleteSnapshot
  <1>2. JobInv' /\ TextInv' /\ OnePlanPerIssue' /\ ActiveHasJob'
    BY <1>1, QuietKeeps
  <1>3. ClientTypes' /\ HandedInv'
    BY <1>1 DEF IInv, TypeOK, ClientTypes, HandedInv, clientVars
  <1>4. RequestInv'
    BY <1>1 DEF IInv, RequestInv, RequestOk, clientVars, PlansFor, Plans, IsRunning
  <1>5. head' \in Commits /\ deleted' \subseteq Nat
    BY PlansAssumption DEF PushUpstream, DeleteSnapshot, IInv, TypeOK, Commits, Plans
  <1>6. TypeOK'
    BY <1>1, <1>3, <1>5, SplitTypes DEF IInv, TypeOK, WorldTypes
  <1> QED
    BY <1>1, <1>2, <1>3, <1>4, <1>6 DEF IInv

\* Every step keeps the invariant.
LEMMA NextIInv == IInv /\ [Next]_vars => IInv'
  <1> SUFFICES ASSUME IInv, [Next]_vars PROVE IInv'
    OBVIOUS
  <1>1. ASSUME NEW r \in Requests, JobStep(r) \/ StoreRaises(r) PROVE IInv'
    BY <1>1, JobStepFaithful, FaithfulKeeps, JobStepTypes, SplitTypes DEF IInv
  <1>2. ASSUME NEW r \in Requests,
               \/ SubmitCreate(r) \/ SubmitRegenerate(r) \/ SubmitHandoff(r) \/ Acquire(r)
               \/ LookForPlan(r) \/ ResolveCollision(r) \/ Investigate(r)
        PROVE  IInv'
    BY <1>2, QuietStepKeeps
  <1>3. ASSUME NEW r \in Requests, InsertPlan(r) \/ UpdateStatus(r) PROVE IInv'
    <2>1. UNCHANGED <<indexed, worldVars>>
      BY <1>3 DEF InsertPlan, UpdateStatus
    <2>2. WorldTypes'
      BY <2>1 DEF IInv, TypeOK, WorldTypes, worldVars
    <2> QED
      BY <1>3, <2>2, InsertPlanKeeps, UpdateStatusKeeps, SplitTypes DEF IInv
  <1>4. CASE PushUpstream \/ DeleteSnapshot
    BY <1>4, WorldStepKeeps
  <1>5. CASE Crash
    <2>1. /\ UNCHANGED <<rows, head, indexed, deleted, storeFaults>> /\ up' = FALSE
          /\ restarts < MaxRestarts /\ restarts' = restarts + 1
      BY <1>5 DEF Crash
    <2>2. restarts' \in 0..MaxRestarts
      BY <2>1, PlansAssumption DEF IInv, TypeOK
    <2>3. WorldTypes'
      BY <2>1, <2>2 DEF IInv, TypeOK, WorldTypes
    <2>4. rows' \in Seq(Rows)
      BY <2>1 DEF IInv, TypeOK
    <2> QED
      BY <1>5, <2>3, <2>4, CrashKeeps, SplitTypes DEF IInv
  <1>6. CASE Restart
    <2>1. jobs' \in [Requests -> Jobs] /\ ClientTypes' /\ WorldTypes'
      BY <1>6 DEF Restart, IInv, TypeOK, ClientTypes, WorldTypes, clientVars
    <2> QED
      BY <1>6, <2>1, RestartKeeps, SplitTypes DEF IInv
  <1>7. CASE UNCHANGED vars
    <2>1. UNCHANGED <<rows, clientVars, jobs, indexed, worldVars>>
      BY <1>7 DEF vars
    <2>2. JobInv' /\ TextInv' /\ OnePlanPerIssue' /\ ActiveHasJob'
      BY <2>1, QuietKeeps DEF worldVars
    <2>3. RequestInv'
      BY <2>1 DEF IInv, RequestInv, RequestOk, clientVars, worldVars, PlansFor, Plans, IsRunning
    <2> QED
      BY <2>1, <2>2, <2>3 DEF IInv, TypeOK, HandedInv, clientVars, worldVars
  <1> QED
    BY <1>1, <1>2, <1>3, <1>4, <1>5, <1>6, <1>7 DEF Next, ClientStep

-----------------------------------------------------------------------------
\* In every state, and so in every instance: the plans are typed, one for each issue of a
\* user, at one job each, and coherent.
THEOREM PlansInvariant == Spec => []IInv
  BY InitIInv, NextIInv, PTL DEF Spec

\* Two first clicks at once share one plan (the lock of POST /issue-plans and the look-up
\* under it): a user never has two plans for one issue.
THEOREM OnePlanPerIssueHolds == Spec => []OnePlanPerIssue
  <1>1. IInv => OnePlanPerIssue
    BY DEF IInv
  <1> QED
    BY <1>1, PlansInvariant, PTL

\* No two jobs write to one plan, and an active plan has one, unless a database error that
\* generate_plan does not handle took it away.
THEOREM JobsMatchPlansHolds == Spec => []JobsMatchPlans
  <1>1. ASSUME IInv PROVE OneJobPerPlan
    <2> SUFFICES ASSUME NEW p \in Plans PROVE Cardinality(JobsOn(p)) <= 1
      BY DEF OneJobPerPlan
    <2> USE DEF IInv
    <2>1. \A r, s \in JobsOn(p) : r = s
      BY <1>1 DEF JobsOn, JobInv, IsGenerating
    <2> DEFINE A == JobsOn(p)
    <2>2. \A r, s \in A : r = s
      BY <2>1
    <2> HIDE DEF A
    <2>3. CASE A = {}
      <3>1. Cardinality(A) = 0
        BY <2>3, FS_EmptySet
      <3> QED
        BY <3>1 DEF A
    <2>4. CASE A # {}
      <3>1. PICK r \in A : TRUE
        BY <2>4
      <3>2. A = {r}
        BY <2>2, <3>1
      <3>3. Cardinality(A) = 1
        BY <3>2, FS_Singleton
      <3> QED
        BY <3>3 DEF A
    <2> QED
      BY <2>3, <2>4
  <1>2. IInv => JobsMatchPlans
    BY <1>1 DEF IInv, JobsMatchPlans
  <1> QED
    BY <1>2, PlansInvariant, PTL

\* A result is shown with its own excerpts and commit, at every commit of every stage of
\* generate_plan, the failed ones included.
THEOREM EvidenceMatchesResultHolds == Spec => []EvidenceMatchesResult
  <1>1. IInv => EvidenceMatchesResult
    BY DEF IInv, TextInv, Coherent, EvidenceMatchesResult
  <1> QED
    BY <1>1, PlansInvariant, PTL

\* An investigation that starts from a plan works on the commit of the guidance it is given,
\* whatever was regenerated between POST /runs/auto and the background check.
THEOREM HandoffIsCoherentHolds == Spec => []HandoffIsCoherent
  <1>1. IInv => HandoffIsCoherent
    BY DEF IInv, HandedInv, HandoffIsCoherent
  <1> QED
    BY <1>1, PlansInvariant, PTL

-----------------------------------------------------------------------------
(***************************************************************************)
(* Every plan implements PlanPreview.                                      *)
(***************************************************************************)
PlanStays(p) == PhaseOf(p)' = PhaseOf(p) /\ PreviewOf(p)' = PreviewOf(p)

PlanStep(p) ==
  \/ PlanStays(p)
  \/ /\ PhaseOf(p) \in {"absent", "settled"} /\ PhaseOf(p)' = "working"
     /\ PreviewOf(p)' = PreviewOf(p)
  \/ /\ PhaseOf(p) = "working" /\ PhaseOf(p)' = "settled" /\ PreviewOf(p)' = PreviewOf(p)
  \/ /\ PhaseOf(p) = "working" /\ PhaseOf(p)' = "settled"
     /\ \E edition \in Requests, c \in Commits :
          /\ PreviewOf(p)' = [result |-> edition, sources |-> edition, commit |-> c]
          /\ PreviewOf(p) # None => PreviewOf(p).commit = c /\ PreviewOf(p).result # edition

\* A coherent payload is shown by its result alone.
Shown(result) ==
  IF result = None THEN None
  ELSE [result |-> result.job, sources |-> result.job, commit |-> result.commit]

\* A step that leaves the table alone shows nothing new.
LEMMA SameRowStays ==
  ASSUME UNCHANGED rows, NEW p PROVE PlanStays(p)
  BY DEF PlanStays, PhaseOf, PreviewOf, Plans, Active

\* Only a job that succeeds publishes, a result of its own and from the same commit.
LEMMA JobPublishes ==
  ASSUME IInv, IInv', NEW r \in Requests, Faithful(r), NEW p
  PROVE  PlanStep(p)
  <1>1. PICK j \in Jobs, status \in PlanStatus, payload \in SavedPlans :
          JobMoves(r, j, status, payload) /\ KeepsFaith(r, j, status, payload)
    BY DEF Faithful
  <1>0. PICK n, old : n = jobs[r].plan /\ old = rows[n].payload
    OBVIOUS
  <1>2. /\ n \in Plans /\ j.plan = n /\ Plans' = Plans /\ ChangesRow(n, status, payload)
        /\ old \in SavedPlans /\ Coherent(old)
        /\ IsGenerating(r) => Active(n)
    BY <1>0, <1>1, ChangesKeepOwners, JobKnown DEF JobMoves, Active
  <1>7. /\ j.stage \in Generating => IsGenerating(r) /\ status \in ACTIVE
        /\ Coherent(payload)
        /\ ~IsGenerating(r) => status = rows[n].status /\ payload = old
        /\ \/ payload.result = old.result
           \/ /\ payload.result # None /\ payload.result.job = r
              /\ IsGenerating(r) /\ status \notin ACTIVE
              /\ old.result # None => payload.commit = old.commit
    BY <1>0, <1>1 DEF KeepsFaith
  <1>3. CASE p \notin Plans
    BY <1>2, <1>3 DEF PlanStep, PlanStays, PhaseOf, PreviewOf
  <1>4. CASE p \in Plans /\ p # n
    BY <1>2, <1>4 DEF PlanStep, PlanStays, PhaseOf, PreviewOf, ChangesRow, Active
  <1>5. CASE p = n
    <2>1. rows'[n].status = status /\ rows'[n].payload = payload
      BY <1>2 DEF ChangesRow
    <2>2. PreviewOf(n) = Shown(old.result) /\ PreviewOf(n)' = Shown(payload.result)
      <3>1. PreviewOf(n) = Shown(old.result)
        BY <1>0, <1>2 DEF PreviewOf, Shown, Coherent
      <3>2. PreviewOf(n)' = Shown(payload.result)
        BY <1>2, <1>7, <2>1 DEF PreviewOf, Shown, Coherent
      <3> QED
        BY <3>1, <3>2
    <2>3. /\ PhaseOf(n) = IF Active(n) THEN "working" ELSE "settled"
          /\ PhaseOf(n)' = IF status \in ACTIVE THEN "working" ELSE "settled"
      BY <1>2, <2>1 DEF PhaseOf, Active
    <2>4. CASE payload.result = old.result
      <3>1. PreviewOf(n)' = PreviewOf(n)
        BY <2>2, <2>4
      <3>2. \/ PhaseOf(n)' = PhaseOf(n)
            \/ PhaseOf(n) = "working" /\ PhaseOf(n)' = "settled"
        <4>1. CASE IsGenerating(r)
          BY <1>2, <2>3, <4>1
        <4>2. CASE ~IsGenerating(r)
          BY <1>7, <2>3, <4>2 DEF Active
        <4> QED
          BY <4>1, <4>2
      <3> QED
        BY <1>5, <3>1, <3>2 DEF PlanStep, PlanStays
    <2>5. CASE payload.result # old.result
      <3>1. /\ payload.result # None /\ payload.result.job = r /\ IsGenerating(r)
            /\ status \notin ACTIVE /\ Coherent(payload)
            /\ old.result # None => payload.commit = old.commit
        BY <1>7, <2>5
      <3>2. /\ payload.result \in Results /\ payload.result.commit \in Commits
            /\ payload.result.commit = payload.commit
        BY <1>1, <3>1 DEF SavedPlans, Results, Coherent
      <3>3. PreviewOf(n)' = [result |-> r, sources |-> r, commit |-> payload.commit]
        BY <2>2, <3>1, <3>2 DEF Shown
      <3>4. PreviewOf(n) # None => /\ PreviewOf(n).commit = payload.commit
                                   /\ PreviewOf(n).result # r
        <4> SUFFICES ASSUME PreviewOf(n) # None
                     PROVE  PreviewOf(n).commit = payload.commit /\ PreviewOf(n).result # r
          OBVIOUS
        <4>1. /\ old.result # None
              /\ PreviewOf(n).commit = old.result.commit /\ PreviewOf(n).result = old.result.job
          BY <2>2 DEF Shown
        <4>2. old.result.commit = payload.commit
          BY <1>2, <3>1, <4>1 DEF Coherent
        <4>3. jobs[old.result.job].stage \notin Generating
          BY <1>0, <1>2, <4>1 DEF IInv, TextInv
        <4> QED
          BY <3>1, <4>1, <4>2, <4>3 DEF IsGenerating
      <3>5. PhaseOf(n) = "working" /\ PhaseOf(n)' = "settled"
        BY <1>2, <2>3, <3>1
      <3> QED
        BY <1>5, <3>2, <3>3, <3>4, <3>5 DEF PlanStep
    <2> QED
      BY <2>4, <2>5
  <1> QED
    BY <1>2, <1>3, <1>4, <1>5

\* Starting a job shows nothing new.
LEMMA StartRequests ==
  ASSUME IInv, NEW r \in Requests, NEW q, Starts(r, q), NEW p
  PROVE  PlanStep(p)
  <1>1. CASE p \in Plans /\ p # q
    BY <1>1 DEF PlanStep, PlanStays, PhaseOf, PreviewOf, Starts, Active
  <1>2. CASE p \in Plans /\ p = q
    <2>1. PhaseOf(p) = "settled" /\ PhaseOf(p)' = "working"
      BY <1>2 DEF PhaseOf, Starts, Active
    <2>2. PreviewOf(p)' = PreviewOf(p)
      BY <1>2 DEF PreviewOf, Starts
    <2> QED
      BY <2>1, <2>2 DEF PlanStep
  <1>3. CASE p \notin Plans /\ p = q
    <2>1. PhaseOf(p) = "absent" /\ PhaseOf(p)' = "working"
      BY <1>3 DEF PhaseOf, Starts, Active
    <2>2. PreviewOf(p)' = PreviewOf(p)
      BY <1>3 DEF PreviewOf, Starts, NewPlan
    <2> QED
      BY <2>1, <2>2 DEF PlanStep
  <1>4. CASE p \notin Plans /\ p # q
    BY <1>4 DEF PlanStep, PlanStays, PhaseOf, PreviewOf, Starts
  <1> QED
    BY <1>1, <1>2, <1>3, <1>4

\* A restart gives up on every active plan at once.
LEMMA RestartGivesUp ==
  ASSUME IInv, Restart, Plans' = Plans, NEW p,
         \A n \in Plans : rows'[n].payload = rows[n].payload /\ rows'[n].status \notin ACTIVE
  PROVE  PlanStep(p)
  <1>1. PreviewOf(p)' = PreviewOf(p)
    BY DEF PreviewOf
  <1>2. PhaseOf(p)' = IF p \in Plans THEN "settled" ELSE "absent"
    BY DEF PhaseOf, Active
  <1>3. PhaseOf(p) \in IF p \in Plans THEN {"working", "settled"} ELSE {"absent"}
    BY DEF PhaseOf
  <1> QED
    BY <1>1, <1>2, <1>3 DEF PlanStep, PlanStays

\* Every step is one of PlanPreview's for every plan.
LEMMA NextPlanStep ==
  ASSUME IInv, IInv', [Next]_vars, NEW p PROVE PlanStep(p)
  <1>1. ASSUME NEW r \in Requests, JobStep(r) \/ StoreRaises(r) PROVE PlanStep(p)
    BY <1>1, JobStepFaithful, JobPublishes
  <1>2. ASSUME NEW r \in Requests,
               \/ SubmitCreate(r) \/ SubmitRegenerate(r) \/ SubmitHandoff(r) \/ Acquire(r)
               \/ LookForPlan(r) \/ ResolveCollision(r) \/ Investigate(r)
        PROVE  PlanStep(p)
    BY <1>2, QuietStepKeeps, SameRowStays DEF PlanStep
  <1>3. ASSUME NEW r \in Requests, InsertPlan(r) \/ UpdateStatus(r) PROVE PlanStep(p)
    <2>1. rows' = rows \/ \E q : Starts(r, q)
      BY <1>3, InsertPlanKeeps, UpdateStatusKeeps
    <2> QED
      BY <2>1, SameRowStays, StartRequests DEF PlanStep
  <1>4. CASE PushUpstream \/ DeleteSnapshot \/ Crash \/ UNCHANGED vars
    <2>1. UNCHANGED rows
      BY <1>4 DEF PushUpstream, DeleteSnapshot, Crash, vars
    <2> QED
      BY <2>1, SameRowStays DEF PlanStep
  <1>5. CASE Restart
    BY <1>5, RestartKeeps, RestartGivesUp
  <1> QED
    BY <1>1, <1>2, <1>3, <1>4, <1>5 DEF Next, ClientStep

\* Every plan keeps what PlanPreview promises: the last complete preview stays until a
\* generation succeeds, and is then replaced all at once, from the same commit.
THEOREM PreviewImplemented == Spec => ImplementsPreview
  <1>1. Init => Preview!Init
    <2> SUFFICES ASSUME Init PROVE Preview!Init
      OBVIOUS
    <2>1. Plans = {}
      BY EmptySeq DEF Init, Plans
    <2>2. \A p \in PlanIds : PhaseOf(p) = "absent" /\ PreviewOf(p) = None
      BY <2>1 DEF PhaseOf, PreviewOf
    <2> QED
      BY <2>2 DEF Preview!Init
  <1>2. IInv /\ IInv' /\ [Next]_vars =>
          [Preview!Next]_<<[p \in PlanIds |-> PhaseOf(p)], [p \in PlanIds |-> PreviewOf(p)]>>
    <2> SUFFICES ASSUME IInv, IInv', [Next]_vars PROVE Preview!Next
      OBVIOUS
    <2> SUFFICES ASSUME NEW p \in PlanIds
                 PROVE  \/ Preview!Request(p) \/ Preview!Publish(p) \/ Preview!GiveUp(p)
                        \/ /\ [n \in PlanIds |-> PhaseOf(n)]'[p] = [n \in PlanIds |-> PhaseOf(n)][p]
                           /\ Preview!Stays(p)
      BY DEF Preview!Next
    <2>1. PlanStep(p)
      BY NextPlanStep
    <2> QED
      BY <2>1 DEF PlanStep, PlanStays, Preview!Request, Preview!Publish, Preview!GiveUp, Preview!Stays
  <1> QED
    BY <1>1, <1>2, PlansInvariant, PTL DEF Spec, ImplementsPreview, Preview!Spec
=============================================================================
