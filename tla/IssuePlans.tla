----------------------------- MODULE IssuePlans -----------------------------
(***************************************************************************)
(* Resolution plans: the issue_plans table, the three requests that touch  *)
(* it (create, regenerate, start an investigation from a plan) and the     *)
(* background job that fills a plan in.                                    *)
(*                                                                         *)
(* The handlers are plain functions, so FastAPI runs them in a thread pool *)
(* where they interleave with each other and with the jobs between any two *)
(* database transactions.  A request starts at most one job, which runs    *)
(* after the response, so a job bears the name of its request.  A server   *)
(* that dies takes requests and jobs with it; on its way up it marks what  *)
(* they left unfinished.                                                   *)
(*                                                                         *)
(* All issues belong to one repository: plans of different repositories    *)
(* share neither rows nor index.  Excerpts are known by the job that       *)
(* retrieved them, a result by the job that wrote it and its commit.       *)
(***************************************************************************)
EXTENDS Naturals, Sequences, FiniteSets

CONSTANTS
  Requests,        \* the requests made of the server, each at most once
  Users, Issues,
  Keys,            \* the request_ids clients choose; nothing keeps them apart
  None,
  Ops,             \* which of the three requests are made
  MaxCommits,      \* bound on the commits upstream
  MaxRestarts,     \* bound on crashes of the server
  MaxStoreFaults   \* bound on database errors where the job handles none

ASSUME PlansAssumption ==
  /\ Ops \subseteq {"create", "regenerate", "handoff"}
  /\ MaxCommits \in Nat \ {0}
  /\ MaxRestarts \in Nat
  /\ MaxStoreFaults \in Nat

VARIABLES
  rows,      \* the issue_plans table, in created_at order; a plan id is an index
  pc,        \* how far each request has come
  ask,       \* what each request asked for
  answer,    \* the plan a request was answered with
  lock,      \* the holder of _creation_lock
  jobs,      \* the background job each request started
  handed,    \* the investigation each handoff started
  head,      \* the default branch upstream
  indexed,   \* the commits with chunks in the index
  deleted,   \* the plans whose snapshot files are gone from the disk
  up,        \* the server runs
  restarts, storeFaults   \* only bound the model

clientVars == <<pc, ask, answer, lock, handed>>
worldVars  == <<head, deleted, up, restarts, storeFaults>>
vars == <<rows, clientVars, jobs, indexed, worldVars>>

ACTIVE == {"fetching", "preparing", "retrieving", "writing"}
PlanStatus == ACTIVE \union {"ready", "failed", "interrupted"}

Commits == 1..MaxCommits
Results == [job : Requests, commit : Commits]

\* SavedPlan; commit stands for snapshot and commit_sha, always set together,
\* text for issue_text, discussion and context_truncated.
SavedPlans == [text    : BOOLEAN,
               commit  : Commits \union {None},
               sources : Requests \union {None},
               result  : Results \union {None}]

NewPlan == [text |-> FALSE, commit |-> None, sources |-> None, result |-> None]

Rows == [owner : Users, issue : Issues, request_id : Keys,
         status : PlanStatus, payload : SavedPlans, cost : Nat]

\* "account" is generate_plan's finally block.
Generating == {"scheduled", "fetch", "clone", "load", "index", "retrieve",
               "write", "failing"}
JobStages == Generating \union {"none", "account", "done", "dead"}
Jobs == [stage : JobStages, plan : Nat, original : SavedPlans,
         saved : SavedPlans, spent : {0, 1}]

NoJob == [stage |-> "none", plan |-> 0, original |-> NewPlan, saved |-> NewPlan,
          spent |-> 0]

ASSUME NoneAssumption == None \notin Requests \union Commits \union Results

ClientStages == {"idle", "locking", "looking", "inserting", "colliding",
                 "updating", "handing", "answered", "dead"}
InFlight == ClientStages \ {"idle", "answered", "dead"}

Plans == 1..Len(rows)
Active(p) == rows[p].status \in ACTIVE

Init ==
  /\ rows = <<>>
  /\ pc = [r \in Requests |-> "idle"]
  /\ ask = [r \in Requests |-> None]
  /\ answer = [r \in Requests |-> None]
  /\ lock = None
  /\ jobs = [r \in Requests |-> NoJob]
  /\ handed = [r \in Requests |-> None]
  /\ head = 1
  /\ indexed = {}
  /\ deleted = {}
  /\ up = TRUE
  /\ restarts = 0
  /\ storeFaults = 0

-----------------------------------------------------------------------------
(***************************************************************************)
(* POST /issue-plans.                                                      *)
(***************************************************************************)

Goto(r, stage) == pc' = [pc EXCEPT ![r] = stage]

\* add_task: the job waits until the response is out.
Schedule(r, p) == jobs' = [jobs EXCEPT ![r] = [NoJob EXCEPT !.stage = "scheduled", !.plan = p]]

AnswerWith(r, p) ==
  /\ answer' = [answer EXCEPT ![r] = p]
  /\ Goto(r, "answered")

SubmitCreate(r) ==
  /\ up /\ pc[r] = "idle" /\ "create" \in Ops
  /\ \E u \in Users, i \in Issues, k \in Keys :
       ask' = [ask EXCEPT ![r] = [user |-> u, issue |-> i, request_id |-> k]]
  /\ Goto(r, "locking")
  /\ UNCHANGED <<rows, answer, lock, jobs, handed, indexed, worldVars>>

\* Mutant: no lock.
AcquireNothing(r) ==
  /\ pc[r] = "locking"
  /\ lock' = r
  /\ Goto(r, "looking")
  /\ UNCHANGED <<rows, ask, answer, jobs, handed, indexed, worldVars>>

Acquire(r) ==
  /\ pc[r] = "locking"
  /\ lock = None
  /\ lock' = r
  /\ Goto(r, "looking")
  /\ UNCHANGED <<rows, ask, answer, jobs, handed, indexed, worldVars>>

\* The plans of one user for one issue; the latest of them is the answer.
PlansFor(q) == {p \in Plans : rows[p].owner = q.user /\ rows[p].issue = q.issue}

Latest(ps) == CHOOSE p \in ps : \A q \in ps : q <= p

LookForPlan(r) ==
  /\ pc[r] = "looking"
  /\ IF PlansFor(ask[r]) = {}
     THEN Goto(r, "inserting") /\ UNCHANGED <<answer, lock>>
     ELSE AnswerWith(r, Latest(PlansFor(ask[r]))) /\ lock' = None
  /\ UNCHANGED <<rows, ask, jobs, handed, indexed, worldVars>>

NewRow(q) == [owner |-> q.user, issue |-> q.issue, request_id |-> q.request_id,
              status |-> "fetching", payload |-> NewPlan, cost |-> 0]

\* Mutant: the lock is not given back after the insert.
InsertPlanKeepsLock(r) ==
  /\ pc[r] = "inserting"
  /\ IF \E p \in Plans : rows[p].request_id = ask[r].request_id
     THEN Goto(r, "colliding") /\ UNCHANGED <<rows, answer, jobs>>
     ELSE /\ rows' = Append(rows, NewRow(ask[r]))
          /\ Schedule(r, Len(rows) + 1)
          /\ AnswerWith(r, Len(rows) + 1)
  /\ UNCHANGED <<ask, lock, handed, indexed, worldVars>>

\* The insert commits, or the unique request_id refuses it.
InsertPlan(r) ==
  /\ pc[r] = "inserting"
  /\ IF \E p \in Plans : rows[p].request_id = ask[r].request_id
     THEN Goto(r, "colliding") /\ UNCHANGED <<rows, answer, lock, jobs>>
     ELSE /\ rows' = Append(rows, NewRow(ask[r]))
          /\ Schedule(r, Len(rows) + 1)
          /\ AnswerWith(r, Len(rows) + 1)
          /\ lock' = None
  /\ UNCHANGED <<ask, handed, indexed, worldVars>>

\* The same request again gets the plan it made; another one gets a 409.
ResolveCollision(r) ==
  /\ pc[r] = "colliding"
  /\ LET same == {p \in PlansFor(ask[r]) : rows[p].request_id = ask[r].request_id}
     IN  IF same = {} THEN Goto(r, "answered") /\ UNCHANGED answer
         ELSE AnswerWith(r, Latest(same))
  /\ lock' = None
  /\ UNCHANGED <<rows, ask, jobs, handed, indexed, worldVars>>

-----------------------------------------------------------------------------
(***************************************************************************)
(* POST /issue-plans/{plan_id}/regenerate.  Asking for a plan that is not  *)
(* one's own is a 404 that changes nothing, so those requests are left out.*)
(***************************************************************************)

\* owned_plan; what matters of the row read here is whether it had a snapshot.
SubmitRegenerate(r) ==
  /\ up /\ pc[r] = "idle" /\ "regenerate" \in Ops
  /\ \E p \in Plans :
       ask' = [ask EXCEPT ![r] = [plan |-> p, snapshot |-> rows[p].payload.commit # None]]
  /\ Goto(r, "updating")
  /\ UNCHANGED <<rows, answer, lock, jobs, handed, indexed, worldVars>>

Restaged(r) == IF ask[r].snapshot THEN "retrieving" ELSE "fetching"

\* Mutant: the job is started whatever the status.
UpdateAnyStatus(r) ==
  LET p == ask[r].plan
  IN  /\ pc[r] = "updating"
      /\ rows' = [rows EXCEPT ![p].status = Restaged(r)]
      /\ Schedule(r, p)
      /\ AnswerWith(r, p)
      /\ UNCHANGED <<ask, lock, handed, indexed, worldVars>>

\* One conditional UPDATE; a job that already runs is reused.
UpdateStatus(r) ==
  LET p == ask[r].plan
  IN  /\ pc[r] = "updating"
      /\ IF Active(p) THEN UNCHANGED <<rows, jobs>>
         ELSE /\ rows' = [rows EXCEPT ![p].status = Restaged(r)]
              /\ Schedule(r, p)
      /\ AnswerWith(r, p)
      /\ UNCHANGED <<ask, lock, handed, indexed, worldVars>>

-----------------------------------------------------------------------------
(***************************************************************************)
(* POST /runs/auto with a plan_id.                                         *)
(***************************************************************************)

\* plan_snapshot with require_index: the files and the index are still there.
SnapshotUsable(p, saved) ==
  saved.commit # None /\ p \notin deleted /\ saved.commit \in indexed

\* start_auto_run: only a ready plan is accepted, and what it says now is kept.
SubmitHandoff(r) ==
  /\ up /\ pc[r] = "idle" /\ "handoff" \in Ops
  /\ \E p \in Plans :
       LET saved == rows[p].payload
       IN  IF rows[p].status = "ready" /\ saved.result # None /\ SnapshotUsable(p, saved)
           THEN /\ ask' = [ask EXCEPT ![r] = [plan |-> p, saved |-> saved]]
                /\ Goto(r, "handing")
           ELSE Goto(r, "answered") /\ UNCHANGED ask
  /\ UNCHANGED <<rows, answer, lock, jobs, handed, indexed, worldVars>>

\* Mutant: the investigation looks at the branch as it is by now.
InvestigateHead(r) ==
  /\ pc[r] = "handing"
  /\ handed' = [handed EXCEPT ![r] = [commit |-> head, guidance |-> ask[r].saved.result]]
  /\ AnswerWith(r, ask[r].plan)
  /\ UNCHANGED <<rows, ask, lock, jobs, indexed, worldVars>>

\* _run_auto_pipeline: the snapshot is checked again in the background.
Investigate(r) ==
  LET saved == ask[r].saved
  IN  /\ pc[r] = "handing"
      /\ IF SnapshotUsable(ask[r].plan, saved)
         THEN handed' = [handed EXCEPT ![r] = [commit |-> saved.commit, guidance |-> saved.result]]
         ELSE UNCHANGED handed
      /\ AnswerWith(r, ask[r].plan)
      /\ UNCHANGED <<rows, ask, lock, jobs, indexed, worldVars>>

-----------------------------------------------------------------------------
(***************************************************************************)
(* generate_plan.  Each action ends where the job commits a stage; what it *)
(* awaited before that may raise, which JobRaises covers.                  *)
(***************************************************************************)

At(r, stage) == jobs[r].stage = stage

\* save_stage: status and payload in one transaction.
SaveStage(r, status, saved) ==
  rows' = [rows EXCEPT ![jobs[r].plan].status = status, ![jobs[r].plan].payload = saved]

JobTo(r, stage, saved) ==
  jobs' = [jobs EXCEPT ![r].stage = stage, ![r].saved = saved]

ReadPlan(r) ==
  LET payload == rows[jobs[r].plan].payload
  IN  /\ At(r, "scheduled")
      /\ jobs' = [jobs EXCEPT ![r].stage = IF payload.commit # None THEN "load" ELSE "fetch",
                              ![r].original = payload, ![r].saved = payload]
      /\ UNCHANGED <<rows, clientVars, indexed, worldVars>>

\* Issue, comments and repository metadata from GitHub.
FetchIssue(r) ==
  LET saved == [jobs[r].saved EXCEPT !.text = TRUE]
  IN  /\ At(r, "fetch")
      /\ SaveStage(r, "preparing", saved)
      /\ JobTo(r, "clone", saved)
      /\ UNCHANGED <<clientVars, indexed, worldVars>>

\* A shallow clone of the default branch, into a directory of its own.
CloneSnapshot(r) ==
  LET saved == [jobs[r].saved EXCEPT !.commit = head]
  IN  /\ At(r, "clone")
      /\ SaveStage(r, "preparing", saved)
      /\ JobTo(r, "index", saved)
      /\ UNCHANGED <<clientVars, indexed, worldVars>>

\* plan_snapshot without require_index.
LoadSnapshot(r) ==
  /\ At(r, "load")
  /\ jobs[r].plan \notin deleted
  /\ SaveStage(r, "preparing", jobs[r].saved)
  /\ JobTo(r, "index", jobs[r].saved)
  /\ UNCHANGED <<clientVars, indexed, worldVars>>

\* Whoever comes first indexes the commit; indexing it again changes nothing.
IndexSnapshot(r) ==
  /\ At(r, "index")
  /\ indexed' = indexed \union {jobs[r].saved.commit}
  /\ SaveStage(r, "retrieving", jobs[r].saved)
  /\ JobTo(r, "retrieve", jobs[r].saved)
  /\ UNCHANGED <<clientVars, worldVars>>

\* Mutant: the new excerpts are shown at once.
RetrieveShowsAtOnce(r) ==
  LET saved == [jobs[r].saved EXCEPT !.sources = r]
  IN  /\ At(r, "retrieve")
      /\ SaveStage(r, "writing", saved)
      /\ JobTo(r, "write", saved)
      /\ UNCHANGED <<clientVars, indexed, worldVars>>

\* The old result keeps its excerpts until there is a new one.
Retrieve(r) ==
  LET saved    == [jobs[r].saved EXCEPT !.sources = r]
      original == jobs[r].original
      interim  == IF original.result # None
                  THEN [saved EXCEPT !.sources = original.sources] ELSE saved
  IN  /\ At(r, "retrieve")
      /\ SaveStage(r, "writing", interim)
      /\ JobTo(r, "write", saved)
      /\ UNCHANGED <<clientVars, indexed, worldVars>>

WritePlan(r) ==
  LET saved == [jobs[r].saved EXCEPT !.result = [job |-> r, commit |-> jobs[r].saved.commit]]
  IN  /\ At(r, "write")
      /\ SaveStage(r, "ready", saved)
      /\ jobs' = [jobs EXCEPT ![r].stage = "account", ![r].saved = saved, ![r].spent = 1]
      /\ UNCHANGED <<clientVars, indexed, worldVars>>

\* GitHub, git, the snapshot's files, the index, the provider or its answer:
\* anything awaited may fail.  A provider that answered was paid.
JobRaises(r) ==
  /\ jobs[r].stage \in {"fetch", "clone", "load", "index", "retrieve", "write"}
  /\ \E cost \in IF At(r, "write") THEN {0, 1} ELSE {0} :
       jobs' = [jobs EXCEPT ![r].stage = "failing", ![r].spent = cost]
  /\ UNCHANGED <<rows, clientVars, indexed, worldVars>>

\* Mutants of FailPlan: the payload becomes what the job had so far; the job
\* does not touch the status.
FailPlanSavesWork(r) ==
  /\ At(r, "failing")
  /\ SaveStage(r, "failed", jobs[r].saved)
  /\ jobs' = [jobs EXCEPT ![r].stage = "account"]
  /\ UNCHANGED <<clientVars, indexed, worldVars>>

FailPlanSilently(r) ==
  /\ At(r, "failing")
  /\ jobs' = [jobs EXCEPT ![r].stage = "account"]
  /\ UNCHANGED <<rows, clientVars, indexed, worldVars>>

\* The except block: a plan that had a result gets its payload back.
FailPlan(r) ==
  /\ At(r, "failing")
  /\ SaveStage(r, "failed", IF jobs[r].original.result # None THEN jobs[r].original
                            ELSE rows[jobs[r].plan].payload)
  /\ jobs' = [jobs EXCEPT ![r].stage = "account"]
  /\ UNCHANGED <<clientVars, indexed, worldVars>>

\* The finally block, a transaction of its own.
AccountCost(r) ==
  /\ At(r, "account")
  /\ rows' = [rows EXCEPT ![jobs[r].plan].cost = @ + jobs[r].spent]
  /\ jobs' = [jobs EXCEPT ![r].stage = "done"]
  /\ UNCHANGED <<clientVars, indexed, worldVars>>

\* read_plan is called outside the try, and neither the except block nor the
\* finally block has anyone to catch what its own transaction raises.
StoreRaises(r) ==
  /\ storeFaults < MaxStoreFaults
  /\ jobs[r].stage \in {"scheduled", "failing", "account"}
  /\ jobs' = [jobs EXCEPT ![r].stage = IF At(r, "failing") THEN "account" ELSE "dead"]
  /\ storeFaults' = storeFaults + 1
  /\ UNCHANGED <<rows, clientVars, indexed, head, deleted, up, restarts>>

-----------------------------------------------------------------------------
(***************************************************************************)
(* The world around the server.                                            *)
(***************************************************************************)

PushUpstream ==
  /\ head < MaxCommits
  /\ head' = head + 1
  /\ UNCHANGED <<rows, clientVars, jobs, indexed, deleted, up, restarts, storeFaults>>

\* The operator clears the snapshot directory of a plan.
DeleteSnapshot ==
  /\ \E p \in Plans : /\ rows[p].payload.commit # None
                      /\ deleted' = deleted \union {p}
  /\ UNCHANGED <<rows, clientVars, jobs, indexed, head, up, restarts, storeFaults>>

Crash ==
  /\ up /\ restarts < MaxRestarts
  /\ up' = FALSE
  /\ restarts' = restarts + 1
  /\ pc' = [r \in Requests |-> IF pc[r] \in InFlight THEN "dead" ELSE pc[r]]
  /\ jobs' = [r \in Requests |->
                IF jobs[r].stage \in Generating \union {"account"}
                THEN [jobs[r] EXCEPT !.stage = "dead"] ELSE jobs[r]]
  /\ lock' = None
  /\ UNCHANGED <<rows, ask, answer, handed, indexed, head, deleted, storeFaults>>

\* lifespan: interrupt_unfinished before the first request is served.
Restart ==
  /\ ~up
  /\ up' = TRUE
  /\ rows' = [p \in Plans |-> IF Active(p) THEN [rows[p] EXCEPT !.status = "interrupted"]
                              ELSE rows[p]]
  /\ UNCHANGED <<clientVars, jobs, indexed, head, deleted, restarts, storeFaults>>

-----------------------------------------------------------------------------
ClientStep(r) ==
  \/ Acquire(r) \/ LookForPlan(r) \/ InsertPlan(r) \/ ResolveCollision(r)
  \/ UpdateStatus(r) \/ Investigate(r)

JobStep(r) ==
  \/ ReadPlan(r) \/ FetchIssue(r) \/ CloneSnapshot(r) \/ LoadSnapshot(r)
  \/ IndexSnapshot(r) \/ Retrieve(r) \/ WritePlan(r) \/ JobRaises(r)
  \/ FailPlan(r) \/ AccountCost(r)

Next ==
  \/ \E r \in Requests :
       \/ SubmitCreate(r) \/ SubmitRegenerate(r) \/ SubmitHandoff(r)
       \/ ClientStep(r) \/ JobStep(r) \/ StoreRaises(r)
  \/ PushUpstream \/ DeleteSnapshot \/ Crash \/ Restart

\* Threads and background tasks run, and every call they await answers or times
\* out.  Nobody has to ask for anything or to restart a server.
Fairness == \A r \in Requests : WF_vars(ClientStep(r)) /\ WF_vars(JobStep(r))

Spec == Init /\ [][Next]_vars
FairSpec == Spec /\ Fairness
=============================================================================
