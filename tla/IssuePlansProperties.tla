------------------------ MODULE IssuePlansProperties ------------------------
(***************************************************************************)
(* What IssuePlans must guarantee, and what its documentation says it      *)
(* guarantees.                                                             *)
(***************************************************************************)
EXTENDS IssuePlans

\* No request makes more than one plan.
PlanIds == 1..Cardinality(Requests)

Asks == {None}
  \union [user : Users, issue : Issues, request_id : Keys]
  \union [plan : Nat, snapshot : BOOLEAN]
  \union [plan : Nat, saved : SavedPlans]

TypeOK ==
  /\ rows \in Seq(Rows)
  /\ pc \in [Requests -> ClientStages]
  /\ ask \in [Requests -> Asks]
  /\ answer \in [Requests -> Nat \union {None}]
  /\ lock \in Requests \union {None}
  /\ jobs \in [Requests -> Jobs]
  /\ handed \in [Requests -> [commit : Commits, guidance : Results] \union {None}]
  /\ head \in Commits
  /\ indexed \subseteq Commits
  /\ deleted \subseteq Nat
  /\ up \in BOOLEAN
  /\ restarts \in 0..MaxRestarts
  /\ storeFaults \in 0..MaxStoreFaults

\* Two first clicks at once share one plan: a user never has two plans for one
\* issue, whatever request ids the clicks carry.
OnePlanPerIssue ==
  \A p, q \in Plans :
    rows[p].owner = rows[q].owner /\ rows[p].issue = rows[q].issue => p = q

\* The jobs that are generating plan p.
JobsOn(p) == {r \in Requests : jobs[r].stage \in Generating /\ jobs[r].plan = p}

\* No two jobs ever write to one plan, so neither overwrites the other's stage
\* or takes a half-written payload for the original it has to restore.
OneJobPerPlan == \A p \in Plans : Cardinality(JobsOn(p)) <= 1

\* A plan that says it is being worked on is: a job is on it, scheduled or
\* running.  Only a database error that the job does not handle may leave one
\* behind, and each error leaves one at most: neither create nor regenerate can
\* revive such a plan.
Stranded == {p \in Plans : Active(p) /\ JobsOn(p) = {}}

ActiveHasJob == up => Cardinality(Stranded) <= storeFaults

\* Together: the jobs that generate are, one each, those of the active plans.
JobsMatchPlans == OneJobPerPlan /\ ActiveHasJob

\* A result is only ever shown with the excerpts it was written from and may
\* cite, and with the commit they were read at.
EvidenceMatchesResult ==
  \A p \in Plans :
    LET saved == rows[p].payload
    IN  saved.result # None => /\ saved.sources = saved.result.job
                               /\ saved.commit = saved.result.commit

\* "Regenerate uses the same saved commit": once a plan is pinned to a commit,
\* no retry, regeneration, upstream push or restart moves it.
SnapshotPinned ==
  [][\A p \in Plans : rows[p].payload.commit # None
       => rows'[p].payload.commit = rows[p].payload.commit]_rows

\* An investigation started from a plan works on the very commit the guidance
\* it is given was written from, even if the plan is regenerated meanwhile.
HandoffIsCoherent ==
  \A r \in Requests : handed[r] # None => handed[r].guidance.commit = handed[r].commit

\* Without crashes, what the plan's row says its generations cost is what its
\* finished jobs paid the provider, concurrent writes to the row or not.
CostIsAccounted ==
  (restarts = 0 /\ storeFaults = 0) =>
    \A p \in Plans :
      rows[p].cost = Cardinality({r \in Requests : /\ jobs[r].plan = p
                                                   /\ jobs[r].stage = "done"
                                                   /\ jobs[r].spent = 1})

\* Every generation comes to an end: the plan is ready or failed, or the server
\* went down under it.
Settled(p) == ~up \/ (p \in Plans /\ ~Active(p))

ActivePlansSettle ==
  \A p \in PlanIds : (p \in Plans /\ Active(p)) ~> Settled(p)

\* Every request made is answered, the lock held by another included.
RequestsAreAnswered ==
  \A r \in Requests : pc[r] \in InFlight ~> pc[r] \in {"answered", "dead"}

-----------------------------------------------------------------------------
(***************************************************************************)
(* What the reader of a plan sees of it.                                   *)
(***************************************************************************)

PreviewOf(p) ==
  IF p \notin Plans \/ rows[p].payload.result = None THEN None
  ELSE [result  |-> rows[p].payload.result.job,
        sources |-> rows[p].payload.sources,
        commit  |-> rows[p].payload.commit]

PhaseOf(p) ==
  IF p \notin Plans THEN "absent" ELSE IF Active(p) THEN "working" ELSE "settled"

Preview == INSTANCE PlanPreview WITH
  Ids      <- PlanIds,
  Editions <- Requests,
  phase    <- [p \in PlanIds |-> PhaseOf(p)],
  preview  <- [p \in PlanIds |-> PreviewOf(p)]

\* Every plan keeps the promise of PlanPreview, whoever asks for what meanwhile
\* and wherever the server dies.
ImplementsPreview == Preview!Spec

-----------------------------------------------------------------------------
(***************************************************************************)
(* What the program says of itself and does not keep.                      *)
(***************************************************************************)

\* planning/service.py:78, "The saved repository version is unavailable. Create
\* a new plan.": asking for a plan again gets one whose snapshot is there.
CreateReplacesLostPlan ==
  [][\A r \in Requests :
       (pc[r] = "looking" /\ pc'[r] = "answered") => answer'[r] \notin deleted]_vars
=============================================================================
