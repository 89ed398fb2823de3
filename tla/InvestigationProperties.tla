----------------------- MODULE InvestigationProperties -----------------------
(***************************************************************************)
(* What Investigation must guarantee, and what its documentation says it   *)
(* guarantees.  Each property names the environment it is meant for:       *)
(* "any" (overlapping requests and faults), "one request at a time"        *)
(* (Overlap = "none") or "undisturbed" (that, and no fault so far).        *)
(***************************************************************************)
EXTENDS Investigation

TypeOK ==
  /\ runRow \in RunRows
  /\ checkpoint \in Checkpoints
  /\ decisions \in Seq(HumanDecisions)
  /\ artifact \in Patches \union {None}
  /\ pc \in [Drivers -> Stages]
  /\ request \in [Reviewers -> HumanDecisions \union {None}]
  /\ mem \in [Drivers -> Checkpoints]
  /\ faults \in 0..MaxFaults

\* Every copy of the graph there is: the durable one and the drivers' own.
Copies == {checkpoint} \union {mem[d] : d \in Drivers}

-----------------------------------------------------------------------------
(***************************************************************************)
(* Any environment.                                                        *)
(***************************************************************************)

\* The two loops of the graph are budgeted whatever the requests, crashes and
\* lost updates do: no copy of the run has drafted more revisions than
\* max_patch_revisions or is about to, and none widens its search twice.
LoopsBounded ==
  \A c \in Copies :
    /\ c.state.revisions_used <= MaxRevisions
    /\ c.next = "RevisePatch" => c.state.revisions_used < MaxRevisions
    /\ c.next = "SelectAdditionalEvidence" => ~c.state.expanded

\* The report a human rules on is a passing report about the very patch shown.
PassedPatch(s) ==
  /\ s.candidate_patch # None
  /\ s.validation = [attempt |-> s.candidate_patch.attempt, passed |-> TRUE]

\* The review gate only ever offers, and EvaluateRun only ever scores, a patch
\* that exists and passed validation itself: a revision never inherits the
\* report of the patch it replaced.
GateOffersPassedPatch ==
  \A c \in Copies :
    c.next \in {"RequestHumanValidation", "EvaluateRun"} => PassedPatch(c.state)

\* Whatever overlaps or crashes, a run that ends validated, the state build_run
\* looks for, was approved by somebody, and by a Gatekeeper if the patch that
\* build_run would then apply touches a risky path.
ClearedWithAuthority ==
  \A c \in Copies :
    c.state.final_state = "PATCH_VALIDATED" =>
      \E r \in Reviewers :
        /\ request[r] # None
        /\ request[r].decision = "approve"
        /\ (c.state.candidate_patch # None /\ c.state.candidate_patch.risky)
             => request[r].role = "gatekeeper"

\* Every invocation of the graph comes to an end: it pauses, finishes or fails.
InvocationsReturn ==
  \A d \in Drivers : pc[d] \in Active ~> pc[d] \in {"returned", "failed"}

-----------------------------------------------------------------------------
(***************************************************************************)
(* One request at a time, faults allowed.                                  *)
(***************************************************************************)

\* The audit log never holds a decision nobody made, nor one decision twice,
\* however often the run is revised, fails or is resumed after a restart.
NoPhantomDecisions ==
  \A v \in HumanDecisions :
    Cardinality({i \in 1..Len(decisions) : decisions[i] = v})
      <= Cardinality({r \in Reviewers : request[r] = v})

-----------------------------------------------------------------------------
(***************************************************************************)
(* Undisturbed.                                                            *)
(***************************************************************************)

\* A run recorded as PATCH_VALIDATED has an evaluated patch that passed its own
\* validation and whose approval, by a reviewer with the authority the patch
\* asks for, is the last entry of the audit log.
ValidatedMeansReviewed ==
  faults = 0 /\ runRow.state = "PATCH_VALIDATED" =>
    /\ PassedPatch(checkpoint.state)
    /\ checkpoint.state.evaluation
    /\ decisions # <<>>
    /\ LET last == decisions[Len(decisions)]
       IN  /\ last.decision = "approve"
           /\ checkpoint.state.candidate_patch.risky => last.role = "gatekeeper"

\* When nothing is in flight the durable records agree: the log holds exactly
\* the decisions that were accepted, and a finished row, the checkpoint and the
\* saved patch tell the same story.
RecordsAgree ==
  faults = 0 /\ Quiet =>
    /\ Len(decisions) = Cardinality({r \in Reviewers : pc[r] = "returned"})
    /\ \A r \in Reviewers : pc[r] = "returned" =>
         \E i \in 1..Len(decisions) : decisions[i] = request[r]
    /\ runRow.finished = (runRow.exists /\ checkpoint.next = "END")
    /\ runRow.finished =>
         /\ checkpoint.state.final_state = runRow.state
         /\ checkpoint.state.candidate_patch \in {None, artifact}

\* A finished run stays as it finished.
FinishesOnce == [][faults = 0 /\ runRow.finished => runRow' = runRow]_runRow

\* An approval or a rejection that was accepted ends the run.
RulingEndsRun ==
  \A r \in Reviewers :
    (pc[r] = "admitted" /\ request[r].decision # "revise")
      ~> (runRow.finished \/ faults > 0)

\* The lifecycle a client sees.
LifecyclePhase ==
  IF faults > 0 THEN "broken"
  ELSE IF ~Quiet THEN "working"
  ELSE IF runRow.finished THEN "ended"
  ELSE IF runRow.exists THEN "waiting" ELSE "absent"

LifecycleVerdict ==
  LET serving == {r \in Reviewers : pc[r] \in Active}
  IN  IF faults > 0 THEN "none"
      ELSE IF serving # {} THEN request[CHOOSE r \in serving : TRUE].decision
      ELSE IF decisions = <<>> THEN "none" ELSE decisions[Len(decisions)].decision

LifecycleReviews ==
  IF faults > 0 THEN 0 ELSE Cardinality({r \in Reviewers : pc[r] # "idle"})

LifecycleOutcome == IF faults = 0 /\ Quiet /\ runRow.finished THEN runRow.state ELSE "none"

Lifecycle == INSTANCE RunLifecycle WITH
  MaxReviews <- MaxRevisions + 1,
  phase      <- LifecyclePhase,
  verdict    <- LifecycleVerdict,
  reviews    <- LifecycleReviews,
  outcome    <- LifecycleOutcome

\* A run is an implementation of RunLifecycle: unless it breaks, it is reviewed at most
\* MaxRevisions + 1 times, ends once, in an outcome its last review allows, and
\* never just stops while it is working.
ImplementsLifecycle == Lifecycle!Spec

-----------------------------------------------------------------------------
(***************************************************************************)
(* What the documentation claims and the program does not keep.            *)
(***************************************************************************)

\* api/routes.py:306, "PATCH_VALIDATED guarantees both": a run that ended
\* validated has a patch.
ValidatedHasPatch ==
  checkpoint.state.final_state = "PATCH_VALIDATED"
    => checkpoint.state.candidate_patch # None

\* graph/router.py:83, "revise once, then reject", and the README's "The patch
\* failed a required check": a run that ends on a patch that failed validation
\* ends rejected.
FailedPatchIsRejected ==
  LET s == checkpoint.state
  IN  (/\ s.final_state # None
       /\ s.candidate_patch # None
       /\ s.validation = [attempt |-> s.candidate_patch.attempt, passed |-> FALSE])
        => s.final_state = "PATCH_REJECTED"

\* graph/nodes.py:466, the decision is persisted so that "it shows up in the
\* audit trail": a run validated by a person has that approval in the log.
ApprovalIsAudited ==
  runRow.state = "PATCH_VALIDATED" =>
    \E i \in 1..Len(decisions) : decisions[i].decision = "approve"

\* api/ui.py:70, an absent finished_at "is the real "still paused" signal": a run
\* nobody is working on that has not finished is waiting at the review gate.
UnfinishedIsPaused ==
  Quiet /\ runRow.exists /\ ~runRow.finished
    => checkpoint.next = "RequestHumanValidation"
=============================================================================
