------------------------- MODULE InvestigationGraph -------------------------
(***************************************************************************)
(* The reasoning graph as pure operators: what each node of graph/nodes.py *)
(* may do to the graph state, and which node graph/router.py sends it to.  *)
(* No variables: module Investigation runs these operators from several    *)
(* request threads over one checkpoint.                                    *)
(*                                                                         *)
(* Data is reduced to what a router or _determine_final_state reads.  What *)
(* an LLM, the retrieval service or the validator answers is a choice over *)
(* the answers those tell apart.                                           *)
(***************************************************************************)
EXTENDS Naturals

CONSTANTS
  MaxRevisions,   \* settings.max_patch_revisions
  Roles,          \* the reviewer roles in use, the Gatekeeper among them
  None            \* Python's None

ASSUME MaxRevisionsAssumption == MaxRevisions \in Nat

RunStates == {"PATCH_VALIDATED", "PATCH_REQUIRES_HUMAN_REVIEW",
              "PATCH_REJECTED", "INVESTIGATION_INCONCLUSIVE"}

Nodes == {"NormalizeRequest", "PlanInvestigation", "RetrieveIssueContext",
          "RetrieveCodeContext", "AnalyzeRootCause", "SelectAdditionalEvidence",
          "DiscoverRelatedFiles", "DraftPatch", "RunPatchValidation",
          "RequestHumanValidation", "RevisePatch", "EvaluateRun", "PersistRun"}

(***************************************************************************)
(* A patch is known by the attempt that drafted it (0 for DraftPatch, n    *)
(* for the n-th RevisePatch) and by whether it touches a risky path; a     *)
(* validation report by the attempt it judged.  "weak" stands for no       *)
(* hypothesis, or a best confidence below the retrieval floor;             *)
(* "conflicting" for two within _CONFLICT_MARGIN.                          *)
(***************************************************************************)
Patches == [attempt : Nat, risky : BOOLEAN]
Reports == [attempt : Nat, passed : BOOLEAN]
HumanDecisions == [decision : {"approve", "reject", "revise"}, role : Roles]
HypothesisGrades == {"weak", "conflicting", "strong"}

ASSUME NoneAssumption ==
  None \notin Patches \union Reports \union HumanDecisions \union RunStates

InvestigationStates ==
  [issue           : BOOLEAN,                  \* the reference was normalised
   lowScore        : BOOLEAN,                  \* code evidence is below the floor
   hypotheses      : HypothesisGrades,
   expanded        : BOOLEAN,
   candidate_patch : Patches \union {None},
   validation      : Reports \union {None},
   revisions_used  : Nat,
   human_decision  : HumanDecisions \union {None},
   evaluation      : BOOLEAN,
   final_state     : RunStates \union {None}]

NewState ==
  [issue |-> FALSE, lowScore |-> TRUE, hypotheses |-> "weak", expanded |-> FALSE,
   candidate_patch |-> None, validation |-> None, revisions_used |-> 0,
   human_decision |-> None, evaluation |-> FALSE, final_state |-> None]

-----------------------------------------------------------------------------
(***************************************************************************)
(* What each node may return, merged into the state by its reducers.       *)
(***************************************************************************)

\* A reference that cannot be normalised is an entry in errors, not a crash.
NormalizeRequest(s) == {[s EXCEPT !.issue = ok] : ok \in BOOLEAN}

\* The plan and the issue evidence steer retrieval only, no router reads them.
PlanInvestigation(s) == {s}
RetrieveIssueContext(s) == {s}

\* Nothing indexed (LookupError) and weak hits both leave the score low.
RetrieveCodeContext(s) == {[s EXCEPT !.lowScore = low] : low \in BOOLEAN}

AnalyzeRootCause(s) == {[s EXCEPT !.hypotheses = h] : h \in HypothesisGrades}

\* expanded is set whether or not the wider search found an index to search.
SelectAdditionalEvidence(s) == {[s EXCEPT !.expanded = TRUE]}

DiscoverRelatedFiles(s) == {s}

\* An edit plan that does not apply, or that the PatchReviewer turns down,
\* clears candidate_patch and leaves validation as it was.
Drafts(s, attempt) ==
  {[s EXCEPT !.candidate_patch = p] :
     p \in {None} \union {[attempt |-> attempt, risky |-> r] : r \in BOOLEAN}}

DraftPatch(s) == Drafts(s, s.revisions_used)

\* Mutant: the node forgets to count its attempt.
RevisePatchUncounted(s) == Drafts(s, s.revisions_used)

\* revisions_used has an additive reducer: the node returns 1.
RevisePatch(s) ==
  LET n == s.revisions_used + 1
  IN  Drafts([s EXCEPT !.revisions_used = n], n)

RunPatchValidation(s) ==
  {[s EXCEPT !.validation = [attempt |-> s.candidate_patch.attempt, passed |-> ok]] :
     ok \in BOOLEAN}

EvaluateRun(s) == {[s EXCEPT !.evaluation = TRUE]}

-----------------------------------------------------------------------------
(***************************************************************************)
(* The routers.                                                            *)
(***************************************************************************)

\* Mutant: any reviewer's word will do.
AnyApprovalIsAuthorized(s) == s.candidate_patch = None \/ s.human_decision # None

\* Anyone clears a patch that touches nothing risky, only the Gatekeeper one
\* that does.  No patch counts as nothing risky.
ApprovalIsAuthorized(s) ==
  \/ s.candidate_patch = None
  \/ ~s.candidate_patch.risky
  \/ /\ s.human_decision # None
     /\ s.human_decision.role = "gatekeeper"

\* Mutant: one revision too many.
ReviseOrPersistOffByOne(s) ==
  IF s.revisions_used <= MaxRevisions THEN "RevisePatch" ELSE "PersistRun"

ReviseOrPersist(s) ==
  IF s.revisions_used < MaxRevisions THEN "RevisePatch" ELSE "PersistRun"

RouteAfterNormalize(s) == IF s.issue THEN "PlanInvestigation" ELSE "PersistRun"

RouteAfterRetrieveCode(s) ==
  IF s.lowScore /\ ~s.expanded THEN "SelectAdditionalEvidence" ELSE "AnalyzeRootCause"

RouteAfterAnalyze(s) ==
  IF s.hypotheses # "strong" /\ ~s.expanded THEN "SelectAdditionalEvidence"
  ELSE IF s.hypotheses = "weak" THEN "PersistRun"
  ELSE "DiscoverRelatedFiles"

RouteAfterDraft(s) ==
  IF s.candidate_patch = None THEN ReviseOrPersist(s) ELSE "RunPatchValidation"

\* Mutant: a human is asked about whatever the last revision left.
RouteAfterValidationLenient(s) ==
  IF s.validation.passed \/ s.revisions_used >= MaxRevisions
  THEN "RequestHumanValidation" ELSE "RevisePatch"

RouteAfterValidation(s) ==
  IF s.validation.passed THEN "RequestHumanValidation" ELSE ReviseOrPersist(s)

\* Mutant: a rejection is one more round.
RouteAfterHumanRejectRevises(s) ==
  IF s.human_decision.decision = "approve" /\ ApprovalIsAuthorized(s) THEN "EvaluateRun"
  ELSE ReviseOrPersist(s)

RouteAfterHuman(s) ==
  IF s.human_decision.decision = "approve" /\ ApprovalIsAuthorized(s) THEN "EvaluateRun"
  ELSE IF s.human_decision.decision = "revise" THEN ReviseOrPersist(s)
  ELSE "PersistRun"

\* The edges out of a node, evaluated on the state the node left; build.py.
Successor(node, s) ==
  IF node = "__start__" THEN "NormalizeRequest"
  ELSE IF node = "NormalizeRequest" THEN RouteAfterNormalize(s)
  ELSE IF node = "PlanInvestigation" THEN "RetrieveIssueContext"
  ELSE IF node = "RetrieveIssueContext" THEN "RetrieveCodeContext"
  ELSE IF node = "RetrieveCodeContext" THEN RouteAfterRetrieveCode(s)
  ELSE IF node = "SelectAdditionalEvidence" THEN "AnalyzeRootCause"
  ELSE IF node = "AnalyzeRootCause" THEN RouteAfterAnalyze(s)
  ELSE IF node = "DiscoverRelatedFiles" THEN "DraftPatch"
  ELSE IF node \in {"DraftPatch", "RevisePatch"} THEN RouteAfterDraft(s)
  ELSE IF node = "RunPatchValidation" THEN RouteAfterValidation(s)
  ELSE IF node = "RequestHumanValidation" THEN RouteAfterHuman(s)
  ELSE IF node = "EvaluateRun" THEN "PersistRun"
  ELSE "END"

\* Mutants of FinalState: no look at the reviewer's authority; the report before
\* the decision.
FinalStateAnyApproval(s) ==
  IF s.human_decision = None THEN "INVESTIGATION_INCONCLUSIVE"
  ELSE IF s.human_decision.decision = "approve" THEN "PATCH_VALIDATED"
  ELSE "PATCH_REJECTED"

FinalStateReportFirst(s) ==
  IF s.validation # None /\ ~s.validation.passed THEN "PATCH_REJECTED"
  ELSE IF s.human_decision = None THEN "INVESTIGATION_INCONCLUSIVE"
  ELSE IF s.human_decision.decision = "reject" THEN "PATCH_REJECTED"
  ELSE IF s.human_decision.decision = "approve" /\ ApprovalIsAuthorized(s)
       THEN "PATCH_VALIDATED" ELSE "PATCH_REQUIRES_HUMAN_REVIEW"

\* The outcome PersistRun writes: a human decision first, then the report.
FinalState(s) ==
  IF s.human_decision # None
  THEN IF s.human_decision.decision = "reject" THEN "PATCH_REJECTED"
       ELSE IF s.human_decision.decision = "approve" /\ ApprovalIsAuthorized(s)
       THEN "PATCH_VALIDATED"
       ELSE "PATCH_REQUIRES_HUMAN_REVIEW"
  ELSE IF s.validation # None /\ ~s.validation.passed THEN "PATCH_REJECTED"
  ELSE "INVESTIGATION_INCONCLUSIVE"
=============================================================================
