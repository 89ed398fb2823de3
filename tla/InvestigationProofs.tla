------------------------- MODULE InvestigationProofs -------------------------
(***************************************************************************)
(* Investigation proved for every MaxRevisions, every set of reviewers and *)
(* any number of faults.                                                   *)
(*                                                                         *)
(* First whatever their requests overlap with.  The argument: a copy of    *)
(* the graph, the checkpoint or a driver's, is never a mixture.            *)
(* UpdateState and Commit only ever write a state, the node that left it   *)
(* and the successor computed from those two, so what holds of a state     *)
(* because of the node that left it (StateInv) survives any interleaving,  *)
(* lost update or crash.                                                   *)
(*                                                                         *)
(* Then, where one request is served at a time (Overlap = "none"), what    *)
(* relates the durable records to each other (SerialIInv), and that every  *)
(* step implements one of RunLifecycle.                                    *)
(***************************************************************************)
EXTENDS InvestigationProperties, FiniteSetTheorems, TLAPS

\* A decision somebody submitted, with the authority the patch asks for.
Cleared(patch, req) ==
  \E r \in Reviewers :
    /\ req[r] # None
    /\ req[r].decision = "approve"
    /\ (patch # None /\ patch.risky) => req[r].role = "gatekeeper"

\* What holds of every state ...
BaseInv(s, req) ==
  /\ s.revisions_used <= MaxRevisions
  /\ s.human_decision # None => \E r \in Reviewers : req[r] = s.human_decision
  /\ s.final_state = "PATCH_VALIDATED" => Cleared(s.candidate_patch, req)

\* ... and what holds of it because node was the last to run on it.
StateInv(node, s, req) ==
  /\ BaseInv(s, req)
  /\ node = "RunPatchValidation" =>
       /\ s.candidate_patch # None
       /\ s.validation # None
       /\ s.validation.attempt = s.candidate_patch.attempt
  /\ node \in {"RequestHumanValidation", "EvaluateRun"} => PassedPatch(s)
  /\ node = "RequestHumanValidation" => s.human_decision # None
  /\ node # "PersistRun" => s.final_state # "PATCH_VALIDATED"

CopyInv(c, req) ==
  /\ StateInv(c.last, c.state, req)
  /\ c.next # "END" => c.next = Successor(c.last, c.state)

DriverInv(d) ==
  /\ CopyInv(mem[d], request)
  /\ pc[d] = "recording" =>
       mem[d].next = "RequestHumanValidation" /\ mem[d].state.human_decision # None
  /\ pc[d] = "persisting" => mem[d].next = "PersistRun"

RequestInv == \A r \in Reviewers : (pc[r] = "idle") <=> (request[r] = None)

IInv ==
  /\ TypeOK
  /\ CopyInv(checkpoint, request)
  /\ \A d \in Drivers : DriverInv(d)
  /\ RequestInv

Requests == [Reviewers -> HumanDecisions \union {None}]

-----------------------------------------------------------------------------
(***************************************************************************)
(* The graph: where a copy may be sent, and what a node may make of it.    *)
(***************************************************************************)

\* Every edge leads to a node or to END.
LEMMA SuccessorType ==
  ASSUME NEW node \in Nodes \union {"__start__"},
         NEW s \in InvestigationStates, NEW req,
         StateInv(node, s, req)
  PROVE  Successor(node, s) \in Nodes \union {"END"}
<1>1. ReviseOrPersist(s) \in {"RevisePatch", "PersistRun"}
  BY DEF ReviseOrPersist
<1>2. CASE node = "RequestHumanValidation"
  <2>1. s.human_decision.decision \in {"approve", "reject", "revise"}
    BY <1>2 DEF StateInv, InvestigationStates, HumanDecisions
  <2>2. RouteAfterHuman(s) \in {"EvaluateRun", "RevisePatch", "PersistRun"}
    BY <1>1, <2>1 DEF RouteAfterHuman
  <2> QED BY <1>2, <2>2 DEF Successor, Nodes
<1>3. CASE node = "AnalyzeRootCause"
  <2>1. RouteAfterAnalyze(s) \in {"DiscoverRelatedFiles", "SelectAdditionalEvidence", "PersistRun"}
    BY DEF RouteAfterAnalyze, InvestigationStates, HypothesisGrades
  <2> QED BY <1>3, <2>1 DEF Successor, Nodes
<1>4. CASE node \in {"DraftPatch", "RevisePatch"}
  BY <1>1, <1>4 DEF Successor, Nodes, RouteAfterDraft
<1>5. CASE node = "RunPatchValidation"
  BY <1>1, <1>5 DEF Successor, Nodes, RouteAfterValidation
<1>6. CASE node \notin {"RequestHumanValidation", "AnalyzeRootCause", "DraftPatch",
                        "RevisePatch", "RunPatchValidation"}
  BY <1>6 DEF Successor, Nodes, RouteAfterNormalize, RouteAfterRetrieveCode
<1> QED BY <1>2, <1>3, <1>4, <1>5, <1>6

\* Where a copy stands bounds what it has used up and what it has to show.
LEMMA StandingLemma ==
  ASSUME NEW c \in Checkpoints, NEW req, CopyInv(c, req)
  PROVE  /\ c.next = "RevisePatch" => c.state.revisions_used < MaxRevisions
         /\ c.next = "SelectAdditionalEvidence" => ~c.state.expanded
         /\ c.next = "RunPatchValidation" => c.state.candidate_patch # None
         /\ c.next \in {"RequestHumanValidation", "EvaluateRun"} => PassedPatch(c.state)
<1> DEFINE s == c.state
           node == c.last
<1>1. s \in InvestigationStates /\ node \in Nodes \union {"__start__"}
  BY DEF Checkpoints
<1>2. StateInv(node, s, req) /\ (c.next # "END" => c.next = Successor(node, s))
  BY DEF CopyInv
<1> HIDE DEF s, node
<1>3. Successor(node, s) = "RevisePatch" => s.revisions_used < MaxRevisions
  BY <1>1 DEF Successor, RouteAfterNormalize, RouteAfterRetrieveCode, RouteAfterAnalyze,
              RouteAfterDraft, RouteAfterValidation, RouteAfterHuman, ReviseOrPersist
<1>4. Successor(node, s) = "SelectAdditionalEvidence" => ~s.expanded
  BY <1>1 DEF Successor, RouteAfterNormalize, RouteAfterRetrieveCode, RouteAfterAnalyze,
              RouteAfterDraft, RouteAfterValidation, RouteAfterHuman, ReviseOrPersist
<1>5. Successor(node, s) = "RunPatchValidation" => s.candidate_patch # None
  BY <1>1 DEF Successor, RouteAfterNormalize, RouteAfterRetrieveCode, RouteAfterAnalyze,
              RouteAfterDraft, RouteAfterValidation, RouteAfterHuman, ReviseOrPersist
<1>6. Successor(node, s) = "EvaluateRun" => PassedPatch(s)
  BY <1>1, <1>2 DEF Successor, RouteAfterNormalize, RouteAfterRetrieveCode, RouteAfterAnalyze,
              RouteAfterDraft, RouteAfterValidation, RouteAfterHuman, ReviseOrPersist, StateInv
<1>7. Successor(node, s) = "RequestHumanValidation" => PassedPatch(s)
  <2> SUFFICES ASSUME Successor(node, s) = "RequestHumanValidation" PROVE PassedPatch(s)
    OBVIOUS
  <2>1. node = "RunPatchValidation" /\ s.validation.passed
    BY <1>1 DEF Successor, RouteAfterNormalize, RouteAfterRetrieveCode, RouteAfterAnalyze,
              RouteAfterDraft, RouteAfterValidation, RouteAfterHuman, ReviseOrPersist
  <2>2. s.validation \in Reports
    BY <1>1, <1>2, <2>1 DEF StateInv, InvestigationStates
  <2>3. s.validation = [attempt |-> s.candidate_patch.attempt, passed |-> TRUE]
    BY <1>2, <2>1, <2>2 DEF StateInv, Reports
  <2> QED BY <1>2, <2>1, <2>3 DEF StateInv, PassedPatch
<1> QED BY <1>2, <1>3, <1>4, <1>5, <1>6, <1>7 DEF s, node

\* What the node function called node may make of the state s0.
NodeResult(node, s0, s) ==
  \/ node = "NormalizeRequest" /\ s \in NormalizeRequest(s0)
  \/ node = "PlanInvestigation" /\ s \in PlanInvestigation(s0)
  \/ node = "RetrieveIssueContext" /\ s \in RetrieveIssueContext(s0)
  \/ node = "RetrieveCodeContext" /\ s \in RetrieveCodeContext(s0)
  \/ node = "AnalyzeRootCause" /\ s \in AnalyzeRootCause(s0)
  \/ node = "SelectAdditionalEvidence" /\ s \in SelectAdditionalEvidence(s0)
  \/ node = "DiscoverRelatedFiles" /\ s \in DiscoverRelatedFiles(s0)
  \/ node = "DraftPatch" /\ s \in DraftPatch(s0)
  \/ node = "RevisePatch" /\ s \in RevisePatch(s0)
  \/ node = "RunPatchValidation" /\ s \in RunPatchValidation(s0)
  \/ node = "EvaluateRun" /\ s \in EvaluateRun(s0)

\* Every answer of a node that only computes is a state, and one that has what
\* the node is there to establish.
LEMMA NodeLemma ==
  ASSUME NEW c \in Checkpoints, NEW req, CopyInv(c, req), c.next # "END",
         NEW node, NEW s,
         NodeResult(node, c.state, s),
         c.next = node
  PROVE  s \in InvestigationStates /\ StateInv(node, s, req)
<1> DEFINE s0 == c.state
<1>1. s0 \in InvestigationStates /\ c.last \in Nodes \union {"__start__"}
  BY DEF Checkpoints
<1>2. BaseInv(s0, req) /\ s0.final_state # "PATCH_VALIDATED"
  <2>1. c.last # "PersistRun"
    BY DEF CopyInv, Successor
  <2> QED BY <2>1 DEF CopyInv, StateInv
<1>3. s0.revisions_used \in Nat
  BY <1>1 DEF InvestigationStates
<1>4. CASE node \in {"NormalizeRequest", "PlanInvestigation", "RetrieveIssueContext",
                     "RetrieveCodeContext", "AnalyzeRootCause", "SelectAdditionalEvidence",
                     "DiscoverRelatedFiles"}
  <2>1. /\ s \in InvestigationStates
        /\ s.revisions_used = s0.revisions_used
        /\ s.human_decision = s0.human_decision
        /\ s.final_state = s0.final_state
    BY <1>1, <1>4, ZenonT(60)
    DEF NodeResult, NormalizeRequest, PlanInvestigation, RetrieveIssueContext,
         RetrieveCodeContext, AnalyzeRootCause, SelectAdditionalEvidence,
         DiscoverRelatedFiles, InvestigationStates
  <2> QED BY <1>2, <1>4, <2>1 DEF StateInv, BaseInv
<1>5. CASE node \in {"DraftPatch", "RevisePatch"}
  <2>1. PICK n \in Nat : /\ n <= MaxRevisions
                         /\ s \in Drafts([s0 EXCEPT !.revisions_used = n], n)
    <3>1. CASE node = "DraftPatch"
      <4>1. s0 = [s0 EXCEPT !.revisions_used = s0.revisions_used]
        BY <1>1 DEF InvestigationStates
      <4> QED BY <1>2, <1>3, <3>1, <4>1 DEF NodeResult, DraftPatch, BaseInv
    <3>2. CASE node = "RevisePatch"
      <4>1. s0.revisions_used < MaxRevisions
        BY <3>2, StandingLemma
      <4> QED BY <1>3, <3>2, <4>1, MaxRevisionsAssumption DEF NodeResult, RevisePatch
    <3> QED BY <1>5, <3>1, <3>2
  <2>2. PICK p \in Patches \union {None} :
           s = [[s0 EXCEPT !.revisions_used = n] EXCEPT !.candidate_patch = p]
    BY <2>1 DEF Drafts, Patches
  <2>3. /\ s \in InvestigationStates
        /\ s.revisions_used = n
        /\ s.human_decision = s0.human_decision
        /\ s.final_state = s0.final_state
    BY <1>1, <2>2 DEF InvestigationStates
  <2> QED BY <1>2, <1>5, <2>1, <2>3 DEF StateInv, BaseInv
<1>6. CASE node = "RunPatchValidation"
  <2>1. s0.candidate_patch \in Patches
    BY <1>1, <1>6, StandingLemma DEF InvestigationStates
  <2>2. PICK v \in Reports : /\ s = [s0 EXCEPT !.validation = v]
                             /\ v.attempt = s0.candidate_patch.attempt
    BY <1>6, <2>1 DEF NodeResult, RunPatchValidation, Patches, Reports
  <2>3. /\ s \in InvestigationStates
        /\ s.validation = v
        /\ s.candidate_patch = s0.candidate_patch
        /\ s.revisions_used = s0.revisions_used
        /\ s.human_decision = s0.human_decision
        /\ s.final_state = s0.final_state
    BY <1>1, <2>2 DEF InvestigationStates
  <2>4. v # None /\ s0.candidate_patch # None
    BY <2>1, NoneAssumption
  <2> QED BY <1>2, <1>6, <2>2, <2>3, <2>4 DEF StateInv, BaseInv
<1>7. CASE node = "EvaluateRun"
  <2>1. PassedPatch(s0)
    BY <1>7, StandingLemma
  <2>2. /\ s \in InvestigationStates
        /\ s.validation = s0.validation
        /\ s.candidate_patch = s0.candidate_patch
        /\ s.revisions_used = s0.revisions_used
        /\ s.human_decision = s0.human_decision
        /\ s.final_state = s0.final_state
    BY <1>1, <1>7 DEF NodeResult, EvaluateRun, InvestigationStates
  <2> QED BY <1>2, <1>7, <2>1, <2>2 DEF StateInv, BaseInv, PassedPatch
<1> QED BY <1>4, <1>5, <1>6, <1>7 DEF NodeResult

\* PersistRun: the outcome it computes is one the submitted decisions allow.
LEMMA PersistLemma ==
  ASSUME NEW c \in Checkpoints, NEW req \in Requests, CopyInv(c, req),
         c.next # "END", NEW s, s = [c.state EXCEPT !.final_state = FinalState(c.state)]
  PROVE  /\ FinalState(c.state) \in RunStates
         /\ s \in InvestigationStates
         /\ StateInv("PersistRun", s, req)
<1> DEFINE s0 == c.state
<1>1. s0 \in InvestigationStates
  BY DEF Checkpoints
<1>2. BaseInv(s0, req)
  BY DEF CopyInv, StateInv
<1>3. FinalState(s0) \in RunStates
  BY DEF FinalState, RunStates
<1>4. /\ s \in InvestigationStates
      /\ s.candidate_patch = s0.candidate_patch
      /\ s.revisions_used = s0.revisions_used
      /\ s.human_decision = s0.human_decision
      /\ s.final_state = FinalState(s0)
  BY <1>1, <1>3 DEF InvestigationStates
<1>5. ASSUME FinalState(s0) = "PATCH_VALIDATED" PROVE Cleared(s0.candidate_patch, req)
  <2>1. /\ s0.human_decision # None
        /\ s0.human_decision.decision = "approve"
        /\ ApprovalIsAuthorized(s0)
    BY <1>5 DEF FinalState
  <2>2. PICK r \in Reviewers : req[r] = s0.human_decision
    BY <1>2, <2>1 DEF BaseInv
  <2> QED BY <2>1, <2>2 DEF Cleared, ApprovalIsAuthorized
<1> QED BY <1>2, <1>3, <1>4, <1>5 DEF StateInv, BaseInv

\* A thread that has not begun has used nothing and decided nothing.
LEMMA InitialLemma ==
  ASSUME NEW req \in Requests
  PROVE  /\ NewState \in InvestigationStates /\ BaseInv(NewState, req)
         /\ NoCheckpoint \in Checkpoints /\ CopyInv(NoCheckpoint, req)
         /\ FirstCheckpoint \in Checkpoints /\ CopyInv(FirstCheckpoint, req)
<1>1. NewState \in InvestigationStates
  BY DEF NewState, InvestigationStates, HypothesisGrades
<1>2. BaseInv(NewState, req) /\ NewState.final_state # "PATCH_VALIDATED"
  BY MaxRevisionsAssumption, NoneAssumption DEF BaseInv, NewState, RunStates
<1>3. StateInv("__start__", NewState, req)
  BY <1>2 DEF StateInv
<1>4. NoCheckpoint \in Checkpoints /\ CopyInv(NoCheckpoint, req)
  BY <1>1, <1>3 DEF NoCheckpoint, Checkpoints, CopyInv
<1>5. /\ FirstCheckpoint = [state |-> NewState, last |-> "__start__", next |-> "NormalizeRequest"]
      /\ Successor("__start__", NewState) = "NormalizeRequest"
  BY DEF FirstCheckpoint, NoCheckpoint, Successor
<1>6. FirstCheckpoint \in Checkpoints /\ CopyInv(FirstCheckpoint, req)
  BY <1>1, <1>3, <1>5 DEF Checkpoints, CopyInv, Nodes
<1> QED BY <1>1, <1>2, <1>4, <1>6

-----------------------------------------------------------------------------
(***************************************************************************)
(* The inductive step, by the kind of write each action makes.             *)
(***************************************************************************)

\* A node's result, merged and routed, is again a copy like any other.
LEMMA CommitLemma ==
  ASSUME IInv, NEW d \in Drivers, NEW node \in Nodes,
         NEW s \in InvestigationStates, StateInv(node, s, request),
         Commit(d, node, s),
         runRow' \in RunRows, decisions' \in Seq(HumanDecisions),
         artifact' \in Patches \union {None}, UNCHANGED <<request, faults>>,
         d \in Reviewers => pc[d] # "idle"
  PROVE  IInv'
<1> DEFINE c == [state |-> s, last |-> node, next |-> Successor(node, s)]
           m == IF c.next \in {"END", "RequestHumanValidation"} THEN NoCheckpoint ELSE c
<1>1. c \in Checkpoints /\ CopyInv(c, request)
  <2>1. Successor(node, s) \in Nodes \union {"END"}
    BY SuccessorType
  <2> QED BY <2>1 DEF Checkpoints, CopyInv
<1>2. NoCheckpoint \in Checkpoints /\ CopyInv(NoCheckpoint, request)
  BY InitialLemma DEF IInv, TypeOK, Requests
<1>3. m \in Checkpoints /\ CopyInv(m, request)
  BY <1>1, <1>2
<1>4. /\ checkpoint' = c
      /\ mem' = [mem EXCEPT ![d] = m]
      /\ pc'[d] \in {"returned", "running"}
      /\ pc' = [pc EXCEPT ![d] = pc'[d]]
  BY DEF Commit, IInv, TypeOK
<1> HIDE DEF c, m
<1>5. TypeOK'
  <2>1. pc' \in [Drivers -> Stages] /\ mem' \in [Drivers -> Checkpoints]
    BY <1>3, <1>4 DEF IInv, TypeOK, Stages, Active
  <2> QED BY <1>1, <1>4, <2>1 DEF IInv, TypeOK
<1>6. CopyInv(checkpoint', request')
  BY <1>1, <1>4
<1>7. \A e \in Drivers : DriverInv(e)'
  <2> TAKE e \in Drivers
  <2>1. CASE e = d
    BY <1>3, <1>4, <2>1 DEF DriverInv, IInv, TypeOK
  <2>2. CASE e # d
    BY <1>4, <2>2 DEF DriverInv, IInv, TypeOK
  <2> QED BY <2>1, <2>2
<1>8. RequestInv'
  BY <1>4 DEF RequestInv, IInv, TypeOK, Drivers
<1> QED BY <1>5, <1>6, <1>7, <1>8 DEF IInv

\* A step that leaves the copies alone only moves one driver on.
LEMMA MoveLemma ==
  ASSUME IInv, NEW d \in Drivers, NEW stage \in Stages \ {"idle", "recording", "persisting"},
         NEW c \in Checkpoints, CopyInv(c, request),
         pc' = [pc EXCEPT ![d] = stage], mem' = [mem EXCEPT ![d] = c],
         runRow' \in RunRows, decisions' \in Seq(HumanDecisions), faults' \in 0..MaxFaults,
         checkpoint' \in Checkpoints, CopyInv(checkpoint', request),
         UNCHANGED <<artifact, request>>,
         d \in Reviewers => pc[d] # "idle"
  PROVE  IInv'
<1>1. TypeOK'
  BY DEF IInv, TypeOK
<1>2. CopyInv(checkpoint', request')
  OBVIOUS
<1>3. \A e \in Drivers : DriverInv(e)'
  BY DEF DriverInv, IInv, TypeOK
<1>4. RequestInv'
  BY DEF RequestInv, IInv, TypeOK, Drivers
<1> QED BY <1>1, <1>2, <1>3, <1>4 DEF IInv

\* A decision submitted later takes nothing away from the earlier ones.
LEMMA SubmitLemma ==
  ASSUME IInv, NEW r \in Reviewers, Submit(r)
  PROVE  IInv'
<1>1. PICK v \in HumanDecisions : request' = [request EXCEPT ![r] = v]
  BY DEF Submit
<1>2. request[r] = None /\ v # None
  BY NoneAssumption DEF Submit, IInv, RequestInv
<1>3. request' \in Requests
  BY <1>1 DEF IInv, TypeOK, Requests
<1>4. ASSUME NEW q \in Reviewers, request[q] # None PROVE request'[q] = request[q]
  BY <1>1, <1>2, <1>4 DEF IInv, TypeOK
<1>5. ASSUME NEW c, CopyInv(c, request) PROVE CopyInv(c, request')
  <2>1. ASSUME NEW p, Cleared(p, request) PROVE Cleared(p, request')
    BY <1>4, <2>1 DEF Cleared
  <2>2. BaseInv(c.state, request')
    BY <1>4, <1>5, <2>1 DEF CopyInv, StateInv, BaseInv
  <2> QED BY <1>5, <2>2 DEF CopyInv, StateInv
<1>6. TypeOK'
  BY <1>3 DEF Submit, IInv, TypeOK, Requests, Stages, Active, Drivers
<1>7. CopyInv(checkpoint', request')
  BY <1>5 DEF Submit, IInv
<1>8. \A e \in Drivers : DriverInv(e)'
  BY <1>5 DEF Submit, IInv, DriverInv, TypeOK
<1>9. RequestInv'
  BY <1>1, <1>2 DEF Submit, IInv, RequestInv, TypeOK, Drivers
<1> QED BY <1>6, <1>7, <1>8, <1>9 DEF IInv

\* A server that has served nothing yet.
LEMMA InvestigationInit == Init => IInv
<1> SUFFICES ASSUME Init PROVE IInv
  OBVIOUS
<1>1. request \in Requests
  BY DEF Init, Requests
<1>2. NoCheckpoint \in Checkpoints /\ CopyInv(NoCheckpoint, request)
  BY <1>1, InitialLemma
<1>3. TypeOK
  BY <1>2, EnvironmentAssumption DEF Init, TypeOK, RunRows, RunStates, Stages
<1>4. \A d \in Drivers : DriverInv(d)
  BY <1>2 DEF Init, DriverInv
<1> QED BY <1>2, <1>3, <1>4 DEF Init, IInv, RequestInv, Drivers

\* No request, node, exception or crash breaks the invariant.
LEMMA InvestigationStep == IInv /\ [Next]_vars => IInv'
<1> SUFFICES ASSUME IInv, [Next]_vars PROVE IInv'
  OBVIOUS
<1>0. request \in Requests /\ NoCheckpoint \in Checkpoints /\ CopyInv(NoCheckpoint, request)
  BY InitialLemma DEF IInv, TypeOK, Requests
<1>1. CASE CreateRun
  <2>1. Starter \in Drivers /\ Starter \notin Reviewers
    BY StarterAssumption DEF Drivers
  <2>2. mem' = [mem EXCEPT ![Starter] = mem[Starter]] /\ CopyInv(mem[Starter], request)
    BY <1>1, <2>1 DEF CreateRun, IInv, TypeOK, DriverInv
  <2>3. runRow' \in RunRows
    BY <1>1 DEF CreateRun, IInv, TypeOK, RunRows
  <2> QED BY <1>1, <2>1, <2>2, <2>3, MoveLemma DEF CreateRun, IInv, TypeOK, Stages, Active
<1>2. CASE InvokeStart
  <2>1. Starter \in Drivers /\ Starter \notin Reviewers
    BY StarterAssumption DEF Drivers
  <2>2. FirstCheckpoint \in Checkpoints /\ CopyInv(FirstCheckpoint, request)
    BY <1>0, InitialLemma
  <2> QED BY <1>2, <2>1, <2>2, MoveLemma DEF InvokeStart, IInv, TypeOK, Stages, Active
<1>3. ASSUME NEW r \in Reviewers, Submit(r) PROVE IInv'
  BY <1>3, SubmitLemma
<1>4. ASSUME NEW r \in Reviewers, UpdateState(r) PROVE IInv'
  <2> DEFINE s == [checkpoint.state EXCEPT !.human_decision = request[r]]
             c == [state |-> s, last |-> checkpoint.last, next |-> Successor(checkpoint.last, s)]
  <2>1. request[r] \in HumanDecisions /\ request[r] # None
    BY <1>4 DEF UpdateState, IInv, TypeOK, RequestInv
  <2>2. checkpoint.state \in InvestigationStates /\ checkpoint.last \in Nodes \union {"__start__"}
    BY DEF IInv, TypeOK, Checkpoints
  <2>3. /\ s \in InvestigationStates
        /\ s.candidate_patch = checkpoint.state.candidate_patch
        /\ s.validation = checkpoint.state.validation
        /\ s.revisions_used = checkpoint.state.revisions_used
        /\ s.human_decision = request[r]
        /\ s.final_state = checkpoint.state.final_state
    BY <2>1, <2>2 DEF InvestigationStates
  <2>4. StateInv(checkpoint.last, s, request)
    BY <2>1, <2>3 DEF IInv, CopyInv, StateInv, BaseInv, PassedPatch
  <2>5. c \in Checkpoints /\ CopyInv(c, request)
    <3>1. Successor(checkpoint.last, s) \in Nodes \union {"END"}
      BY <2>2, <2>3, <2>4, SuccessorType
    <3> HIDE DEF s
    <3> QED BY <2>2, <2>3, <2>4, <3>1 DEF Checkpoints, CopyInv
  <2>6. checkpoint' = c /\ mem' = [mem EXCEPT ![r] = mem[r]] /\ CopyInv(mem[r], request)
    BY <1>4 DEF UpdateState, IInv, TypeOK, DriverInv, Drivers
  <2> HIDE DEF c, s
  <2> QED BY <1>4, <2>5, <2>6, MoveLemma DEF UpdateState, IInv, TypeOK, Stages, Active, Drivers
<1>5. ASSUME NEW r \in Reviewers, InvokeResume(r) PROVE IInv'
  <2>1. CASE checkpoint.next = "END"
    <3>1. mem' = [mem EXCEPT ![r] = mem[r]] /\ CopyInv(mem[r], request) /\ mem[r] \in Checkpoints
      BY <1>5, <2>1 DEF InvokeResume, IInv, TypeOK, DriverInv, Drivers
    <3> QED BY <1>5, <2>1, <3>1, MoveLemma DEF InvokeResume, IInv, TypeOK, Stages, Active, Drivers
  <2>2. CASE checkpoint.next # "END"
    BY <1>5, <2>2, MoveLemma DEF InvokeResume, IInv, TypeOK, Stages, Active, Drivers
  <2> QED BY <2>1, <2>2
<1>6. ASSUME NEW d \in Drivers, NodeStep(d) PROVE IInv'
  <2>1. /\ mem[d] \in Checkpoints /\ CopyInv(mem[d], request)
        /\ mem[d].state \in InvestigationStates
    BY DEF IInv, TypeOK, DriverInv, Checkpoints
  <2>2. pc[d] \in {"running", "recording", "persisting"}
    BY <1>6 DEF NodeStep, Normalize, Plan, RetrieveIssue, RetrieveCode, Analyze,
         SelectEvidence, DiscoverRelated, Draft, Revise, Validate, Evaluate, StateStep,
         RecordDecision, FollowDecision, ResumeUndecided, FinishRow, SaveArtifacts, AtNode
  <2>3. ASSUME Normalize(d) \/ Plan(d) \/ RetrieveIssue(d) \/ RetrieveCode(d) \/ Analyze(d)
               \/ SelectEvidence(d) \/ DiscoverRelated(d) \/ Draft(d) \/ Revise(d)
               \/ Validate(d) \/ Evaluate(d)
        PROVE  IInv'
    <3>1. PICK node \in Nodes :
            \E s :
              /\ NodeResult(node, mem[d].state, s)
              /\ mem[d].next = node
              /\ Commit(d, node, s)
              /\ UNCHANGED <<runRow, decisions, artifact, request, faults>>
      BY <2>3 DEF NodeResult, Normalize, Plan, RetrieveIssue, RetrieveCode, Analyze, SelectEvidence,
           DiscoverRelated, Draft, Revise, Validate, Evaluate, StateStep, AtNode, Nodes
    <3>2. PICK s :
            /\ NodeResult(node, mem[d].state, s)
            /\ mem[d].next = node
            /\ Commit(d, node, s)
            /\ UNCHANGED <<runRow, decisions, artifact, request, faults>>
      BY <3>1
    <3>3. mem[d].next # "END"
      BY <3>2 DEF NodeResult
    <3>4. s \in InvestigationStates /\ StateInv(node, s, request)
      BY <2>1, <3>2, <3>3, NodeLemma
    <3> QED BY <2>2, <3>2, <3>4, CommitLemma DEF IInv, TypeOK
  <2>4. CASE RecordDecision(d)
    <3>1. mem[d].state.human_decision \in HumanDecisions
      BY <2>1, <2>4 DEF RecordDecision, InvestigationStates
    <3>2. decisions' \in Seq(HumanDecisions)
      BY <2>4, <3>1 DEF RecordDecision, IInv, TypeOK
    <3>3. TypeOK'
      BY <2>4, <3>2 DEF RecordDecision, IInv, TypeOK, Stages, Active
    <3>4. \A e \in Drivers : DriverInv(e)'
      BY <2>4 DEF RecordDecision, AtNode, DriverInv, IInv, TypeOK
    <3>5. RequestInv'
      BY <2>2, <2>4 DEF RecordDecision, RequestInv, IInv, TypeOK, Drivers
    <3> QED BY <2>4, <3>3, <3>4, <3>5 DEF RecordDecision, IInv
  <2>5. CASE FollowDecision(d)
    <3>1. /\ mem[d].next = "RequestHumanValidation"
          /\ mem[d].state.human_decision # None
      BY <2>5 DEF FollowDecision, IInv, DriverInv
    <3>2. StateInv("RequestHumanValidation", mem[d].state, request)
      <4>1. PassedPatch(mem[d].state)
        BY <2>1, <3>1, StandingLemma
      <4>2. mem[d].last # "PersistRun"
        BY <2>1, <3>1 DEF CopyInv, Successor
      <4> QED BY <2>1, <3>1, <4>1, <4>2 DEF StateInv, CopyInv
    <3> QED BY <2>1, <2>2, <2>5, <3>2, CommitLemma DEF FollowDecision, Nodes, IInv, TypeOK
  <2>6. CASE ResumeUndecided(d)
    BY <1>0, <2>2, <2>6, MoveLemma DEF ResumeUndecided, IInv, TypeOK, Stages, Active
  <2>7. CASE FinishRow(d)
    <3>1. FinalState(mem[d].state) \in RunStates
      BY <2>1, <2>7, PersistLemma DEF FinishRow, AtNode, IInv, TypeOK, Requests
    <3>2. runRow' \in RunRows
      BY <2>7, <3>1 DEF FinishRow, IInv, TypeOK, RunRows
    <3>3. TypeOK'
      BY <2>7, <3>2 DEF FinishRow, IInv, TypeOK, Stages, Active
    <3>4. \A e \in Drivers : DriverInv(e)'
      BY <2>7 DEF FinishRow, AtNode, DriverInv, IInv, TypeOK
    <3>5. RequestInv'
      BY <2>2, <2>7 DEF FinishRow, RequestInv, IInv, TypeOK, Drivers
    <3> QED BY <2>7, <3>3, <3>4, <3>5 DEF FinishRow, IInv
  <2>8. CASE SaveArtifacts(d)
    <3> DEFINE s == [mem[d].state EXCEPT !.final_state = FinalState(mem[d].state)]
    <3>1. mem[d].next = "PersistRun"
      BY <2>8 DEF SaveArtifacts, IInv, DriverInv
    <3>2. s \in InvestigationStates /\ StateInv("PersistRun", s, request)
      BY <2>1, <3>1, PersistLemma DEF IInv, TypeOK, Requests
    <3>3. artifact' \in Patches \union {None}
      BY <2>1, <2>8 DEF SaveArtifacts, IInv, TypeOK, InvestigationStates
    <3>4. Commit(d, "PersistRun", s) /\ UNCHANGED <<runRow, decisions, request, faults>>
      BY <2>8 DEF SaveArtifacts
    <3> HIDE DEF s
    <3> QED BY <2>2, <3>2, <3>3, <3>4, CommitLemma DEF Nodes, IInv, TypeOK
  <2> QED BY <1>6, <2>3, <2>4, <2>5, <2>6, <2>7, <2>8 DEF NodeStep
<1>7. ASSUME NEW d \in Drivers, NodeRaises(d) PROVE IInv'
  <2>1. faults' \in 0..MaxFaults
    BY <1>7, EnvironmentAssumption DEF NodeRaises, IInv, TypeOK
  <2> QED BY <1>0, <1>7, <2>1, MoveLemma DEF NodeRaises, IInv, TypeOK, Stages, Active
<1>8. CASE ServerCrash
  <2>1. faults' \in 0..MaxFaults
    BY <1>8, EnvironmentAssumption DEF ServerCrash, IInv, TypeOK
  <2>2. TypeOK'
    BY <1>0, <1>8, <2>1 DEF ServerCrash, IInv, TypeOK, Stages
  <2>3. \A e \in Drivers : DriverInv(e)'
    BY <1>0, <1>8 DEF ServerCrash, DriverInv, IInv, TypeOK, Active
  <2>4. RequestInv'
    BY <1>8 DEF ServerCrash, RequestInv, IInv, TypeOK, Drivers, Active
  <2> QED BY <1>8, <2>2, <2>3, <2>4 DEF ServerCrash, IInv
<1>9. CASE UNCHANGED vars
  BY <1>9 DEF vars, IInv, TypeOK, DriverInv, RequestInv
<1> QED BY <1>1, <1>2, <1>3, <1>4, <1>5, <1>6, <1>7, <1>8, <1>9 DEF Next, ReviewerStep

-----------------------------------------------------------------------------
(***************************************************************************)
(* The theorems.                                                           *)
(***************************************************************************)

\* The inductive invariant holds of the program in any environment.
THEOREM InvestigationInvariant == Spec => []IInv
BY InvestigationInit, InvestigationStep, PTL DEF Spec

\* Every variable keeps to its type: no router is ever asked about a node or a
\* state it does not know.
THEOREM InvestigationTypeOK == Spec => []TypeOK
<1>1. IInv => TypeOK
  BY DEF IInv
<1> QED BY <1>1, InvestigationInvariant, PTL

\* graph/router.py's two loops stay within their budgets for every value of
\* max_patch_revisions, whatever overlaps or fails.
THEOREM InvestigationLoopsBounded == Spec => []LoopsBounded
<1>1. IInv => LoopsBounded
  <2> SUFFICES ASSUME IInv, NEW c \in Copies
               PROVE  /\ c.state.revisions_used <= MaxRevisions
                      /\ c.next = "RevisePatch" => c.state.revisions_used < MaxRevisions
                      /\ c.next = "SelectAdditionalEvidence" => ~c.state.expanded
    BY DEF LoopsBounded
  <2>1. c \in Checkpoints /\ CopyInv(c, request)
    BY DEF Copies, IInv, TypeOK, DriverInv
  <2> QED BY <2>1, StandingLemma DEF CopyInv, StateInv, BaseInv
<1> QED BY <1>1, InvestigationInvariant, PTL

\* A reviewer is only ever asked about a patch that passed its own validation.
THEOREM InvestigationGate == Spec => []GateOffersPassedPatch
<1>1. IInv => GateOffersPassedPatch
  <2> SUFFICES ASSUME IInv, NEW c \in Copies,
                      c.next \in {"RequestHumanValidation", "EvaluateRun"}
               PROVE  PassedPatch(c.state)
    BY DEF GateOffersPassedPatch
  <2>1. c \in Checkpoints /\ CopyInv(c, request)
    BY DEF Copies, IInv, TypeOK, DriverInv
  <2> QED BY <2>1, StandingLemma
<1> QED BY <1>1, InvestigationInvariant, PTL

\* No run ends validated without an approval of sufficient authority.
THEOREM InvestigationClearance == Spec => []ClearedWithAuthority
<1>1. IInv => ClearedWithAuthority
  <2> SUFFICES ASSUME IInv, NEW c \in Copies, c.state.final_state = "PATCH_VALIDATED"
               PROVE  Cleared(c.state.candidate_patch, request)
    BY DEF ClearedWithAuthority, Cleared
  <2> QED BY DEF Copies, IInv, DriverInv, CopyInv, StateInv, BaseInv
<1> QED BY <1>1, InvestigationInvariant, PTL
-----------------------------------------------------------------------------
(***************************************************************************)
(* One request at a time.  The invariant relates the durable records to    *)
(* the one thread at work, if any.  SerialInv and LogInv hold whatever     *)
(* fails; UndisturbedInv is promised of a run in which nothing has.        *)
(***************************************************************************)

Gate == "RequestHumanValidation"

Verdict == checkpoint.state.human_decision

\* The requests that submitted a decision ...
Asked == {r \in Reviewers : pc[r] # "idle"}

\* ... those that have yet to log it, if nothing fails ...
Pending(r) ==
  \/ pc[r] \in {"admitted", "ready"}
  \/ pc[r] = "running" /\ checkpoint.next = Gate

\* ... and those that have, or never will.
Heard == {r \in Asked : ~Pending(r)}

SerialInv ==
  /\ Overlap = "none"
  /\ \A d, e \in Drivers : pc[d] \in Active /\ pc[e] \in Active => d = e
  /\ \A d \in Drivers :
       pc[d] \in {"running", "recording", "persisting"} => mem[d] = checkpoint
  /\ pc[Starter] \in {"idle", "ready"} => checkpoint = NoCheckpoint
  /\ pc[Starter] \in {"idle"} \union Active => Asked = {} /\ decisions = <<>>
  /\ pc[Starter] # "recording"
  /\ pc[Starter] = "running" => checkpoint.next # Gate
  /\ \A r \in Reviewers : pc[r] \in Active \ {"admitted"} => Verdict = request[r]

Occurrences(log, v) == {i \in 1..Len(log) : log[i] = v}

LogInv ==
  /\ IsFiniteSet(Asked)
  /\ \A v \in HumanDecisions :
       Cardinality(Occurrences(decisions, v)) <= Cardinality({r \in Heard : request[r] = v})

\* The log is complete, and its last entry is the verdict the graph acts on.
CompleteInv ==
  /\ \A d \in Drivers : pc[d] # "failed"
  /\ Quiet => checkpoint.next \in {"END", Gate}
  /\ Len(decisions) = Cardinality(Heard)
  /\ \A r \in Heard : \E i \in 1..Len(decisions) : decisions[i] = request[r]
  /\ \A r \in Reviewers :
       pc[r] \in {"admitted", "ready", "recording"} => checkpoint.next = Gate
  /\ (\A r \in Reviewers : pc[r] = "admitted" \/ ~Pending(r)) =>
       Verdict = IF decisions = <<>> THEN None ELSE decisions[Len(decisions)]

\* What the verdict says of where the graph stands, and of the patch.
PathInv ==
  LET s == checkpoint.state
  IN  /\ Verdict # None /\ checkpoint.next # Gate =>
           \/ Verdict.decision = "revise"
           \/ checkpoint.last \in {Gate, "EvaluateRun", "PersistRun"}
      /\ /\ Verdict # None /\ Verdict.decision = "approve" /\ ApprovalIsAuthorized(s)
         /\ checkpoint.last \in {"EvaluateRun", "PersistRun"}
         => PassedPatch(s) /\ s.evaluation

\* The row, the checkpoint and the saved patch.
RowInv ==
  LET s == checkpoint.state
  IN  /\ runRow.exists <=> pc[Starter] # "idle"
      /\ runRow.finished <=>
           checkpoint.last = "PersistRun" \/ \E d \in Drivers : pc[d] = "persisting"
      /\ runRow.state = IF runRow.finished THEN FinalState(s) ELSE "INVESTIGATION_INCONCLUSIVE"
      /\ checkpoint.last = "PersistRun" =>
           s.final_state = runRow.state /\ s.candidate_patch \in {None, artifact}
      /\ checkpoint.next = "END" =>
           checkpoint.last = "PersistRun" \/ pc[Starter] \in {"idle", "ready"}
      /\ \A d \in Drivers : pc[d] = "persisting" => checkpoint.next = "PersistRun"

\* Every review but the one being acted on has cost a revision.
BudgetInv ==
  /\ Cardinality(Asked) <= checkpoint.state.revisions_used + 1
  /\ /\ checkpoint.last \notin {Gate, "EvaluateRun", "PersistRun"}
     /\ \A r \in Reviewers : ~Pending(r) /\ pc[r] # "recording"
     => Cardinality(Asked) <= checkpoint.state.revisions_used

UndisturbedInv == faults = 0 => CompleteInv /\ PathInv /\ RowInv /\ BudgetInv

-----------------------------------------------------------------------------
(***************************************************************************)
(* The steps the serial run can take.                                      *)
(***************************************************************************)

\* Only a passed validation leads to the gate, and a decision written while
\* the run waits there keeps it there.
LEMMA GateLemma ==
  ASSUME NEW c \in Checkpoints, NEW req, CopyInv(c, req), c.next = Gate
  PROVE  /\ c.last = "RunPatchValidation"
         /\ \A v : Successor(c.last, [c.state EXCEPT !.human_decision = v]) = Gate
<1> DEFINE s0 == c.state
           node == c.last
<1>1. s0 \in InvestigationStates /\ node \in Nodes \union {"__start__"}
  BY DEF Checkpoints
<1>2. Successor(node, s0) = Gate
  BY DEF CopyInv, Gate
<1> HIDE DEF s0, node
<1>3. node = "RunPatchValidation" /\ s0.validation.passed
  BY <1>1, <1>2 DEF Gate, Successor, RouteAfterNormalize, RouteAfterRetrieveCode,
       RouteAfterAnalyze, RouteAfterDraft, RouteAfterValidation, RouteAfterHuman, ReviseOrPersist
<1>4. ASSUME NEW v PROVE Successor(node, [s0 EXCEPT !.human_decision = v]) = Gate
  <2> DEFINE s == [s0 EXCEPT !.human_decision = v]
  <2>1. s.validation = s0.validation
    BY <1>1 DEF InvestigationStates
  <2> HIDE DEF s
  <2>2. Successor(node, s) = Gate
    BY <1>3, <2>1 DEF Gate, Successor, RouteAfterValidation
  <2> QED BY <2>2 DEF s
<1> QED BY <1>3, <1>4 DEF s0, node

\* What every node that only computes leaves alone, and what it pays.
LEMMA FrameLemma ==
  ASSUME NEW s0 \in InvestigationStates, NEW node, NEW s, NodeResult(node, s0, s)
  PROVE  /\ node \in Nodes \ {Gate, "PersistRun"}
         /\ s.human_decision = s0.human_decision
         /\ s.revisions_used = IF node = "RevisePatch" THEN s0.revisions_used + 1
                               ELSE s0.revisions_used
         /\ node = "EvaluateRun" =>
              s.evaluation /\ ApprovalIsAuthorized(s) = ApprovalIsAuthorized(s0)
<1>1. node \in Nodes \ {Gate, "PersistRun"}
  BY DEF NodeResult, Nodes, Gate
<1>2. CASE node = "DraftPatch"
  <2>1. PICK p : s = [s0 EXCEPT !.candidate_patch = p]
    BY <1>2 DEF NodeResult, DraftPatch, Drafts
  <2> QED BY <1>1, <1>2, <2>1 DEF InvestigationStates
<1>3. CASE node = "RevisePatch"
  <2>1. PICK p : s = [[s0 EXCEPT !.revisions_used = s0.revisions_used + 1]
                        EXCEPT !.candidate_patch = p]
    BY <1>3 DEF NodeResult, RevisePatch, Drafts
  <2> QED BY <1>1, <1>3, <2>1 DEF InvestigationStates
<1>4. CASE node = "EvaluateRun"
  <2>1. /\ s.evaluation
        /\ s.human_decision = s0.human_decision
        /\ s.revisions_used = s0.revisions_used
        /\ s.candidate_patch = s0.candidate_patch
    BY <1>4 DEF NodeResult, EvaluateRun, InvestigationStates
  <2> QED BY <1>1, <1>4, <2>1 DEF ApprovalIsAuthorized
<1>5. CASE node \notin {"DraftPatch", "RevisePatch", "EvaluateRun"}
  BY <1>1, <1>5 DEF NodeResult, NormalizeRequest, PlanInvestigation, RetrieveIssueContext,
       RetrieveCodeContext, AnalyzeRootCause, SelectAdditionalEvidence,
       DiscoverRelatedFiles, RunPatchValidation, InvestigationStates
<1> QED BY <1>2, <1>3, <1>4, <1>5

\* d runs a node that only computes, and s is the state it makes.
Computes(d, node, s) ==
  /\ pc[d] = "running"
  /\ checkpoint.next = node
  /\ NodeResult(node, checkpoint.state, s)
  /\ StateInv(node, s, request)
  /\ Commit(d, node, s)
  /\ UNCHANGED <<runRow, decisions, artifact, request, faults>>

\* A node raises under the only driver at work, or the server dies.
Disturbs ==
  /\ faults' = faults + 1
  /\ ~Quiet
  /\ pc' = [d \in Drivers |-> IF pc[d] \in Active THEN "failed" ELSE pc[d]]
  /\ UNCHANGED <<runRow, checkpoint, decisions, artifact, request>>

\* With one driver at work its copy is the checkpoint, and there are this many
\* kinds of steps; resuming without a decision is not one of them.
LEMMA SerialSteps ==
  ASSUME IInv, SerialInv, [Next]_vars
  PROVE  \/ CreateRun
         \/ InvokeStart
         \/ \E r \in Reviewers : Submit(r)
         \/ \E r \in Reviewers : UpdateState(r)
         \/ \E r \in Reviewers : InvokeResume(r)
         \/ \E d \in Drivers, node \in Nodes, s \in InvestigationStates : Computes(d, node, s)
         \/ \E r \in Reviewers : RecordDecision(r)
         \/ \E r \in Reviewers : FollowDecision(r)
         \/ \E d \in Drivers : FinishRow(d)
         \/ \E d \in Drivers : SaveArtifacts(d)
         \/ Disturbs
         \/ UNCHANGED vars
<1>1. ASSUME NEW d \in Drivers, NodeStep(d)
      PROVE  \/ \E node \in Nodes, s \in InvestigationStates : Computes(d, node, s)
             \/ d \in Reviewers /\ (RecordDecision(d) \/ FollowDecision(d))
             \/ FinishRow(d) \/ SaveArtifacts(d)
  <2>1. /\ mem[d] \in Checkpoints /\ CopyInv(mem[d], request)
        /\ mem[d].state \in InvestigationStates
    BY DEF IInv, TypeOK, DriverInv, Checkpoints
  <2>2. CASE Normalize(d) \/ Plan(d) \/ RetrieveIssue(d) \/ RetrieveCode(d) \/ Analyze(d)
               \/ SelectEvidence(d) \/ DiscoverRelated(d) \/ Draft(d) \/ Revise(d)
               \/ Validate(d) \/ Evaluate(d)
    <3>1. PICK node \in Nodes :
            \E s :
              /\ NodeResult(node, mem[d].state, s)
              /\ pc[d] = "running"
              /\ mem[d].next = node
              /\ Commit(d, node, s)
              /\ UNCHANGED <<runRow, decisions, artifact, request, faults>>
      BY <2>2 DEF NodeResult, Normalize, Plan, RetrieveIssue, RetrieveCode, Analyze, SelectEvidence,
           DiscoverRelated, Draft, Revise, Validate, Evaluate, StateStep, AtNode, Nodes
    <3>2. PICK s :
            /\ NodeResult(node, mem[d].state, s)
            /\ pc[d] = "running"
            /\ mem[d].next = node
            /\ Commit(d, node, s)
            /\ UNCHANGED <<runRow, decisions, artifact, request, faults>>
      BY <3>1
    <3>3. mem[d].next # "END"
      BY <3>2 DEF NodeResult
    <3>4. s \in InvestigationStates /\ StateInv(node, s, request)
      BY <2>1, <3>2, <3>3, NodeLemma
    <3>5. mem[d] = checkpoint
      BY <3>2 DEF SerialInv
    <3>6. Computes(d, node, s)
      BY <3>2, <3>4, <3>5 DEF Computes
    <3> QED BY <3>4, <3>6
  <2>3. CASE RecordDecision(d)
    <3>1. pc[d] = "running" /\ checkpoint.next = Gate
      BY <2>3 DEF RecordDecision, AtNode, SerialInv, Gate
    <3> QED BY <2>3, <3>1 DEF SerialInv, Drivers
  <2>4. CASE FollowDecision(d)
    BY <2>4 DEF FollowDecision, SerialInv, Drivers
  <2>5. ~ResumeUndecided(d)
    <3> SUFFICES ASSUME ResumeUndecided(d) PROVE FALSE
      OBVIOUS
    <3>1. pc[d] = "running" /\ checkpoint.next = Gate /\ Verdict = None
      BY DEF ResumeUndecided, AtNode, SerialInv, Gate, Verdict
    <3>2. d \in Reviewers /\ Verdict = request[d]
      BY <3>1 DEF SerialInv, Drivers, Active
    <3> QED BY <3>1, <3>2 DEF IInv, RequestInv
  <2> QED BY <1>1, <2>2, <2>3, <2>4, <2>5 DEF NodeStep
<1>2. ASSUME NEW d \in Drivers, NodeRaises(d) PROVE Disturbs
  <2>1. pc[d] \in Active /\ pc' = [pc EXCEPT ![d] = "failed"]
    BY <1>2 DEF NodeRaises, Active
  <2>2. pc' = [e \in Drivers |-> IF pc[e] \in Active THEN "failed" ELSE pc[e]]
    <3>1. \A e \in Drivers : pc[e] \in Active => e = d
      BY <2>1 DEF SerialInv
    <3> QED BY <2>1, <3>1 DEF IInv, TypeOK
  <2> QED BY <1>2, <2>1, <2>2 DEF NodeRaises, Disturbs, Quiet
<1>3. CASE ServerCrash
  BY <1>3 DEF ServerCrash, Disturbs
<1> QED BY <1>1, <1>2, <1>3 DEF Next, ReviewerStep

\* What a commit by the only driver at work makes of the run.
LEMMA CommitShape ==
  ASSUME IInv, SerialInv, NEW d \in Drivers, pc[d] \in Active, NEW node, NEW s,
         Commit(d, node, s)
  PROVE  /\ checkpoint'.state = s
         /\ checkpoint'.last = node
         /\ checkpoint'.next = Successor(node, s)
         /\ pc'[d] = IF checkpoint'.next \in {"END", Gate} THEN "returned" ELSE "running"
         /\ \A e \in Drivers \ {d} : pc[e] \notin Active /\ pc'[e] = pc[e]
         /\ \A e \in Drivers : pc'[e] = "running" => e = d /\ mem'[e] = checkpoint'
<1>1. \A e \in Drivers \ {d} : pc[e] \notin Active
  BY DEF SerialInv
<1> DEFINE c == [state |-> s, last |-> node, next |-> Successor(node, s)]
<1>2. c.state = s /\ c.last = node /\ c.next = Successor(node, s)
  OBVIOUS
<1>3. /\ checkpoint' = c
      /\ mem' = [mem EXCEPT ![d] = IF c.next \in {"END", Gate} THEN NoCheckpoint ELSE c]
      /\ pc' = [pc EXCEPT ![d] = IF c.next \in {"END", Gate} THEN "returned" ELSE "running"]
  BY DEF Commit, Gate
<1> HIDE DEF c
<1> QED BY <1>1, <1>2, <1>3 DEF IInv, TypeOK, Active

\* While the starter works or has yet to, no reviewer does.
LEMMA StarterLemma ==
  ASSUME IInv, SerialInv
  PROVE  /\ Starter \in Drivers /\ Starter \notin Reviewers
         /\ \A r \in Reviewers : pc[r] \in Active => pc[Starter] \notin {"idle"} \union Active
  BY StarterAssumption DEF SerialInv, Asked, Drivers, Active

\* Nothing but another decision changes the verdict, whoever commits.
LEMMA SerialCommit ==
  ASSUME IInv, SerialInv, NEW d \in Drivers, pc[d] \in {"running", "recording", "persisting"},
         NEW node, NEW s, s.human_decision = Verdict, Commit(d, node, s),
         UNCHANGED <<decisions, request>>
  PROVE  SerialInv'
<1>1. /\ checkpoint'.state = s
      /\ pc'[d] = IF checkpoint'.next \in {"END", Gate} THEN "returned" ELSE "running"
      /\ \A e \in Drivers \ {d} : pc[e] \notin Active /\ pc'[e] = pc[e]
      /\ \A e \in Drivers : pc'[e] = "running" => e = d /\ mem'[e] = checkpoint'
  BY CommitShape DEF Active
<1>2. pc[d] \in Active /\ pc'[d] \in {"running", "returned"}
  BY <1>1 DEF Active
<1>3. \A e \in Drivers : pc'[e] \in Active => e = d /\ pc'[e] = "running"
  BY <1>1, <1>2 DEF Active
<1>4. Verdict' = Verdict
  BY <1>1 DEF Verdict
<1>5. Asked' = Asked
  BY <1>1, <1>2 DEF Asked, Drivers, Active
<1>6. CASE d = Starter
  BY <1>1, <1>2, <1>3, <1>4, <1>5, <1>6, StarterLemma DEF SerialInv, Drivers, Active
<1>7. CASE d \in Reviewers
  <2>1. pc[Starter] \notin {"idle"} \union Active /\ d # Starter /\ pc'[Starter] = pc[Starter]
    BY <1>1, <1>2, <1>7, StarterLemma
  <2>2. \A r \in Reviewers : pc'[r] \in Active => Verdict = request[r]
    BY <1>2, <1>3, <1>7 DEF SerialInv, Drivers, Active
  <2> QED BY <1>1, <1>3, <1>4, <2>1, <2>2 DEF SerialInv, Active
<1> QED BY <1>6, <1>7 DEF Drivers

\* The run stays serial.
LEMMA SerialStep == IInv /\ SerialInv /\ [Next]_vars => SerialInv'
<1> SUFFICES ASSUME IInv, SerialInv, [Next]_vars PROVE SerialInv'
  OBVIOUS
<1>0. /\ Starter \in Drivers /\ Starter \notin Reviewers
      /\ \A r \in Reviewers : r \in Drivers
      /\ \A r \in Reviewers : pc[r] \in Active => pc[Starter] \notin {"idle"} \union Active
  BY StarterLemma DEF Drivers
<1>1. CASE CreateRun
  <2>1. /\ pc'[Starter] = "ready"
        /\ \A d \in Drivers \ {Starter} : pc'[d] = pc[d] /\ pc[d] \notin Active
    BY <1>0, <1>1 DEF CreateRun, IInv, TypeOK, SerialInv, Asked, Drivers, Active
  <2>2. Asked' = Asked
    BY <1>0, <2>1 DEF Asked
  <2> QED BY <1>0, <1>1, <2>1, <2>2 DEF CreateRun, SerialInv, Active, Verdict
<1>2. CASE InvokeStart
  <2>1. /\ pc'[Starter] = "running"
        /\ \A d \in Drivers \ {Starter} : pc'[d] = pc[d] /\ pc[d] \notin Active
        /\ mem'[Starter] = checkpoint'
        /\ checkpoint'.next # Gate
    BY <1>0, <1>2 DEF InvokeStart, IInv, TypeOK, SerialInv, Active, FirstCheckpoint, NoCheckpoint, Gate
  <2>2. Asked' = Asked
    BY <1>0, <2>1 DEF Asked
  <2> QED BY <1>0, <1>2, <2>1, <2>2 DEF InvokeStart, SerialInv, Active
<1>3. ASSUME NEW r \in Reviewers, Submit(r) PROVE SerialInv'
  <2>1. \A d \in Drivers : pc[d] \notin Active
    BY <1>3 DEF Submit, MayOverlap, SerialInv, Quiet
  <2>2. pc[Starter] # "idle"
    BY <1>3 DEF Submit, AwaitingHuman, SerialInv, NoCheckpoint
  <2>3. pc'[r] = "admitted" /\ \A d \in Drivers \ {r} : pc'[d] = pc[d]
    BY <1>0, <1>3 DEF Submit, IInv, TypeOK
  <2> QED BY <1>0, <1>3, <2>1, <2>2, <2>3 DEF Submit, SerialInv, Active
<1>4. ASSUME NEW r \in Reviewers, UpdateState(r) PROVE SerialInv'
  <2>1. /\ pc[r] = "admitted" /\ pc'[r] = "ready"
        /\ \A d \in Drivers \ {r} : pc'[d] = pc[d] /\ pc[d] \notin Active
    BY <1>0, <1>4 DEF UpdateState, IInv, TypeOK, SerialInv, Active
  <2>2. pc[Starter] \notin {"idle"} \union Active
    BY <1>0, <2>1 DEF Active
  <2>3. Verdict' = request[r]
    <3> DEFINE s == [checkpoint.state EXCEPT !.human_decision = request[r]]
    <3>1. s.human_decision = request[r]
      BY DEF IInv, TypeOK, Checkpoints, InvestigationStates
    <3>2. checkpoint'.state = s
      BY <1>4 DEF UpdateState
    <3> QED BY <3>1, <3>2 DEF Verdict
  <2> QED BY <1>0, <1>4, <2>1, <2>2, <2>3 DEF UpdateState, SerialInv, Active
<1>5. ASSUME NEW r \in Reviewers, InvokeResume(r) PROVE SerialInv'
  <2>1. /\ pc[r] = "ready" /\ pc'[r] \in {"running", "returned"}
        /\ pc'[r] = "running" => mem'[r] = checkpoint
        /\ \A d \in Drivers \ {r} : pc'[d] = pc[d] /\ pc[d] \notin Active
    BY <1>0, <1>5 DEF InvokeResume, IInv, TypeOK, SerialInv, Active
  <2>2. pc[Starter] \notin {"idle"} \union Active
    BY <1>0, <2>1 DEF Active
  <2>3. \A q \in Reviewers : pc'[q] \in Active => Verdict' = request'[q]
    BY <1>0, <1>5, <2>1 DEF InvokeResume, SerialInv, Verdict, Active
  <2> QED BY <1>0, <1>5, <2>1, <2>2, <2>3 DEF InvokeResume, SerialInv, Active
<1>6. ASSUME NEW d \in Drivers, NEW node \in Nodes, NEW s \in InvestigationStates,
             Computes(d, node, s)
      PROVE  SerialInv'
  <2>1. s.human_decision = Verdict
    BY <1>6, FrameLemma DEF Computes, Verdict, IInv, TypeOK, Checkpoints
  <2> QED BY <1>6, <2>1, SerialCommit DEF Computes
<1>7. ASSUME NEW r \in Reviewers, RecordDecision(r) PROVE SerialInv'
  <2>1. /\ pc[r] = "running" /\ pc'[r] = "recording" /\ mem[r] = checkpoint
        /\ \A d \in Drivers \ {r} : pc'[d] = pc[d] /\ pc[d] \notin Active
    BY <1>0, <1>7 DEF RecordDecision, AtNode, IInv, TypeOK, SerialInv, Active
  <2>2. pc[Starter] \notin {"idle"} \union Active
    BY <1>0, <2>1 DEF Active
  <2>3. \A q \in Reviewers : pc'[q] \in Active => Verdict' = request'[q]
    BY <1>0, <1>7, <2>1 DEF RecordDecision, SerialInv, Verdict, Active
  <2> QED BY <1>0, <1>7, <2>1, <2>2, <2>3 DEF RecordDecision, SerialInv, Active
<1>8. ASSUME NEW r \in Reviewers, FollowDecision(r) PROVE SerialInv'
  <2>1. mem[r] = checkpoint
    BY <1>0, <1>8 DEF FollowDecision, SerialInv
  <2> QED BY <1>0, <1>8, <2>1, SerialCommit DEF FollowDecision, Verdict
<1>9. ASSUME NEW d \in Drivers, FinishRow(d) PROVE SerialInv'
  <2>1. /\ pc[d] = "running" /\ pc'[d] = "persisting" /\ mem[d] = checkpoint
        /\ \A e \in Drivers \ {d} : pc'[e] = pc[e] /\ pc[e] \notin Active
    BY <1>9 DEF FinishRow, AtNode, IInv, TypeOK, SerialInv, Active
  <2>2. Asked' = Asked
    BY <1>0, <2>1 DEF Asked
  <2>3. \A q \in Reviewers : pc'[q] \in Active \ {"admitted"} => Verdict' = request'[q]
    BY <1>0, <1>9, <2>1 DEF FinishRow, SerialInv, Verdict, Active
  <2> QED BY <1>0, <1>9, <2>1, <2>2, <2>3 DEF FinishRow, SerialInv, Active
<1>10. ASSUME NEW d \in Drivers, SaveArtifacts(d) PROVE SerialInv'
  <2> DEFINE s == [mem[d].state EXCEPT !.final_state = FinalState(mem[d].state)]
  <2>1. pc[d] = "persisting" /\ mem[d] = checkpoint
    BY <1>10 DEF SaveArtifacts, SerialInv
  <2>2. s.human_decision = Verdict
    BY <2>1 DEF Verdict, IInv, TypeOK, Checkpoints, InvestigationStates
  <2>3. Commit(d, "PersistRun", s) /\ UNCHANGED <<decisions, request>>
    BY <1>10 DEF SaveArtifacts
  <2> HIDE DEF s
  <2> QED BY <2>1, <2>2, <2>3, SerialCommit
<1>11. CASE Disturbs
  <2>1. \A d \in Drivers : pc'[d] = IF pc[d] \in Active THEN "failed" ELSE pc[d]
    BY <1>11 DEF Disturbs
  <2>2. \A d \in Drivers : pc'[d] \notin Active
    BY <2>1 DEF Active
  <2>3. Asked' = Asked
    BY <1>0, <2>1 DEF Asked, Active
  <2>4. pc'[Starter] \in {"idle", "ready"} => pc[Starter] = pc'[Starter]
    BY <1>0, <2>1
  <2> QED BY <1>0, <1>11, <2>2, <2>3, <2>4 DEF Disturbs, SerialInv, Active
<1>12. CASE UNCHANGED vars
  BY <1>12 DEF vars, SerialInv, Asked, Verdict
<1> QED BY <1>1, <1>2, <1>3, <1>4, <1>5, <1>6, <1>7, <1>8, <1>9, <1>10, <1>11, <1>12, SerialSteps

-----------------------------------------------------------------------------
(***************************************************************************)
(* The log.                                                                *)
(***************************************************************************)

\* A driver that moves on leaves the standing of every other request alone.
LEMMA OneMoves ==
  ASSUME NEW d \in Drivers,
         \A e \in Drivers \ {d} : pc[e] \notin Active /\ pc'[e] = pc[e],
         d \in Reviewers => pc[d] # "idle" /\ pc'[d] # "idle"
  PROVE  /\ Asked' = Asked
         /\ Heard' = IF d \notin Reviewers THEN Heard
                     ELSE IF Pending(d)' THEN Heard \ {d} ELSE Heard \union {d}
<1>1. \A r \in Reviewers \ {d} : pc[r] \notin Active /\ pc'[r] = pc[r]
  BY DEF Drivers
<1>2. Asked' = Asked
  BY <1>1 DEF Asked
<1>3. \A r \in Reviewers \ {d} : ~Pending(r) /\ ~Pending(r)'
  BY <1>1 DEF Pending, Active
<1>4. \A r \in Reviewers \ {d} : r \in Heard' <=> r \in Heard
  BY <1>2, <1>3 DEF Heard
<1>5. d \in Reviewers => (d \in Heard' <=> ~Pending(d)')
  BY <1>2 DEF Heard, Asked
<1>6. Heard \subseteq Reviewers /\ Heard' \subseteq Reviewers
  BY DEF Heard, Asked
<1> QED BY <1>2, <1>4, <1>5, <1>6

\* Only RecordDecision writes the log, and only a fault lets a decision that
\* was accepted go without an entry.
LEMMA HeardLemma ==
  ASSUME IInv, SerialInv, [Next]_vars, ~\E r \in Reviewers : RecordDecision(r)
  PROVE  /\ decisions' = decisions
         /\ Heard \subseteq Heard'
         /\ \A r \in Heard : request'[r] = request[r]
         /\ faults = 0 /\ faults' = 0 /\ CompleteInv => Heard' = Heard
<1>0. /\ Starter \in Drivers /\ Starter \notin Reviewers
      /\ \A r \in Reviewers : r \in Drivers
  BY StarterLemma DEF Drivers
<1>1. CASE CreateRun
  <2>1. \A r \in Reviewers : pc'[r] = pc[r]
    BY <1>0, <1>1 DEF CreateRun, IInv, TypeOK
  <2>2. Heard' = Heard
    BY <1>1, <2>1 DEF CreateRun, Heard, Asked, Pending
  <2> QED BY <1>1, <2>2 DEF CreateRun
<1>2. CASE InvokeStart
  <2>1. \A e \in Drivers \ {Starter} : pc[e] \notin Active /\ pc'[e] = pc[e]
    BY <1>0, <1>2 DEF InvokeStart, IInv, TypeOK, SerialInv, Active
  <2>2. Heard' = Heard
    BY <1>0, <2>1, OneMoves
  <2> QED BY <1>2, <2>2 DEF InvokeStart
<1>3. ASSUME NEW r \in Reviewers, Submit(r) PROVE Heard' = Heard /\ \A q \in Heard : request'[q] = request[q]
  <2>1. /\ pc[r] = "idle" /\ pc'[r] = "admitted"
        /\ \A q \in Reviewers \ {r} : pc'[q] = pc[q] /\ request'[q] = request[q]
        /\ checkpoint' = checkpoint
    BY <1>0, <1>3 DEF Submit, IInv, TypeOK
  <2>2. \A q \in Reviewers : q \in Heard' <=> q \in Heard
    BY <2>1 DEF Heard, Asked, Pending
  <2>3. r \notin Heard /\ Heard \subseteq Reviewers /\ Heard' \subseteq Reviewers
    BY <2>1 DEF Heard, Asked
  <2> QED BY <2>1, <2>2, <2>3
<1>4. ASSUME NEW r \in Reviewers, UpdateState(r) PROVE Heard' = Heard
  <2>1. /\ pc[r] = "admitted" /\ pc'[r] = "ready"
        /\ \A d \in Drivers \ {r} : pc[d] \notin Active /\ pc'[d] = pc[d]
    BY <1>0, <1>4 DEF UpdateState, IInv, TypeOK, SerialInv, Active
  <2>2. Pending(r) /\ Pending(r)'
    BY <2>1 DEF Pending
  <2>3. Heard' = Heard \ {r} /\ r \notin Heard
    BY <1>0, <2>1, <2>2, OneMoves DEF Heard
  <2> QED BY <2>3
<1>5. ASSUME NEW r \in Reviewers, InvokeResume(r)
      PROVE Heard \subseteq Heard' /\ (CompleteInv => Heard' = Heard)
  <2>1. /\ pc[r] = "ready" /\ pc'[r] \in {"running", "returned"}
        /\ checkpoint.next # "END" => pc'[r] = "running"
        /\ checkpoint' = checkpoint
        /\ \A d \in Drivers \ {r} : pc[d] \notin Active /\ pc'[d] = pc[d]
    BY <1>0, <1>5 DEF InvokeResume, IInv, TypeOK, SerialInv, Active
  <2>2. r \notin Heard
    BY <2>1 DEF Heard, Pending
  <2>3. CompleteInv => Pending(r)'
    BY <2>1 DEF CompleteInv, Pending, Gate
  <2> QED BY <1>0, <2>1, <2>2, <2>3, OneMoves
<1>6. ASSUME NEW d \in Drivers, NEW node, NEW s, Commit(d, node, s),
             pc[d] \in Active, d \in Reviewers => ~Pending(d)
      PROVE  Heard' = Heard
  <2>1. /\ pc'[d] = IF checkpoint'.next \in {"END", Gate} THEN "returned" ELSE "running"
        /\ \A e \in Drivers \ {d} : pc[e] \notin Active /\ pc'[e] = pc[e]
    BY <1>6, CommitShape
  <2>2. ~Pending(d)'
    BY <2>1 DEF Pending
  <2>3. d \in Reviewers => d \in Heard
    BY <1>6 DEF Heard, Asked, Active
  <2>4. pc[d] # "idle" /\ pc'[d] # "idle"
    BY <1>6, <2>1 DEF Active
  <2> QED BY <2>1, <2>2, <2>3, <2>4, OneMoves
<1>7. ASSUME NEW d \in Drivers, NEW node \in Nodes, NEW s \in InvestigationStates,
             Computes(d, node, s)
      PROVE  Heard' = Heard
  <2>1. node # Gate
    BY <1>7, FrameLemma DEF Computes, IInv, TypeOK, Checkpoints
  <2> QED BY <1>6, <1>7, <2>1 DEF Computes, Pending, Active
<1>8. ASSUME NEW r \in Reviewers, FollowDecision(r) PROVE Heard' = Heard
  BY <1>0, <1>6, <1>8 DEF FollowDecision, Pending, Active
<1>9. ASSUME NEW d \in Drivers, FinishRow(d) PROVE Heard' = Heard
  <2>1. /\ pc[d] = "running" /\ pc'[d] = "persisting" /\ checkpoint.next # Gate
        /\ \A e \in Drivers \ {d} : pc[e] \notin Active /\ pc'[e] = pc[e]
    BY <1>9 DEF FinishRow, AtNode, IInv, TypeOK, SerialInv, Active, Gate
  <2>2. ~Pending(d) /\ ~Pending(d)'
    BY <2>1 DEF Pending
  <2>3. d \in Reviewers => d \in Heard
    BY <2>1, <2>2 DEF Heard, Asked
  <2> QED BY <2>1, <2>2, <2>3, OneMoves
<1>10. ASSUME NEW d \in Drivers, SaveArtifacts(d) PROVE Heard' = Heard
  <2>1. PICK s : Commit(d, "PersistRun", s)
    BY <1>10 DEF SaveArtifacts
  <2> QED BY <1>6, <1>10, <2>1 DEF SaveArtifacts, Pending, Active
<1>11. CASE Disturbs
  <2>1. \A r \in Reviewers : pc'[r] = IF pc[r] \in Active THEN "failed" ELSE pc[r]
    BY <1>0, <1>11 DEF Disturbs
  <2>2. Heard \subseteq Heard'
    BY <2>1 DEF Heard, Asked, Pending, Active
  <2>3. faults' # 0
    BY <1>11, EnvironmentAssumption DEF Disturbs, IInv, TypeOK
  <2> QED BY <1>11, <2>2, <2>3 DEF Disturbs
<1>12. CASE UNCHANGED vars
  BY <1>12 DEF vars, Heard, Asked, Pending
<1>13. ASSUME Heard' = Heard, UNCHANGED <<decisions, request>>
       PROVE  /\ decisions' = decisions
              /\ Heard \subseteq Heard'
              /\ \A r \in Heard : request'[r] = request[r]
  BY <1>13
<1>14. CASE \E r \in Reviewers : Submit(r)
  BY <1>3, <1>14 DEF Submit
<1>15. CASE \E r \in Reviewers : UpdateState(r)
  BY <1>4, <1>15 DEF UpdateState
<1>16. CASE \E r \in Reviewers : InvokeResume(r)
  BY <1>5, <1>16 DEF InvokeResume
<1>17. CASE \E d \in Drivers, node \in Nodes, s \in InvestigationStates : Computes(d, node, s)
  BY <1>7, <1>17 DEF Computes
<1>18. CASE \E r \in Reviewers : FollowDecision(r)
  BY <1>8, <1>18 DEF FollowDecision
<1>19. CASE \E d \in Drivers : FinishRow(d)
  BY <1>9, <1>19 DEF FinishRow
<1>20. CASE \E d \in Drivers : SaveArtifacts(d)
  BY <1>10, <1>20 DEF SaveArtifacts
<1> QED BY <1>1, <1>2, <1>11, <1>12, <1>14, <1>15, <1>16, <1>17, <1>18, <1>19, <1>20, SerialSteps

\* RecordDecision logs the verdict of the request that asked for it.
LEMMA RecordLemma ==
  ASSUME IInv, SerialInv, NEW r \in Reviewers, RecordDecision(r)
  PROVE  /\ decisions' = Append(decisions, request[r])
         /\ request[r] \in HumanDecisions
         /\ pc[r] = "running" /\ pc'[r] = "recording" /\ checkpoint.next = Gate
         /\ \A e \in Drivers \ {r} : pc[e] \notin Active /\ pc'[e] = pc[e]
         /\ Verdict = request[r]
         /\ r \notin Heard /\ Heard' = Heard \union {r} /\ Asked' = Asked
<1>0. r \in Drivers
  BY DEF Drivers
<1>1. /\ pc[r] = "running" /\ pc'[r] = "recording" /\ checkpoint.next = Gate
      /\ mem[r] = checkpoint
      /\ \A e \in Drivers \ {r} : pc[e] \notin Active /\ pc'[e] = pc[e]
  BY <1>0 DEF RecordDecision, AtNode, IInv, TypeOK, SerialInv, Active, Gate
<1>2. Verdict = request[r]
  BY <1>1 DEF SerialInv, Active
<1>3. decisions' = Append(decisions, request[r])
  BY <1>1, <1>2 DEF RecordDecision, Verdict
<1>4. request[r] \in HumanDecisions
  BY <1>1 DEF IInv, TypeOK, RequestInv
<1>5. r \notin Heard /\ ~Pending(r)'
  BY <1>1 DEF Heard, Pending
<1> QED BY <1>0, <1>1, <1>2, <1>3, <1>4, <1>5, OneMoves

\* How often a value occurs in a sequence, one entry later.
LEMMA OccurrencesLemma ==
  ASSUME NEW S, NEW log \in Seq(S), NEW x \in S, NEW v
  PROVE  /\ IsFiniteSet(Occurrences(log, v))
         /\ Cardinality(Occurrences(Append(log, x), v))
              = Cardinality(Occurrences(log, v)) + IF x = v THEN 1 ELSE 0
<1> DEFINE E == Occurrences(log, v)
           F == Occurrences(Append(log, x), v)
           n == Len(log) + 1
<1>1. IsFiniteSet(E)
  <2>1. IsFiniteSet(1..Len(log))
    BY FS_Interval
  <2> QED BY <2>1, FS_Subset DEF Occurrences
<1>2. F = IF x = v THEN E \union {n} ELSE E
  BY DEF E, F, n, Occurrences
<1>3. n \notin E
  BY DEF E, n, Occurrences
<1> HIDE DEF E, F, n
<1>4. Cardinality(E \union {n}) = Cardinality(E) + 1
  BY <1>1, <1>3, FS_AddElement
<1>5. Cardinality(E) \in Nat
  BY <1>1, FS_CardinalityType
<1>6. Cardinality(F) = Cardinality(E) + IF x = v THEN 1 ELSE 0
  BY <1>2, <1>4, <1>5
<1> QED BY <1>1, <1>6 DEF E, F

\* Requests are only ever added, one at a time, by Submit.
LEMMA AskedLemma ==
  ASSUME IInv, IInv', SerialInv, [Next]_vars
  PROVE  \/ Asked' = Asked /\ request' = request
         \/ \E r \in Reviewers : Submit(r) /\ r \notin Asked /\ Asked' = Asked \union {r}
<1>1. Asked = {r \in Reviewers : request[r] # None} /\ Asked' = {r \in Reviewers : request'[r] # None}
  BY DEF Asked, IInv, RequestInv
<1>2. CASE \E r \in Reviewers : Submit(r)
  <2>1. PICK r \in Reviewers : Submit(r)
    BY <1>2
  <2>2. r \notin Asked /\ r \in Asked' /\ \A q \in Reviewers \ {r} : pc'[q] = pc[q]
    BY <2>1 DEF Submit, Asked, IInv, TypeOK, Drivers
  <2>3. Asked' = Asked \union {r}
    BY <2>2 DEF Asked
  <2> QED BY <2>1, <2>2, <2>3
<1>3. CASE ~\E r \in Reviewers : Submit(r)
  <2>1. request' = request
    BY <1>3, SerialSteps DEF CreateRun, InvokeStart, UpdateState, InvokeResume, Computes,
         RecordDecision, FollowDecision, FinishRow, SaveArtifacts, Disturbs, vars
  <2> QED BY <1>1, <2>1
<1> QED BY <1>2, <1>3

\* No step puts an entry in the log that nobody's decision accounts for.
LEMMA LogStep == IInv /\ IInv' /\ SerialInv /\ LogInv /\ [Next]_vars => LogInv'
<1> SUFFICES ASSUME IInv, IInv', SerialInv, LogInv, [Next]_vars PROVE LogInv'
  OBVIOUS
<1>1. IsFiniteSet(Asked')
  <2>1. CASE Asked' = Asked
    BY <2>1 DEF LogInv
  <2>2. ASSUME NEW r, Asked' = Asked \union {r} PROVE IsFiniteSet(Asked')
    BY <2>2, FS_AddElement DEF LogInv
  <2> QED BY <2>1, <2>2, AskedLemma
<1>2. ASSUME NEW v PROVE IsFiniteSet({r \in Heard : request[r] = v})
                         /\ IsFiniteSet({r \in Heard' : request'[r] = v})
  <2>1. {r \in Heard : request[r] = v} \subseteq Asked /\ {r \in Heard' : request'[r] = v} \subseteq Asked'
    BY DEF Heard
  <2> QED BY <1>1, <2>1, FS_Subset DEF LogInv
<1>3. ASSUME NEW v \in HumanDecisions
      PROVE  Cardinality(Occurrences(decisions', v))
               <= Cardinality({r \in Heard' : request'[r] = v})
  <2> DEFINE H == {r \in Heard : request[r] = v}
             G == {r \in Heard' : request'[r] = v}
             n == Cardinality(Occurrences(decisions, v))
  <2>1. n <= Cardinality(H) /\ IsFiniteSet(H) /\ IsFiniteSet(G)
    BY <1>2 DEF LogInv
  <2>2. n \in Nat /\ Cardinality(H) \in Nat /\ Cardinality(G) \in Nat
    <3>1. decisions \in Seq(HumanDecisions)
      BY DEF IInv, TypeOK
    <3>2. IsFiniteSet(Occurrences(decisions, v))
      <4>1. IsFiniteSet(1..Len(decisions))
        BY <3>1, FS_Interval
      <4> QED BY <4>1, FS_Subset DEF Occurrences
    <3> QED BY <2>1, <3>2, FS_CardinalityType
  <2>3. CASE ~\E r \in Reviewers : RecordDecision(r)
    <3>1. /\ decisions' = decisions
          /\ Heard \subseteq Heard'
          /\ \A r \in Heard : request'[r] = request[r]
      BY <2>3, HeardLemma
    <3>2. H \subseteq G
      BY <3>1
    <3> HIDE DEF H, G
    <3>3. Cardinality(H) <= Cardinality(G)
      BY <2>1, <3>2, FS_Subset
    <3> QED BY <2>1, <2>2, <3>1, <3>3 DEF G
  <2>4. ASSUME NEW r \in Reviewers, RecordDecision(r)
        PROVE  Cardinality(Occurrences(decisions', v)) <= Cardinality(G)
    <3>1. /\ decisions' = Append(decisions, request[r]) /\ request[r] \in HumanDecisions
          /\ r \notin Heard /\ Heard' = Heard \union {r}
      BY <2>4, RecordLemma
    <3>2. request' = request
      BY <2>4 DEF RecordDecision
    <3>3. G = IF request[r] = v THEN H \union {r} ELSE H
      BY <3>1, <3>2
    <3>4. r \notin H
      BY <3>1
    <3>5. Cardinality(Occurrences(decisions', v))
            = n + IF request[r] = v THEN 1 ELSE 0
      BY <3>1, OccurrencesLemma DEF IInv, TypeOK
    <3> HIDE DEF H, G, n
    <3>6. Cardinality(H \union {r}) = Cardinality(H) + 1
      BY <2>1, <3>4, FS_AddElement
    <3>7. Cardinality(G) = Cardinality(H) + IF request[r] = v THEN 1 ELSE 0
      BY <2>2, <3>3, <3>6
    <3> QED BY <2>1, <2>2, <3>5, <3>7
  <2> QED BY <2>3, <2>4
<1> QED BY <1>1, <1>3 DEF LogInv

-----------------------------------------------------------------------------
(***************************************************************************)
(* The undisturbed run.                                                    *)
(***************************************************************************)

\* Faults are counted, and by nothing else.
LEMMA FaultsLemma ==
  ASSUME IInv, SerialInv, [Next]_vars
  PROVE  /\ Disturbs => faults' = faults + 1
         /\ ~Disturbs => faults' = faults
BY SerialSteps DEF CreateRun, InvokeStart, Submit, UpdateState, InvokeResume, Computes,
   RecordDecision, FollowDecision, FinishRow, SaveArtifacts, Disturbs, vars

\* No exception and no crash, before the step or in it.
LEMMA UndisturbedLemma ==
  ASSUME IInv, SerialInv, [Next]_vars, faults' = 0
  PROVE  faults = 0 /\ ~Disturbs
BY FaultsLemma, EnvironmentAssumption DEF IInv, TypeOK

\* A decision waiting at the gate is written into a state the gate stays ahead of.
LEMMA UpdateLemma ==
  ASSUME IInv, SerialInv, CompleteInv, NEW r \in Reviewers, UpdateState(r)
  PROVE  /\ checkpoint.last = "RunPatchValidation" /\ checkpoint'.last = checkpoint.last
         /\ checkpoint.next = Gate /\ checkpoint'.next = Gate
         /\ checkpoint'.state.revisions_used = checkpoint.state.revisions_used
         /\ pc[r] = "admitted" /\ pc'[r] = "ready"
         /\ \A d \in Drivers \ {r} : pc[d] \notin Active /\ pc'[d] = pc[d]
<1> DEFINE s == [checkpoint.state EXCEPT !.human_decision = request[r]]
           next == Successor(checkpoint.last, s)
<1>1. /\ pc[r] = "admitted" /\ pc'[r] = "ready"
      /\ \A d \in Drivers \ {r} : pc[d] \notin Active /\ pc'[d] = pc[d]
  BY DEF UpdateState, IInv, TypeOK, SerialInv, Active, Drivers
<1>2. checkpoint.next = Gate
  BY <1>1 DEF CompleteInv
<1>3. checkpoint.last = "RunPatchValidation" /\ next = Gate
  BY <1>2, GateLemma DEF IInv, TypeOK
<1>4. s.revisions_used = checkpoint.state.revisions_used
  BY DEF IInv, TypeOK, Checkpoints, InvestigationStates
<1>5. checkpoint' = [state |-> s, last |-> checkpoint.last, next |-> next]
  BY DEF UpdateState
<1> HIDE DEF s, next
<1>6. checkpoint'.state = s /\ checkpoint'.last = checkpoint.last /\ checkpoint'.next = next
  BY <1>5
<1> QED BY <1>1, <1>2, <1>3, <1>4, <1>6

\* A thread that resumes finds the run where its decision left it: at the gate.
LEMMA ResumeLemma ==
  ASSUME IInv, SerialInv, CompleteInv, NEW r \in Reviewers, InvokeResume(r)
  PROVE  /\ checkpoint.next = Gate
         /\ pc[r] = "ready" /\ pc'[r] = "running"
         /\ \A d \in Drivers \ {r} : pc[d] \notin Active /\ pc'[d] = pc[d]
<1>1. pc[r] = "ready" /\ checkpoint.next = Gate
  BY DEF InvokeResume, CompleteInv
<1> QED BY <1>1 DEF InvokeResume, IInv, TypeOK, SerialInv, Active, Drivers, Gate

\* What a commit does to the part of the records the log speaks of.
LEMMA CompleteCommit ==
  ASSUME IInv, SerialInv, CompleteInv, NEW d \in Drivers, pc[d] \in Active,
         d \in Reviewers => ~Pending(d),
         NEW node, NEW s, s.human_decision = Verdict, Commit(d, node, s),
         UNCHANGED decisions
  PROVE  /\ \A e \in Drivers : pc'[e] # "failed"
         /\ Quiet' => checkpoint'.next \in {"END", Gate}
         /\ \A r \in Reviewers :
              pc'[r] \in {"admitted", "ready", "recording"} => checkpoint'.next = Gate
         /\ Verdict' = IF decisions' = <<>> THEN None ELSE decisions'[Len(decisions')]
<1>1. /\ checkpoint'.state = s
      /\ pc'[d] = IF checkpoint'.next \in {"END", Gate} THEN "returned" ELSE "running"
      /\ \A e \in Drivers \ {d} : pc[e] \notin Active /\ pc'[e] = pc[e]
  BY CommitShape
<1>2. \A r \in Reviewers : ~Pending(r)
  BY <1>1 DEF Pending, Drivers, Active
<1>3. Verdict' = Verdict
  BY <1>1 DEF Verdict
<1>4. \A e \in Drivers : pc'[e] # "failed"
  BY <1>1 DEF CompleteInv
<1>5. Quiet' => checkpoint'.next \in {"END", Gate}
  BY <1>1 DEF Quiet, Active
<1>6. \A r \in Reviewers : pc'[r] \notin {"admitted", "ready", "recording"}
  BY <1>1 DEF Drivers, Active
<1> QED BY <1>2, <1>3, <1>4, <1>5, <1>6 DEF CompleteInv

\* The log stays complete.
LEMMA CompleteStep ==
  ASSUME IInv, IInv', SerialInv, SerialInv', LogInv, LogInv', CompleteInv,
         [Next]_vars, faults' = 0
  PROVE  CompleteInv'
<1>0. /\ Starter \in Drivers /\ Starter \notin Reviewers
      /\ \A r \in Reviewers : r \in Drivers
      /\ faults = 0 /\ ~Disturbs
  BY StarterLemma, UndisturbedLemma DEF Drivers
<1>1. /\ Len(decisions') = Cardinality(Heard')
      /\ \A r \in Heard' : \E i \in 1..Len(decisions') : decisions'[i] = request'[r]
  <2>1. CASE ~\E r \in Reviewers : RecordDecision(r)
    <3>1. decisions' = decisions /\ Heard' = Heard /\ \A r \in Heard : request'[r] = request[r]
      BY <1>0, <2>1, HeardLemma
    <3> QED BY <3>1 DEF CompleteInv
  <2>2. ASSUME NEW r \in Reviewers, RecordDecision(r)
        PROVE  /\ Len(decisions') = Cardinality(Heard')
               /\ \A q \in Heard' : \E i \in 1..Len(decisions') : decisions'[i] = request'[q]
    <3>1. /\ decisions' = Append(decisions, request[r]) /\ request[r] \in HumanDecisions
          /\ r \notin Heard /\ Heard' = Heard \union {r}
      BY <2>2, RecordLemma
    <3>2. decisions \in Seq(HumanDecisions) /\ request' = request
      BY <2>2 DEF RecordDecision, IInv, TypeOK
    <3>3. Len(decisions') = Len(decisions) + 1
      BY <3>1, <3>2
    <3>4. Cardinality(Heard') = Cardinality(Heard) + 1
      <4>1. IsFiniteSet(Heard)
        BY FS_Subset DEF LogInv, Heard
      <4> QED BY <3>1, <4>1, FS_AddElement
    <3>5. ASSUME NEW q \in Heard'
          PROVE  \E i \in 1..Len(decisions') : decisions'[i] = request'[q]
      <4>1. CASE q = r
        <5>1. decisions'[Len(decisions')] = request[r] /\ Len(decisions') \in 1..Len(decisions')
          BY <3>1, <3>2, <3>3
        <5> QED BY <3>2, <4>1, <5>1
      <4>2. CASE q # r
        <5>1. PICK i \in 1..Len(decisions) : decisions[i] = request[q]
          BY <3>1, <4>2 DEF CompleteInv
        <5>2. i \in 1..Len(decisions') /\ decisions'[i] = decisions[i]
          BY <3>1, <3>2, <3>3
        <5> QED BY <3>2, <5>1, <5>2
      <4> QED BY <4>1, <4>2
    <3> QED BY <3>3, <3>4, <3>5 DEF CompleteInv
  <2> QED BY <2>1, <2>2
<1> DEFINE Rest ==
      /\ \A e \in Drivers : pc'[e] # "failed"
      /\ Quiet' => checkpoint'.next \in {"END", Gate}
      /\ \A r \in Reviewers :
           pc'[r] \in {"admitted", "ready", "recording"} => checkpoint'.next = Gate
      /\ (\A r \in Reviewers : pc'[r] = "admitted" \/ ~Pending(r)') =>
           Verdict' = IF decisions' = <<>> THEN None ELSE decisions'[Len(decisions')]
<1> SUFFICES Rest
  BY <1>1 DEF CompleteInv
<1>2. CASE CreateRun
  <2>1. /\ pc'[Starter] = "ready" /\ \A d \in Drivers \ {Starter} : pc'[d] = pc[d]
        /\ Asked = {} /\ decisions = <<>> /\ checkpoint = NoCheckpoint
    BY <1>0, <1>2 DEF CreateRun, IInv, TypeOK, SerialInv
  <2>2. ~Quiet' /\ \A r \in Reviewers : pc'[r] = "idle"
    BY <1>0, <2>1 DEF Quiet, Asked, Active
  <2>3. Verdict' = None
    BY <1>2, <2>1 DEF CreateRun, Verdict, NoCheckpoint, NewState
  <2> QED BY <1>0, <1>2, <2>1, <2>2, <2>3 DEF CreateRun, CompleteInv
<1>3. CASE InvokeStart
  <2>1. /\ pc'[Starter] = "running" /\ \A d \in Drivers \ {Starter} : pc'[d] = pc[d]
        /\ Asked = {} /\ decisions = <<>>
    BY <1>0, <1>3 DEF InvokeStart, IInv, TypeOK, SerialInv, Active
  <2>2. ~Quiet' /\ \A r \in Reviewers : pc'[r] = "idle"
    BY <1>0, <2>1 DEF Quiet, Asked, Active
  <2>3. Verdict' = None
    BY <1>3 DEF InvokeStart, Verdict, FirstCheckpoint, NoCheckpoint, NewState
  <2> QED BY <1>0, <1>3, <2>1, <2>2, <2>3 DEF InvokeStart, CompleteInv
<1>4. ASSUME NEW r \in Reviewers, Submit(r) PROVE Rest
  <2>1. /\ Quiet /\ checkpoint.next # "END" /\ checkpoint' = checkpoint /\ decisions' = decisions
        /\ pc'[r] = "admitted" /\ \A d \in Drivers \ {r} : pc'[d] = pc[d]
    BY <1>0, <1>4 DEF Submit, AwaitingHuman, MayOverlap, IInv, TypeOK, SerialInv
  <2>2. checkpoint.next = Gate
    BY <2>1 DEF CompleteInv
  <2>3. \A q \in Reviewers : ~Pending(q)
    BY <1>0, <2>1 DEF Quiet, Pending, Active
  <2> QED BY <1>0, <2>1, <2>2, <2>3 DEF CompleteInv, Verdict
<1>5. ASSUME NEW r \in Reviewers, UpdateState(r) PROVE Rest
  BY <1>0, <1>5, UpdateLemma DEF CompleteInv, Quiet, Pending, Active
<1>6. ASSUME NEW r \in Reviewers, InvokeResume(r) PROVE Rest
  <2>1. checkpoint' = checkpoint
    BY <1>6 DEF InvokeResume
  <2> QED BY <1>0, <1>6, <2>1, ResumeLemma DEF CompleteInv, Quiet, Pending, Active
<1>7. ASSUME NEW d \in Drivers, NEW node \in Nodes, NEW s \in InvestigationStates,
             Computes(d, node, s)
      PROVE  Rest
  <2>1. node # Gate /\ s.human_decision = Verdict
    BY <1>7, FrameLemma DEF Computes, Verdict, IInv, TypeOK, Checkpoints
  <2> QED BY <1>7, <2>1, CompleteCommit DEF Computes, Pending, Active
<1>8. ASSUME NEW r \in Reviewers, RecordDecision(r) PROVE Rest
  <2>1. /\ decisions' = Append(decisions, request[r])
        /\ request[r] \in HumanDecisions
        /\ pc'[r] = "recording" /\ checkpoint.next = Gate
        /\ \A e \in Drivers \ {r} : pc[e] \notin Active /\ pc'[e] = pc[e]
        /\ Verdict = request[r] /\ checkpoint' = checkpoint
    BY <1>8, RecordLemma, ZenonT(60) DEF RecordDecision
  <2>2. decisions' # <<>> /\ decisions'[Len(decisions')] = request[r]
    BY <2>1, SMTT(30) DEF IInv, TypeOK
  <2> QED BY <1>0, <2>1, <2>2 DEF CompleteInv, Quiet, Active, Verdict
<1>9. ASSUME NEW r \in Reviewers, FollowDecision(r) PROVE Rest
  <2>1. mem[r] = checkpoint
    BY <1>0, <1>9 DEF FollowDecision, SerialInv
  <2> QED BY <1>0, <1>9, <2>1, CompleteCommit DEF FollowDecision, Verdict, Pending, Active
<1>10. ASSUME NEW d \in Drivers, FinishRow(d) PROVE Rest
  <2>1. /\ pc[d] = "running" /\ pc'[d] = "persisting" /\ checkpoint.next # Gate
        /\ \A e \in Drivers \ {d} : pc[e] \notin Active /\ pc'[e] = pc[e]
        /\ checkpoint' = checkpoint /\ decisions' = decisions
    BY <1>10 DEF FinishRow, AtNode, IInv, TypeOK, SerialInv, Active, Gate
  <2>2. \A r \in Reviewers : ~Pending(r)
    BY <1>0, <2>1 DEF Pending, Active
  <2> QED BY <1>0, <2>1, <2>2 DEF CompleteInv, Quiet, Active, Verdict
<1>11. ASSUME NEW d \in Drivers, SaveArtifacts(d) PROVE Rest
  <2> DEFINE s == [mem[d].state EXCEPT !.final_state = FinalState(mem[d].state)]
  <2>1. pc[d] = "persisting" /\ mem[d] = checkpoint
    BY <1>11 DEF SaveArtifacts, SerialInv
  <2>2. s.human_decision = Verdict
    BY <2>1 DEF Verdict, IInv, TypeOK, Checkpoints, InvestigationStates
  <2>3. Commit(d, "PersistRun", s) /\ UNCHANGED decisions
    BY <1>11 DEF SaveArtifacts
  <2> HIDE DEF s
  <2> QED BY <2>1, <2>2, <2>3, CompleteCommit DEF Pending, Active
<1>12. CASE UNCHANGED vars
  BY <1>12 DEF vars, CompleteInv, Quiet, Pending, Verdict
<1> HIDE DEF Rest
<1> QED BY <1>0, <1>2, <1>3, <1>4, <1>5, <1>6, <1>7, <1>8, <1>9, <1>10, <1>11, <1>12, SerialSteps

\* Only PersistRun ends the graph, and where a copy ended nothing is next.
LEMMA EndLemma ==
  /\ \A node \in Nodes \ {"PersistRun"} : \A s : Successor(node, s) # "END"
  /\ \A s : Successor("PersistRun", s) = "END"
  /\ \A c, req : CopyInv(c, req) /\ c.last = "PersistRun" => c.next = "END"
<1>1. ASSUME NEW node \in Nodes \ {"PersistRun"}, NEW s PROVE Successor(node, s) # "END"
  BY DEF Nodes, Successor, RouteAfterNormalize, RouteAfterRetrieveCode, RouteAfterAnalyze,
     RouteAfterDraft, RouteAfterValidation, RouteAfterHuman, ReviseOrPersist
<1>2. \A s : Successor("PersistRun", s) = "END"
  BY DEF Successor
<1> QED BY <1>1, <1>2 DEF CopyInv

\* Where an approval or a rejection leads.
LEMMA RulingLemma ==
  ASSUME NEW s, s.human_decision # None, s.human_decision.decision # "revise"
  PROVE  /\ Successor(Gate, s) \in {"EvaluateRun", "PersistRun"}
         /\ s.human_decision.decision = "approve" /\ ApprovalIsAuthorized(s)
              => Successor(Gate, s) = "EvaluateRun"
  BY DEF Successor, RouteAfterHuman, Gate

\* The outcome is computed from nothing PersistRun itself writes.
LEMMA FinalStateLemma ==
  ASSUME NEW s0 \in InvestigationStates, NEW v
  PROVE  LET s == [s0 EXCEPT !.final_state = v]
         IN  /\ s.final_state = v
             /\ s.candidate_patch = s0.candidate_patch
             /\ s.validation = s0.validation
             /\ s.human_decision = s0.human_decision
             /\ s.evaluation = s0.evaluation
             /\ s.revisions_used = s0.revisions_used
             /\ FinalState(s) = FinalState(s0)
             /\ ApprovalIsAuthorized(s) = ApprovalIsAuthorized(s0)
<1> DEFINE s == [s0 EXCEPT !.final_state = v]
<1>1. /\ s.final_state = v
      /\ s.candidate_patch = s0.candidate_patch
      /\ s.validation = s0.validation
      /\ s.human_decision = s0.human_decision
      /\ s.evaluation = s0.evaluation
      /\ s.revisions_used = s0.revisions_used
  BY DEF InvestigationStates
<1> HIDE DEF s
<1>2. ApprovalIsAuthorized(s) = ApprovalIsAuthorized(s0)
  BY <1>1 DEF ApprovalIsAuthorized
<1>3. FinalState(s) = FinalState(s0)
  BY <1>1, <1>2 DEF FinalState
<1> QED BY <1>1, <1>2, <1>3 DEF s

\* SaveArtifacts, with the checkpoint in the place of the driver's copy.
LEMMA SaveLemma ==
  ASSUME IInv, SerialInv, NEW d \in Drivers, SaveArtifacts(d)
  PROVE  LET s0 == checkpoint.state
             s  == checkpoint'.state
         IN  /\ pc[d] = "persisting" /\ pc'[d] = "returned"
             /\ \A e \in Drivers \ {d} : pc[e] \notin Active /\ pc'[e] = pc[e]
             /\ checkpoint'.last = "PersistRun" /\ checkpoint'.next = "END"
             /\ s.final_state = FinalState(s0)
             /\ s.candidate_patch = s0.candidate_patch
             /\ s.validation = s0.validation
             /\ s.human_decision = s0.human_decision
             /\ s.evaluation = s0.evaluation
             /\ s.revisions_used = s0.revisions_used
             /\ FinalState(s) = FinalState(s0)
             /\ ApprovalIsAuthorized(s) = ApprovalIsAuthorized(s0)
             /\ s0.candidate_patch \in {None, artifact'}
<1>1. pc[d] = "persisting" /\ mem[d] = checkpoint /\ pc[d] \in Active
  BY DEF SaveArtifacts, SerialInv, Active
<1> DEFINE s0 == checkpoint.state
           s == [s0 EXCEPT !.final_state = FinalState(s0)]
<1>2. s0 \in InvestigationStates
  BY DEF IInv, TypeOK, Checkpoints
<1>3. /\ Commit(d, "PersistRun", s)
      /\ artifact' = IF s0.candidate_patch = None THEN artifact ELSE s0.candidate_patch
  BY <1>1 DEF SaveArtifacts
<1>4. /\ s.final_state = FinalState(s0)
      /\ s.candidate_patch = s0.candidate_patch
      /\ s.validation = s0.validation
      /\ s.human_decision = s0.human_decision
      /\ s.evaluation = s0.evaluation
      /\ s.revisions_used = s0.revisions_used
      /\ FinalState(s) = FinalState(s0)
      /\ ApprovalIsAuthorized(s) = ApprovalIsAuthorized(s0)
  BY <1>2, FinalStateLemma
<1> HIDE DEF s, s0
<1>5. /\ checkpoint'.state = s
      /\ checkpoint'.last = "PersistRun"
      /\ checkpoint'.next = Successor("PersistRun", s)
      /\ pc'[d] = IF checkpoint'.next \in {"END", Gate} THEN "returned" ELSE "running"
      /\ \A e \in Drivers \ {d} : pc[e] \notin Active /\ pc'[e] = pc[e]
  BY <1>1, <1>3, CommitShape
<1> QED BY <1>1, <1>3, <1>4, <1>5, EndLemma DEF s0

\* FollowDecision, likewise.
LEMMA FollowLemma ==
  ASSUME IInv, SerialInv, NEW r \in Reviewers, FollowDecision(r)
  PROVE  /\ pc[r] = "recording" /\ pc'[r] = "running"
         /\ \A e \in Drivers \ {r} : pc[e] \notin Active /\ pc'[e] = pc[e]
         /\ checkpoint'.state = checkpoint.state
         /\ checkpoint'.last = Gate
         /\ checkpoint'.next \notin {"END", Gate}
<1>1. r \in Drivers /\ pc[r] = "recording" /\ mem[r] = checkpoint /\ pc[r] \in Active
  BY DEF FollowDecision, SerialInv, Active, Drivers
<1>2. Commit(r, Gate, checkpoint.state)
  BY <1>1 DEF FollowDecision, Gate
<1>3. /\ checkpoint'.state = checkpoint.state
      /\ checkpoint'.last = Gate
      /\ checkpoint'.next = Successor(Gate, checkpoint.state)
      /\ pc'[r] = IF checkpoint'.next \in {"END", Gate} THEN "returned" ELSE "running"
      /\ \A e \in Drivers \ {r} : pc[e] \notin Active /\ pc'[e] = pc[e]
  BY <1>1, <1>2, CommitShape
<1>4. checkpoint'.next \notin {"END", Gate}
  BY <1>3 DEF Successor, RouteAfterHuman, ReviseOrPersist, Gate
<1> QED BY <1>1, <1>3, <1>4

\* Computes, likewise.
LEMMA ComputesLemma ==
  ASSUME IInv, SerialInv, NEW d \in Drivers, NEW node \in Nodes,
         NEW s \in InvestigationStates, Computes(d, node, s)
  PROVE  /\ pc[d] = "running" /\ pc'[d] \in {"running", "returned"}
         /\ \A e \in Drivers \ {d} : pc[e] \notin Active /\ pc'[e] = pc[e]
         /\ checkpoint.next = node /\ node \in Nodes \ {Gate, "PersistRun"}
         /\ checkpoint.last # "PersistRun"
         /\ checkpoint.next = Successor(checkpoint.last, checkpoint.state)
         /\ checkpoint'.state = s
         /\ checkpoint'.last = node
         /\ checkpoint'.next # "END"
         /\ Verdict' = Verdict
<1>0. checkpoint.state \in InvestigationStates /\ pc[d] \in Active
  BY DEF IInv, TypeOK, Checkpoints, Computes, Active
<1>1. node \in Nodes \ {Gate, "PersistRun"} /\ s.human_decision = Verdict
  BY <1>0, FrameLemma DEF Computes, Verdict
<1>2. /\ checkpoint'.state = s
      /\ checkpoint'.last = node
      /\ checkpoint'.next = Successor(node, s)
      /\ pc'[d] = IF checkpoint'.next \in {"END", Gate} THEN "returned" ELSE "running"
      /\ \A e \in Drivers \ {d} : pc[e] \notin Active /\ pc'[e] = pc[e]
  BY <1>0, CommitShape DEF Computes
<1>3. node # "END"
  BY <1>1 DEF Nodes
<1>4. /\ checkpoint.next = Successor(checkpoint.last, checkpoint.state)
      /\ checkpoint.last # "PersistRun"
  BY <1>3, EndLemma DEF Computes, IInv, CopyInv
<1> QED BY <1>1, <1>2, <1>4, EndLemma DEF Computes, Verdict

\* A verdict keeps leading where it led, and an approval that is carried out
\* was about a patch that had passed and is scored.
LEMMA PathStep ==
  ASSUME IInv, IInv', SerialInv, CompleteInv, PathInv, RowInv, [Next]_vars, faults' = 0
  PROVE  PathInv'
<1>0. faults = 0 /\ ~Disturbs
  BY UndisturbedLemma
<1>1. CASE checkpoint' = checkpoint
  BY <1>1 DEF PathInv, Verdict
<1>2. CASE InvokeStart
  BY <1>2 DEF InvokeStart, PathInv, Verdict, FirstCheckpoint, NoCheckpoint, NewState
<1>3. ASSUME NEW r \in Reviewers, UpdateState(r) PROVE PathInv'
  BY <1>3, UpdateLemma DEF PathInv
<1>4. ASSUME NEW d \in Drivers, NEW node \in Nodes, NEW s \in InvestigationStates,
             Computes(d, node, s)
      PROVE  PathInv'
  <2>1. /\ checkpoint.next = node /\ node \in Nodes \ {Gate, "PersistRun"}
        /\ checkpoint.last # "PersistRun"
        /\ checkpoint.next = Successor(checkpoint.last, checkpoint.state)
        /\ checkpoint'.state = s
        /\ checkpoint'.last = node
        /\ Verdict' = Verdict
    BY <1>4, ComputesLemma
  <2>2. ASSUME Verdict # None, Verdict.decision # "revise" PROVE node = "EvaluateRun"
    <3>1. checkpoint.last \in {Gate, "EvaluateRun"}
      BY <2>1, <2>2 DEF PathInv
    <3>2. checkpoint.last # "EvaluateRun"
      BY <2>1 DEF Successor
    <3> QED BY <2>1, <2>2, <3>1, <3>2, RulingLemma DEF Verdict
  <2>3. node = "EvaluateRun" => PassedPatch(s) /\ s.evaluation
    <3>1. node = "EvaluateRun" => s.evaluation
      BY <1>4, FrameLemma DEF Computes, IInv, TypeOK, Checkpoints
    <3> QED BY <1>4, <3>1 DEF Computes, StateInv
  <2> QED BY <2>1, <2>2, <2>3 DEF PathInv
<1>5. ASSUME NEW r \in Reviewers, FollowDecision(r) PROVE PathInv'
  BY <1>5, FollowLemma DEF PathInv, Gate
<1>6. ASSUME NEW d \in Drivers, SaveArtifacts(d) PROVE PathInv'
  <2> DEFINE s0 == checkpoint.state
             s  == checkpoint'.state
  <2>1. /\ pc[d] = "persisting"
        /\ checkpoint'.last = "PersistRun"
        /\ s.candidate_patch = s0.candidate_patch
        /\ s.validation = s0.validation
        /\ s.human_decision = s0.human_decision
        /\ s.evaluation = s0.evaluation
        /\ ApprovalIsAuthorized(s) = ApprovalIsAuthorized(s0)
    BY <1>6, SaveLemma
  <2>2. checkpoint.next = "PersistRun"
    BY <2>1 DEF RowInv
  <2>3. checkpoint.next = Successor(checkpoint.last, s0)
    BY <2>2 DEF IInv, CopyInv
  <2>4. checkpoint.last # "PersistRun"
    BY <2>2, EndLemma DEF IInv
  <2>5. ASSUME Verdict # None, Verdict.decision = "approve", ApprovalIsAuthorized(s0)
        PROVE  PassedPatch(s0) /\ s0.evaluation
    <3>1. checkpoint.last \in {Gate, "EvaluateRun"}
      BY <2>2, <2>4, <2>5 DEF PathInv, Gate
    <3>2. checkpoint.last # Gate
      BY <2>2, <2>3, <2>5, RulingLemma DEF Verdict
    <3> QED BY <2>5, <3>1, <3>2 DEF PathInv
  <2>6. PassedPatch(s0) => PassedPatch(s)
    BY <2>1 DEF PassedPatch
  <2> HIDE DEF s0, s
  <2>7. Verdict' = Verdict /\ checkpoint'.state = s
    BY <2>1 DEF Verdict, s0, s
  <2> QED BY <2>1, <2>5, <2>6, <2>7 DEF PathInv
<1> QED BY <1>0, <1>1, <1>2, <1>3, <1>4, <1>5, <1>6, SerialSteps
        DEF CreateRun, Submit, InvokeResume, RecordDecision, FinishRow, vars

\* The row is finished by the step that ends the graph, with what it ends in.
LEMMA RowStep ==
  ASSUME IInv, IInv', SerialInv, CompleteInv, RowInv, [Next]_vars, faults' = 0
  PROVE  RowInv'
<1>0. /\ Starter \in Drivers /\ Starter \notin Reviewers
      /\ \A r \in Reviewers : r \in Drivers
      /\ \A r \in Reviewers : pc[r] \in Active => pc[Starter] \notin {"idle"} \union Active
      /\ faults = 0 /\ ~Disturbs
  BY StarterLemma, UndisturbedLemma DEF Drivers
<1>1. CASE CreateRun
  <2>1. /\ pc[Starter] = "idle" /\ pc'[Starter] = "ready"
        /\ \A d \in Drivers \ {Starter} : pc'[d] = pc[d]
        /\ runRow'.exists /\ runRow'.finished = runRow.finished /\ runRow'.state = runRow.state
        /\ UNCHANGED <<checkpoint, artifact>>
    BY <1>0, <1>1 DEF CreateRun, IInv, TypeOK, RunRows
  <2>2. \A d \in Drivers : pc'[d] = "persisting" <=> pc[d] = "persisting"
    BY <2>1
  <2> QED BY <2>1, <2>2 DEF RowInv
<1>2. CASE InvokeStart
  <2>1. /\ pc[Starter] = "ready" /\ pc'[Starter] = "running"
        /\ \A d \in Drivers \ {Starter} : pc'[d] = pc[d] /\ pc[d] \notin Active
        /\ UNCHANGED <<runRow, artifact>>
        /\ checkpoint = NoCheckpoint
    BY <1>0, <1>2 DEF InvokeStart, IInv, TypeOK, SerialInv, Active
  <2>2. \A d \in Drivers : pc'[d] # "persisting" /\ pc[d] # "persisting"
    BY <2>1 DEF Active
  <2>3. checkpoint.last = "__start__"
    BY <2>1 DEF NoCheckpoint
  <2>4. checkpoint'.last = "__start__" /\ checkpoint'.next # "END"
    BY <1>2 DEF InvokeStart, FirstCheckpoint, NoCheckpoint
  <2> QED BY <2>1, <2>2, <2>3, <2>4 DEF RowInv
<1>3. ASSUME NEW r \in Reviewers, Submit(r) PROVE RowInv'
  <2>1. /\ pc[r] = "idle" /\ pc'[r] = "admitted" /\ \A d \in Drivers \ {r} : pc'[d] = pc[d]
        /\ UNCHANGED <<runRow, artifact, checkpoint>>
    BY <1>0, <1>3 DEF Submit, IInv, TypeOK
  <2>2. \A d \in Drivers : pc'[d] = "persisting" <=> pc[d] = "persisting"
    BY <2>1
  <2> QED BY <1>0, <2>1, <2>2 DEF RowInv
<1>4. ASSUME NEW r \in Reviewers, UpdateState(r) PROVE RowInv'
  <2>1. /\ checkpoint.last = "RunPatchValidation" /\ checkpoint'.last = checkpoint.last
        /\ checkpoint'.next = Gate
        /\ pc[r] = "admitted" /\ pc'[r] = "ready"
        /\ \A d \in Drivers \ {r} : pc[d] \notin Active /\ pc'[d] = pc[d]
        /\ UNCHANGED <<runRow, artifact>>
    BY <1>4, UpdateLemma DEF UpdateState
  <2>2. \A d \in Drivers : pc'[d] # "persisting" /\ pc[d] # "persisting"
    BY <2>1 DEF Active
  <2> QED BY <1>0, <2>1, <2>2 DEF RowInv, Gate
<1>5. ASSUME NEW r \in Reviewers, InvokeResume(r) PROVE RowInv'
  <2>1. /\ pc[r] = "ready" /\ pc'[r] = "running"
        /\ \A d \in Drivers \ {r} : pc[d] \notin Active /\ pc'[d] = pc[d]
        /\ UNCHANGED <<runRow, artifact, checkpoint>>
    BY <1>5, ResumeLemma DEF InvokeResume
  <2>2. \A d \in Drivers : pc'[d] # "persisting" /\ pc[d] # "persisting"
    BY <2>1 DEF Active
  <2> QED BY <1>0, <2>1, <2>2 DEF RowInv
<1>6. ASSUME NEW d \in Drivers, NEW node \in Nodes, NEW s \in InvestigationStates,
             Computes(d, node, s)
      PROVE  RowInv'
  <2>1. /\ pc[d] = "running" /\ pc'[d] \in {"running", "returned"}
        /\ \A e \in Drivers \ {d} : pc[e] \notin Active /\ pc'[e] = pc[e]
        /\ checkpoint.last # "PersistRun"
        /\ checkpoint'.last # "PersistRun"
        /\ checkpoint'.next # "END"
        /\ UNCHANGED <<runRow, artifact>>
    BY <1>6, ComputesLemma DEF Computes
  <2>2. \A e \in Drivers : pc'[e] # "persisting" /\ pc[e] # "persisting"
    BY <2>1 DEF Active
  <2> QED BY <1>0, <2>1, <2>2 DEF RowInv
<1>7. ASSUME NEW r \in Reviewers, RecordDecision(r) PROVE RowInv'
  <2>1. /\ pc[r] = "running" /\ pc'[r] = "recording"
        /\ \A e \in Drivers \ {r} : pc[e] \notin Active /\ pc'[e] = pc[e]
        /\ UNCHANGED <<runRow, artifact, checkpoint>>
    BY <1>7, RecordLemma DEF RecordDecision
  <2>2. \A d \in Drivers : pc'[d] # "persisting" /\ pc[d] # "persisting"
    BY <2>1 DEF Active
  <2> QED BY <1>0, <2>1, <2>2 DEF RowInv
<1>8. ASSUME NEW r \in Reviewers, FollowDecision(r) PROVE RowInv'
  <2>1. /\ pc[r] = "recording" /\ pc'[r] = "running"
        /\ \A e \in Drivers \ {r} : pc[e] \notin Active /\ pc'[e] = pc[e]
        /\ checkpoint'.last = Gate /\ checkpoint'.next # "END"
        /\ UNCHANGED <<runRow, artifact>>
    BY <1>8, FollowLemma DEF FollowDecision
  <2>2. \A d \in Drivers : pc'[d] # "persisting" /\ pc[d] # "persisting"
    BY <2>1 DEF Active
  <2>3. checkpoint.next = Gate
    BY <2>1 DEF CompleteInv
  <2>4. checkpoint.last # "PersistRun"
    BY <2>3, EndLemma DEF IInv, Gate
  <2> QED BY <1>0, <2>1, <2>2, <2>4 DEF RowInv, Gate
<1>9. ASSUME NEW d \in Drivers, FinishRow(d) PROVE RowInv'
  <2>1. /\ pc[d] = "running" /\ pc'[d] = "persisting" /\ mem[d] = checkpoint
        /\ \A e \in Drivers \ {d} : pc[e] \notin Active /\ pc'[e] = pc[e]
        /\ UNCHANGED <<artifact, checkpoint>>
        /\ checkpoint.next = "PersistRun"
    BY <1>9 DEF FinishRow, AtNode, IInv, TypeOK, SerialInv, Active
  <2>2. /\ runRow'.finished /\ runRow'.exists = runRow.exists
        /\ runRow'.state = FinalState(checkpoint.state)
    BY <1>9, <2>1 DEF FinishRow, IInv, TypeOK, RunRows
  <2>3. checkpoint.last # "PersistRun"
    BY <2>1, EndLemma DEF IInv
  <2>4. \A e \in Drivers : pc'[e] = "persisting" => checkpoint.next = "PersistRun"
    BY <2>1
  <2>5. (pc'[Starter] # "idle") = (pc[Starter] # "idle")
    BY <1>0, <2>1
  <2>6. \E e \in Drivers : pc'[e] = "persisting"
    BY <2>1
  <2>7. checkpoint'.next # "END" /\ checkpoint'.last # "PersistRun"
    BY <2>1, <2>3
  <2>8. runRow.exists <=> pc[Starter] # "idle"
    BY DEF RowInv
  <2> QED BY <2>1, <2>2, <2>4, <2>5, <2>6, <2>7, <2>8 DEF RowInv
<1>10. ASSUME NEW d \in Drivers, SaveArtifacts(d) PROVE RowInv'
  <2> DEFINE s0 == checkpoint.state
             s  == checkpoint'.state
  <2>1. /\ pc[d] = "persisting" /\ pc'[d] = "returned"
        /\ \A e \in Drivers \ {d} : pc[e] \notin Active /\ pc'[e] = pc[e]
        /\ checkpoint'.last = "PersistRun"
        /\ s.final_state = FinalState(s0)
        /\ s.candidate_patch = s0.candidate_patch
        /\ FinalState(s) = FinalState(s0)
        /\ s0.candidate_patch \in {None, artifact'}
    BY <1>10, SaveLemma
  <2>2. UNCHANGED runRow
    BY <1>10 DEF SaveArtifacts
  <2>3. runRow.finished /\ runRow.state = FinalState(s0)
    BY <2>1 DEF RowInv
  <2>4. \A e \in Drivers : pc'[e] # "persisting"
    BY <2>1 DEF Active
  <2> QED BY <1>0, <2>1, <2>2, <2>3, <2>4 DEF RowInv
<1>11. CASE UNCHANGED vars
  BY <1>11 DEF vars, RowInv
<1> QED BY <1>0, <1>1, <1>2, <1>3, <1>4, <1>5, <1>6, <1>7, <1>8, <1>9, <1>10, <1>11, SerialSteps

\* A review is only taken on credit: the revision it asks for is counted
\* before the next one.
LEMMA BudgetStep ==
  ASSUME IInv, IInv', SerialInv, LogInv, CompleteInv, BudgetInv, [Next]_vars, faults' = 0
  PROVE  BudgetInv'
<1> DEFINE n == Cardinality(Asked)
           used == checkpoint.state.revisions_used
<1>0. /\ Starter \in Drivers /\ Starter \notin Reviewers
      /\ \A r \in Reviewers : r \in Drivers
      /\ faults = 0 /\ ~Disturbs
  BY StarterLemma, UndisturbedLemma DEF Drivers
<1>1. n \in Nat /\ used \in Nat /\ used' \in Nat
  BY FS_CardinalityType DEF LogInv, IInv, TypeOK, Checkpoints, InvestigationStates
<1>2. n <= used + 1
  BY DEF BudgetInv
<1>3. ASSUME Asked' = Asked, used <= used',
             \/ checkpoint'.last \in {Gate, "EvaluateRun", "PersistRun"}
             \/ n <= used'
             \/ \E r \in Reviewers : Pending(r)' \/ pc'[r] = "recording"
      PROVE  BudgetInv'
  <2>1. Cardinality(Asked') = n
    BY <1>3
  <2> HIDE DEF n
  <2> QED BY <1>1, <1>2, <1>3, <2>1 DEF BudgetInv
<1>4. CASE CreateRun
  <2>1. \A r \in Reviewers : pc'[r] = pc[r]
    BY <1>0, <1>4 DEF CreateRun, IInv, TypeOK
  <2>2. Asked' = Asked /\ checkpoint' = checkpoint
    BY <1>4, <2>1 DEF CreateRun, Asked
  <2> QED BY <2>1, <2>2 DEF BudgetInv, Pending
<1>5. CASE InvokeStart
  <2>0. Asked = {}
    BY <1>5 DEF InvokeStart, SerialInv, Active
  <2>1. Asked = {} /\ n = 0
    BY <2>0, FS_EmptySet DEF LogInv
  <2>2. Asked' = Asked
    <3>1. \A r \in Reviewers : pc'[r] = pc[r]
      BY <1>0, <1>5 DEF InvokeStart, IInv, TypeOK
    <3> QED BY <3>1 DEF Asked
  <2> QED BY <1>1, <2>1, <2>2 DEF BudgetInv
<1>6. ASSUME NEW r \in Reviewers, Submit(r) PROVE BudgetInv'
  <2>1. /\ Quiet /\ checkpoint.next # "END" /\ checkpoint' = checkpoint
        /\ pc[r] = "idle" /\ pc'[r] = "admitted"
        /\ \A d \in Drivers \ {r} : pc'[d] = pc[d]
    BY <1>0, <1>6 DEF Submit, AwaitingHuman, MayOverlap, IInv, TypeOK, SerialInv
  <2>2. checkpoint.last = "RunPatchValidation"
    BY <2>1, GateLemma DEF CompleteInv, IInv, TypeOK
  <2>3. \A q \in Reviewers : ~Pending(q) /\ pc[q] # "recording"
    BY <1>0, <2>1 DEF Quiet, Pending, Active
  <2>4. n <= used
    BY <2>2, <2>3 DEF BudgetInv, Gate
  <2>5. r \notin Asked /\ Asked' = Asked \union {r}
    <3>1. \A q \in Reviewers : q \in Asked' <=> q \in Asked \union {r}
      BY <1>0, <2>1 DEF Asked
    <3>2. Asked \subseteq Reviewers /\ Asked' \subseteq Reviewers
      BY DEF Asked
    <3> QED BY <2>1, <3>1, <3>2 DEF Asked
  <2>6. Cardinality(Asked') = n + 1
    BY <2>5, FS_AddElement DEF LogInv
  <2>7. Pending(r)'
    BY <2>1 DEF Pending
  <2> HIDE DEF n
  <2>8. used' = used /\ n + 1 <= used + 1
    BY <1>1, <2>1, <2>4
  <2> HIDE DEF used
  <2>9. Cardinality(Asked') <= used' + 1
    BY <2>6, <2>8
  <2> QED BY <2>7, <2>9 DEF BudgetInv, used
<1>7. ASSUME NEW r \in Reviewers, UpdateState(r) PROVE BudgetInv'
  <2>1. /\ used' = used /\ pc[r] = "admitted" /\ pc'[r] = "ready"
        /\ \A d \in Drivers \ {r} : pc[d] \notin Active /\ pc'[d] = pc[d]
    BY <1>7, UpdateLemma
  <2>2. Asked' = Asked
    BY <1>0, <2>1, OneMoves
  <2> QED BY <1>1, <1>3, <2>1, <2>2 DEF Pending
<1>8. ASSUME NEW r \in Reviewers, InvokeResume(r) PROVE BudgetInv'
  <2>1. /\ checkpoint.next = Gate /\ pc[r] = "ready" /\ pc'[r] = "running"
        /\ \A d \in Drivers \ {r} : pc[d] \notin Active /\ pc'[d] = pc[d]
        /\ checkpoint' = checkpoint
    BY <1>8, ResumeLemma DEF InvokeResume
  <2>2. Asked' = Asked
    BY <1>0, <2>1, OneMoves
  <2> QED BY <1>1, <1>3, <2>1, <2>2 DEF Pending
<1>9. ASSUME NEW d \in Drivers, NEW node \in Nodes, NEW s \in InvestigationStates,
             Computes(d, node, s)
      PROVE  BudgetInv'
  <2>1. /\ pc[d] = "running" /\ pc'[d] \in {"running", "returned"}
        /\ \A e \in Drivers \ {d} : pc[e] \notin Active /\ pc'[e] = pc[e]
        /\ checkpoint.next = node /\ node \notin {Gate, "PersistRun"}
        /\ checkpoint.last # "PersistRun"
        /\ checkpoint.next = Successor(checkpoint.last, checkpoint.state)
        /\ checkpoint'.state = s /\ checkpoint'.last = node
    BY <1>9, ComputesLemma
  <2>2. used' = IF node = "RevisePatch" THEN used + 1 ELSE used
    BY <1>9, <2>1, FrameLemma DEF Computes, IInv, TypeOK, Checkpoints
  <2>3. Asked' = Asked
    BY <2>1, OneMoves
  <2>4. \A r \in Reviewers : ~Pending(r) /\ pc[r] # "recording"
    BY <1>0, <2>1 DEF Pending, Active
  <2>5. ASSUME node \notin {"EvaluateRun", "RevisePatch"}
        PROVE  checkpoint.last \notin {Gate, "EvaluateRun", "PersistRun"}
    <3>1. checkpoint.last # Gate
      BY <2>1, <2>5 DEF Successor, RouteAfterHuman, ReviseOrPersist, Gate
    <3>2. checkpoint.last # "EvaluateRun"
      BY <2>1 DEF Successor
    <3> QED BY <2>1, <3>1, <3>2
  <2>6. checkpoint.last \notin {Gate, "EvaluateRun", "PersistRun"} => n <= used
    BY <2>4 DEF BudgetInv
  <2> HIDE DEF n, used
  <2>7. used <= used' /\ (node = "EvaluateRun" \/ n <= used')
    BY <1>1, <1>2, <2>2, <2>5, <2>6
  <2>8. checkpoint'.last = node
    BY <2>1
  <2> QED BY <1>3, <2>3, <2>7, <2>8 DEF n, used
<1>10. ASSUME NEW r \in Reviewers, RecordDecision(r) PROVE BudgetInv'
  <2>1. Asked' = Asked /\ pc'[r] = "recording"
    BY <1>10, RecordLemma
  <2>2. used' = used
    BY <1>10 DEF RecordDecision
  <2> QED BY <1>1, <1>3, <2>1, <2>2
<1>11. ASSUME NEW r \in Reviewers, FollowDecision(r) PROVE BudgetInv'
  <2>1. Asked' = Asked
    BY <1>0, <1>11, FollowLemma, OneMoves
  <2> QED BY <1>1, <1>3, <1>11, <2>1, FollowLemma
<1>12. ASSUME NEW d \in Drivers, FinishRow(d) PROVE BudgetInv'
  <2>1. /\ pc[d] = "running" /\ pc'[d] = "persisting"
        /\ \A e \in Drivers \ {d} : pc[e] \notin Active /\ pc'[e] = pc[e]
        /\ checkpoint' = checkpoint /\ checkpoint.next # Gate
    BY <1>12 DEF FinishRow, AtNode, IInv, TypeOK, SerialInv, Active, Gate
  <2>2. Asked' = Asked
    BY <2>1, OneMoves
  <2>3. \A r \in Reviewers : ~Pending(r) /\ pc[r] # "recording"
    BY <1>0, <2>1 DEF Pending, Active
  <2>4. checkpoint.last \in {Gate, "EvaluateRun", "PersistRun"} \/ n <= used
    BY <2>3 DEF BudgetInv
  <2> QED BY <1>1, <1>3, <2>1, <2>2, <2>4
<1>13. ASSUME NEW d \in Drivers, SaveArtifacts(d) PROVE BudgetInv'
  <2>1. /\ pc[d] = "persisting" /\ pc'[d] = "returned"
        /\ \A e \in Drivers \ {d} : pc[e] \notin Active /\ pc'[e] = pc[e]
        /\ checkpoint'.last = "PersistRun" /\ used' = used
    BY <1>13, SaveLemma
  <2>2. Asked' = Asked
    BY <2>1, OneMoves
  <2> QED BY <1>1, <1>3, <2>1, <2>2
<1>14. CASE UNCHANGED vars
  BY <1>14 DEF vars, BudgetInv, Asked, Pending
<1> QED BY <1>0, <1>4, <1>5, <1>6, <1>7, <1>8, <1>9, <1>10, <1>11, <1>12, <1>13, <1>14, SerialSteps

SerialIInv == IInv /\ SerialInv /\ LogInv /\ UndisturbedInv

\* A server that has served nothing has nothing to agree on.
LEMMA SerialInit == Overlap = "none" /\ Init => SerialIInv
<1> SUFFICES ASSUME Overlap = "none", Init PROVE SerialIInv
  OBVIOUS
<1>0. /\ Starter \in Drivers /\ Starter \notin Reviewers
      /\ \A r \in Reviewers : r \in Drivers
      /\ \A d \in Drivers : pc[d] = "idle"
  BY StarterAssumption DEF Init, Drivers
<1>1. Asked = {} /\ Heard = {}
  BY <1>0 DEF Asked, Heard
<1>2. /\ Verdict = None /\ checkpoint.last = "__start__" /\ checkpoint.next = "END"
      /\ checkpoint.state.revisions_used = 0
  BY DEF Init, Verdict, NoCheckpoint, NewState
<1>3. SerialInv
  BY <1>0, <1>1 DEF Init, SerialInv, Active
<1>4. Cardinality(Asked) = 0 /\ IsFiniteSet(Asked) /\ Cardinality(Heard) = 0
  BY <1>1, FS_EmptySet
<1>5. LogInv
  <2>1. ASSUME NEW v PROVE Occurrences(decisions, v) = {} /\ {r \in Heard : request[r] = v} = {}
    BY <1>1 DEF Init, Occurrences
  <2> QED BY <1>4, <2>1, FS_EmptySet DEF LogInv
<1>6. CompleteInv
  <2>1. decisions = <<>> /\ Len(decisions) = 0
    BY DEF Init
  <2> QED BY <1>0, <1>1, <1>2, <1>4, <2>1 DEF CompleteInv
<1>7. PathInv
  BY <1>2 DEF PathInv
<1>8. RowInv
  BY <1>0, <1>2 DEF Init, RowInv
<1>9. BudgetInv
  BY <1>2, <1>4 DEF BudgetInv
<1> QED BY <1>3, <1>5, <1>6, <1>7, <1>8, <1>9, InvestigationInit DEF SerialIInv, UndisturbedInv

\* No step undoes it.
LEMMA SerialIInvStep == SerialIInv /\ [Next]_vars => SerialIInv'
<1> SUFFICES ASSUME SerialIInv, [Next]_vars PROVE SerialIInv'
  OBVIOUS
<1>1. IInv' /\ SerialInv' /\ LogInv'
  BY InvestigationStep, SerialStep, LogStep DEF SerialIInv
<1>2. ASSUME faults' = 0 PROVE CompleteInv' /\ PathInv' /\ RowInv' /\ BudgetInv'
  <2>1. CompleteInv /\ PathInv /\ RowInv /\ BudgetInv
    BY <1>2, UndisturbedLemma DEF SerialIInv, UndisturbedInv
  <2> QED BY <1>1, <1>2, <2>1, CompleteStep, PathStep, RowStep, BudgetStep DEF SerialIInv
<1> QED BY <1>1, <1>2 DEF SerialIInv, UndisturbedInv

\* As long as decisions are submitted one at a time, the serial invariant holds.
THEOREM SerialInvariant == Overlap = "none" /\ Spec => []SerialIInv
<1>1. Overlap = "none" /\ Init => SerialIInv
  BY SerialInit
<1>2. SerialIInv /\ [Next]_vars => SerialIInv'
  BY SerialIInvStep
<1> QED BY <1>1, <1>2, PTL DEF Spec

\* The audit log holds nobody's decision twice, and none that nobody made,
\* whatever fails and however often the run is resumed.
THEOREM InvestigationNoPhantomDecisions == Overlap = "none" /\ Spec => []NoPhantomDecisions
<1>1. SerialIInv => NoPhantomDecisions
  <2> SUFFICES ASSUME SerialIInv, NEW v \in HumanDecisions
               PROVE  Cardinality({i \in 1..Len(decisions) : decisions[i] = v})
                        <= Cardinality({r \in Reviewers : request[r] = v})
    BY DEF NoPhantomDecisions
  <2> DEFINE H == {r \in Heard : request[r] = v}
             G == {r \in Reviewers : request[r] = v}
  <2>1. H \subseteq G /\ G \subseteq Asked
    BY NoneAssumption DEF Heard, Asked, SerialIInv, IInv, RequestInv
  <2>2. IsFiniteSet(G) /\ IsFiniteSet(H)
    BY <2>1, FS_Subset DEF SerialIInv, LogInv
  <2>3. Cardinality(Occurrences(decisions, v)) <= Cardinality(H)
    BY DEF SerialIInv, LogInv
  <2>4. IsFiniteSet(Occurrences(decisions, v))
    <3>1. decisions \in Seq(HumanDecisions)
      BY DEF SerialIInv, IInv, TypeOK
    <3>2. IsFiniteSet(1..Len(decisions))
      BY <3>1, FS_Interval
    <3> QED BY <3>2, FS_Subset DEF Occurrences
  <2> HIDE DEF H, G
  <2>5. Cardinality(H) <= Cardinality(G)
    BY <2>1, <2>2, FS_Subset
  <2>6. Cardinality(Occurrences(decisions, v)) <= Cardinality(G)
    BY <2>2, <2>3, <2>4, <2>5, FS_CardinalityType
  <2> QED BY <2>6 DEF G, Occurrences
<1> QED BY <1>1, SerialInvariant, PTL

\* Where an undisturbed run has its row finished, and by whom.
LEMMA FinishedLemma ==
  ASSUME SerialIInv, faults = 0, runRow.finished
  PROVE  /\ checkpoint.last = "PersistRun" \/ checkpoint.next = "PersistRun"
         /\ Verdict = IF decisions = <<>> THEN None ELSE decisions[Len(decisions)]
<1>1. checkpoint.last = "PersistRun" \/ checkpoint.next = "PersistRun"
  BY DEF SerialIInv, UndisturbedInv, RowInv
<1>2. checkpoint.next \in {"END", "PersistRun"}
  BY <1>1, EndLemma DEF SerialIInv, IInv
<1>3. \A r \in Reviewers : ~Pending(r)
  BY <1>2 DEF SerialIInv, UndisturbedInv, CompleteInv, Pending, Gate
<1> QED BY <1>1, <1>3 DEF SerialIInv, UndisturbedInv, CompleteInv

\* PATCH_VALIDATED means reviewed: a passing, evaluated patch whose approval,
\* by somebody with the authority it asks for, closes the audit log.
THEOREM InvestigationValidatedMeansReviewed ==
  Overlap = "none" /\ Spec => []ValidatedMeansReviewed
<1>1. SerialIInv => ValidatedMeansReviewed
  <2> SUFFICES ASSUME SerialIInv, faults = 0, runRow.state = "PATCH_VALIDATED"
               PROVE  /\ PassedPatch(checkpoint.state)
                      /\ checkpoint.state.evaluation
                      /\ decisions # <<>>
                      /\ decisions[Len(decisions)].decision = "approve"
                      /\ checkpoint.state.candidate_patch.risky =>
                           decisions[Len(decisions)].role = "gatekeeper"
    BY DEF ValidatedMeansReviewed
  <2> DEFINE s == checkpoint.state
  <2>1. runRow.finished /\ FinalState(s) = "PATCH_VALIDATED"
    BY DEF SerialIInv, UndisturbedInv, RowInv
  <2>2. /\ Verdict # None /\ Verdict.decision = "approve" /\ ApprovalIsAuthorized(s)
        /\ Verdict = s.human_decision
    BY <2>1 DEF FinalState, Verdict
  <2>3. checkpoint.last \in {"EvaluateRun", "PersistRun"}
    <3>1. CASE checkpoint.next = "PersistRun"
      <4>1. checkpoint.next = Successor(checkpoint.last, s)
        BY <3>1 DEF SerialIInv, IInv, CopyInv
      <4>2. checkpoint.last # Gate
        BY <2>2, <3>1, <4>1, RulingLemma
      <4> QED BY <2>2, <3>1, <4>2 DEF SerialIInv, UndisturbedInv, PathInv, Gate
    <3> QED BY <2>1, <3>1, FinishedLemma
  <2>4. PassedPatch(s) /\ s.evaluation
    BY <2>2, <2>3 DEF SerialIInv, UndisturbedInv, PathInv
  <2>5. decisions # <<>> /\ Verdict = decisions[Len(decisions)]
    BY <2>1, <2>2, FinishedLemma
  <2>6. s.candidate_patch.risky => Verdict.role = "gatekeeper"
    BY <2>2, <2>4 DEF ApprovalIsAuthorized, PassedPatch
  <2> QED BY <2>2, <2>4, <2>5, <2>6
<1> QED BY <1>1, SerialInvariant, PTL

\* The runs table, the checkpoint, the saved patch and the audit log agree
\* whenever nobody is at work on an undisturbed run.
THEOREM InvestigationRecordsAgree == Overlap = "none" /\ Spec => []RecordsAgree
<1>1. SerialIInv => RecordsAgree
  <2> SUFFICES ASSUME SerialIInv, faults = 0, Quiet
               PROVE  /\ Len(decisions) = Cardinality({r \in Reviewers : pc[r] = "returned"})
                      /\ \A r \in Reviewers : pc[r] = "returned" =>
                           \E i \in 1..Len(decisions) : decisions[i] = request[r]
                      /\ runRow.finished = (runRow.exists /\ checkpoint.next = "END")
                      /\ runRow.finished =>
                           /\ checkpoint.state.final_state = runRow.state
                           /\ checkpoint.state.candidate_patch \in {None, artifact}
    BY DEF RecordsAgree
  <2>0. CompleteInv /\ RowInv
    BY DEF SerialIInv, UndisturbedInv
  <2>1. Starter \in Drivers /\ \A r \in Reviewers : r \in Drivers
    BY DEF Drivers
  <2>2. \A d \in Drivers : pc[d] \in {"idle", "returned"}
    BY <2>0 DEF CompleteInv, Quiet, SerialIInv, IInv, TypeOK, Stages
  <2>3. Heard = {r \in Reviewers : pc[r] = "returned"}
    BY <2>1, <2>2 DEF Heard, Asked, Pending
  <2>4. /\ Len(decisions) = Cardinality({r \in Reviewers : pc[r] = "returned"})
        /\ \A r \in Reviewers : pc[r] = "returned" =>
             \E i \in 1..Len(decisions) : decisions[i] = request[r]
    BY <2>0, <2>3 DEF CompleteInv
  <2>5. runRow.finished <=> checkpoint.last = "PersistRun"
    BY <2>0, <2>2 DEF RowInv
  <2>6. checkpoint.last = "PersistRun" => checkpoint.next = "END"
    BY EndLemma DEF SerialIInv, IInv
  <2>7. pc[Starter] = "idle" => checkpoint.last = "__start__"
    BY DEF SerialIInv, SerialInv, NoCheckpoint
  <2>8. runRow.exists <=> pc[Starter] = "returned"
    BY <2>0, <2>1, <2>2 DEF RowInv
  <2>9. checkpoint.next = "END" => checkpoint.last = "PersistRun" \/ pc[Starter] = "idle"
    BY <2>0, <2>1, <2>2 DEF RowInv
  <2>10. runRow \in RunRows
    BY DEF SerialIInv, IInv, TypeOK
  <2>11. runRow.finished = (runRow.exists /\ checkpoint.next = "END")
    <3>1. runRow.finished \in BOOLEAN /\ runRow.exists \in BOOLEAN
      BY <2>10 DEF RunRows
    <3> QED BY <2>1, <2>2, <2>5, <2>6, <2>7, <2>8, <2>9, <3>1
  <2> QED BY <2>0, <2>4, <2>5, <2>11 DEF RowInv
<1> QED BY <1>1, SerialInvariant, PTL

\* A finished row is never rewritten.
THEOREM InvestigationFinishesOnce == Overlap = "none" /\ Spec => FinishesOnce
<1>1. SerialIInv /\ [Next]_vars =>
        [faults = 0 /\ runRow.finished => runRow' = runRow]_runRow
  <2> SUFFICES ASSUME SerialIInv, [Next]_vars, faults = 0, runRow.finished
               PROVE  runRow' = runRow
    OBVIOUS
  <2>0. IInv /\ SerialInv /\ RowInv /\ CompleteInv
    BY DEF SerialIInv, UndisturbedInv
  <2>1. ~CreateRun
    <3>1. pc[Starter] = "idle" => checkpoint.last # "PersistRun" /\ \A d \in Drivers : pc[d] # "persisting"
      BY <2>0, StarterLemma DEF SerialInv, NoCheckpoint, Asked, Drivers
    <3> QED BY <2>0, <3>1 DEF CreateRun, RowInv
  <2>2. ASSUME NEW d \in Drivers PROVE ~FinishRow(d)
    <3> SUFFICES ASSUME FinishRow(d) PROVE FALSE
      OBVIOUS
    <3>1. pc[d] = "running" /\ checkpoint.next = "PersistRun"
      BY <2>0 DEF FinishRow, AtNode, SerialInv
    <3>2. checkpoint.last # "PersistRun"
      BY <2>0, <3>1, EndLemma DEF IInv
    <3>3. \A e \in Drivers : pc[e] # "persisting"
      BY <2>0, <3>1 DEF SerialInv, Active
    <3> QED BY <2>0, <3>2, <3>3 DEF RowInv
  <2> QED BY <2>0, <2>1, <2>2, SerialSteps DEF InvokeStart, Submit, UpdateState, InvokeResume,
             Computes, RecordDecision, FollowDecision, SaveArtifacts, Disturbs, vars
<1> QED BY <1>1, SerialInvariant, PTL DEF Spec, FinishesOnce

-----------------------------------------------------------------------------
(***************************************************************************)
(* The lifecycle a client sees: every step of the program is a step of     *)
(* RunLifecycle, or none.                                                  *)
(***************************************************************************)

\* What the four variables of the lifecycle are in an undisturbed run.
Seen ==
  /\ LifecyclePhase = IF ~Quiet THEN "working" ELSE IF runRow.finished THEN "ended"
                      ELSE IF runRow.exists THEN "waiting" ELSE "absent"
  /\ \A r \in Reviewers : pc[r] = "admitted" => LifecycleVerdict = request[r].decision
  /\ (\A r \in Reviewers : pc[r] # "admitted") =>
       LifecycleVerdict = IF Verdict = None THEN "none" ELSE Verdict.decision
  /\ LifecycleReviews = Cardinality(Asked)
  /\ LifecycleOutcome = IF Quiet /\ runRow.finished THEN runRow.state ELSE "none"

Undisturbed == SerialIInv /\ faults = 0

\* The mapping read off the invariant: the verdict a client would name is the
\* graph's, except of a decision that was only just accepted.
LEMMA SeenLemma == Undisturbed => Seen
<1> SUFFICES ASSUME SerialIInv, faults = 0 PROVE Seen
  BY DEF Undisturbed
<1>0. SerialInv /\ CompleteInv /\ IInv
  BY DEF SerialIInv, UndisturbedInv
<1> DEFINE serving == {r \in Reviewers : pc[r] \in Active}
           last == IF decisions = <<>> THEN "none" ELSE decisions[Len(decisions)].decision
<1>1. LifecycleVerdict = IF serving # {} THEN request[CHOOSE r \in serving : TRUE].decision
                         ELSE last
  BY DEF LifecycleVerdict
<1>2. ASSUME NEW r \in serving PROVE LifecycleVerdict = request[r].decision
  <2>1. serving = {r}
    BY <1>0 DEF SerialInv, Drivers
  <2> HIDE DEF serving
  <2>2. (CHOOSE q \in serving : TRUE) = r
    BY <2>1
  <2> QED BY <1>1, <2>1, <2>2
<1>3. ASSUME NEW r \in Reviewers, pc[r] = "admitted"
      PROVE  LifecycleVerdict = request[r].decision
  BY <1>2, <1>3 DEF Active
<1>4. ASSUME \A r \in Reviewers : pc[r] # "admitted"
      PROVE  LifecycleVerdict = IF Verdict = None THEN "none" ELSE Verdict.decision
  <2>1. ASSUME NEW r \in serving
        PROVE  LifecycleVerdict = IF Verdict = None THEN "none" ELSE Verdict.decision
    <3>1. Verdict = request[r] /\ pc[r] # "idle"
      BY <1>0, <1>4 DEF SerialInv, Active
    <3>2. Verdict # None
      BY <1>0, <3>1 DEF IInv, RequestInv
    <3> QED BY <1>2, <3>1, <3>2
  <2>2. ASSUME serving = {}
        PROVE  LifecycleVerdict = IF Verdict = None THEN "none" ELSE Verdict.decision
    <3>1. \A r \in Reviewers : ~Pending(r)
      BY <2>2 DEF Pending, Active
    <3>2. Verdict = IF decisions = <<>> THEN None ELSE decisions[Len(decisions)]
      BY <1>0, <3>1 DEF CompleteInv
    <3>3. decisions # <<>> => decisions[Len(decisions)] # None
      <4>1. decisions \in Seq(HumanDecisions)
        BY <1>0 DEF IInv, TypeOK
      <4>2. decisions # <<>> => decisions[Len(decisions)] \in HumanDecisions
        BY <4>1
      <4> QED BY <4>2, NoneAssumption
    <3> QED BY <1>1, <2>2, <3>2, <3>3
  <2> QED BY <2>1, <2>2
<1>5. LifecyclePhase = IF ~Quiet THEN "working" ELSE IF runRow.finished THEN "ended"
                       ELSE IF runRow.exists THEN "waiting" ELSE "absent"
  BY DEF LifecyclePhase
<1>6. LifecycleReviews = Cardinality(Asked)
  BY DEF LifecycleReviews, Asked
<1>7. LifecycleOutcome = IF Quiet /\ runRow.finished THEN runRow.state ELSE "none"
  BY DEF LifecycleOutcome
<1> HIDE DEF serving, last
<1> QED BY <1>3, <1>4, <1>5, <1>6, <1>7 DEF Seen

\* The same of the state a step leads to.
LEMMA SeenNext == Undisturbed' => Seen'
BY SeenLemma, PTL

\* A step whose two ends look alike.
LEMMA StutterLemma ==
  ASSUME LifecyclePhase' = LifecyclePhase, LifecycleVerdict' = LifecycleVerdict,
         LifecycleReviews' = LifecycleReviews, LifecycleOutcome' = LifecycleOutcome
  PROVE  [Lifecycle!Next]_(Lifecycle!lifecycleVars)
BY DEF Lifecycle!lifecycleVars

\* The part of the program's steps that a client does not see.
LEMMA SilentLemma ==
  ASSUME Seen, Seen', ~Quiet, ~Quiet', Asked' = Asked,
         \A r \in Reviewers : pc[r] # "admitted" /\ pc'[r] # "admitted",
         Verdict' = Verdict
  PROVE  [Lifecycle!Next]_(Lifecycle!lifecycleVars)
<1>1. LifecyclePhase = "working" /\ LifecyclePhase' = "working"
  BY DEF Seen
<1>2. LifecycleOutcome = "none" /\ LifecycleOutcome' = "none"
  BY DEF Seen
<1>3. LifecycleReviews' = LifecycleReviews
  BY DEF Seen
<1>4. LifecycleVerdict' = LifecycleVerdict
  BY DEF Seen
<1> QED BY <1>1, <1>2, <1>3, <1>4, StutterLemma

\* A request that returns leaves the run waiting for a review, or ended in an
\* outcome its last review allows.
LEMMA ReturnLemma ==
  ASSUME SerialIInv, Undisturbed', faults = 0, NEW d \in Drivers,
         pc[d] \in Active \ {"admitted"}, pc'[d] = "returned",
         \A e \in Drivers \ {d} : pc[e] \notin Active /\ pc'[e] = pc[e],
         Verdict' = Verdict, runRow' = runRow,
         runRow.finished \/ checkpoint.next = "RunPatchValidation"
  PROVE  Lifecycle!Pause \/ Lifecycle!End
<1>1. Seen /\ Seen'
  BY SeenLemma, SeenNext DEF Undisturbed
<1>2. Quiet' /\ ~Quiet /\ Asked' = Asked
      /\ \A r \in Reviewers : pc[r] # "admitted" /\ pc'[r] # "admitted"
  <2>1. Asked' = Asked
    BY OneMoves DEF Active
  <2> QED BY <2>1 DEF Quiet, Active, Drivers
<1>3. /\ LifecyclePhase = "working" /\ LifecycleOutcome = "none"
      /\ LifecycleReviews' = LifecycleReviews
      /\ LifecycleVerdict = IF Verdict = None THEN "none" ELSE Verdict.decision
      /\ LifecycleVerdict' = LifecycleVerdict
  BY <1>1, <1>2 DEF Seen
<1>4. CASE runRow.finished
  <2>1. LifecyclePhase' = "ended" /\ LifecycleOutcome' = runRow.state
    BY <1>1, <1>2, <1>4 DEF Seen
  <2>2. runRow.state = FinalState(checkpoint.state)
    BY <1>4 DEF SerialIInv, UndisturbedInv, RowInv
  <2>3. Verdict = checkpoint.state.human_decision /\ Verdict \in HumanDecisions \union {None}
    BY DEF Verdict, SerialIInv, IInv, TypeOK, Checkpoints, InvestigationStates
  <2>4. runRow.state \in Lifecycle!OutcomesAfter(LifecycleVerdict)
    <3>1. CASE Verdict = None
      BY <1>3, <2>2, <2>3, <3>1 DEF FinalState, Lifecycle!OutcomesAfter
    <3>2. CASE Verdict \in HumanDecisions
      <4>1. Verdict # None /\ Verdict.decision \in {"approve", "reject", "revise"}
        BY <3>2, NoneAssumption DEF HumanDecisions
      <4>2. CASE Verdict.decision = "approve"
        BY <1>3, <2>2, <2>3, <4>1, <4>2 DEF FinalState, Lifecycle!OutcomesAfter
      <4>3. CASE Verdict.decision = "reject"
        BY <1>3, <2>2, <2>3, <4>1, <4>3 DEF FinalState, Lifecycle!OutcomesAfter
      <4>4. CASE Verdict.decision = "revise"
        BY <1>3, <2>2, <2>3, <4>1, <4>4 DEF FinalState, Lifecycle!OutcomesAfter
      <4> QED BY <4>1, <4>2, <4>3, <4>4
    <3> QED BY <2>3, <3>1, <3>2
  <2> QED BY <1>3, <2>1, <2>4 DEF Lifecycle!End
<1>5. CASE ~runRow.finished
  <2>1. checkpoint.last \notin {Gate, "EvaluateRun", "PersistRun"}
    <3>1. checkpoint.next = Successor(checkpoint.last, checkpoint.state)
      BY <1>5 DEF SerialIInv, IInv, CopyInv
    <3> QED BY <1>5, <3>1 DEF Successor, RouteAfterHuman, ReviseOrPersist, Gate
  <2>2. LifecycleVerdict \in {"none", "revise"}
    BY <1>3, <1>5, <2>1 DEF SerialIInv, UndisturbedInv, PathInv, Gate
  <2>3. runRow.exists
    <3>1. pc[Starter] # "idle"
      BY StarterLemma DEF SerialIInv, Drivers, Active
    <3> QED BY <3>1 DEF SerialIInv, UndisturbedInv, RowInv
  <2>4. LifecyclePhase' = "waiting" /\ LifecycleOutcome' = "none"
    BY <1>1, <1>2, <1>5, <2>3 DEF Seen
  <2> QED BY <1>3, <2>2, <2>4 DEF Lifecycle!Pause
<1> QED BY <1>4, <1>5

\* Every step of an undisturbed run is one the lifecycle allows.
LEMMA LifecycleStep ==
  ASSUME SerialIInv, Undisturbed', faults = 0, [Next]_vars
  PROVE  [Lifecycle!Next]_(Lifecycle!lifecycleVars)
<1>0. /\ Starter \in Drivers /\ Starter \notin Reviewers
      /\ \A r \in Reviewers : r \in Drivers
      /\ IInv /\ IInv' /\ SerialInv /\ CompleteInv /\ RowInv /\ LogInv
      /\ Seen /\ Seen' /\ ~Disturbs
  BY StarterLemma, SeenLemma, SeenNext, UndisturbedLemma
     DEF Drivers, Undisturbed, SerialIInv, UndisturbedInv
<1> DEFINE Goal == [Lifecycle!Next]_(Lifecycle!lifecycleVars)
<1>1. CASE CreateRun
  <2>1. /\ pc[Starter] = "idle" /\ pc'[Starter] = "ready"
        /\ \A d \in Drivers \ {Starter} : pc'[d] = pc[d]
        /\ Asked = {} /\ checkpoint' = checkpoint /\ checkpoint = NoCheckpoint
    BY <1>0, <1>1 DEF CreateRun, IInv, TypeOK, SerialInv
  <2>2. \A r \in Reviewers : pc[r] = "idle" /\ pc'[r] = "idle"
    BY <1>0, <2>1 DEF Asked
  <2>3. Quiet /\ ~Quiet' /\ Asked' = Asked
    BY <1>0, <2>1, <2>2 DEF Quiet, Active, Asked, Drivers
  <2>4. ~runRow.exists /\ ~runRow.finished
    BY <1>0, <2>1, <2>3 DEF RowInv, Quiet, Active, NoCheckpoint
  <2>5. LifecyclePhase = "absent" /\ LifecyclePhase' = "working"
    BY <1>0, <2>3, <2>4 DEF Seen
  <2>6. UNCHANGED <<LifecycleVerdict, LifecycleReviews, LifecycleOutcome>>
    BY <1>0, <2>1, <2>2, <2>3, <2>4 DEF Seen, Verdict
  <2>7. Lifecycle!Begin
    BY <2>5, <2>6 DEF Lifecycle!Begin
  <2> QED BY <2>7 DEF Lifecycle!Next
<1>2. CASE InvokeStart
  <2>1. /\ pc[Starter] = "ready" /\ pc'[Starter] = "running"
        /\ \A d \in Drivers \ {Starter} : pc'[d] = pc[d]
        /\ Asked = {} /\ checkpoint = NoCheckpoint
    BY <1>0, <1>2 DEF InvokeStart, IInv, TypeOK, SerialInv, Active
  <2>2. ~Quiet /\ ~Quiet' /\ \A r \in Reviewers : pc[r] = "idle" /\ pc'[r] = "idle"
    BY <1>0, <2>1 DEF Quiet, Active, Asked
  <2>3. Asked' = Asked
    BY <2>1, <2>2 DEF Asked
  <2>4. Verdict' = Verdict
    BY <1>2, <2>1 DEF InvokeStart, Verdict, FirstCheckpoint, NoCheckpoint
  <2> QED BY <1>0, <2>2, <2>3, <2>4, SilentLemma
<1>3. ASSUME NEW r \in Reviewers, Submit(r) PROVE Goal
  <2>1. /\ Quiet /\ checkpoint.next # "END" /\ checkpoint' = checkpoint
        /\ pc[r] = "idle" /\ pc'[r] = "admitted"
        /\ \A d \in Drivers \ {r} : pc'[d] = pc[d]
    BY <1>0, <1>3 DEF Submit, AwaitingHuman, MayOverlap, IInv, TypeOK, SerialInv
  <2>2. checkpoint.last = "RunPatchValidation" /\ ~runRow.finished
    BY <1>0, <2>1, GateLemma DEF CompleteInv, IInv, TypeOK, RowInv, Quiet, Active
  <2>3. runRow.exists
    BY <1>0, <2>1 DEF SerialInv, RowInv, NoCheckpoint
  <2>4. LifecyclePhase = "waiting" /\ LifecycleOutcome = "none"
    BY <1>0, <2>1, <2>2, <2>3 DEF Seen
  <2>5. ~Quiet' /\ LifecyclePhase' = "working" /\ LifecycleOutcome' = "none"
    BY <1>0, <2>1 DEF Seen, Quiet, Active
  <2>6. LifecycleVerdict' \in {"approve", "reject", "revise"}
    <3>1. request'[r] \in HumanDecisions
      BY <1>0, <1>3 DEF Submit, IInv, TypeOK
    <3> QED BY <1>0, <2>1, <3>1 DEF Seen, HumanDecisions
  <2>7. LifecycleReviews \in Nat /\ LifecycleReviews' = LifecycleReviews + 1
    <3>1. r \notin Asked /\ Asked' = Asked \union {r}
      <4>1. \A q \in Reviewers : q \in Asked' <=> q \in Asked \union {r}
        BY <1>0, <2>1 DEF Asked
      <4>2. Asked \subseteq Reviewers /\ Asked' \subseteq Reviewers
        BY DEF Asked
      <4> QED BY <2>1, <4>1, <4>2 DEF Asked
    <3>2. Cardinality(Asked') = Cardinality(Asked) + 1 /\ Cardinality(Asked) \in Nat
      BY <1>0, <3>1, FS_AddElement, FS_CardinalityType DEF LogInv
    <3> QED BY <1>0, <3>2 DEF Seen
  <2>8. LifecycleReviews < MaxRevisions + 1
    <3>1. \A q \in Reviewers : ~Pending(q) /\ pc[q] # "recording"
      BY <1>0, <2>1 DEF Quiet, Pending, Active
    <3>2. Cardinality(Asked) <= checkpoint.state.revisions_used
      BY <2>2, <3>1 DEF SerialIInv, UndisturbedInv, BudgetInv, Gate
    <3>3. checkpoint.state.revisions_used <= MaxRevisions /\ checkpoint.state.revisions_used \in Nat
      BY <1>0 DEF IInv, CopyInv, StateInv, BaseInv, TypeOK, Checkpoints, InvestigationStates
    <3> QED BY <1>0, <2>7, <3>2, <3>3, MaxRevisionsAssumption DEF Seen
  <2>9. Lifecycle!Review
    BY <2>4, <2>5, <2>6, <2>7, <2>8 DEF Lifecycle!Review
  <2> QED BY <2>9 DEF Lifecycle!Next
<1>4. ASSUME NEW r \in Reviewers, UpdateState(r) PROVE Goal
  <2>1. /\ pc[r] = "admitted" /\ pc'[r] = "ready"
        /\ \A d \in Drivers \ {r} : pc[d] \notin Active /\ pc'[d] = pc[d]
    BY <1>0, <1>4, UpdateLemma
  <2>2. Asked' = Asked /\ ~Quiet /\ ~Quiet' /\ \A q \in Reviewers : pc'[q] # "admitted"
    <3>1. Asked' = Asked
      BY <1>0, <2>1, OneMoves
    <3> QED BY <1>0, <2>1, <3>1 DEF Quiet, Active
  <2>3. Verdict' = request[r] /\ request[r] # None
    <3>1. SerialInv' /\ request' = request
      BY <1>4 DEF UpdateState, Undisturbed, SerialIInv
    <3> QED BY <1>0, <2>1, <3>1 DEF SerialInv, IInv, RequestInv, Active
  <2>4. LifecycleVerdict' = LifecycleVerdict
    BY <1>0, <2>1, <2>2, <2>3 DEF Seen
  <2>5. /\ LifecyclePhase' = LifecyclePhase /\ LifecycleReviews' = LifecycleReviews
        /\ LifecycleOutcome' = LifecycleOutcome
    BY <1>0, <2>2 DEF Seen
  <2> QED BY <2>4, <2>5, StutterLemma
<1>5. ASSUME NEW r \in Reviewers, InvokeResume(r) PROVE Goal
  <2>1. /\ pc[r] = "ready" /\ pc'[r] = "running"
        /\ \A d \in Drivers \ {r} : pc[d] \notin Active /\ pc'[d] = pc[d]
        /\ checkpoint' = checkpoint
    BY <1>0, <1>5, ResumeLemma DEF InvokeResume
  <2>2. Asked' = Asked
    BY <1>0, <2>1, OneMoves
  <2>3. /\ ~Quiet /\ ~Quiet' /\ Verdict' = Verdict
        /\ \A q \in Reviewers : pc[q] # "admitted" /\ pc'[q] # "admitted"
    BY <1>0, <2>1 DEF Quiet, Active, Verdict
  <2> QED BY <1>0, <2>2, <2>3, SilentLemma
<1>6. ASSUME NEW d \in Drivers, pc[d] \in Active \ {"admitted"},
             pc'[d] \in Active \ {"admitted"},
             \A e \in Drivers \ {d} : pc[e] \notin Active /\ pc'[e] = pc[e],
             Verdict' = Verdict
      PROVE  Goal
  <2>1. Asked' = Asked
    BY <1>6, OneMoves DEF Active
  <2>2. /\ ~Quiet /\ ~Quiet'
        /\ \A q \in Reviewers : pc[q] # "admitted" /\ pc'[q] # "admitted"
    BY <1>0, <1>6 DEF Quiet, Active
  <2> QED BY <1>0, <1>6, <2>1, <2>2, SilentLemma
<1>7. ASSUME NEW d \in Drivers, NEW node \in Nodes, NEW s \in InvestigationStates,
             Computes(d, node, s)
      PROVE  Goal
  <2>1. /\ pc[d] = "running" /\ pc'[d] \in {"running", "returned"}
        /\ \A e \in Drivers \ {d} : pc[e] \notin Active /\ pc'[e] = pc[e]
        /\ checkpoint.next = node /\ checkpoint'.last = node
        /\ checkpoint'.next # "END"
        /\ Verdict' = Verdict /\ runRow' = runRow
    BY <1>0, <1>7, ComputesLemma DEF Computes
  <2>2. CASE pc'[d] = "running"
    BY <1>6, <2>1, <2>2 DEF Active
  <2>3. CASE pc'[d] = "returned"
    <3>1. Quiet'
      BY <2>1, <2>3 DEF Quiet, Active
    <3>2. checkpoint'.next = Gate
      BY <2>1, <3>1 DEF Undisturbed, SerialIInv, UndisturbedInv, CompleteInv
    <3>3. node = "RunPatchValidation"
      <4>1. checkpoint' \in Checkpoints /\ CopyInv(checkpoint', request')
        BY <1>0 DEF IInv, TypeOK
      <4> QED BY <2>1, <3>2, <4>1, GateLemma
    <3>4. Lifecycle!Pause \/ Lifecycle!End
      BY <2>1, <2>3, <3>3, ReturnLemma DEF Active
    <3> QED BY <3>4 DEF Lifecycle!Next
  <2> QED BY <2>1, <2>2, <2>3
<1>8. ASSUME NEW r \in Reviewers, RecordDecision(r) PROVE Goal
  <2>1. Verdict' = Verdict
    BY <1>8 DEF RecordDecision, Verdict
  <2> QED BY <1>0, <1>6, <1>8, <2>1, RecordLemma DEF Active
<1>9. ASSUME NEW r \in Reviewers, FollowDecision(r) PROVE Goal
  <2>1. Verdict' = Verdict
    BY <1>0, <1>9, FollowLemma DEF Verdict
  <2> QED BY <1>0, <1>6, <1>9, <2>1, FollowLemma DEF Active
<1>10. ASSUME NEW d \in Drivers, FinishRow(d) PROVE Goal
  <2>1. /\ pc[d] = "running" /\ pc'[d] = "persisting" /\ checkpoint' = checkpoint
        /\ \A e \in Drivers \ {d} : pc[e] \notin Active /\ pc'[e] = pc[e]
    BY <1>0, <1>10 DEF FinishRow, AtNode, IInv, TypeOK, SerialInv, Active
  <2> QED BY <1>6, <2>1 DEF Verdict, Active
<1>11. ASSUME NEW d \in Drivers, SaveArtifacts(d) PROVE Goal
  <2>1. /\ pc[d] = "persisting" /\ pc'[d] = "returned"
        /\ \A e \in Drivers \ {d} : pc[e] \notin Active /\ pc'[e] = pc[e]
        /\ Verdict' = Verdict
    BY <1>0, <1>11, SaveLemma DEF Verdict
  <2>2. runRow' = runRow /\ runRow.finished
    BY <1>0, <1>11, <2>1 DEF SaveArtifacts, RowInv
  <2>3. Lifecycle!Pause \/ Lifecycle!End
    BY <2>1, <2>2, ReturnLemma DEF Active
  <2> QED BY <2>3 DEF Lifecycle!Next
<1>12. CASE UNCHANGED vars
  BY <1>12 DEF vars, Lifecycle!lifecycleVars, LifecyclePhase, LifecycleVerdict,
     LifecycleReviews, LifecycleOutcome, Quiet
<1> HIDE DEF Goal
<1> QED BY <1>0, <1>1, <1>2, <1>3, <1>4, <1>5, <1>7, <1>8, <1>9, <1>10, <1>11, <1>12,
           SerialSteps DEF Goal

\* The program implements RunLifecycle, step by step: it is reviewed at most
\* MaxRevisions + 1 times, only while it waits, and ends once, in an outcome its
\* last review allows.  (That it does not just stop is checked, not proved.)
THEOREM InvestigationImplementsLifecycle ==
  Overlap = "none" /\ Spec
    => Lifecycle!Init /\ [][Lifecycle!Next]_(Lifecycle!lifecycleVars)
<1>1. SerialIInv /\ SerialIInv' /\ [Next]_vars
        => [Lifecycle!Next]_(Lifecycle!lifecycleVars)
  <2> SUFFICES ASSUME SerialIInv, SerialIInv', [Next]_vars
               PROVE  [Lifecycle!Next]_(Lifecycle!lifecycleVars)
    OBVIOUS
  <2>0. faults \in Nat /\ IInv /\ SerialInv
    BY EnvironmentAssumption DEF SerialIInv, IInv, TypeOK
  <2>1. CASE faults' = 0
    BY <2>0, <2>1, LifecycleStep, UndisturbedLemma DEF Undisturbed
  <2>2. CASE faults > 0
    <3>1. faults' > 0
      BY <2>0, <2>2, FaultsLemma
    <3>2. /\ LifecyclePhase' = LifecyclePhase /\ LifecycleVerdict' = LifecycleVerdict
          /\ LifecycleReviews' = LifecycleReviews /\ LifecycleOutcome' = LifecycleOutcome
      BY <2>2, <3>1 DEF LifecyclePhase, LifecycleVerdict, LifecycleReviews, LifecycleOutcome
    <3> QED BY <3>2, StutterLemma
  <2>3. CASE faults = 0 /\ faults' # 0
    <3>1. Disturbs
      BY <2>0, <2>3, FaultsLemma
    <3>2. faults' > 0 /\ ~Quiet
      BY <2>0, <2>3, <3>1 DEF Disturbs
    <3>3. LifecyclePhase = "working"
      BY <2>3, <3>2 DEF LifecyclePhase
    <3>4. /\ LifecyclePhase' = "broken" /\ LifecycleVerdict' = "none"
          /\ LifecycleReviews' = 0 /\ LifecycleOutcome' = "none"
      BY <3>2 DEF LifecyclePhase, LifecycleVerdict, LifecycleReviews, LifecycleOutcome
    <3>5. Lifecycle!Break
      BY <3>3, <3>4 DEF Lifecycle!Break
    <3> QED BY <3>5 DEF Lifecycle!Next
  <2> QED BY <2>0, <2>1, <2>2, <2>3
<1>2. Overlap = "none" /\ Init => Lifecycle!Init
  <2> SUFFICES ASSUME Overlap = "none", Init PROVE Lifecycle!Init
    OBVIOUS
  <2>1. SerialIInv /\ faults = 0
    BY SerialInit DEF Init
  <2>2. Seen
    BY <2>1, SeenLemma DEF Undisturbed
  <2>3. Asked = {} /\ Quiet /\ (\A r \in Reviewers : pc[r] # "admitted") /\ Verdict = None
    BY DEF Init, Asked, Quiet, Drivers, Active, Verdict, NoCheckpoint, NewState
  <2>4. Cardinality(Asked) = 0
    BY <2>3, FS_EmptySet
  <2>5. ~runRow.finished /\ ~runRow.exists
    BY DEF Init
  <2> QED BY <2>2, <2>3, <2>4, <2>5 DEF Seen, Lifecycle!Init
<1> QED BY <1>1, <1>2, SerialInvariant, PTL DEF Spec
=============================================================================
