--------------------------- MODULE Investigation ---------------------------
(***************************************************************************)
(* One investigation run, from POST /runs (or the CLI) to its final state: *)
(* the row in the runs table, the durable LangGraph checkpoint keyed by    *)
(* the same run id, the audit log of human decisions, and the request      *)
(* threads that drive the graph.                                           *)
(*                                                                         *)
(* A driver is a thread serving one request: the Starter creates the run,  *)
(* each of Reviewers serves one POST /runs/{id}/approve.  FastAPI runs the *)
(* handlers in a thread pool, so drivers interleave between any two of     *)
(* their reads and writes of shared state.  graph.invoke reads the latest  *)
(* checkpoint once and then works on its own copy, which it writes back    *)
(* after every node; nothing compares versions, the last writer wins.      *)
(*                                                                         *)
(* The environment is set by two constants.  Overlap says whose requests a *)
(* decision may overlap with: "none", only other "reviewers" once the      *)
(* starting request has returned, or "all"; the program allows all of it.  *)
(* MaxFaults bounds the exceptions out of a node and the server crashes.   *)
(***************************************************************************)
EXTENDS InvestigationGraph, Sequences, FiniteSets

CONSTANTS
  Starter,     \* the request that starts the run
  Reviewers,   \* the requests that submit a decision
  Overlap,     \* which requests a decision may overlap with
  MaxFaults    \* bound on exceptions and crashes

ASSUME StarterAssumption == Starter \notin Reviewers
ASSUME EnvironmentAssumption ==
  Overlap \in {"none", "reviewers", "all"} /\ MaxFaults \in Nat

VARIABLES
  runRow,      \* the row of the runs table
  checkpoint,  \* the latest LangGraph checkpoint of the thread
  decisions,   \* the append-only human_decisions table
  artifact,    \* the patch last written to fix.patch and the artifacts table
  pc,          \* how far each driver has come
  request,     \* the decision each reviewer submitted
  mem,         \* each driver's in-memory copy of the graph
  faults       \* faults so far; only bounds the model

vars == <<runRow, checkpoint, decisions, artifact, pc, request, mem, faults>>

Drivers == {Starter} \union Reviewers

\* "admitted": past the awaiting_human check; "ready": about to invoke the graph;
\* "recording": inside RequestHumanValidation, the audit entry already written;
\* "persisting": inside PersistRun, the run row already rewritten.
Active == {"admitted", "ready", "running", "recording", "persisting"}
Stages == Active \union {"idle", "returned", "failed"}

RunRows == [exists : BOOLEAN, state : RunStates, finished : BOOLEAN]

\* last is the node whose edges produced next; "END" means nothing is next.
Checkpoints == [state : InvestigationStates,
                last  : Nodes \union {"__start__"},
                next  : Nodes \union {"END"}]

NoCheckpoint  == [state |-> NewState, last |-> "__start__", next |-> "END"]
FirstCheckpoint == [NoCheckpoint EXCEPT !.next = "NormalizeRequest"]

Quiet == \A d \in Drivers : pc[d] \notin Active

MayOverlap ==
  \/ Overlap = "all"
  \/ Overlap = "reviewers" /\ pc[Starter] \notin Active
  \/ Overlap = "none" /\ Quiet

\* InvestigationHandle.awaiting_human: bool(snapshot.next).
AwaitingHuman == checkpoint.next # "END"

Init ==
  /\ runRow = [exists |-> FALSE, state |-> "INVESTIGATION_INCONCLUSIVE", finished |-> FALSE]
  /\ checkpoint = NoCheckpoint
  /\ decisions = <<>>
  /\ artifact = None
  /\ pc = [d \in Drivers |-> "idle"]
  /\ request = [r \in Reviewers |-> None]
  /\ mem = [d \in Drivers |-> NoCheckpoint]
  /\ faults = 0

-----------------------------------------------------------------------------
(***************************************************************************)
(* Requests.                                                               *)
(***************************************************************************)

\* start_investigation up to the run row, which is committed on its own.
CreateRun ==
  /\ pc[Starter] = "idle"
  /\ runRow' = [runRow EXCEPT !.exists = TRUE]
  /\ pc' = [pc EXCEPT ![Starter] = "ready"]
  /\ UNCHANGED <<checkpoint, decisions, artifact, request, mem, faults>>

\* graph.invoke(initial): the first checkpoint of the thread.
InvokeStart ==
  /\ pc[Starter] = "ready"
  /\ checkpoint' = FirstCheckpoint
  /\ mem' = [mem EXCEPT ![Starter] = FirstCheckpoint]
  /\ pc' = [pc EXCEPT ![Starter] = "running"]
  /\ UNCHANGED <<runRow, decisions, artifact, request, faults>>

\* approve_run up to its 409 check: a run without a checkpoint is a 404.
Submit(r) ==
  /\ pc[r] = "idle"
  /\ AwaitingHuman
  /\ MayOverlap
  /\ \E d \in HumanDecisions : request' = [request EXCEPT ![r] = d]
  /\ pc' = [pc EXCEPT ![r] = "admitted"]
  /\ UNCHANGED <<runRow, checkpoint, decisions, artifact, mem, faults>>

\* graph.update_state: writes the decision as if the last node had returned it,
\* so that node's edges are taken again on the new state.
UpdateState(r) ==
  /\ pc[r] = "admitted"
  /\ LET s == [checkpoint.state EXCEPT !.human_decision = request[r]]
     IN  checkpoint' = [state |-> s, last |-> checkpoint.last,
                        next |-> Successor(checkpoint.last, s)]
  /\ pc' = [pc EXCEPT ![r] = "ready"]
  /\ UNCHANGED <<runRow, decisions, artifact, request, mem, faults>>

\* graph.invoke(None): resume from whatever checkpoint is the latest by now.
InvokeResume(r) ==
  /\ pc[r] = "ready"
  /\ IF checkpoint.next = "END"
     THEN pc' = [pc EXCEPT ![r] = "returned"] /\ UNCHANGED mem
     ELSE /\ pc' = [pc EXCEPT ![r] = "running"]
          /\ mem' = [mem EXCEPT ![r] = checkpoint]
  /\ UNCHANGED <<runRow, checkpoint, decisions, artifact, request, faults>>

-----------------------------------------------------------------------------
(***************************************************************************)
(* One graph step.  The node's result is merged, its edges are taken, the  *)
(* checkpoint is written; invoke returns at END and, the graph being       *)
(* compiled with interrupt_before, on its way into RequestHumanValidation. *)
(***************************************************************************)

AtNode(d, node) == pc[d] = "running" /\ mem[d].next = node

\* Mutant: the gate interrupts nothing.
CommitWithoutInterrupt(d, node, s) ==
  LET c == [state |-> s, last |-> node, next |-> Successor(node, s)]
      returns == c.next = "END"
  IN  /\ checkpoint' = c
      /\ mem' = [mem EXCEPT ![d] = IF returns THEN NoCheckpoint ELSE c]
      /\ pc' = [pc EXCEPT ![d] = IF returns THEN "returned" ELSE "running"]

Commit(d, node, s) ==
  LET c == [state |-> s, last |-> node, next |-> Successor(node, s)]
      returns == c.next \in {"END", "RequestHumanValidation"}
  IN  /\ checkpoint' = c
      /\ mem' = [mem EXCEPT ![d] = IF returns THEN NoCheckpoint ELSE c]
      /\ pc' = [pc EXCEPT ![d] = IF returns THEN "returned" ELSE "running"]

StateStep(d, node, outcomes) ==
  /\ AtNode(d, node)
  /\ \E s \in outcomes : Commit(d, node, s)
  /\ UNCHANGED <<runRow, decisions, artifact, request, faults>>

Normalize(d)       == StateStep(d, "NormalizeRequest", NormalizeRequest(mem[d].state))
Plan(d)            == StateStep(d, "PlanInvestigation", PlanInvestigation(mem[d].state))
RetrieveIssue(d)   == StateStep(d, "RetrieveIssueContext", RetrieveIssueContext(mem[d].state))
RetrieveCode(d)    == StateStep(d, "RetrieveCodeContext", RetrieveCodeContext(mem[d].state))
Analyze(d)         == StateStep(d, "AnalyzeRootCause", AnalyzeRootCause(mem[d].state))
SelectEvidence(d)  == StateStep(d, "SelectAdditionalEvidence", SelectAdditionalEvidence(mem[d].state))
DiscoverRelated(d) == StateStep(d, "DiscoverRelatedFiles", DiscoverRelatedFiles(mem[d].state))
Draft(d)           == StateStep(d, "DraftPatch", DraftPatch(mem[d].state))
Revise(d)          == StateStep(d, "RevisePatch", RevisePatch(mem[d].state))
Validate(d)        == StateStep(d, "RunPatchValidation", RunPatchValidation(mem[d].state))
Evaluate(d)        == StateStep(d, "EvaluateRun", EvaluateRun(mem[d].state))

\* Mutant: the log is overwritten.
RecordDecisionOverwrites(d) ==
  /\ AtNode(d, "RequestHumanValidation")
  /\ mem[d].state.human_decision # None
  /\ decisions' = <<mem[d].state.human_decision>>
  /\ pc' = [pc EXCEPT ![d] = "recording"]
  /\ UNCHANGED <<runRow, checkpoint, artifact, request, mem, faults>>

\* RequestHumanValidation: the decision goes to the audit log first, in a
\* transaction of its own ...
RecordDecision(d) ==
  /\ AtNode(d, "RequestHumanValidation")
  /\ mem[d].state.human_decision # None
  /\ decisions' = Append(decisions, mem[d].state.human_decision)
  /\ pc' = [pc EXCEPT ![d] = "recording"]
  /\ UNCHANGED <<runRow, checkpoint, artifact, request, mem, faults>>

\* ... and then the router acts on it.
FollowDecision(d) ==
  /\ pc[d] = "recording"
  /\ Commit(d, "RequestHumanValidation", mem[d].state)
  /\ UNCHANGED <<runRow, decisions, artifact, request, faults>>

\* Resumed with no decision: the node notes an error, then route_after_human's
\* assertion fails and the invocation with it, leaving the checkpoint behind.
ResumeUndecided(d) ==
  /\ AtNode(d, "RequestHumanValidation")
  /\ mem[d].state.human_decision = None
  /\ pc' = [pc EXCEPT ![d] = "failed"]
  /\ mem' = [mem EXCEPT ![d] = NoCheckpoint]
  /\ UNCHANGED <<runRow, checkpoint, decisions, artifact, request, faults>>

\* PersistRun, first transaction: finish_run rewrites the row.
FinishRow(d) ==
  /\ AtNode(d, "PersistRun")
  /\ runRow' = [runRow EXCEPT !.state = FinalState(mem[d].state), !.finished = TRUE]
  /\ pc' = [pc EXCEPT ![d] = "persisting"]
  /\ UNCHANGED <<checkpoint, decisions, artifact, request, mem, faults>>

\* PersistRun, the rest: the patch is saved if there is one, and only then does
\* the checkpoint learn that the run is over.
SaveArtifacts(d) ==
  LET s == mem[d].state
  IN  /\ pc[d] = "persisting"
      /\ artifact' = IF s.candidate_patch = None THEN artifact ELSE s.candidate_patch
      /\ Commit(d, "PersistRun", [s EXCEPT !.final_state = FinalState(s)])
      /\ UNCHANGED <<runRow, decisions, request, faults>>

-----------------------------------------------------------------------------
(***************************************************************************)
(* Faults.  A node that talks to an LLM, an index, git, a disk or a        *)
(* database may raise; the exception leaves graph.invoke and the           *)
(* checkpoint still names the node as next.                                *)
(***************************************************************************)

RaisingNodes == Nodes \ {"NormalizeRequest", "RetrieveIssueContext", "EvaluateRun"}

NodeRaises(d) ==
  /\ faults < MaxFaults
  /\ \/ pc[d] \in {"recording", "persisting"}
     \/ pc[d] = "running" /\ mem[d].next \in RaisingNodes
  /\ pc' = [pc EXCEPT ![d] = "failed"]
  /\ mem' = [mem EXCEPT ![d] = NoCheckpoint]
  /\ faults' = faults + 1
  /\ UNCHANGED <<runRow, checkpoint, decisions, artifact, request>>

\* The process dies: every request in flight is lost, what is on disk stays.
ServerCrash ==
  /\ faults < MaxFaults
  /\ ~Quiet
  /\ pc' = [d \in Drivers |-> IF pc[d] \in Active THEN "failed" ELSE pc[d]]
  /\ mem' = [d \in Drivers |-> NoCheckpoint]
  /\ faults' = faults + 1
  /\ UNCHANGED <<runRow, checkpoint, decisions, artifact, request>>

-----------------------------------------------------------------------------
NodeStep(d) ==
  \/ Normalize(d) \/ Plan(d) \/ RetrieveIssue(d) \/ RetrieveCode(d)
  \/ Analyze(d) \/ SelectEvidence(d) \/ DiscoverRelated(d)
  \/ Draft(d) \/ Revise(d) \/ Validate(d) \/ Evaluate(d)
  \/ RecordDecision(d) \/ FollowDecision(d) \/ ResumeUndecided(d)
  \/ FinishRow(d) \/ SaveArtifacts(d)

ReviewerStep(r) == UpdateState(r) \/ InvokeResume(r)

Next ==
  \/ CreateRun
  \/ InvokeStart
  \/ \E r \in Reviewers : Submit(r) \/ ReviewerStep(r)
  \/ \E d \in Drivers : NodeStep(d) \/ NodeRaises(d)
  \/ ServerCrash

\* A thread serving a request is scheduled until it is done, and every call a
\* node makes returns or times out.  Nobody has to start a run or review it.
Fairness ==
  /\ WF_vars(InvokeStart)
  /\ \A r \in Reviewers : WF_vars(ReviewerStep(r))
  /\ \A d \in Drivers : WF_vars(NodeStep(d))

Spec == Init /\ [][Next]_vars
FairSpec == Spec /\ Fairness
=============================================================================
