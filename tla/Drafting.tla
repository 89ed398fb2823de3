------------------------------ MODULE Drafting ------------------------------
(***************************************************************************)
(* From a question to a language model to a validated patch: the nodes     *)
(* DraftPatch, RevisePatch, RunPatchValidation, the human gate and         *)
(* PersistRun of graph/nodes.py with the model calls and git commands they *)
(* make, and the deterministic pipeline of pipeline.py, which takes its    *)
(* plan from a file.  Module InvestigationGraph keeps only what the        *)
(* routers see of all this.                                                *)
(*                                                                         *)
(* Several runs work on one cloned repository at a time.  What they share  *)
(* is its branches, its list of worktrees, and the directory it is in;     *)
(* each git command is a step.  An attempt is a draft, or what a request   *)
(* that takes a run up again does before its next draft; <<run, number>>   *)
(* stands for the names it makes up: tempfile and uuid never give one      *)
(* twice.                                                                  *)
(*                                                                         *)
(* A run whose node raised, or whose process died, is not over: its        *)
(* checkpoint still names a next node, so POST /runs/{id}/approve admits a *)
(* decision.  The edges of the last node that returned are then taken      *)
(* again, and what the node that raised had done so far is forgotten.      *)
(***************************************************************************)
EXTENDS EditPlans, LanguageModel

CONSTANTS
  Runs,
  Modes,         \* the ways the runs may be started: settings.agent_mode, or a file
  Provider,      \* [Runs -> Providers]
  Allowed,       \* the scope each run was started with, {} if none
  EvidencePaths, \* where the code evidence of each run lies
  Plans,         \* the edit plans each run may be given
  MaxRevisions,  \* settings.max_patch_revisions
  MaxFaults,     \* bound on failing commands, bad answers and crashes
  MaxResumes     \* bound on the decisions about runs that raised or died

ASSUME DraftingAssumption ==
  /\ Modes \subseteq [Runs -> {"single", "multi", "file"}]
  /\ Provider \in [Runs -> Providers]
  /\ Allowed \in [Runs -> SUBSET Paths] /\ EvidencePaths \in [Runs -> SUBSET Paths]
  /\ \A r \in Runs : \A p \in Plans[r] : p \in EditPlan /\ p.edits # <<>>
  /\ MaxRevisions \in Nat /\ MaxFaults \in Nat /\ MaxResumes \in Nat

VARIABLES
  mode,      \* how each run was started
  stage,     \* what each run is about to do
  asked,     \* how many of its questions the present draft has answers to
  clients,   \* the language model client of each run's present request
  last,      \* what the last node that returned has done: the run's checkpoint
  revised,   \* revisions_used
  drafts,    \* how many attempts each run has begun
  plan,      \* the plan of the present attempt, from the model or from a file
  tree,      \* the files of the worktree, while there is one
  failure,   \* why the present attempt is being given up, "no" if it is not
  patch,     \* candidate_patch and edit_plan: the attempt that made it, its plan, its tree
  report,    \* validation: the attempt that was judged and the verdict
  decision,  \* human_decision: the reviewer's last word, "none" before one
  branches, worktrees, temps,   \* shared: names that exist in the repository
  saved,     \* the files in each run's directory, with the attempt they tell of
  recorded,  \* the rows of the artifacts table
  row,       \* the run's row: its cost and final verdict, Missing until it has one
  broken,    \* attempts of which a command failed, or whose run died; observed
  reopened,  \* runs taken up again after PersistRun had begun; observed
  billed,    \* what each run's requests were charged for; observed
  faults, resumes   \* so far; only bound the model

graphVars == <<last, revised>>
ownVars == <<stage, asked, clients, graphVars, drafts, plan, tree, failure, patch,
             report, decision>>
repoVars == <<branches, worktrees, temps>>
keptVars == <<saved, recorded, row>>
pastVars == <<reopened, resumes>>
seenVars == <<broken, pastVars, billed, faults>>
vars == <<mode, ownVars, repoVars, keptVars, seenVars>>

Artifacts == {"patch", "validation", "run"}
Attempts == Runs \X (Nat \ {0})
Stages == {"asking", "adding", "editing", "committing", "removing", "deleting",
           "clearing", "cloning", "judging", "gate", "saving patch", "recording patch",
           "saving validation", "recording validation", "finishing", "saving run",
           "recording run", "returning", "done", "raised", "dead"}
PatchArtifact == [by : Nat \ {0}, plan : EditPlan, tree : Trees]
ValidationReport == [of : Nat \ {0}, verdict : {"validated", "review", "rejected"}]
RunRow == [verdict : {"validated", "review", "rejected", "inconclusive"}, cost : Nat]

\* SelectAdditionalEvidence or what comes before AnalyzeRootCause, then
\* DiscoverRelatedFiles, DraftPatch or RevisePatch, RunPatchValidation,
\* RequestHumanValidation and EvaluateRun.
Returned == {"retrieved", "discovered", "drafted", "validated", "ruled", "evaluated"}

\* None is no plan, no patch, no report and no row.
ASSUME MissingAssumption ==
  /\ Missing \notin EditPlan /\ Missing \notin PatchArtifact
  /\ Missing \notin ValidationReport /\ Missing \notin RunRow

Questions == {"IssueAnalysis", "_HypothesesResponse", "EditPlan", "PatchReview"}

\* Mutant: the branch and the directory are named after the run.
AttemptFixed(r) == <<r, 1>>

Attempt(r) == <<r, drafts[r]>>
Dir(kind, r) == <<kind, Attempt(r)>>
Scope(r) == IF mode[r] = "file" /\ Allowed[r] = {}
            THEN {plan[r].edits[i].path : i \in DOMAIN plan[r].edits}
            ELSE EffectiveScope(Allowed[r], EvidencePaths[r])

\* What the analysis asks the model, and what a draft does.
QuestionsOf(r) ==
  IF last[r] = "retrieved"
  THEN IF mode[r] = "multi" THEN <<"IssueAnalysis", "_HypothesesResponse">>
       ELSE <<"_HypothesesResponse">>
  ELSE IF mode[r] = "multi" THEN <<"EditPlan", "PatchReview">> ELSE <<"EditPlan">>

Init ==
  /\ mode \in Modes
  /\ stage = [r \in Runs |-> IF mode[r] = "file" THEN "adding" ELSE "asking"]
  /\ asked = [r \in Runs |-> 0]
  /\ clients = [r \in Runs |-> NewClient(Provider[r])]
  /\ last = [r \in Runs |-> IF mode[r] = "file" THEN "discovered" ELSE "retrieved"]
  /\ revised = [r \in Runs |-> 0]
  /\ drafts = [r \in Runs |-> 1]
  /\ plan \in {f \in [Runs -> UNION {Plans[r] : r \in Runs} \union {Missing}] :
                 \A r \in Runs : f[r] \in IF mode[r] = "file" THEN Plans[r] ELSE {Missing}}
  /\ tree = [r \in Runs |-> Base]
  /\ failure = [r \in Runs |-> "no"]
  /\ patch = [r \in Runs |-> Missing]
  /\ report = [r \in Runs |-> Missing]
  /\ decision = [r \in Runs |-> "none"]
  /\ branches = {} /\ worktrees = {} /\ temps = {}
  /\ saved = [r \in Runs |-> [a \in Artifacts |-> 0]]
  /\ recorded = [r \in Runs |-> [a \in Artifacts |-> 0]]
  /\ row = [r \in Runs |-> Missing]
  /\ broken = {} /\ reopened = {}
  /\ billed = [r \in Runs |-> 0]
  /\ faults = 0 /\ resumes = 0

-----------------------------------------------------------------------------
At(r, s) == stage[r] = s
Goto(r, s) == stage' = [stage EXCEPT ![r] = s]
Fault == faults < MaxFaults /\ faults' = faults + 1

\* A draft that is no patch, or a patch that is rejected: once more if the
\* budget allows it.  The pipeline has no budget: its exceptions end it.
ReviseOrPersist(r, used) ==
  IF used < MaxRevisions
  THEN /\ Goto(r, "asking")
       /\ drafts' = [drafts EXCEPT ![r] = @ + 1]
       /\ asked' = [asked EXCEPT ![r] = 0]
  ELSE Goto(r, "finishing") /\ UNCHANGED <<drafts, asked>>

\* A node has returned.
Return(r, node) == last' = [last EXCEPT ![r] = node]

\* DraftPatch or RevisePatch has; the second counts itself, with or without a patch.
Used(r) == IF last[r] = "discovered" THEN revised[r] ELSE revised[r] + 1
ReturnDraft(r, outcome) ==
  /\ Return(r, "drafted")
  /\ revised' = [revised EXCEPT ![r] = Used(r)]
  /\ patch' = [patch EXCEPT ![r] = outcome]

(***************************************************************************)
(* The model.                                                              *)
(***************************************************************************)
Question(r) == QuestionsOf(r)[asked[r] + 1]
LastQuestion(r) == asked[r] + 1 = Len(QuestionsOf(r))

Charge(r, valid, usage) ==
  /\ usage \/ MayOmitUsage(clients[r])
  /\ clients' = [clients EXCEPT ![r] = Answered(@, valid, usage)]
  /\ billed' = [billed EXCEPT ![r] = @ + (clients'[r].billed - clients[r].billed)]

\* OpenAI leaves out the usage of some answers, good ones among them.
ValidAnswer(r) ==
  \/ Charge(r, TRUE, TRUE) /\ UNCHANGED faults
  \/ Charge(r, TRUE, FALSE) /\ Fault

Proceed(r) ==
  IF LastQuestion(r) THEN Goto(r, "adding") /\ UNCHANGED asked
  ELSE asked' = [asked EXCEPT ![r] = @ + 1] /\ UNCHANGED stage

\* The last answer of the analysis ends AnalyzeRootCause, and DiscoverRelatedFiles
\* asks nothing.  What an analysis leads to is taken to be a draft.
Analysis(r) ==
  /\ At(r, "asking") /\ last[r] = "retrieved"
  /\ ValidAnswer(r)
  /\ IF LastQuestion(r)
     THEN Return(r, "discovered") /\ asked' = [asked EXCEPT ![r] = 0]
     ELSE asked' = [asked EXCEPT ![r] = @ + 1] /\ UNCHANGED last
  /\ UNCHANGED <<mode, stage, revised, drafts, plan, tree, failure, patch, report,
                 decision, repoVars, keptVars, broken, pastVars>>

ProposeEdits(r) ==
  /\ At(r, "asking") /\ Question(r) = "EditPlan"
  /\ ValidAnswer(r)
  /\ \E p \in Plans[r] : plan' = [plan EXCEPT ![r] = p]
  /\ Proceed(r)
  /\ UNCHANGED <<mode, graphVars, drafts, tree, failure, patch, report, decision,
                 repoVars, keptVars, broken, pastVars>>

\* The PatchReviewer lets the plan pass, or the attempt ends before git is asked.
Review(r) ==
  /\ At(r, "asking") /\ Question(r) = "PatchReview"
  /\ ValidAnswer(r)
  /\ \/ Proceed(r) /\ UNCHANGED <<graphVars, drafts, patch>>
     \/ ReturnDraft(r, Missing) /\ ReviseOrPersist(r, Used(r))
  /\ UNCHANGED <<mode, plan, tree, failure, report, decision, repoVars, keptVars,
                 broken, pastVars>>

\* An answer that does not fit the schema: the call asks once more, or gives up.
BadAnswer(r) ==
  /\ At(r, "asking")
  /\ Fault
  /\ \E usage \in BOOLEAN : Charge(r, FALSE, usage)
  /\ IF GivesUp(clients[r]) THEN Goto(r, "raised") ELSE UNCHANGED stage
  /\ UNCHANGED <<mode, asked, graphVars, drafts, plan, tree, failure, patch, report,
                 decision, repoVars, keptVars, broken, pastVars>>

ProviderFails(r) ==
  /\ At(r, "asking") /\ clients[r].provider # "fake"
  /\ Fault
  /\ Goto(r, "raised")
  /\ UNCHANGED <<mode, asked, clients, graphVars, drafts, plan, tree, failure, patch,
                 report, decision, repoVars, keptVars, broken, pastVars, billed>>

-----------------------------------------------------------------------------
(***************************************************************************)
(* generate_patch.                                                         *)
(***************************************************************************)
modelVars == <<asked, clients, graphVars, drafts, plan, pastVars, billed>>

\* git refuses a branch that exists; a directory of a new name never does.
AddWorktree(r) ==
  /\ At(r, "adding")
  /\ temps' = temps \union {Dir("patch", r)}
  /\ IF Attempt(r) \in branches
     THEN /\ failure' = [failure EXCEPT ![r] = "git"]
          /\ Goto(r, "removing")
          /\ UNCHANGED <<branches, worktrees, tree>>
     ELSE /\ branches' = branches \union {Attempt(r)}
          /\ worktrees' = worktrees \union {Attempt(r)}
          /\ tree' = [tree EXCEPT ![r] = Base]
          /\ Goto(r, "editing")
          /\ UNCHANGED failure
  /\ UNCHANGED <<mode, modelVars, patch, report, decision, keptVars, broken, faults>>

\* All edits at once: nobody else looks into the worktree.
ApplyEdits(r) ==
  LET done == Edited(plan[r].edits)
  IN  /\ At(r, "editing")
      /\ tree' = [tree EXCEPT ![r] = done.tree]
      /\ failure' = [failure EXCEPT ![r] = done.failed]
      /\ Goto(r, IF done.failed = "no" THEN "committing" ELSE "removing")
      /\ UNCHANGED <<mode, modelVars, patch, report, decision, repoVars, keptVars,
                     broken, faults>>

\* git commit fails where nothing is staged; SafeGit where the message looks like
\* a path.
Commit(r) ==
  /\ At(r, "committing")
  /\ IF Changed(Committed(tree[r])) = {} \/ plan[r].message = "pathlike"
     THEN failure' = [failure EXCEPT ![r] = "git"]
     ELSE UNCHANGED failure
  /\ Goto(r, "removing")
  /\ UNCHANGED <<mode, modelVars, tree, patch, report, decision, repoVars, keptVars,
                 broken, faults>>

\* A command fails of its own: git worktree add before or after it made the
\* branch, or one of those that edit, commit and export.
GitFails(r) ==
  /\ At(r, "adding") \/ At(r, "editing") \/ At(r, "committing")
  /\ Fault
  /\ broken' = broken \union {Attempt(r)}
  /\ failure' = [failure EXCEPT ![r] = "git"]
  /\ temps' = temps \union {Dir("patch", r)}
  /\ \/ UNCHANGED branches
     \/ At(r, "adding") /\ branches' = branches \union {Attempt(r)}
  /\ Goto(r, "removing")
  /\ UNCHANGED <<mode, modelVars, tree, patch, report, decision, worktrees, keptVars>>

\* Mutant: the directory is removed, its worktree stays registered.
LeaveWorktree(r) ==
  /\ At(r, "removing")
  /\ Goto(r, "deleting")
  /\ UNCHANGED <<mode, modelVars, tree, failure, patch, report, decision, repoVars,
                 keptVars, broken,
                 faults>>

\* The finally block.  A clean-up command that fails is passed over.
RemoveWorktree(r) ==
  /\ At(r, "removing")
  /\ worktrees' = worktrees \ {Attempt(r)}
  /\ Goto(r, "deleting")
  /\ UNCHANGED <<mode, modelVars, tree, failure, patch, report, decision, branches,
                 temps, keptVars, broken, faults>>

\* git branch -D refuses a branch that a worktree has checked out.
DeleteBranch(r) ==
  /\ At(r, "deleting")
  /\ branches' = IF Attempt(r) \in worktrees THEN branches ELSE branches \ {Attempt(r)}
  /\ Goto(r, "clearing")
  /\ UNCHANGED <<mode, modelVars, tree, failure, patch, report, decision, worktrees,
                 temps, keptVars, broken, faults>>

CleanUpFails(r) ==
  /\ At(r, "removing") \/ At(r, "deleting")
  /\ Fault
  /\ broken' = broken \union {Attempt(r)}
  /\ Goto(r, IF At(r, "removing") THEN "deleting" ELSE "clearing")
  /\ UNCHANGED <<mode, modelVars, tree, failure, patch, report, decision, repoVars,
                 keptVars>>

\* The directory goes, and the call returns or raises: only EditApplicationError
\* is caught, and only by the graph.  The patch holds what was committed.
ClearTemp(r) ==
  /\ At(r, "clearing")
  /\ temps' = temps \ {Dir("patch", r)}
  /\ tree' = [tree EXCEPT ![r] = Base]
  /\ \/ /\ failure[r] = "no"
        /\ ReturnDraft(r, [by |-> drafts[r], plan |-> plan[r], tree |-> Committed(tree[r])])
        /\ Goto(r, IF mode[r] = "file" THEN "saving patch" ELSE "cloning")
        /\ UNCHANGED <<drafts, asked, failure>>
     \/ /\ failure[r] = "edit" /\ mode[r] # "file"
        /\ ReturnDraft(r, Missing)
        /\ failure' = [failure EXCEPT ![r] = "no"]
        /\ ReviseOrPersist(r, Used(r))
     \/ /\ failure[r] \in {"git", "read"} \/ (failure[r] = "edit" /\ mode[r] = "file")
        /\ Goto(r, "raised")
        /\ UNCHANGED <<graphVars, drafts, asked, failure, patch>>
  /\ UNCHANGED <<mode, clients, plan, billed, report, decision, branches, worktrees,
                 keptVars, broken, pastVars, faults>>

-----------------------------------------------------------------------------
(***************************************************************************)
(* validate_patch, the gate, and what is kept of a run.                    *)
(***************************************************************************)
draftVars == <<modelVars, tree, failure, patch>>

\* The base commit is cloned once more, into a directory of its own.
CloneBase(r) ==
  /\ At(r, "cloning")
  /\ temps' = temps \union {Dir("verify", r)}
  /\ Goto(r, "judging")
  /\ UNCHANGED <<mode, draftVars, report, decision, branches, worktrees, keptVars,
                 broken, faults>>

CloneFails(r) ==
  /\ At(r, "cloning")
  /\ Fault
  /\ broken' = broken \union {Attempt(r)}
  /\ Goto(r, "raised")
  /\ UNCHANGED <<mode, draftVars, report, decision, repoVars, keptVars>>

\* The directory goes whatever the check found.
Judge(r) ==
  LET verdict == Verdict(patch[r].tree, Scope(r))
  IN  /\ At(r, "judging")
      /\ temps' = temps \ {Dir("verify", r)}
      /\ report' = [report EXCEPT ![r] = [of |-> patch[r].by, verdict |-> verdict]]
      /\ Return(r, "validated")
      /\ IF mode[r] = "file"
         THEN Goto(r, "saving validation") /\ UNCHANGED <<drafts, asked>>
         ELSE IF verdict = "rejected" THEN ReviseOrPersist(r, revised[r])
              ELSE Goto(r, "gate") /\ UNCHANGED <<drafts, asked>>
      /\ UNCHANGED <<mode, clients, revised, plan, billed, tree, failure, patch, decision,
                     branches, worktrees, keptVars, broken, pastVars, faults>>

\* The edges of RequestHumanValidation, for a decision that is authorized, and of
\* EvaluateRun, which only counts.
AfterRuling(r, d) ==
  IF d = "revise" THEN ReviseOrPersist(r, revised[r]) /\ Return(r, "ruled")
  ELSE /\ Goto(r, "finishing")
       /\ Return(r, IF d = "approve" THEN "evaluated" ELSE "ruled")
       /\ UNCHANGED <<drafts, asked>>

\* A new attempt at the node that comes next.
Again(r, s) ==
  /\ Goto(r, s)
  /\ drafts' = [drafts EXCEPT ![r] = @ + 1]
  /\ asked' = [asked EXCEPT ![r] = 0]
  /\ UNCHANGED last

\* update_state on the checkpoint, then invoke: the edges of the last node are
\* taken on a state that holds the decision.  The gate interrupts a run that
\* comes to it, not one that is resumed at it.
Follow(r, d) ==
  \/ last[r] \in {"retrieved", "discovered"} /\ Again(r, "asking")
  \/ last[r] = "drafted" /\ patch[r] # Missing /\ Again(r, "cloning")
  \/ /\ \/ last[r] = "drafted" /\ patch[r] = Missing
        \/ last[r] = "validated" /\ report[r].verdict = "rejected"
     /\ ReviseOrPersist(r, revised[r]) /\ UNCHANGED last
  \/ last[r] = "validated" /\ report[r].verdict # "rejected" /\ AfterRuling(r, d)
  \/ last[r] = "ruled" /\ AfterRuling(r, d)
  \/ last[r] = "evaluated" /\ Goto(r, "finishing") /\ UNCHANGED <<last, drafts, asked>>

\* A request with a decision, about a run that waits at the gate, raised or was
\* left by a process that died; it builds a client of its own.
Decide(r) ==
  /\ mode[r] # "file"
  /\ \/ At(r, "gate") /\ UNCHANGED resumes
     \/ /\ stage[r] \in {"raised", "dead"}
        /\ resumes < MaxResumes /\ resumes' = resumes + 1
  /\ \E d \in {"approve", "reject", "revise"} :
       decision' = [decision EXCEPT ![r] = d] /\ Follow(r, d)
  /\ clients' = [clients EXCEPT ![r] = NewClient(Provider[r])]
  /\ tree' = [tree EXCEPT ![r] = Base]
  /\ failure' = [failure EXCEPT ![r] = "no"]
  /\ reopened' = reopened \union {q \in {r} : row[r] # Missing}
  /\ UNCHANGED <<mode, revised, plan, billed, patch, report, repoVars, keptVars, broken,
                 faults>>

\* The order in which a run's outcome is written.  The pipeline writes each file
\* when it has it and settles the row then; PersistRun settles the row first.
AfterPatch(r) == IF mode[r] = "file" THEN "cloning" ELSE "returning"
AfterValidation(r) ==
  IF mode[r] = "file" THEN "finishing"
  ELSE IF patch[r] # Missing THEN "saving patch" ELSE "returning"
AfterFinish(r) ==
  IF mode[r] = "file" THEN "saving run"
  ELSE IF report[r] # Missing THEN "saving validation" ELSE AfterValidation(r)

\* Which attempt a file is about.
Content(r, a) == IF a = "patch" THEN patch[r].by ELSE IF a = "validation" THEN report[r].of
                 ELSE drafts[r]

Saving ==
  [patch |-> "saving patch", validation |-> "saving validation", run |-> "saving run"]
Recording ==
  [patch |-> "recording patch", validation |-> "recording validation", run |-> "recording run"]

WriteFile(r, a) ==
  /\ At(r, Saving[a])
  /\ saved' = [saved EXCEPT ![r][a] = Content(r, a)]
  /\ Goto(r, Recording[a])
  /\ UNCHANGED <<mode, draftVars, report, decision, repoVars, recorded, row, broken,
                 faults>>

\* Mutant: the row is added first.
RecordFirst(r, a) ==
  \/ /\ At(r, Saving[a])
     /\ recorded' = [recorded EXCEPT ![r][a] = Content(r, a)]
     /\ Goto(r, Recording[a])
     /\ UNCHANGED <<mode, draftVars, report, decision, repoVars, saved, row, broken,
                    faults>>
  \/ /\ At(r, Recording[a])
     /\ saved' = [saved EXCEPT ![r][a] = Content(r, a)]
     /\ Goto(r, IF a = "patch" THEN AfterPatch(r)
                ELSE IF a = "validation" THEN AfterValidation(r) ELSE "returning")
     /\ UNCHANGED <<mode, draftVars, report, decision, repoVars, recorded, row,
                    broken, faults>>

RecordArtifact(r, a) ==
  /\ At(r, Recording[a])
  /\ recorded' = [recorded EXCEPT ![r][a] = Content(r, a)]
  /\ Goto(r, IF a = "patch" THEN AfterPatch(r)
             ELSE IF a = "validation" THEN AfterValidation(r) ELSE "returning")
  /\ UNCHANGED <<mode, draftVars, report, decision, repoVars, saved, row, broken,
                 faults>>

Keep(r, a) == WriteFile(r, a) \/ RecordArtifact(r, a)

\* _determine_final_state, for a decision that is authorized; the pipeline has no
\* gate and keeps the verdict.
FinalVerdict(r) ==
  IF mode[r] = "file" THEN report[r].verdict
  ELSE IF decision[r] = "approve" THEN "validated"
  ELSE IF decision[r] = "reject" THEN "rejected"
  ELSE IF decision[r] = "revise" THEN "review"
  ELSE IF report[r] # Missing /\ report[r].verdict = "rejected" THEN "rejected"
  ELSE "inconclusive"

FinishRun(r) ==
  /\ At(r, "finishing")
  /\ row' = [row EXCEPT ![r] = [verdict |-> FinalVerdict(r), cost |-> clients[r].cost]]
  /\ Goto(r, AfterFinish(r))
  /\ UNCHANGED <<mode, draftVars, report, decision, repoVars, saved, recorded,
                 broken, faults>>

\* The checkpoint says END, or the pipeline returns.
EndRun(r) ==
  /\ At(r, "returning")
  /\ Goto(r, "done")
  /\ UNCHANGED <<mode, draftVars, report, decision, repoVars, keptVars, broken, faults>>

\* The process dies: nothing is cleaned up.
Crash(r) ==
  /\ stage[r] \notin {"gate", "done", "raised", "dead"}
  /\ Fault
  /\ Goto(r, "dead")
  /\ broken' = broken \union {Attempt(r)}
  /\ UNCHANGED <<mode, draftVars, report, decision, repoVars, keptVars>>

Step(r) ==
  \/ Analysis(r) \/ ProposeEdits(r) \/ Review(r) \/ BadAnswer(r) \/ ProviderFails(r)
  \/ AddWorktree(r) \/ ApplyEdits(r) \/ Commit(r) \/ GitFails(r)
  \/ RemoveWorktree(r) \/ DeleteBranch(r) \/ CleanUpFails(r) \/ ClearTemp(r)
  \/ CloneBase(r) \/ CloneFails(r) \/ Judge(r) \/ Decide(r)
  \/ (\E a \in Artifacts : Keep(r, a)) \/ FinishRun(r) \/ EndRun(r)
  \/ Crash(r)

Next == \E r \in Runs : Step(r)

Spec == Init /\ [][Next]_vars
=============================================================================
