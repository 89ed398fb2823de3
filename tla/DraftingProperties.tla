------------------------- MODULE DraftingProperties -------------------------
(* What the drafting of patches promises, whatever else goes on in the clone. *)
EXTENDS Drafting

\* The variables keep to their shapes.
TypeOK ==
  /\ stage \in [Runs -> Stages]
  /\ asked \in [Runs -> 0..1] /\ drafts \in [Runs -> Nat \ {0}]
  /\ last \in [Runs -> Returned] /\ revised \in [Runs -> 0..MaxRevisions]
  /\ clients \in [Runs -> Clients]
  /\ \A r \in Runs : stage[r] = "asking" => Question(r) \in Questions
  /\ mode \in Modes /\ tree \in [Runs -> Trees]
  /\ failure \in [Runs -> {"no", "edit", "read", "git"}]
  /\ \A r \in Runs : patch[r] # Missing => patch[r] \in PatchArtifact
  /\ \A r \in Runs : report[r] # Missing => report[r] \in ValidationReport
  /\ branches \subseteq Attempts /\ worktrees \subseteq branches /\ broken \subseteq Attempts
  /\ temps \subseteq {"patch", "verify"} \X Attempts

\* What a plan asks for, file by file: the edits of a file in their order, each
\* on what the one before left, whatever is edited in between elsewhere.
NoFile == [eol |-> "impossible", lines |-> <<>>]
Rewritten(file, e) ==
  IF file = NoFile \/ e.path \in UnsafePaths THEN NoFile
  ELSE IF file = Missing
  THEN IF e.old = NoText THEN [eol |-> "lf", lines |-> LinesOf(e.new)] ELSE NoFile
  ELSE IF e.path \in Unreadable \/ Cardinality(Occurrences(file, e.old)) # 1 THEN NoFile
  ELSE [eol |-> "lf",
        lines |-> FlattenSeq([i \in DOMAIN file.lines |->
                    IF file.lines[i] = e.old THEN LinesOf(e.new) ELSE <<file.lines[i]>>])]
WantedFile(p, edits) ==
  LET file[n \in 0..Len(edits)] ==
        IF n = 0 THEN Base[p]
        ELSE IF edits[n].path = p THEN Rewritten(file[n - 1], edits[n]) ELSE file[n - 1]
  IN  file
Wanted(edits) ==
  [p \in Paths |-> IF Base[p] = Missing /\ p \in Ignored THEN Base[p]
                   ELSE WantedFile(p, edits)[Len(edits)]]
Impossible(edits) == \E p \in Paths : WantedFile(p, edits)[Len(edits)] = NoFile

\* A file that cannot be is neither a file nor none.
ASSUME NoFileAssumption == Missing # NoFile

\* A plan that git has to refuse: nothing of it remains to be committed, or its
\* message is taken for a path; or that trips over a file that is no text.
Refused(pl) ==
  \/ pl.message = "pathlike"
  \/ Impossible(pl.edits) \/ Changed(Wanted(pl.edits)) = {}

\* The patch of a run is exactly what the plan it was made of asks for, however
\* many other attempts come and go in the clone, and whatever earlier ones left
\* there; a run only dies of its own plan, of its model, or of a command that failed
\* (generate_patch: unique names, a worktree at the pinned commit).
PatchIsThePlan ==
  \A r \in Runs :
    /\ patch[r] # Missing =>
         /\ patch[r].tree = Wanted(patch[r].plan.edits)
         /\ ~Impossible(patch[r].plan.edits)
    /\ failure[r] # "no" => <<r, drafts[r]>> \in broken \/ Refused(plan[r])

\* A clone, shared by every later run, is left as it was found: the branch, the
\* worktree and the directories of an attempt outlive it only if a command of it
\* failed or the process died (the finally block, in its order).
Drafted(r) == {"adding", "editing", "committing", "removing", "deleting", "clearing"}
NothingLeftBehind ==
  \A r \in Runs : \A n \in 1..drafts[r] :
    <<r, n>> \notin broken /\ ~(n = drafts[r] /\ stage[r] \in Drafted(r)) =>
      /\ <<r, n>> \notin branches \union worktrees
      /\ <<"patch", <<r, n>>>> \notin temps
      /\ <<"verify", <<r, n>>>> \in temps => (n = drafts[r] /\ At(r, "judging"))

\* What a reviewer is shown at the gate, what an approval sends past it, and what
\* the pipeline keeps as validated, was judged as it stands: the report is of this
\* patch, the patch is in scope, it adds no secret, and it applies to the pinned
\* commit.  Revisions, patches that fail to apply, reports of earlier drafts, nodes
\* that raise and decisions about runs that are not at the gate come in between.
\* It says nothing of a run whose checkpoint is not past the gate: approved after
\* a node raised, such a run may end validated with no patch, or with a rejected
\* one (ValidatedHasPatch of InvestigationProperties).
PastGate(r) ==
  \/ At(r, "gate") \/ last[r] = "evaluated"
  \/ mode[r] = "file" /\ row[r] # Missing /\ row[r].verdict = "validated"
JudgedAsItStands ==
  \A r \in Runs : PastGate(r) =>
      /\ patch[r] # Missing /\ report[r] # Missing
      /\ report[r].of = patch[r].by /\ report[r].verdict # "rejected"
      /\ Changed(patch[r].tree) # {} /\ Changed(patch[r].tree) \subseteq Scope(r)
      /\ \A p \in Changed(patch[r].tree) :
           /\ Base[p] = Missing \/ Base[p].eol = "lf"
           /\ \A i \in DOMAIN patch[r].tree[p].lines :
                patch[r].tree[p].lines[i] \in SecretLines =>
                  Base[p] # Missing /\ patch[r].tree[p].lines[i] \in ToSet(Base[p].lines)

\* Every answer is paid for: what a client reports as its cost is what it was
\* billed, the rejected answers included, short only of those whose usage the
\* provider left out (_record_usage before the answer is looked at).
EveryAnswerIsPaid ==
  \A r \in Runs :
    /\ clients[r].cost + clients[r].omitted = clients[r].billed
    /\ clients[r].billed <= billed[r]

\* An artifact that is on record can be opened and is about the patch and the
\* report of the run, at every moment and after a crash at any; a run that is done
\* has both on disk and on record, and a run of the pipeline is settled only when
\* both are.  Where PersistRun died and a later decision led to another draft, an
\* old record stands beside a new file until the next one is written.
RecordedIsOnDisk ==
  \A r \in Runs :
    /\ r \notin reopened =>
         /\ \A a \in Artifacts : recorded[r][a] # 0 => recorded[r][a] = saved[r][a]
         /\ recorded[r]["patch"] # 0 =>
              patch[r] # Missing /\ recorded[r]["patch"] = patch[r].by
         /\ recorded[r]["validation"] # 0 => recorded[r]["validation"] = report[r].of
    /\ At(r, "done") =>
         /\ patch[r] # Missing =>
              saved[r]["patch"] = patch[r].by /\ recorded[r]["patch"] = patch[r].by
         /\ report[r] # Missing =>
              saved[r]["validation"] = report[r].of
              /\ recorded[r]["validation"] = report[r].of
    /\ mode[r] = "file" /\ row[r] # Missing =>
         \A a \in {"patch", "validation"} : recorded[r][a] = drafts[r]

\* The cost of a run is what all its requests were charged: "fill in
\* Run.cost_usd" "at the end of a run", llm/client.py:54.  The client that
\* PersistRun asks is that of the last request.
RunCostsWhatItWasBilled ==
  \A r \in Runs : row[r] # Missing /\ clients[r].omitted = 0 => row[r].cost = billed[r]
=============================================================================
