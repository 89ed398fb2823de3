--------------------------- MODULE DraftingProofs ---------------------------
(***************************************************************************)
(* For any number of runs in one clone, any plans, scopes and budgets, and *)
(* any number of failing commands, bad answers and crashes: a patch is     *)
(* what its plan's edits lead to, what a reviewer sees was judged as it    *)
(* stands, no attempt leaves anything behind, every answer is paid for,    *)
(* and what is on record is on disk.                                       *)
(***************************************************************************)
EXTENDS DraftingProperties, SequenceTheorems, WellFoundedInduction, FiniteSetTheorems, TLAPS

-----------------------------------------------------------------------------
(***************************************************************************)
(* The inductive invariant.                                                *)
(***************************************************************************)
\* Edits never take a file away.
GrownTrees == {t \in Trees : \A p \in Paths : t[p] = Missing => Base[p] = Missing}

Decisions == {"none", "approve", "reject", "revise"}
Counts == [Artifacts -> Nat]
Patches == {pa \in PatchArtifact : pa.tree \in GrownTrees}

\* What belongs to one run keeps to its shape.
Shape ==
  /\ mode \in Modes /\ mode \in [Runs -> {"single", "multi", "file"}]
  /\ stage \in [Runs -> Stages] /\ asked \in [Runs -> 0..1]
  /\ clients \in [Runs -> Clients] /\ drafts \in [Runs -> Nat \ {0}]
  /\ last \in [Runs -> Returned] /\ revised \in [Runs -> 0..MaxRevisions]
  /\ plan \in [Runs -> EditPlan \union {Missing}]
  /\ tree \in [Runs -> GrownTrees]
  /\ failure \in [Runs -> {"no", "edit", "read", "git"}]
  /\ patch \in [Runs -> Patches \union {Missing}]
  /\ report \in [Runs -> ValidationReport \union {Missing}]
  /\ decision \in [Runs -> Decisions]
  /\ saved \in [Runs -> Counts] /\ recorded \in [Runs -> Counts]
  /\ row \in [Runs -> RunRow \union {Missing}]
  /\ billed \in [Runs -> Nat]

\* The clone holds names of attempts, and every worktree has its branch.
RepoShape ==
  /\ branches \subseteq Attempts /\ worktrees \subseteq branches /\ broken \subseteq Attempts
  /\ temps \subseteq {"patch", "verify"} \X Attempts

\* A node has asked some of its questions and not all of them; an attempt has a plan
\* to follow, and a revision is within its budget.  The pipeline asks nothing,
\* drafts once and is never taken up again.
Working == {"adding", "editing", "committing", "removing", "deleting", "clearing"}
Asking(r) ==
  /\ At(r, "asking") => asked[r] < Len(QuestionsOf(r))
  /\ At(r, "asking") /\ Question(r) = "PatchReview" => plan[r] # Missing
  /\ stage[r] \in Working => plan[r] # Missing /\ last[r] # "retrieved"
  /\ stage[r] \in Working \union {"asking"} /\ last[r] \notin {"retrieved", "discovered"} =>
       revised[r] < MaxRevisions
  /\ mode[r] = "file" =>
       /\ stage[r] \notin {"asking", "gate"} /\ drafts[r] = 1 /\ plan[r] # Missing
       /\ decision[r] = "none" /\ r \notin reopened
       /\ stage[r] \in Working => last[r] = "discovered"

\* What exists of an attempt is what its own steps, those that are behind it and
\* not undone, have made.
Left(r) ==
  \A n \in Nat \ {0} :
    <<r, n>> \notin broken =>
      /\ <<r, n>> \in branches =>
           n = drafts[r] /\ stage[r] \in {"editing", "committing", "removing", "deleting"}
      /\ <<r, n>> \in worktrees =>
           n = drafts[r] /\ stage[r] \in {"editing", "committing", "removing"}
      /\ <<"patch", <<r, n>>>> \in temps =>
           n = drafts[r] /\ stage[r] \in Working \ {"adding"}
      /\ <<"verify", <<r, n>>>> \in temps => n = drafts[r] /\ At(r, "judging")

\* There is a patch to be judged; that of the pipeline is the only one it drafts.
Kept == {"saving patch", "recording patch", "saving validation", "recording validation",
         "saving run", "recording run", "returning", "done"}
Fresh(r) ==
  /\ stage[r] \in {"cloning", "judging"} => patch[r] # Missing
  /\ mode[r] = "file" /\ stage[r] \in Kept \union {"cloning", "judging", "finishing"} =>
       patch[r] # Missing /\ patch[r].by = drafts[r]

\* What is about to be written is there.
Written(r) ==
  /\ stage[r] \in {"saving patch", "recording patch"} => patch[r] # Missing
  /\ stage[r] \in {"saving validation", "recording validation"} => report[r] # Missing

\* The worktree holds what the plan's edits lead to, and every patch is what the
\* edits of the plan it was made of lead to.
DonePlan(r) == Edited(plan[r].edits)
CannotBe(r) ==
  \/ plan[r].message = "pathlike" \/ DonePlan(r).failed # "no"
  \/ Changed(Committed(DonePlan(r).tree)) = {}
EditedSoFar(r) ==
  /\ failure[r] # "no" =>
       plan[r] # Missing /\ stage[r] \in {"removing", "deleting", "clearing", "raised", "dead"}
  /\ At(r, "committing") => DonePlan(r) = [tree |-> tree[r], failed |-> "no"]
  /\ stage[r] \in {"removing", "deleting", "clearing"} /\ failure[r] = "no" =>
       /\ DonePlan(r) = [tree |-> tree[r], failed |-> "no"]
       /\ Changed(Committed(tree[r])) # {}
EditedPatch(r) ==
  /\ patch[r] # Missing =>
       /\ Edited(patch[r].plan.edits).failed = "no" /\ Changed(patch[r].tree) # {}
       /\ patch[r].tree = Committed(Edited(patch[r].plan.edits).tree)
  /\ failure[r] # "no" => Attempt(r) \in broken \/ CannotBe(r)
PatchIsEdited == \A r \in Runs : EditedPatch(r)

\* Once the checkpoint is past the validation the report is of the patch, and past
\* the gate it let it pass; the pipeline's verdict is its report's.
ReportOfPatch(r) ==
  /\ patch[r] # Missing /\ report[r] # Missing
  /\ report[r].of = patch[r].by /\ report[r].verdict = Verdict(patch[r].tree, Scope(r))
Passed(r) == ReportOfPatch(r) /\ report[r].verdict # "rejected"
JudgedSoFar(r) ==
  /\ last[r] \in {"validated", "ruled", "evaluated"} => ReportOfPatch(r)
  /\ last[r] \in {"ruled", "evaluated"} \/ At(r, "gate") => Passed(r)
  /\ mode[r] = "file" /\ stage[r] \in {"saving validation", "recording validation", "finishing"}
       => ReportOfPatch(r)
  /\ mode[r] = "file" /\ row[r] # Missing =>
       /\ stage[r] \in {"saving run", "recording run", "returning", "done", "dead"}
       /\ row[r].verdict = "validated" => Passed(r)

\* What is on record, stage by stage: of a run that PersistRun has begun with once,
\* or not at all, nothing is recorded twice.
Unrecorded(r) ==
  /\ mode[r] # "file" =>
       /\ stage[r] \notin {"saving run", "recording run"}
       /\ stage[r] \in Kept => row[r] # Missing
  /\ mode[r] # "file" /\ r \notin reopened =>
       /\ row[r] # Missing => stage[r] \in Kept \union {"dead"}
       /\ row[r] = Missing => \A a \in Artifacts : recorded[r][a] = 0
       /\ recorded[r]["run"] = 0
       /\ recorded[r]["validation"] # 0 =>
            stage[r] \in {"saving patch", "recording patch", "returning", "done", "dead"}
       /\ recorded[r]["patch"] # 0 => stage[r] \in {"returning", "done", "dead"}
  /\ mode[r] = "file" =>
       /\ recorded[r]["run"] # 0 => stage[r] \in {"returning", "done", "dead"}
       /\ recorded[r]["validation"] # 0 =>
            stage[r] \in {"finishing", "saving run", "recording run", "returning", "done",
                          "dead"}
       /\ recorded[r]["patch"] # 0 =>
            stage[r] \in {"cloning", "judging", "finishing", "raised", "dead"} \union
                         (Kept \ {"saving patch", "recording patch"})

\* What has been written by now is there and is of the patch and the report.
OnRecord(r) ==
  /\ \A a \in Artifacts : At(r, Recording[a]) => saved[r][a] = Content(r, a)
  /\ mode[r] = "file" =>
       /\ stage[r] \in {"cloning", "judging", "saving validation", "recording validation",
                        "finishing", "saving run", "recording run", "returning", "done"} =>
            recorded[r]["patch"] = drafts[r]
       /\ stage[r] \in {"finishing", "saving run", "recording run", "returning", "done"} =>
            recorded[r]["validation"] = drafts[r]
  /\ mode[r] # "file" =>
       /\ stage[r] \in {"saving patch", "recording patch", "returning", "done"}
            /\ report[r] # Missing =>
            /\ saved[r]["validation"] = report[r].of
            /\ recorded[r]["validation"] = report[r].of
       /\ stage[r] \in {"returning", "done"} /\ patch[r] # Missing =>
            saved[r]["patch"] = patch[r].by /\ recorded[r]["patch"] = patch[r].by
RecordedAt(r) ==
  /\ r \notin reopened =>
       /\ \A a \in Artifacts : recorded[r][a] # 0 => recorded[r][a] = saved[r][a]
       /\ recorded[r]["patch"] # 0 => patch[r] # Missing /\ recorded[r]["patch"] = patch[r].by
       /\ recorded[r]["validation"] # 0 => recorded[r]["validation"] = report[r].of
  /\ mode[r] = "file" /\ row[r] # Missing =>
       \A a \in {"patch", "validation"} : recorded[r][a] = drafts[r]
Records(r) == Unrecorded(r) /\ OnRecord(r) /\ RecordedAt(r)

\* What a run holds of its own.
Own(r) == /\ Asking(r) /\ Left(r) /\ Fresh(r) /\ Written(r) /\ EditedSoFar(r)
          /\ EditedPatch(r) /\ JudgedSoFar(r) /\ Records(r)

IInv == Shape /\ RepoShape /\ EveryAnswerIsPaid /\ \A r \in Runs : Own(r)

-----------------------------------------------------------------------------
\* Every set of numbers that is not empty has a least one.
LEMMA LeastNumber ==
  ASSUME NEW T, T \subseteq Nat, T # {}
  PROVE  \E x \in T : \A y \in T : ~ (y < x)
<1>1. IsWellFoundedOn(OpToRel(<, Nat), Nat)
  BY NatLessThanWellFounded
<1>2. \E x \in T : \A y \in T : ~ (<<y, x>> \in OpToRel(<, Nat))
  BY <1>1, WFMin
<1> QED
  BY <1>2 DEF OpToRel

Start == [tree |-> Base, failed |-> "no"]

\* The edits of a plan can be made one after the other.
LEMMA EditedUpToExists ==
  ASSUME NEW edits
  PROVE  \A k \in Nat : \E done : done = [n \in 0..k |->
           IF n = 0 THEN Start ELSE AfterEdit(done[n - 1], edits[n])]
<1> DEFINE Upto(k) == \E done : done = [n \in 0..k |->
             IF n = 0 THEN Start ELSE AfterEdit(done[n - 1], edits[n])]
           bad == {k \in Nat : ~Upto(k)}
<1>1. SUFFICES ASSUME bad # {}
               PROVE  FALSE
  OBVIOUS
<1>2. PICK k \in bad : \A j \in bad : ~ (j < k)
  BY <1>1, LeastNumber
<1>3. CASE k = 0
  <2> DEFINE done == [n \in 0..0 |-> Start]
  <2>1. done = [n \in 0..0 |-> IF n = 0 THEN Start ELSE AfterEdit(done[n - 1], edits[n])]
    OBVIOUS
  <2> HIDE DEF done
  <2>2. Upto(0)
    BY <2>1
  <2> QED
    BY <1>2, <1>3, <2>2
<1>4. CASE k # 0
  <2>1. k \in Nat /\ k - 1 \in Nat /\ k - 1 < k
    BY <1>2, <1>4
  <2>2. Upto(k - 1)
    BY <1>2, <2>1
  <2>3. PICK done : done = [n \in 0..(k - 1) |->
                       IF n = 0 THEN Start ELSE AfterEdit(done[n - 1], edits[n])]
    BY <2>2
  <2> DEFINE more == [n \in 0..k |-> IF n < k THEN done[n]
                               ELSE AfterEdit(done[k - 1], edits[k])]
  <2>4. ASSUME NEW n \in 0..k
        PROVE  more[n] = IF n = 0 THEN Start ELSE AfterEdit(more[n - 1], edits[n])
    <3>1. CASE n = k
      BY <1>4, <2>1, <3>1
    <3>2. CASE n < k /\ n # 0
      BY <2>1, <2>3, <3>2
    <3>3. CASE n < k /\ n = 0
      BY <2>1, <2>3, <3>3
    <3> QED
      BY <2>1, <3>1, <3>2, <3>3
  <2>5. more = [n \in 0..k |-> more[n]]
    OBVIOUS
  <2> HIDE DEF more
  <2>6. more = [n \in 0..k |-> IF n = 0 THEN Start ELSE AfterEdit(more[n - 1], edits[n])]
    BY <2>4, <2>5
  <2>7. Upto(k)
    BY <2>6
  <2> QED
    BY <1>2, <2>7
<1> QED
  BY <1>3, <1>4

\* The edits of a plan are made one after the other.
LEMMA EditedUpToUnfolds ==
  ASSUME NEW S, NEW edits \in Seq(S)
  PROVE  EditedUpTo(edits) = [n \in 0..Len(edits) |->
           IF n = 0 THEN Start ELSE AfterEdit(EditedUpTo(edits)[n - 1], edits[n])]
<1>1. Len(edits) \in Nat
  OBVIOUS
<1>2. \E done : done = [n \in 0..Len(edits) |->
           IF n = 0 THEN Start ELSE AfterEdit(done[n - 1], edits[n])]
  BY <1>1, EditedUpToExists
<1>3. EditedUpTo(edits) = CHOOSE done : done = [n \in 0..Len(edits) |->
           IF n = 0 THEN Start ELSE AfterEdit(done[n - 1], edits[n])]
  BY DEF EditedUpTo, Start
<1> QED
  BY <1>2, <1>3

\* An edit is made, or refused for one of two reasons.
LEMMA EditFailsType ==
  ASSUME NEW t, NEW e
  PROVE  EditFails(t, e) \in {"no", "edit", "read"}
BY DEF EditFails

\* An edit that is made leads from a tree to a tree, and takes no file away.
LEMMA AppliedGrows ==
  ASSUME NEW t \in GrownTrees, NEW e \in Edits, EditFails(t, e) = "no"
  PROVE  Applied(t, e) \in GrownTrees
<1> DEFINE file == t[e.path]
           i == CHOOSE k \in Occurrences(file, e.old) : TRUE
           next == IF file = Missing THEN [eol |-> "lf", lines |-> LinesOf(e.new)]
                   ELSE [eol |-> "lf",
                         lines |-> SubSeq(file.lines, 1, i - 1) \o LinesOf(e.new)
                                     \o SubSeq(file.lines, i + 1, Len(file.lines))]
<1>1. e.path \in Paths /\ e.new \in Texts /\ t \in Trees /\ file \in File \union {Missing}
  BY DEF Edits, GrownTrees, Trees
<1>2. LinesOf(e.new) \in Seq(Lines)
  BY <1>1 DEF LinesOf, Texts
<1>3. next \in File
  <2>1. CASE file = Missing
    BY <1>2, <2>1 DEF File
  <2>2. CASE file # Missing
    <3>1. file.lines \in Seq(Lines)
      BY <1>1, <2>2 DEF File
    <3>2. i \in 1..Len(file.lines)
      <4>1. Occurrences(file, e.old) # {}
        BY <1>1, <2>2 DEF EditFails
      <4> QED
        BY <3>1, <4>1 DEF Occurrences
    <3> HIDE DEF i, file
    <3>3. SubSeq(file.lines, 1, i - 1) \in Seq(Lines)
      <4>1. 1 \in Int /\ i - 1 \in Int /\ \A k \in 1..(i - 1) : file.lines[k] \in Lines
        BY <3>1, <3>2
      <4> QED
        BY <4>1, SubSeqProperties
    <3>4. SubSeq(file.lines, i + 1, Len(file.lines)) \in Seq(Lines)
      <4>1. /\ i + 1 \in Int /\ Len(file.lines) \in Int
            /\ \A k \in (i + 1)..Len(file.lines) : file.lines[k] \in Lines
        BY <3>1, <3>2
      <4> QED
        BY <4>1, SubSeqProperties
    <3>5. SubSeq(file.lines, 1, i - 1) \o LinesOf(e.new)
            \o SubSeq(file.lines, i + 1, Len(file.lines)) \in Seq(Lines)
      BY <1>2, <3>3, <3>4, ConcatProperties
    <3> QED
      BY <2>2, <3>5 DEF File
  <2> QED
    BY <2>1, <2>2
<1>4. Applied(t, e) = [t EXCEPT ![e.path] = next]
  BY DEF Applied
<1> HIDE DEF next
<1>5. next # Missing
  BY <1>3, BaseAssumption
<1> QED
  BY <1>1, <1>3, <1>4, <1>5 DEF GrownTrees, Trees

Outcomes == [tree : GrownTrees, failed : {"no", "edit", "read"}]

\* The commit itself is the outcome of no edit.
LEMMA StartIsOutcome == Start \in Outcomes
BY BaseAssumption DEF Start, Outcomes, GrownTrees

\* One more edit leads from one outcome to another.
LEMMA AfterEditIsOutcome ==
  ASSUME NEW done \in Outcomes, NEW e \in Edits
  PROVE  AfterEdit(done, e) \in Outcomes
<1>1. CASE done.failed # "no"
  BY <1>1 DEF AfterEdit
<1>2. CASE done.failed = "no" /\ EditFails(done.tree, e) # "no"
  BY <1>2, EditFailsType DEF AfterEdit, Outcomes
<1>3. CASE done.failed = "no" /\ EditFails(done.tree, e) = "no"
  <2>1. Applied(done.tree, e) \in GrownTrees
    BY <1>3, AppliedGrows DEF Outcomes
  <2> QED
    BY <1>3, <2>1 DEF AfterEdit, Outcomes
<1> QED
  BY <1>1, <1>2, <1>3

\* However many of its edits are made, they lead to a tree that has every file of the commit.
LEMMA EditedUpToIsOutcome ==
  ASSUME NEW edits \in Seq(Edits)
  PROVE  \A n \in 0..Len(edits) : EditedUpTo(edits)[n] \in Outcomes
<1> DEFINE done == EditedUpTo(edits)
           bad == {n \in 0..Len(edits) : done[n] \notin Outcomes}
<1>1. done = [n \in 0..Len(edits) |-> IF n = 0 THEN Start ELSE AfterEdit(done[n - 1], edits[n])]
  BY EditedUpToUnfolds
<1>2. Len(edits) \in Nat
  OBVIOUS
<1> HIDE DEF done
<1>0. bad \subseteq Nat
  BY <1>2
<1>3. bad = {}
  <2>1. SUFFICES ASSUME bad # {}
                 PROVE  FALSE
    OBVIOUS
  <2>2. PICK k \in bad : \A j \in bad : ~ (j < k)
    BY <1>0, <2>1, LeastNumber
  <2>3. k \in 0..Len(edits) /\ done[k] \notin Outcomes
    BY <2>2
  <2>4. k # 0
    BY <1>1, <1>2, <2>3, StartIsOutcome
  <2>5. k - 1 \in 0..Len(edits) /\ k - 1 < k /\ edits[k] \in Edits
    BY <1>2, <2>3, <2>4
  <2>6. done[k - 1] \in Outcomes
    BY <2>2, <2>5
  <2>7. done[k] = AfterEdit(done[k - 1], edits[k])
    BY <1>1, <2>3, <2>4
  <2> QED
    BY <2>3, <2>5, <2>6, <2>7, AfterEditIsOutcome
<1> QED
  BY <1>3 DEF done

\* Whatever the plan, its edits lead to a tree that has every file of the commit.
LEMMA EditedIsOutcome ==
  ASSUME NEW edits \in Seq(Edits)
  PROVE  Edited(edits) \in Outcomes
<1>1. Len(edits) \in 0..Len(edits)
  OBVIOUS
<1> QED
  BY <1>1, EditedUpToIsOutcome DEF Edited

-----------------------------------------------------------------------------
(***************************************************************************)
(* Edits made in the plan's order are the edits of each file in theirs.    *)
(***************************************************************************)

\* A file after the n-th edit, which may be of another file, and whether the first k
\* edits can be made one after the other.
EditOf(p, edits, file, n) ==
  IF edits[n].path = p THEN Rewritten(file, edits[n]) ELSE file
WantedUpto(p, edits, k) ==
  \E done : done = [n \in 0..k |->
    IF n = 0 THEN Base[p] ELSE EditOf(p, edits, done[n - 1], n)]

\* The edits of one file can be made one after the other.
LEMMA WantedFileExists ==
  ASSUME NEW p, NEW edits
  PROVE  \A k \in Nat : WantedUpto(p, edits, k)
<1> DEFINE Upto(k) == WantedUpto(p, edits, k)
           bad == {k \in Nat : ~Upto(k)}
<1>1. SUFFICES ASSUME bad # {}
               PROVE  FALSE
  OBVIOUS
<1>2. PICK k \in bad : \A j \in bad : ~ (j < k)
  BY <1>1, LeastNumber
<1>3. CASE k = 0
  <2> DEFINE done == [n \in 0..0 |-> Base[p]]
  <2>1. done = [n \in 0..0 |-> IF n = 0 THEN Base[p] ELSE EditOf(p, edits, done[n - 1], n)]
    OBVIOUS
  <2> HIDE DEF done
  <2>2. Upto(0)
    BY <2>1 DEF WantedUpto
  <2> QED
    BY <1>2, <1>3, <2>2
<1>4. CASE k # 0
  <2>1. k \in Nat /\ k - 1 \in Nat /\ k - 1 < k
    BY <1>2, <1>4
  <2>2. Upto(k - 1)
    BY <1>2, <2>1
  <2>3. PICK done : done = [n \in 0..(k - 1) |->
                       IF n = 0 THEN Base[p] ELSE EditOf(p, edits, done[n - 1], n)]
    BY <2>2 DEF WantedUpto
  <2> DEFINE more == [n \in 0..k |-> IF n < k THEN done[n] ELSE EditOf(p, edits, done[k - 1], k)]
  <2>4. ASSUME NEW n \in 0..k
        PROVE  more[n] = IF n = 0 THEN Base[p] ELSE EditOf(p, edits, more[n - 1], n)
    <3>1. CASE n = k
      BY <1>4, <2>1, <3>1
    <3>2. CASE n < k /\ n # 0
      BY <2>1, <2>3, <3>2
    <3>3. CASE n < k /\ n = 0
      BY <2>1, <2>3, <3>3
    <3> QED
      BY <2>1, <3>1, <3>2, <3>3
  <2>5. more = [n \in 0..k |-> more[n]]
    OBVIOUS
  <2> HIDE DEF more
  <2>6. more = [n \in 0..k |-> IF n = 0 THEN Base[p] ELSE EditOf(p, edits, more[n - 1], n)]
    BY <2>4, <2>5
  <2>7. Upto(k)
    BY <2>6 DEF WantedUpto
  <2> QED
    BY <1>2, <2>7
<1> QED
  BY <1>3, <1>4

\* The edits of one file are made one after the other.
LEMMA WantedFileUnfolds ==
  ASSUME NEW p, NEW S, NEW edits \in Seq(S)
  PROVE  WantedFile(p, edits) = [n \in 0..Len(edits) |->
           IF n = 0 THEN Base[p]
           ELSE IF edits[n].path = p THEN Rewritten(WantedFile(p, edits)[n - 1], edits[n])
           ELSE WantedFile(p, edits)[n - 1]]
<1>1. Len(edits) \in Nat
  OBVIOUS
<1>2. \E done : done = [n \in 0..Len(edits) |->
           IF n = 0 THEN Base[p]
           ELSE IF edits[n].path = p THEN Rewritten(done[n - 1], edits[n]) ELSE done[n - 1]]
  <2>1. WantedUpto(p, edits, Len(edits))
    BY <1>1, WantedFileExists
  <2>2. PICK done : done = [n \in 0..Len(edits) |->
           IF n = 0 THEN Base[p] ELSE EditOf(p, edits, done[n - 1], n)]
    BY <2>1 DEF WantedUpto
  <2>3. done = [n \in 0..Len(edits) |->
           IF n = 0 THEN Base[p]
           ELSE IF edits[n].path = p THEN Rewritten(done[n - 1], edits[n]) ELSE done[n - 1]]
    BY <2>2 DEF EditOf
  <2> QED
    BY <2>3
<1>3. WantedFile(p, edits) = CHOOSE done : done = [n \in 0..Len(edits) |->
           IF n = 0 THEN Base[p]
           ELSE IF edits[n].path = p THEN Rewritten(done[n - 1], edits[n]) ELSE done[n - 1]]
  BY DEF WantedFile
<1> QED
  BY <1>2, <1>3

\* Lists can be put one after the other.
LEMMA FlattenExists ==
  ASSUME NEW seqs
  PROVE  \A m \in Nat : \E flat : flat = [i \in 1..m |->
           IF i = 1 THEN seqs[i] ELSE flat[i - 1] \o seqs[i]]
<1> DEFINE Upto(m) == \E flat : flat = [i \in 1..m |->
             IF i = 1 THEN seqs[i] ELSE flat[i - 1] \o seqs[i]]
           bad == {m \in Nat : ~Upto(m)}
<1>1. SUFFICES ASSUME bad # {}
               PROVE  FALSE
  OBVIOUS
<1>2. PICK m \in bad : \A j \in bad : ~ (j < m)
  BY <1>1, LeastNumber
<1>3. CASE m = 0
  <2> DEFINE flat == [i \in 1..0 |-> seqs[i]]
  <2>1. flat = [i \in 1..0 |-> IF i = 1 THEN seqs[i] ELSE flat[i - 1] \o seqs[i]]
    OBVIOUS
  <2> HIDE DEF flat
  <2>2. Upto(0)
    BY <2>1
  <2> QED
    BY <1>2, <1>3, <2>2
<1>4. CASE m # 0
  <2>1. m \in Nat /\ m - 1 \in Nat /\ m - 1 < m
    BY <1>2, <1>4
  <2>2. Upto(m - 1)
    BY <1>2, <2>1
  <2>3. PICK flat : flat = [i \in 1..(m - 1) |->
                       IF i = 1 THEN seqs[i] ELSE flat[i - 1] \o seqs[i]]
    BY <2>2
  <2> DEFINE more == [i \in 1..m |-> IF i < m THEN flat[i]
                        ELSE IF m = 1 THEN seqs[m] ELSE flat[m - 1] \o seqs[m]]
  <2>4. ASSUME NEW i \in 1..m
        PROVE  more[i] = IF i = 1 THEN seqs[i] ELSE more[i - 1] \o seqs[i]
    <3>1. CASE i = m
      BY <1>4, <2>1, <3>1
    <3>2. CASE i < m /\ i # 1
      <4>1. i \in 1..(m - 1) /\ i - 1 \in 1..m /\ i - 1 < m
        BY <2>1, <3>2
      <4>2. more[i] = flat[i] /\ more[i - 1] = flat[i - 1]
        BY <3>2, <4>1
      <4>3. flat[i] = flat[i - 1] \o seqs[i]
        BY <2>3, <3>2, <4>1
      <4> QED
        BY <3>2, <4>2, <4>3
    <3>3. CASE i < m /\ i = 1
      BY <2>1, <2>3, <3>3
    <3> QED
      BY <2>1, <3>1, <3>2, <3>3
  <2>5. more = [i \in 1..m |-> more[i]]
    OBVIOUS
  <2> HIDE DEF more
  <2>6. more = [i \in 1..m |-> IF i = 1 THEN seqs[i] ELSE more[i - 1] \o seqs[i]]
    BY <2>4, <2>5
  <2>7. Upto(m)
    BY <2>6
  <2> QED
    BY <1>2, <2>7
<1> QED
  BY <1>3, <1>4

\* FlattenSeq puts lists one after the other.
LEMMA FlattenUnfolds ==
  ASSUME NEW S, NEW seqs \in Seq(S), seqs # <<>>
  PROVE  \E flat : /\ flat = [i \in 1..Len(seqs) |->
                        IF i = 1 THEN seqs[i] ELSE flat[i - 1] \o seqs[i]]
                   /\ FlattenSeq(seqs) = flat[Len(seqs)]
<1>1. Len(seqs) \in Nat /\ Len(seqs) # 0
  OBVIOUS
<1> DEFINE flatten == CHOOSE flat : flat = [i \in 1..Len(seqs) |->
                        IF i = 1 THEN seqs[i] ELSE flat[i - 1] \o seqs[i]]
<1>2. FlattenSeq(seqs) = flatten[Len(seqs)]
  BY <1>1 DEF FlattenSeq
<1>3. \E flat : flat = [i \in 1..Len(seqs) |->
                   IF i = 1 THEN seqs[i] ELSE flat[i - 1] \o seqs[i]]
  BY <1>1, FlattenExists
<1>4. flatten = [i \in 1..Len(seqs) |->
                   IF i = 1 THEN seqs[i] ELSE flatten[i - 1] \o seqs[i]]
  BY <1>3
<1> HIDE DEF flatten
<1> QED
  BY <1>2, <1>4

\* Replacing each occurrence of a line that occurs once is putting what replaces it
\* between what comes before and after it.
LEMMA ReplacedOnce ==
  ASSUME NEW lines \in Seq(Lines), NEW old, NEW k \in DOMAIN lines, NEW ins \in Seq(Lines),
         \A i \in DOMAIN lines : lines[i] = old <=> i = k
  PROVE  FlattenSeq([i \in DOMAIN lines |-> IF lines[i] = old THEN ins ELSE <<lines[i]>>])
           = SubSeq(lines, 1, k - 1) \o ins \o SubSeq(lines, k + 1, Len(lines))
<1> DEFINE seqs == [i \in DOMAIN lines |-> IF lines[i] = old THEN ins ELSE <<lines[i]>>]
           head == SubSeq(lines, 1, k - 1)
           So(n) == IF n < k THEN SubSeq(lines, 1, n)
                    ELSE head \o ins \o SubSeq(lines, k + 1, n)
<1>0. \A s, t, u \in Seq(Lines) : (s \o t) \o u = s \o (t \o u)
  BY ConcatAssociative
<1>1. Len(lines) \in Nat /\ DOMAIN lines = 1..Len(lines) /\ k \in 1..Len(lines)
  OBVIOUS
<1>2. \A i \in DOMAIN lines : <<lines[i]>> \in Seq(Lines)
  OBVIOUS
<1>3. seqs \in Seq(Seq(Lines)) /\ Len(seqs) = Len(lines) /\ seqs # <<>>
  <2>1. seqs \in [1..Len(lines) -> Seq(Lines)]
    BY <1>1, <1>2
  <2> HIDE DEF seqs
  <2> QED
    BY <1>1, <2>1
<1>4. PICK flat : /\ flat = [i \in 1..Len(seqs) |->
                        IF i = 1 THEN seqs[i] ELSE flat[i - 1] \o seqs[i]]
                  /\ FlattenSeq(seqs) = flat[Len(seqs)]
  BY <1>3, FlattenUnfolds
<1>5. \A i \in 1..Len(lines) :
        /\ i # k => seqs[i] = <<lines[i]>>
        /\ i = k => seqs[i] = ins
  BY <1>1
<1> HIDE DEF seqs
<1>6. \A n \in 0..Len(lines) : SubSeq(lines, 1, n) \in Seq(Lines)
  <2>1. ASSUME NEW n \in 0..Len(lines)
        PROVE  SubSeq(lines, 1, n) \in Seq(Lines)
    <3>1. 1 \in Int /\ n \in Int /\ \A i \in 1..n : lines[i] \in Lines
      BY <1>1
    <3> QED
      BY <3>1, SubSeqProperties
  <2> QED
    BY <2>1
<1>7. ASSUME NEW n \in 1..Len(lines)
      PROVE  SubSeq(lines, 1, n) = SubSeq(lines, 1, n - 1) \o <<lines[n]>>
  BY <1>1
<1>8. ASSUME NEW n \in (k + 1)..Len(lines)
      PROVE  /\ SubSeq(lines, k + 1, n) = SubSeq(lines, k + 1, n - 1) \o <<lines[n]>>
             /\ SubSeq(lines, k + 1, n - 1) \in Seq(Lines)
  <2>1. /\ k + 1 \in 1..Len(lines) /\ k + 1 \in Int /\ n - 1 \in Int
        /\ \A i \in (k + 1)..(n - 1) : lines[i] \in Lines
    BY <1>1
  <2>2. SubSeq(lines, k + 1, n - 1) \in Seq(Lines)
    BY <2>1, SubSeqProperties
  <2>3. SubSeq(lines, k + 1, n) = SubSeq(lines, k + 1, n - 1) \o <<lines[n]>>
    BY <2>1, SubSeqRecursiveSecond
  <2> QED
    BY <2>2, <2>3
<1>9. head \in Seq(Lines)
  BY <1>1, <1>6
<1> HIDE DEF head
<1>10. ASSUME NEW n \in 1..Len(lines)
       PROVE  So(n) = IF n = 1 THEN seqs[n] ELSE So(n - 1) \o seqs[n]
  <2>1. CASE n < k
    <3>1. So(n) = SubSeq(lines, 1, n) /\ (n # 1 => So(n - 1) = SubSeq(lines, 1, n - 1))
      BY <1>1, <2>1
    <3>2. seqs[n] = <<lines[n]>>
      BY <1>1, <1>5, <2>1
    <3>3. n = 1 => SubSeq(lines, 1, n) = <<lines[n]>>
      <4>1. ASSUME n = 1
            PROVE  SubSeq(lines, 1, n) = <<lines[n]>>
        <5>1. SubSeq(lines, 1, n) = SubSeq(lines, 1, 0) \o <<lines[n]>>
          BY <1>7, <4>1
        <5>2. SubSeq(lines, 1, 0) = <<>>
          BY SubSeqEmpty
        <5> QED
          BY <1>1, <1>2, <4>1, <5>1, <5>2, ConcatEmptySeq
      <4> QED
        BY <4>1
    <3> QED
      BY <1>7, <3>1, <3>2, <3>3
  <2>2. CASE n = k
    <3>1. So(n) = head \o ins \o SubSeq(lines, k + 1, k) /\ seqs[n] = ins
      BY <1>1, <1>5, <2>2
    <3>2. SubSeq(lines, k + 1, k) = <<>>
      BY <1>1
    <3>3. So(n) = head \o ins
      <4>1. head \o ins \in Seq(Lines)
        BY <1>9, ConcatProperties
      <4>2. So(n) = (head \o ins) \o <<>>
        BY <3>1, <3>2
      <4> QED
        BY <4>1, <4>2, ConcatEmptySeq
    <3>4. n = 1 => head = <<>>
      <4>1. SubSeq(lines, 1, 0) = <<>>
        BY SubSeqEmpty
      <4> QED
        BY <1>1, <2>2, <4>1 DEF head
    <3>5. n # 1 => So(n - 1) = head
      BY <1>1, <2>2 DEF head
    <3>6. n = 1 => So(n) = ins
      <4>1. <<>> \o ins = ins
        BY ConcatEmptySeq
      <4> QED
        BY <3>3, <3>4, <4>1
    <3> HIDE DEF So
    <3> QED
      BY <3>1, <3>3, <3>5, <3>6
  <2>3. CASE n > k
    <3>1. /\ So(n) = head \o ins \o SubSeq(lines, k + 1, n)
          /\ So(n - 1) = head \o ins \o SubSeq(lines, k + 1, n - 1)
          /\ n # 1 /\ seqs[n] = <<lines[n]>>
      <4>1. n \in Int /\ k \in Int /\ ~(n < k) /\ ~(n - 1 < k) /\ n # 1 /\ n # k
        BY <1>1, <2>3
      <4>2. seqs[n] = <<lines[n]>>
        BY <1>5, <4>1
      <4> QED
        BY <4>1, <4>2
    <3>2. n \in (k + 1)..Len(lines)
      BY <1>1, <2>3
    <3>3. <<lines[n]>> \in Seq(Lines)
      BY <1>1, <1>2
    <3>4. head \o ins \in Seq(Lines)
      BY <1>9, ConcatProperties
    <3> DEFINE front == head \o ins
                 rest == SubSeq(lines, k + 1, n - 1)
                 tail == <<lines[n]>>
    <3>5. /\ SubSeq(lines, k + 1, n) = SubSeq(lines, k + 1, n - 1) \o <<lines[n]>>
          /\ SubSeq(lines, k + 1, n - 1) \in Seq(Lines)
      BY <1>8, <3>2
    <3>6. front \in Seq(Lines) /\ rest \in Seq(Lines) /\ tail \in Seq(Lines)
      BY <3>3, <3>4, <3>5
    <3>7. /\ So(n) = front \o (rest \o tail) /\ So(n - 1) = front \o rest
          /\ n # 1 /\ seqs[n] = tail
      BY <3>1, <3>5
    <3> HIDE DEF So, front, rest, tail
    <3>8. (front \o rest) \o tail = front \o (rest \o tail)
      BY <3>6, <1>0
    <3> QED
      BY <3>7, <3>8
  <2> QED
    BY <1>1, <2>1, <2>2, <2>3
<1> HIDE DEF So
<1>11. flat[Len(lines)] = So(Len(lines))
  <2> DEFINE bad == {n \in 1..Len(lines) : flat[n] # So(n)}
  <2>0. bad \subseteq Nat
    BY <1>1
  <2>1. SUFFICES ASSUME bad # {}
                 PROVE  FALSE
    BY <1>1
  <2>2. PICK n \in bad : \A j \in bad : ~ (j < n)
    BY <2>0, <2>1, LeastNumber
  <2>3. n \in 1..Len(lines) /\ flat[n] # So(n)
    BY <2>2
  <2>4. flat[n] = IF n = 1 THEN seqs[n] ELSE flat[n - 1] \o seqs[n]
    BY <1>3, <1>4, <2>3
  <2>5. n # 1 => flat[n - 1] = So(n - 1)
    BY <1>1, <2>2, <2>3
  <2> QED
    BY <1>10, <2>3, <2>4, <2>5
<1>12. FlattenSeq(seqs) = So(Len(lines))
  BY <1>3, <1>4, <1>11
<1>13. So(Len(lines)) = head \o ins \o SubSeq(lines, k + 1, Len(lines))
  <2>1. ~(Len(lines) < k)
    BY <1>1
  <2> QED
    BY <2>1 DEF So
<1> QED
  BY <1>12, <1>13 DEF head, seqs

\* A file is not one that cannot be.
LEMMA FileIsPossible ==
  ASSUME NEW t \in GrownTrees, NEW p \in Paths
  PROVE  t[p] # NoFile
BY NoFileAssumption DEF GrownTrees, Trees, File, NoFile

\* An edit that can be made makes of its file what is wanted of it, and leaves the others.
LEMMA AppliedIsWanted ==
  ASSUME NEW t \in GrownTrees, NEW e \in Edits, EditFails(t, e) = "no"
  PROVE  /\ Applied(t, e)[e.path] = Rewritten(t[e.path], e)
         /\ \A p \in Paths : p # e.path => Applied(t, e)[p] = t[p]
<1> DEFINE file == t[e.path]
           i == CHOOSE k \in Occurrences(file, e.old) : TRUE
           next == IF file = Missing THEN [eol |-> "lf", lines |-> LinesOf(e.new)]
                   ELSE [eol |-> "lf",
                         lines |-> SubSeq(file.lines, 1, i - 1) \o LinesOf(e.new)
                                     \o SubSeq(file.lines, i + 1, Len(file.lines))]
<1>1. e.path \in Paths /\ e.new \in Texts /\ t \in Trees /\ file \in File \union {Missing}
  BY DEF Edits, GrownTrees, Trees
<1>2. LinesOf(e.new) \in Seq(Lines)
  BY <1>1 DEF LinesOf, Texts
<1>3. file # NoFile /\ e.path \notin UnsafePaths
  BY <1>1, FileIsPossible DEF EditFails
<1>4. next = Rewritten(file, e)
  <2>1. CASE file = Missing
    BY <1>3, <2>1 DEF Rewritten, EditFails
  <2>2. CASE file # Missing
    <3>1. file.lines \in Seq(Lines)
      BY <1>1, <2>2 DEF File
    <3>2. /\ e.path \notin Unreadable
          /\ \E k \in Occurrences(file, e.old) : Occurrences(file, e.old) = {k}
      BY <1>3, <2>2 DEF EditFails
    <3>3. Occurrences(file, e.old) = {i}
      BY <3>2
    <3> HIDE DEF i, file
    <3>4. Cardinality(Occurrences(file, e.old)) = 1
      BY <3>3, FS_Singleton
    <3>5. i \in DOMAIN file.lines /\ \A k \in DOMAIN file.lines : file.lines[k] = e.old <=> k = i
      BY <3>3 DEF Occurrences
    <3>6. FlattenSeq([k \in DOMAIN file.lines |->
                        IF file.lines[k] = e.old THEN LinesOf(e.new) ELSE <<file.lines[k]>>])
            = SubSeq(file.lines, 1, i - 1) \o LinesOf(e.new)
                \o SubSeq(file.lines, i + 1, Len(file.lines))
      BY <1>2, <3>1, <3>5, ReplacedOnce
    <3> QED
      BY <1>3, <2>2, <3>2, <3>4, <3>6 DEF Rewritten
  <2> QED
    BY <2>1, <2>2
<1>5. Applied(t, e) = [t EXCEPT ![e.path] = next]
  BY DEF Applied
<1> HIDE DEF next
<1> QED
  BY <1>1, <1>4, <1>5 DEF Trees

\* An edit that cannot be made asks for a file that cannot be.
LEMMA FailsIsImpossible ==
  ASSUME NEW t \in GrownTrees, NEW e \in Edits, EditFails(t, e) # "no"
  PROVE  Rewritten(t[e.path], e) = NoFile
<1> DEFINE file == t[e.path]
<1>1. e.path \in Paths /\ file \in File \union {Missing}
  BY DEF Edits, GrownTrees, Trees
<1>2. CASE e.path \in UnsafePaths \/ file = Missing
  BY <1>2 DEF EditFails, Rewritten
<1>3. CASE e.path \notin UnsafePaths /\ file # Missing /\ e.path \in Unreadable
  BY <1>3 DEF Rewritten
<1>4. CASE e.path \notin UnsafePaths /\ file # Missing /\ e.path \notin Unreadable
  <2> DEFINE places == Occurrences(file, e.old)
  <2>1. file.lines \in Seq(Lines)
    BY <1>1, <1>4 DEF File
  <2>2. e.old = NoText => places = {}
    BY <2>1, BaseAssumption DEF Occurrences
  <2>3. ~ \E k \in places : places = {k}
    BY <1>4, <2>2 DEF EditFails
  <2>4. IsFiniteSet(places)
    <3>1. DOMAIN file.lines = 1..Len(file.lines) /\ Len(file.lines) \in Nat
      BY <2>1
    <3>2. places \subseteq 1..Len(file.lines)
      BY <3>1 DEF Occurrences
    <3>3. IsFiniteSet(1..Len(file.lines))
      BY <3>1, FS_Interval
    <3> QED
      BY <3>2, <3>3, FS_Subset
  <2> HIDE DEF places
  <2>5. Cardinality(places) # 1
    BY <2>3, <2>4, FS_Singleton
  <2> QED
    BY <1>4, <2>5 DEF Rewritten, places
<1> QED
  BY <1>2, <1>3, <1>4

\* As long as no edit has failed, every file is what is wanted of it; when one has,
\* some file cannot be.
LEMMA EditedIsWanted ==
  ASSUME NEW edits \in Seq(Edits)
  PROVE  LET done == Edited(edits)
         IN  /\ done.failed = "no" =>
                  \A p \in Paths : WantedFile(p, edits)[Len(edits)] = done.tree[p]
             /\ done.failed # "no" => Impossible(edits)
<1> DEFINE done == EditedUpTo(edits)
           Agrees(n) == IF done[n].failed = "no"
                        THEN \A p \in Paths : WantedFile(p, edits)[n] = done[n].tree[p]
                        ELSE \E p \in Paths : WantedFile(p, edits)[n] = NoFile
           bad == {n \in 0..Len(edits) : ~Agrees(n)}
<1>1. done = [n \in 0..Len(edits) |-> IF n = 0 THEN Start ELSE AfterEdit(done[n - 1], edits[n])]
  BY EditedUpToUnfolds
<1>2. Len(edits) \in Nat /\ bad \subseteq Nat
  OBVIOUS
<1>3. \A n \in 0..Len(edits) : done[n] \in Outcomes
  BY EditedUpToIsOutcome
<1>4. \A p \in Paths :
        /\ WantedFile(p, edits)[0] = Base[p]
        /\ \A n \in 1..Len(edits) : WantedFile(p, edits)[n] =
             IF edits[n].path = p THEN Rewritten(WantedFile(p, edits)[n - 1], edits[n])
             ELSE WantedFile(p, edits)[n - 1]
  BY <1>2, WantedFileUnfolds
<1> HIDE DEF done
<1>5. bad = {}
  <2>1. SUFFICES ASSUME bad # {}
                 PROVE  FALSE
    OBVIOUS
  <2>2. PICK n \in bad : \A j \in bad : ~ (j < n)
    BY <1>2, <2>1, LeastNumber
  <2>3. n \in 0..Len(edits) /\ ~Agrees(n)
    BY <2>2
  <2>4. n # 0
    BY <1>1, <1>2, <1>4, <2>3 DEF Start
  <2> DEFINE t == done[n - 1].tree
             e == edits[n]
  <2>5. n - 1 \in 0..Len(edits) /\ n - 1 < n /\ n \in 1..Len(edits) /\ e \in Edits
    BY <1>2, <2>3, <2>4
  <2>6. Agrees(n - 1)
    BY <2>2, <2>5
  <2>7. done[n] = AfterEdit(done[n - 1], e) /\ done[n - 1] \in Outcomes
    BY <1>1, <1>3, <2>4, <2>5
  <2>8. e.path \in Paths /\ t \in GrownTrees
    BY <2>5, <2>7 DEF Edits, Outcomes
  <2>9. CASE done[n - 1].failed # "no"
    <3>1. done[n].failed # "no"
      BY <2>7, <2>9 DEF AfterEdit
    <3>2. PICK p \in Paths : WantedFile(p, edits)[n - 1] = NoFile
      BY <2>6, <2>9
    <3>3. WantedFile(p, edits)[n] = NoFile
      BY <1>4, <2>5, <3>2 DEF Rewritten
    <3> QED
      BY <2>3, <3>1, <3>3
  <2>10. CASE done[n - 1].failed = "no" /\ EditFails(t, e) # "no"
    <3>1. done[n].failed # "no"
      BY <2>7, <2>10 DEF AfterEdit, Outcomes
    <3>2. WantedFile(e.path, edits)[n - 1] = t[e.path]
      BY <2>6, <2>8, <2>10
    <3>3. WantedFile(e.path, edits)[n] = NoFile
      BY <1>4, <2>5, <2>8, <2>10, <3>2, FailsIsImpossible
    <3> QED
      BY <2>3, <2>8, <3>1, <3>3
  <2>11. CASE done[n - 1].failed = "no" /\ EditFails(t, e) = "no"
    <3>1. done[n].failed = "no" /\ done[n].tree = Applied(t, e)
      BY <2>7, <2>11 DEF AfterEdit, Outcomes
    <3>2. \A p \in Paths : WantedFile(p, edits)[n - 1] = t[p]
      BY <2>6, <2>11
    <3> HIDE DEF t, e
    <3>3. /\ Applied(t, e)[e.path] = Rewritten(t[e.path], e)
          /\ \A p \in Paths : p # e.path => Applied(t, e)[p] = t[p]
      BY <2>5, <2>8, <2>11, AppliedIsWanted
    <3>4. \A p \in Paths : WantedFile(p, edits)[n] = Applied(t, e)[p]
      BY <1>4, <2>5, <3>2, <3>3 DEF e
    <3> QED
      BY <2>3, <3>1, <3>4
  <2> QED
    BY <2>9, <2>10, <2>11
<1>6. Agrees(Len(edits))
  BY <1>2, <1>5
<1> QED
  BY <1>6 DEF Edited, Impossible, done

\* A plan whose edits can all be made is possible, and is what its edits lead to.
LEMMA EditedOrImpossible ==
  ASSUME NEW edits \in Seq(Edits)
  PROVE  IF Edited(edits).failed = "no"
         THEN ~Impossible(edits) /\ Wanted(edits) = Committed(Edited(edits).tree)
         ELSE Impossible(edits)
<1> DEFINE done == Edited(edits)
<1>1. done \in Outcomes
  BY EditedIsOutcome
<1>2. CASE done.failed # "no"
  BY <1>2, EditedIsWanted
<1>3. CASE done.failed = "no"
  <2>1. done.tree \in GrownTrees
    BY <1>1 DEF Outcomes
  <2>2. \A p \in Paths : WantedFile(p, edits)[Len(edits)] = done.tree[p]
    BY <1>3, EditedIsWanted
  <2> HIDE DEF done
  <2>3. ~Impossible(edits)
    BY <2>1, <2>2, FileIsPossible DEF Impossible
  <2>4. Wanted(edits) = Committed(done.tree)
    BY <2>2 DEF Wanted, Committed
  <2> QED
    BY <1>3, <2>3, <2>4 DEF done
<1> QED
  BY <1>2, <1>3

\* What is committed of a tree is a tree, and no file is taken away.
LEMMA CommittedGrows ==
  ASSUME NEW t \in GrownTrees
  PROVE  Committed(t) \in GrownTrees
BY BaseAssumption DEF Committed, GrownTrees, Trees

\* A verdict is one of three.
LEMMA VerdictType ==
  ASSUME NEW t, NEW scope
  PROVE  Verdict(t, scope) \in {"validated", "review", "rejected"}
BY DEF Verdict

\* A patch that is not rejected applies, stays in its scope and adds no secret line.
LEMMA PassedPatch ==
  ASSUME NEW t \in GrownTrees, NEW scope, Verdict(t, scope) # "rejected"
  PROVE  /\ Changed(t) \subseteq scope
         /\ \A p \in Changed(t) :
              /\ Base[p] = Missing \/ Base[p].eol = "lf"
              /\ \A i \in DOMAIN t[p].lines : t[p].lines[i] \in SecretLines =>
                   Base[p] # Missing /\ t[p].lines[i] \in ToSet(Base[p].lines)
<1>1. Applies(t) /\ Changed(t) \subseteq scope /\ AddedLines(t) \intersect SecretLines = {}
  BY DEF Verdict
<1>2. ASSUME NEW p \in Changed(t), NEW i \in DOMAIN t[p].lines, t[p].lines[i] \in SecretLines
      PROVE  Base[p] # Missing /\ t[p].lines[i] \in ToSet(Base[p].lines)
  <2> DEFINE line == t[p].lines[i]
             had == IF Base[p] = Missing \/ Base[p].eol # t[p].eol THEN {}
                    ELSE Occurrences(Base[p], line)
  <2>1. p \in Paths /\ t[p] \in File /\ Base[p] \in File \union {Missing}
    BY BaseAssumption DEF GrownTrees, Trees, Changed
  <2>2. line \in Lines
    BY <2>1 DEF File
  <2>3. line \notin AddedLines(t)
    BY <1>1, <1>2
  <2>4. ~ (Cardinality(Occurrences(t[p], line)) > Cardinality(had))
    BY <2>2, <2>3 DEF AddedLines
  <2>5. IsFiniteSet(Occurrences(t[p], line)) /\ i \in Occurrences(t[p], line)
    <3>1. t[p].lines \in Seq(Lines)
      BY <2>1 DEF File
    <3>2. DOMAIN t[p].lines = 1..Len(t[p].lines) /\ Len(t[p].lines) \in Nat
      BY <3>1
    <3>3. IsFiniteSet(1..Len(t[p].lines))
      BY <3>2, FS_Interval
    <3>4. Occurrences(t[p], line) \subseteq 1..Len(t[p].lines)
      BY <3>2 DEF Occurrences
    <3> QED
      BY <3>3, <3>4, FS_Subset DEF Occurrences
  <2>6. Cardinality(Occurrences(t[p], line)) # 0 /\ Cardinality(Occurrences(t[p], line)) \in Nat
    BY <2>5, FS_EmptySet, FS_CardinalityType
  <2>7. had # {}
    BY <2>4, <2>6, FS_EmptySet
  <2> HIDE DEF line
  <2>8. Base[p] # Missing /\ Occurrences(Base[p], line) # {}
    BY <2>7
  <2>9. PICK j \in DOMAIN Base[p].lines : Base[p].lines[j] = line
    BY <2>8 DEF Occurrences
  <2> QED
    BY <2>8, <2>9 DEF ToSet, line
<1> QED
  BY <1>1, <1>2 DEF Applies

-----------------------------------------------------------------------------
(***************************************************************************)
(* Questions.                                                              *)
(***************************************************************************)

\* A node asks one or two questions: about the issue before anything is drafted, then
\* for a plan, which is reviewed only when there is one.
LEMMA QuestionsOfOrder ==
  ASSUME NEW r
  PROVE  /\ Len(QuestionsOf(r)) \in 1..2
         /\ \A i \in 1..Len(QuestionsOf(r)) : QuestionsOf(r)[i] \in Questions
         /\ \A i \in 1..Len(QuestionsOf(r)) :
              last[r] = "retrieved" => QuestionsOf(r)[i] \notin {"EditPlan", "PatchReview"}
         /\ QuestionsOf(r)[1] # "PatchReview"
<1> DEFINE s == QuestionsOf(r)
<1>1. \/ last[r] # "retrieved" /\ s = <<"EditPlan", "PatchReview">>
      \/ last[r] # "retrieved" /\ s = <<"EditPlan">>
      \/ s = <<"IssueAnalysis", "_HypothesesResponse">>
      \/ s = <<"_HypothesesResponse">>
  BY DEF QuestionsOf
<1>2. SUFFICES /\ Len(s) \in 1..2
               /\ \A i \in 1..Len(s) : s[i] \in Questions
               /\ \A i \in 1..Len(s) :
                    last[r] = "retrieved" => s[i] \notin {"EditPlan", "PatchReview"}
               /\ s[1] # "PatchReview"
  OBVIOUS
<1> HIDE DEF s
<1>3. CASE last[r] # "retrieved" /\ s = <<"EditPlan", "PatchReview">>
  <2>1. Len(s) = 2 /\ s[1] = "EditPlan" /\ s[2] = "PatchReview"
    BY <1>3
  <2> QED
    BY <1>3, <2>1 DEF Questions
<1>4. CASE last[r] # "retrieved" /\ s = <<"EditPlan">>
  <2>1. Len(s) = 1 /\ s[1] = "EditPlan"
    BY <1>4
  <2> QED
    BY <1>4, <2>1 DEF Questions
<1>5. CASE s = <<"IssueAnalysis", "_HypothesesResponse">>
  <2>1. Len(s) = 2 /\ s[1] = "IssueAnalysis" /\ s[2] = "_HypothesesResponse"
    BY <1>5
  <2> QED
    BY <2>1 DEF Questions
<1>6. CASE s = <<"_HypothesesResponse">>
  <2>1. Len(s) = 1 /\ s[1] = "_HypothesesResponse"
    BY <1>6
  <2> QED
    BY <2>1 DEF Questions
<1> QED
  BY <1>1, <1>3, <1>4, <1>5, <1>6

\* The questions do not change while the node asks them.
LEMMA QuestionsStay ==
  ASSUME NEW r, mode' = mode, last'[r] = last[r]
  PROVE  QuestionsOf(r)' = QuestionsOf(r)
BY DEF QuestionsOf

\* What is known of the questions in one state is known in the next.
LEMMA QuestionsNext ==
  ASSUME NEW r
  PROVE  (Len(QuestionsOf(r)) \in 1..2 /\ QuestionsOf(r)[1] # "PatchReview")'
<1>1. Len(QuestionsOf(r)) \in 1..2 /\ QuestionsOf(r)[1] # "PatchReview"
  BY QuestionsOfOrder
<1> QED
  BY <1>1, PTL

\* A node that asks has a question left; before anything is drafted it asks for no plan.
LEMMA Asks ==
  ASSUME Shape, NEW r \in Runs, Asking(r), At(r, "asking")
  PROVE  /\ asked[r] \in 0..1 /\ asked[r] < Len(QuestionsOf(r))
         /\ Len(QuestionsOf(r)) \in 1..2 /\ Question(r) \in Questions
         /\ Question(r) \in {"EditPlan", "PatchReview"} => last[r] # "retrieved"
<1>1. asked[r] \in 0..1 /\ asked[r] < Len(QuestionsOf(r)) /\ Len(QuestionsOf(r)) \in 1..2
  BY QuestionsOfOrder DEF Shape, Asking
<1>2. asked[r] + 1 \in 1..Len(QuestionsOf(r))
  BY <1>1
<1> QED
  BY <1>1, <1>2, QuestionsOfOrder DEF Question

\* A question that is not the last of two is the first.
LEMMA OneMore ==
  ASSUME NEW n \in 1..2, NEW k \in 0..1, k < n, k + 1 # n
  PROVE  k + 1 \in 0..1 /\ k + 1 < n
OBVIOUS

-----------------------------------------------------------------------------
(***************************************************************************)
(* The shape of the state.                                                 *)
(***************************************************************************)

\* What the model is charged for goes to the run's client and to its bill alike.
LEMMA AnsweredClient ==
  ASSUME NEW c \in Clients, NEW valid, NEW usage
  PROVE  /\ Answered(c, valid, usage) \in Clients
         /\ Answered(c, valid, usage).billed >= c.billed
         /\ c.cost + c.omitted = c.billed =>
              Answered(c, valid, usage).cost + Answered(c, valid, usage).omitted
                = Answered(c, valid, usage).billed
<1>1. CASE c.provider = "fake"
  BY <1>1 DEF Answered, Clients
<1>2. CASE c.provider # "fake"
  <2>1. Answered(c, valid, usage) =
          [provider |-> c.provider, attempt |-> IF valid THEN 0 ELSE 1,
           cost |-> IF usage THEN c.cost + 1 ELSE c.cost, billed |-> c.billed + 1,
           omitted |-> IF usage THEN c.omitted ELSE c.omitted + 1]
    BY <1>2 DEF Answered, Clients
  <2> QED
    BY <2>1 DEF Clients
<1> QED
  BY <1>1, <1>2

\* A charge leaves the clients and the bills in shape.
LEMMA ChargeShape ==
  ASSUME Shape, NEW r \in Runs, NEW valid, NEW usage, Charge(r, valid, usage)
  PROVE  clients' \in [Runs -> Clients] /\ billed' \in [Runs -> Nat]
<1>1. clients[r] \in Clients /\ Answered(clients[r], valid, usage) \in Clients
  BY AnsweredClient DEF Shape
<1>2. clients' = [clients EXCEPT ![r] = Answered(clients[r], valid, usage)]
  BY DEF Charge
<1>3. clients' \in [Runs -> Clients] /\ clients'[r] = Answered(clients[r], valid, usage)
  BY <1>1, <1>2 DEF Shape
<1>4. /\ clients'[r].billed \in Nat /\ clients[r].billed \in Nat
      /\ clients'[r].billed >= clients[r].billed
  BY <1>1, <1>3, AnsweredClient DEF Clients
<1>5. billed' = [billed EXCEPT ![r] = billed[r] + (clients'[r].billed - clients[r].billed)]
  BY DEF Charge
<1> QED
  BY <1>3, <1>4, <1>5 DEF Shape

\* A charge adds as much to the bill as to what the client reports or leaves out.
LEMMA ChargeIsPaid ==
  ASSUME Shape, EveryAnswerIsPaid, NEW r \in Runs, NEW valid, NEW usage,
         Charge(r, valid, usage)
  PROVE  EveryAnswerIsPaid'
<1>1. clients[r] \in Clients /\ Answered(clients[r], valid, usage) \in Clients
  BY AnsweredClient DEF Shape
<1>2. clients' = [clients EXCEPT ![r] = Answered(clients[r], valid, usage)]
  BY DEF Charge
<1>3. clients'[r] = Answered(clients[r], valid, usage)
  BY <1>2 DEF Shape
<1>4. clients'[r].cost + clients'[r].omitted = clients'[r].billed
  BY <1>1, <1>3, AnsweredClient DEF EveryAnswerIsPaid
<1>5. /\ clients'[r].billed \in Nat /\ clients[r].billed \in Nat /\ billed[r] \in Nat
      /\ clients[r].billed <= billed[r]
  BY <1>1, <1>3 DEF Clients, Shape, EveryAnswerIsPaid
<1>6. billed' = [billed EXCEPT ![r] = billed[r] + (clients'[r].billed - clients[r].billed)]
  BY DEF Charge
<1>7. clients'[r].billed <= billed'[r]
  BY <1>5, <1>6 DEF Shape
<1>8. \A q \in Runs \ {r} : clients'[q] = clients[q] /\ billed'[q] = billed[q]
  BY <1>2, <1>6 DEF Shape
<1> QED
  BY <1>4, <1>7, <1>8 DEF EveryAnswerIsPaid

\* A further draft, or none, leaves what a run keeps of its attempts in shape.
LEMMA ReviseShape ==
  ASSUME Shape, NEW r \in Runs, NEW used, ReviseOrPersist(r, used)
  PROVE  /\ stage' \in [Runs -> Stages] /\ asked' \in [Runs -> 0..1]
         /\ drafts' \in [Runs -> Nat \ {0}]
<1>1. CASE used < MaxRevisions
  <2>1. /\ drafts' = [drafts EXCEPT ![r] = drafts[r] + 1] /\ drafts[r] + 1 \in Nat \ {0}
        /\ asked' = [asked EXCEPT ![r] = 0] /\ stage' = [stage EXCEPT ![r] = "asking"]
    BY <1>1 DEF ReviseOrPersist, Goto, Shape
  <2>2. drafts' \in [Runs -> Nat \ {0}]
    BY <2>1 DEF Shape
  <2>3. asked' \in [Runs -> 0..1]
    BY <2>1 DEF Shape
  <2>4. stage' \in [Runs -> Stages]
    BY <2>1 DEF Shape, Stages
  <2> QED
    BY <2>2, <2>3, <2>4
<1>2. CASE ~ (used < MaxRevisions)
  BY <1>2 DEF ReviseOrPersist, Shape, Goto, Stages
<1> QED
  BY <1>1, <1>2

\* After an answer the next question is asked, or the plan is tried.
LEMMA ProceedShape ==
  ASSUME Shape, NEW r \in Runs, Asking(r), At(r, "asking"), Proceed(r)
  PROVE  stage' \in [Runs -> Stages] /\ asked' \in [Runs -> 0..1]
<1>1. asked[r] \in 0..1 /\ asked[r] < Len(QuestionsOf(r)) /\ Len(QuestionsOf(r)) \in 1..2
  BY Asks
<1>2. CASE LastQuestion(r)
  BY <1>2 DEF Proceed, Goto, Shape, Stages
<1>3. CASE ~LastQuestion(r)
  <2>0. asked[r] + 1 # Len(QuestionsOf(r))
    BY <1>3 DEF LastQuestion
  <2>1. asked[r] + 1 \in 0..1
    BY <1>1, <2>0, OneMore
  <2> QED
    BY <1>3, <2>1 DEF Proceed, Shape
<1> QED
  BY <1>2, <1>3

\* A draft that returns is counted within the budget, if it is a revision.
LEMMA ReturnShape ==
  ASSUME Shape, NEW r \in Runs, Asking(r), stage[r] \in Working \union {"asking"},
         last[r] # "retrieved", NEW outcome \in Patches \union {Missing},
         ReturnDraft(r, outcome)
  PROVE  /\ last' \in [Runs -> Returned] /\ revised' \in [Runs -> 0..MaxRevisions]
         /\ patch' \in [Runs -> Patches \union {Missing}]
<1>1. MaxRevisions \in Nat /\ revised[r] \in 0..MaxRevisions
  BY DraftingAssumption DEF Shape
<1>2. Used(r) \in 0..MaxRevisions
  BY <1>1 DEF Used, Asking
<1> QED
  BY <1>2 DEF ReturnDraft, Return, Shape, Returned

\* Wherever a run is taken up again, what it keeps of its attempts stays in shape.
LEMMA FollowShape ==
  ASSUME Shape, NEW r \in Runs, NEW d, Follow(r, d)
  PROVE  /\ stage' \in [Runs -> Stages] /\ asked' \in [Runs -> 0..1]
         /\ drafts' \in [Runs -> Nat \ {0}] /\ last' \in [Runs -> Returned]
<1>1. ASSUME NEW s \in Stages, Again(r, s)
      PROVE  /\ stage' \in [Runs -> Stages] /\ asked' \in [Runs -> 0..1]
             /\ drafts' \in [Runs -> Nat \ {0}] /\ last' \in [Runs -> Returned]
  <2>1. /\ drafts' = [drafts EXCEPT ![r] = drafts[r] + 1] /\ drafts[r] + 1 \in Nat \ {0}
        /\ asked' = [asked EXCEPT ![r] = 0] /\ stage' = [stage EXCEPT ![r] = s]
        /\ last' = last
    BY <1>1 DEF Again, Goto, Shape
  <2>2. drafts' \in [Runs -> Nat \ {0}]
    BY <2>1 DEF Shape
  <2> QED
    BY <2>1, <2>2 DEF Shape
<1>2. ASSUME NEW n \in Returned, Return(r, n)
      PROVE  last' \in [Runs -> Returned]
  BY <1>2 DEF Return, Shape
<1>3. ASSUME AfterRuling(r, d)
      PROVE  /\ stage' \in [Runs -> Stages] /\ asked' \in [Runs -> 0..1]
             /\ drafts' \in [Runs -> Nat \ {0}] /\ last' \in [Runs -> Returned]
  <2>1. last' \in [Runs -> Returned]
    BY <1>2, <1>3 DEF AfterRuling, Returned
  <2>2. CASE ReviseOrPersist(r, revised[r])
    BY <2>1, <2>2, ReviseShape
  <2>3. CASE Goto(r, "finishing") /\ UNCHANGED <<drafts, asked>>
    BY <2>1, <2>3 DEF Goto, Shape, Stages
  <2> QED
    BY <1>3, <2>2, <2>3 DEF AfterRuling
<1>4. CASE ReviseOrPersist(r, revised[r]) /\ UNCHANGED last
  BY <1>4, ReviseShape DEF Shape
<1>5. CASE Goto(r, "finishing") /\ UNCHANGED <<last, drafts, asked>>
  BY <1>5 DEF Goto, Shape, Stages
<1>6. "asking" \in Stages /\ "cloning" \in Stages
  BY DEF Stages
<1> QED
  BY <1>1, <1>3, <1>4, <1>5, <1>6 DEF Follow

\* What was committed and what was judged are a patch and a report.
LEMMA CommitIsPatch ==
  ASSUME Shape, NEW r \in Runs, plan[r] # Missing
  PROVE  /\ [by |-> drafts[r], plan |-> plan[r], tree |-> Committed(tree[r])] \in Patches
         /\ [by |-> drafts[r], plan |-> plan[r], tree |-> Committed(tree[r])] # Missing
<1>1. tree[r] \in GrownTrees /\ drafts[r] \in Nat \ {0} /\ plan[r] \in EditPlan
  BY DEF Shape
<1>2. Committed(tree[r]) \in Trees /\ Committed(tree[r]) \in GrownTrees
  BY <1>1, CommittedGrows DEF GrownTrees
<1>3. [by |-> drafts[r], plan |-> plan[r], tree |-> Committed(tree[r])] \in PatchArtifact
  BY <1>1, <1>2 DEF PatchArtifact
<1> QED
  BY <1>2, <1>3, MissingAssumption DEF Patches

\* So is what a check says of a patch.
LEMMA JudgedIsReport ==
  ASSUME Shape, NEW r \in Runs, patch[r] # Missing, NEW scope
  PROVE  /\ [of |-> patch[r].by, verdict |-> Verdict(patch[r].tree, scope)] \in ValidationReport
         /\ [of |-> patch[r].by, verdict |-> Verdict(patch[r].tree, scope)] # Missing
<1>1. patch[r].by \in Nat \ {0}
  BY DEF Shape, Patches, PatchArtifact
<1>2. [of |-> patch[r].by, verdict |-> Verdict(patch[r].tree, scope)] \in ValidationReport
  BY <1>1, VerdictType DEF ValidationReport
<1> QED
  BY <1>2, MissingAssumption

\* The stages an artifact is kept in are none of the others.
LEMMA KeepingStages ==
  ASSUME NEW a \in Artifacts
  PROVE  \/ /\ a = "patch" /\ Saving[a] = "saving patch"
            /\ Recording[a] = "recording patch"
         \/ /\ a = "validation" /\ Saving[a] = "saving validation"
            /\ Recording[a] = "recording validation"
         \/ a = "run" /\ Saving[a] = "saving run" /\ Recording[a] = "recording run"
<1>1. CASE a = "patch"
  BY <1>1 DEF Saving, Recording
<1>2. CASE a = "validation"
  BY <1>2 DEF Saving, Recording
<1>3. CASE a = "run"
  BY <1>3 DEF Saving, Recording
<1> QED
  BY <1>1, <1>2, <1>3 DEF Artifacts

\* Of every artifact that is about to be written it is known which draft it is of.
LEMMA ContentIsNumber ==
  ASSUME Shape, NEW r \in Runs, NEW a \in Artifacts, Written(r),
         At(r, Saving[a]) \/ At(r, Recording[a])
  PROVE  Content(r, a) \in Nat /\ Saving[a] \in Stages /\ Recording[a] \in Stages
<1>1. CASE a = "patch"
  <2>1. stage[r] \in {"saving patch", "recording patch"}
    BY <1>1 DEF At, Saving, Recording
  <2>2. patch[r].by \in Nat
    BY <2>1 DEF Written, Shape, Patches, PatchArtifact
  <2> QED
    BY <1>1, <2>2 DEF Content, Saving, Recording, Stages
<1>2. CASE a = "validation"
  <2>1. stage[r] \in {"saving validation", "recording validation"}
    BY <1>2 DEF At, Saving, Recording
  <2>2. report[r].of \in Nat
    BY <2>1 DEF Written, Shape, ValidationReport
  <2> QED
    BY <1>2, <2>2 DEF Content, Saving, Recording, Stages
<1>3. CASE a = "run"
  <2>1. drafts[r] \in Nat
    BY DEF Shape
  <2> QED
    BY <1>3, <2>1 DEF Content, Saving, Recording, Stages
<1> QED
  BY <1>1, <1>2, <1>3 DEF Artifacts

\* The commit is a tree, and a plan leads to one.
LEMMA BaseGrows == Base \in GrownTrees
BY BaseAssumption DEF GrownTrees

\* What the edits of a run's plan lead to is a tree.
LEMMA PlanIsEdited ==
  ASSUME Shape, NEW r \in Runs, plan[r] # Missing
  PROVE  plan[r] \in EditPlan /\ Edited(plan[r].edits) \in Outcomes
<1>1. plan[r] \in EditPlan
  BY DEF Shape
<1>2. plan[r].edits \in Seq(Edits)
  BY <1>1 DEF EditPlan
<1> QED
  BY <1>1, <1>2, EditedIsOutcome

\* A client that was just built is one.
LEMMA NewClientIsClient ==
  ASSUME NEW r \in Runs
  PROVE  NewClient(Provider[r]) \in Clients
BY DraftingAssumption DEF NewClient, Clients


\* Every step keeps the runs in shape.
LEMMA ShapeStep ==
  ASSUME IInv, NEW r \in Runs, Step(r)
  PROVE  Shape'
<1>0. Shape /\ Asking(r) /\ Fresh(r) /\ Written(r) /\ JudgedSoFar(r)
  BY DEF IInv, Own
<1>1. ASSUME Analysis(r)
      PROVE  Shape'
  <2>1. /\ asked[r] \in 0..1 /\ asked[r] < Len(QuestionsOf(r)) /\ Len(QuestionsOf(r)) \in 1..2
        /\ clients' \in [Runs -> Clients] /\ billed' \in [Runs -> Nat]
    BY <1>0, <1>1, Asks, ChargeShape DEF Analysis, ValidAnswer
  <2>2. CASE LastQuestion(r)
    <3>1. asked' = [asked EXCEPT ![r] = 0] /\ last' = [last EXCEPT ![r] = "discovered"]
      BY <1>1, <2>2 DEF Analysis, Return
    <3>2. asked' \in [Runs -> 0..1]
      BY <1>0, <3>1 DEF Shape
    <3>3. last' \in [Runs -> Returned]
      BY <1>0, <3>1 DEF Shape, Returned
    <3> QED
      BY <1>0, <1>1, <2>1, <3>2, <3>3 DEF Analysis, Shape, keptVars
  <2>3. CASE ~LastQuestion(r)
    <3>0. asked[r] + 1 # Len(QuestionsOf(r))
      BY <2>3 DEF LastQuestion
    <3>1. asked[r] + 1 \in 0..1
      BY <2>1, <3>0, OneMore
    <3>2. asked' = [asked EXCEPT ![r] = asked[r] + 1] /\ UNCHANGED last
      BY <1>1, <2>3 DEF Analysis
    <3>3. asked' \in [Runs -> 0..1]
      BY <1>0, <3>1, <3>2 DEF Shape
    <3> QED
      BY <1>0, <1>1, <2>1, <3>2, <3>3 DEF Analysis, Shape, keptVars
  <2> QED
    BY <2>2, <2>3
<1>2. ASSUME ProposeEdits(r)
      PROVE  Shape'
  <2>1. PICK p \in Plans[r] : plan' = [plan EXCEPT ![r] = p]
    BY <1>2 DEF ProposeEdits
  <2>2. p \in EditPlan
    BY DraftingAssumption
  <2>3. clients' \in [Runs -> Clients] /\ billed' \in [Runs -> Nat]
    BY <1>0, <1>2, ChargeShape DEF ProposeEdits, ValidAnswer
  <2>4. stage' \in [Runs -> Stages] /\ asked' \in [Runs -> 0..1]
    BY <1>0, <1>2, ProceedShape DEF ProposeEdits
  <2>5. plan' \in [Runs -> EditPlan \union {Missing}]
    BY <1>0, <2>1, <2>2 DEF Shape
  <2> QED
    BY <1>0, <1>2, <2>3, <2>4, <2>5 DEF ProposeEdits, Shape, graphVars, keptVars
<1>3. ASSUME Review(r)
      PROVE  Shape'
  <2>1. /\ clients' \in [Runs -> Clients] /\ billed' \in [Runs -> Nat]
        /\ last[r] # "retrieved" /\ stage[r] = "asking"
    BY <1>0, <1>3, ChargeShape, Asks DEF Review, ValidAnswer, At
  <2>2. CASE Proceed(r) /\ UNCHANGED <<graphVars, drafts, patch>>
    BY <1>0, <1>3, <2>1, <2>2, ProceedShape DEF Review, Shape, graphVars, keptVars
  <2>3. CASE ReturnDraft(r, Missing) /\ ReviseOrPersist(r, Used(r))
    <3>1. /\ last' \in [Runs -> Returned] /\ revised' \in [Runs -> 0..MaxRevisions]
          /\ patch' \in [Runs -> Patches \union {Missing}]
      BY <1>0, <2>1, <2>3, ReturnShape
    <3>2. /\ stage' \in [Runs -> Stages] /\ asked' \in [Runs -> 0..1]
          /\ drafts' \in [Runs -> Nat \ {0}]
      BY <1>0, <2>3, ReviseShape
    <3> QED
      BY <1>0, <1>3, <2>1, <3>1, <3>2 DEF Review, Shape, keptVars
  <2> QED
    BY <1>3, <2>2, <2>3 DEF Review
<1>4. ASSUME BadAnswer(r)
      PROVE  Shape'
  BY <1>0, <1>4, ChargeShape DEF BadAnswer, Shape, At, Goto, Stages, graphVars, keptVars
<1>5. ASSUME ProviderFails(r)
      PROVE  Shape'
  BY <1>0, <1>5 DEF ProviderFails, Shape, At, Goto, Stages, graphVars, repoVars, keptVars,
     pastVars
<1>6. ASSUME AddWorktree(r)
      PROVE  Shape'
  <2>1. CASE Attempt(r) \in branches
    BY <1>0, <1>6, <2>1 DEF AddWorktree, Shape, Goto, Stages, modelVars, graphVars, keptVars
  <2>2. CASE Attempt(r) \notin branches
    <3>1. /\ tree' = [tree EXCEPT ![r] = Base] /\ stage' = [stage EXCEPT ![r] = "editing"]
          /\ failure' = failure
      BY <1>6, <2>2 DEF AddWorktree, Goto
    <3>2. tree' \in [Runs -> GrownTrees] /\ stage' \in [Runs -> Stages]
      BY <1>0, <3>1, BaseGrows DEF Shape, Stages
    <3> QED
      BY <1>0, <1>6, <3>1, <3>2 DEF AddWorktree, Shape, modelVars, graphVars, keptVars
  <2> QED
    BY <2>1, <2>2
<1>7. ASSUME ApplyEdits(r)
      PROVE  Shape'
  <2>1. Edited(plan[r].edits) \in Outcomes
    BY <1>0, <1>7, PlanIsEdited DEF ApplyEdits, At, Asking, Working
  <2>2. /\ stage' \in [Runs -> Stages] /\ tree' \in [Runs -> GrownTrees]
        /\ failure' \in [Runs -> {"no", "edit", "read", "git"}]
    BY <1>0, <1>7, <2>1 DEF ApplyEdits, Shape, Goto, Stages, Outcomes
  <2> QED
    BY <1>0, <1>7, <2>2 DEF ApplyEdits, Shape, modelVars, graphVars, keptVars
<1>8. ASSUME Commit(r)
      PROVE  Shape'
  BY <1>0, <1>8 DEF Commit, Shape, At, Goto, Stages, modelVars, graphVars, pastVars,
     repoVars, keptVars
<1>9. ASSUME GitFails(r)
      PROVE  Shape'
  BY <1>0, <1>9 DEF GitFails, Shape, At, Goto, Stages, modelVars, graphVars, pastVars,
     keptVars
<1>10. ASSUME RemoveWorktree(r)
       PROVE  Shape'
  BY <1>0, <1>10 DEF RemoveWorktree, Shape, At, Goto, Stages, modelVars, graphVars,
     pastVars, keptVars
<1>11. ASSUME DeleteBranch(r)
       PROVE  Shape'
  BY <1>0, <1>11 DEF DeleteBranch, Shape, At, Goto, Stages, modelVars, graphVars, pastVars,
     keptVars
<1>12. ASSUME CleanUpFails(r)
       PROVE  Shape'
  BY <1>0, <1>12 DEF CleanUpFails, Shape, At, Goto, Stages, modelVars, graphVars, pastVars,
     repoVars, keptVars
<1>13. ASSUME ClearTemp(r)
       PROVE  Shape'
  <2>1. tree' \in [Runs -> GrownTrees]
    BY <1>0, <1>13, BaseGrows DEF ClearTemp, Shape
  <2>2. stage[r] = "clearing" /\ plan[r] # Missing /\ last[r] # "retrieved"
    BY <1>0, <1>13 DEF ClearTemp, At, Asking, Working
  <2> DEFINE made == [by |-> drafts[r], plan |-> plan[r], tree |-> Committed(tree[r])]
  <2>3. made \in Patches
    BY <1>0, <2>2, CommitIsPatch
  <2> HIDE DEF made
  <2>4. CASE /\ ReturnDraft(r, made) /\ UNCHANGED <<drafts, asked, failure>>
             /\ Goto(r, IF mode[r] = "file" THEN "saving patch" ELSE "cloning")
    <3>1. stage' \in [Runs -> Stages]
      BY <1>0, <2>4 DEF Shape, Goto, Stages
    <3>2. /\ last' \in [Runs -> Returned] /\ revised' \in [Runs -> 0..MaxRevisions]
          /\ patch' \in [Runs -> Patches \union {Missing}]
      BY <1>0, <2>2, <2>3, <2>4, ReturnShape DEF Working
    <3> QED
      BY <1>0, <1>13, <2>1, <2>4, <3>1, <3>2 DEF ClearTemp, Shape, keptVars
  <2>5. CASE /\ ReturnDraft(r, Missing) /\ ReviseOrPersist(r, Used(r))
             /\ failure' = [failure EXCEPT ![r] = "no"]
    <3>1. /\ stage' \in [Runs -> Stages] /\ asked' \in [Runs -> 0..1]
          /\ drafts' \in [Runs -> Nat \ {0}]
      BY <1>0, <2>5, ReviseShape
    <3>2. /\ last' \in [Runs -> Returned] /\ revised' \in [Runs -> 0..MaxRevisions]
          /\ patch' \in [Runs -> Patches \union {Missing}]
      BY <1>0, <2>2, <2>5, ReturnShape DEF Working
    <3>3. failure' \in [Runs -> {"no", "edit", "read", "git"}]
      BY <1>0, <2>5 DEF Shape
    <3> QED
      BY <1>0, <1>13, <2>1, <3>1, <3>2, <3>3 DEF ClearTemp, Shape, keptVars
  <2>6. CASE Goto(r, "raised") /\ UNCHANGED <<graphVars, drafts, asked, failure, patch>>
    BY <1>0, <1>13, <2>1, <2>6 DEF ClearTemp, Shape, Goto, Stages, graphVars, keptVars
  <2> QED
    BY <1>13, <2>4, <2>5, <2>6 DEF ClearTemp, made
<1>14. ASSUME CloneBase(r)
       PROVE  Shape'
  BY <1>0, <1>14 DEF CloneBase, Shape, At, Goto, Stages, draftVars, modelVars, graphVars,
     pastVars, keptVars
<1>15. ASSUME CloneFails(r)
       PROVE  Shape'
  BY <1>0, <1>15 DEF CloneFails, Shape, At, Goto, Stages, draftVars, modelVars, graphVars,
     pastVars, repoVars, keptVars
<1>16. ASSUME Judge(r)
       PROVE  Shape'
  <2> DEFINE rep == [of |-> patch[r].by, verdict |-> Verdict(patch[r].tree, Scope(r))]
  <2>1. rep \in ValidationReport
    BY <1>0, <1>16, JudgedIsReport DEF Judge, At, Fresh
  <2>2. report' = [report EXCEPT ![r] = rep]
    BY <1>16 DEF Judge
  <2> HIDE DEF rep
  <2>3. report' \in [Runs -> ValidationReport \union {Missing}]
    BY <1>0, <2>1, <2>2 DEF Shape
  <2>4. /\ stage' \in [Runs -> Stages] /\ asked' \in [Runs -> 0..1]
        /\ drafts' \in [Runs -> Nat \ {0}]
    <3>1. CASE ReviseOrPersist(r, revised[r])
      BY <1>0, <3>1, ReviseShape
    <3>2. CASE (\E s \in Stages : Goto(r, s)) /\ UNCHANGED <<drafts, asked>>
      BY <1>0, <3>2 DEF Shape, Goto
    <3>3. "saving validation" \in Stages /\ "gate" \in Stages
      BY DEF Stages
    <3> QED
      BY <1>16, <3>1, <3>2, <3>3 DEF Judge
  <2>5. last' \in [Runs -> Returned]
    BY <1>0, <1>16 DEF Judge, Return, Returned, Shape
  <2> QED
    BY <1>0, <1>16, <2>3, <2>4, <2>5 DEF Judge, Shape, keptVars
<1>17. ASSUME Decide(r)
       PROVE  Shape'
  <2>1. PICK d \in {"approve", "reject", "revise"} :
               decision' = [decision EXCEPT ![r] = d] /\ Follow(r, d)
    BY <1>17 DEF Decide
  <2>2. decision' \in [Runs -> Decisions]
    BY <1>0, <2>1 DEF Shape, Decisions
  <2>3. clients' \in [Runs -> Clients]
    BY <1>0, <1>17, NewClientIsClient DEF Decide, Shape
  <2>4. /\ stage' \in [Runs -> Stages] /\ asked' \in [Runs -> 0..1]
        /\ drafts' \in [Runs -> Nat \ {0}] /\ last' \in [Runs -> Returned]
    BY <1>0, <2>1, FollowShape
  <2>5. /\ tree' \in [Runs -> GrownTrees]
        /\ failure' \in [Runs -> {"no", "edit", "read", "git"}]
    BY <1>0, <1>17, BaseGrows DEF Decide, Shape
  <2> QED
    BY <1>0, <1>17, <2>2, <2>3, <2>4, <2>5 DEF Decide, Shape, keptVars
<1>18. ASSUME NEW a \in Artifacts, WriteFile(r, a)
       PROVE  Shape'
  <2>1. Content(r, a) \in Nat /\ Recording[a] \in Stages /\ Saving[a] \in Stages
    BY <1>0, <1>18, ContentIsNumber DEF WriteFile
  <2>2. saved' = [saved EXCEPT ![r] = [saved[r] EXCEPT ![a] = Content(r, a)]]
    BY <1>18 DEF WriteFile
  <2>3. saved[r] \in Counts /\ [saved[r] EXCEPT ![a] = Content(r, a)] \in Counts
    BY <1>0, <2>1 DEF Shape, Counts
  <2>4. saved' \in [Runs -> Counts]
    BY <1>0, <2>2, <2>3 DEF Shape
  <2>5. stage' \in [Runs -> Stages]
    BY <1>0, <1>18, <2>1 DEF WriteFile, Goto, Shape
  <2> QED
    BY <1>0, <1>18, <2>4, <2>5 DEF WriteFile, Shape, draftVars, modelVars, graphVars
<1>19. ASSUME NEW a \in Artifacts, RecordArtifact(r, a)
       PROVE  Shape'
  <2>1. Content(r, a) \in Nat
    BY <1>0, <1>19, ContentIsNumber DEF RecordArtifact
  <2>2. recorded' = [recorded EXCEPT ![r] = [recorded[r] EXCEPT ![a] = Content(r, a)]]
    BY <1>19 DEF RecordArtifact
  <2>3. recorded[r] \in Counts /\ [recorded[r] EXCEPT ![a] = Content(r, a)] \in Counts
    BY <1>0, <2>1 DEF Shape, Counts
  <2>4. recorded' \in [Runs -> Counts]
    BY <1>0, <2>2, <2>3 DEF Shape
  <2>5. {AfterPatch(r), AfterValidation(r), "returning"} \subseteq Stages
    BY DEF AfterPatch, AfterValidation, Stages
  <2>6. stage' \in [Runs -> Stages]
    BY <1>0, <1>19, <2>5 DEF RecordArtifact, Goto, Shape
  <2> QED
    BY <1>0, <1>19, <2>4, <2>6 DEF RecordArtifact, Shape, draftVars, modelVars, graphVars
<1>20. ASSUME FinishRun(r)
       PROVE  Shape'
  <2>1. FinalVerdict(r) \in {"validated", "review", "rejected", "inconclusive"}
    <3>1. report[r] # Missing => report[r].verdict \in {"validated", "review", "rejected"}
      BY <1>0 DEF Shape, ValidationReport
    <3>2. mode[r] = "file" => report[r] # Missing
      BY <1>0, <1>20 DEF FinishRun, At, JudgedSoFar, ReportOfPatch
    <3> QED
      BY <3>1, <3>2 DEF FinalVerdict
  <2>2. clients[r].cost \in Nat
    BY <1>0 DEF Shape, Clients
  <2>3. row' \in [Runs -> RunRow \union {Missing}]
    <3>1. [verdict |-> FinalVerdict(r), cost |-> clients[r].cost] \in RunRow
      BY <2>1, <2>2 DEF RunRow
    <3> QED
      BY <1>0, <1>20, <3>1 DEF FinishRun, Shape
  <2>4. AfterFinish(r) \in Stages
    BY DEF AfterFinish, AfterValidation, Stages
  <2>5. stage' \in [Runs -> Stages]
    BY <1>0, <1>20, <2>4 DEF FinishRun, Goto, Shape
  <2> QED
    BY <1>0, <1>20, <2>3, <2>5 DEF FinishRun, Shape, draftVars, modelVars, graphVars
<1>21. ASSUME EndRun(r)
       PROVE  Shape'
  BY <1>0, <1>21 DEF EndRun, Shape, At, Goto, Stages, draftVars, modelVars, graphVars,
     pastVars, repoVars, keptVars
<1>22. ASSUME Crash(r)
       PROVE  Shape'
  BY <1>0, <1>22 DEF Crash, Shape, At, Goto, Stages, draftVars, modelVars, graphVars,
     pastVars, repoVars, keptVars
<1> QED
  BY <1>1, <1>2, <1>3, <1>4, <1>5, <1>6, <1>7, <1>8, <1>9, <1>10, <1>11, <1>12, <1>13,
     <1>14, <1>15, <1>16, <1>17, <1>18, <1>19, <1>20, <1>21, <1>22 DEF Step, Keep

-----------------------------------------------------------------------------
(***************************************************************************)
(* A step of one run, seen by the others.                                  *)
(***************************************************************************)
SameRun(q) ==
  /\ mode'[q] = mode[q] /\ stage'[q] = stage[q] /\ asked'[q] = asked[q]
  /\ clients'[q] = clients[q] /\ last'[q] = last[q] /\ revised'[q] = revised[q]
  /\ drafts'[q] = drafts[q] /\ plan'[q] = plan[q] /\ tree'[q] = tree[q]
  /\ failure'[q] = failure[q] /\ patch'[q] = patch[q] /\ report'[q] = report[q]
  /\ decision'[q] = decision[q] /\ saved'[q] = saved[q] /\ recorded'[q] = recorded[q]
  /\ row'[q] = row[q] /\ billed'[q] = billed[q] /\ (q \in reopened' <=> q \in reopened)

SameNames(q) ==
  \A n :
    /\ <<q, n>> \in branches' <=> <<q, n>> \in branches
    /\ <<q, n>> \in worktrees' <=> <<q, n>> \in worktrees
    /\ <<q, n>> \in broken' <=> <<q, n>> \in broken
    /\ \A kind : <<kind, <<q, n>>>> \in temps' <=> <<kind, <<q, n>>>> \in temps

\* How a run was started is never changed, and that a command failed is not forgotten.
LEMMA ModeStays ==
  ASSUME NEW r \in Runs, Step(r)
  PROVE  mode' = mode /\ broken \subseteq broken'
BY DEF Step, Keep, Analysis, ProposeEdits, Review, BadAnswer, ProviderFails, AddWorktree,
   ApplyEdits, Commit, GitFails, RemoveWorktree, DeleteBranch, CleanUpFails, ClearTemp,
   CloneBase, CloneFails, Judge, Decide, WriteFile, RecordArtifact, FinishRun, EndRun, Crash

\* What goes on in a step of one run leaves the others where they are.
LEMMA PartsStay ==
  ASSUME Shape, NEW r \in Runs, NEW q \in Runs \ {r}
  PROVE  /\ \A valid, usage : Charge(r, valid, usage) =>
              clients'[q] = clients[q] /\ billed'[q] = billed[q]
         /\ Proceed(r) => stage'[q] = stage[q] /\ asked'[q] = asked[q]
         /\ \A n : Return(r, n) => last'[q] = last[q]
         /\ \A outcome : ReturnDraft(r, outcome) =>
              last'[q] = last[q] /\ revised'[q] = revised[q] /\ patch'[q] = patch[q]
         /\ \A used : ReviseOrPersist(r, used) =>
              stage'[q] = stage[q] /\ asked'[q] = asked[q] /\ drafts'[q] = drafts[q]
         /\ \A d : Follow(r, d) => /\ stage'[q] = stage[q] /\ asked'[q] = asked[q]
                                   /\ drafts'[q] = drafts[q] /\ last'[q] = last[q]
         /\ \A s : Goto(r, s) => stage'[q] = stage[q]
<1>1. \A valid, usage : Charge(r, valid, usage) =>
        clients'[q] = clients[q] /\ billed'[q] = billed[q]
  BY DEF Shape, Charge
<1>2. Proceed(r) => stage'[q] = stage[q] /\ asked'[q] = asked[q]
  BY DEF Shape, Proceed, Goto
<1>3. \A n : Return(r, n) => last'[q] = last[q]
  BY DEF Shape, Return
<1>4. \A outcome : ReturnDraft(r, outcome) =>
        last'[q] = last[q] /\ revised'[q] = revised[q] /\ patch'[q] = patch[q]
  BY <1>3 DEF Shape, ReturnDraft
<1>5. \A used : ReviseOrPersist(r, used) =>
        stage'[q] = stage[q] /\ asked'[q] = asked[q] /\ drafts'[q] = drafts[q]
  BY DEF Shape, ReviseOrPersist, Goto
<1>6. \A s : Goto(r, s) => stage'[q] = stage[q]
  BY DEF Shape, Goto
<1>7. \A s : Again(r, s) => /\ stage'[q] = stage[q] /\ asked'[q] = asked[q]
                           /\ drafts'[q] = drafts[q] /\ last'[q] = last[q]
  BY <1>6 DEF Shape, Again
<1>8. \A d : AfterRuling(r, d) => /\ stage'[q] = stage[q] /\ asked'[q] = asked[q]
                                 /\ drafts'[q] = drafts[q] /\ last'[q] = last[q]
  BY <1>3, <1>5, <1>6 DEF AfterRuling
<1>9. \A d : Follow(r, d) => /\ stage'[q] = stage[q] /\ asked'[q] = asked[q]
                            /\ drafts'[q] = drafts[q] /\ last'[q] = last[q]
  BY <1>5, <1>6, <1>7, <1>8 DEF Follow
<1> QED
  BY <1>1, <1>2, <1>3, <1>4, <1>5, <1>6, <1>9

\* What a run holds of its own is not touched by another's step.
LEMMA OthersStay ==
  ASSUME Shape, NEW r \in Runs, NEW q \in Runs \ {r}, Step(r)
  PROVE  SameRun(q)
<1>0. mode' = mode
  BY ModeStays
<1>1. ASSUME Analysis(r)
      PROVE  SameRun(q)
  BY <1>0, <1>1, PartsStay DEF Analysis, Shape, SameRun, ValidAnswer, repoVars, keptVars,
     pastVars
<1>2. ASSUME ProposeEdits(r)
      PROVE  SameRun(q)
  BY <1>0, <1>2, PartsStay DEF ProposeEdits, Shape, SameRun, ValidAnswer, graphVars,
     repoVars, keptVars, pastVars
<1>3. ASSUME Review(r)
      PROVE  SameRun(q)
  BY <1>0, <1>3, PartsStay DEF Review, Shape, SameRun, ValidAnswer, graphVars, repoVars,
     keptVars, pastVars
<1>4. ASSUME BadAnswer(r)
      PROVE  SameRun(q)
  BY <1>0, <1>4, PartsStay DEF BadAnswer, SameRun, graphVars, repoVars, keptVars, pastVars
<1>5. ASSUME ProviderFails(r)
      PROVE  SameRun(q)
  BY <1>0, <1>5 DEF ProviderFails, Shape, SameRun, Goto, graphVars, repoVars, keptVars,
     pastVars
<1>6. ASSUME AddWorktree(r)
      PROVE  SameRun(q)
  BY <1>0, <1>6 DEF AddWorktree, Shape, SameRun, Goto, modelVars, graphVars, pastVars,
     keptVars
<1>7. ASSUME ApplyEdits(r)
      PROVE  SameRun(q)
  BY <1>0, <1>7 DEF ApplyEdits, Shape, SameRun, Goto, modelVars, graphVars, pastVars,
     repoVars, keptVars
<1>8. ASSUME Commit(r)
      PROVE  SameRun(q)
  BY <1>0, <1>8 DEF Commit, Shape, SameRun, Goto, modelVars, graphVars, pastVars, repoVars,
     keptVars
<1>9. ASSUME GitFails(r)
      PROVE  SameRun(q)
  BY <1>0, <1>9 DEF GitFails, Shape, SameRun, Goto, modelVars, graphVars, pastVars, keptVars
<1>10. ASSUME RemoveWorktree(r)
       PROVE  SameRun(q)
  BY <1>0, <1>10 DEF RemoveWorktree, Shape, SameRun, Goto, modelVars, graphVars, pastVars,
     keptVars
<1>11. ASSUME DeleteBranch(r)
       PROVE  SameRun(q)
  BY <1>0, <1>11 DEF DeleteBranch, Shape, SameRun, Goto, modelVars, graphVars, pastVars,
     keptVars
<1>12. ASSUME CleanUpFails(r)
       PROVE  SameRun(q)
  BY <1>0, <1>12 DEF CleanUpFails, Shape, SameRun, Goto, modelVars, graphVars, pastVars,
     repoVars, keptVars
<1>13. ASSUME ClearTemp(r)
       PROVE  SameRun(q)
  BY <1>0, <1>13, PartsStay DEF ClearTemp, Shape, SameRun, graphVars, pastVars, keptVars
<1>14. ASSUME CloneBase(r)
       PROVE  SameRun(q)
  BY <1>0, <1>14 DEF CloneBase, Shape, SameRun, Goto, draftVars, modelVars, graphVars,
     pastVars, keptVars
<1>15. ASSUME CloneFails(r)
       PROVE  SameRun(q)
  BY <1>0, <1>15 DEF CloneFails, Shape, SameRun, Goto, draftVars, modelVars, graphVars,
     pastVars, repoVars, keptVars
<1>16. ASSUME Judge(r)
       PROVE  SameRun(q)
  BY <1>0, <1>16, PartsStay DEF Judge, Shape, SameRun, pastVars, keptVars
<1>17. ASSUME Decide(r)
       PROVE  SameRun(q)
  BY <1>0, <1>17, PartsStay DEF Decide, Shape, SameRun, keptVars
<1>18. ASSUME NEW a \in Artifacts, WriteFile(r, a)
       PROVE  SameRun(q)
  BY <1>0, <1>18 DEF WriteFile, Shape, SameRun, Goto, draftVars, modelVars, graphVars,
     pastVars, repoVars
<1>19. ASSUME NEW a \in Artifacts, RecordArtifact(r, a)
       PROVE  SameRun(q)
  BY <1>0, <1>19 DEF RecordArtifact, Shape, SameRun, Goto, draftVars, modelVars, graphVars,
     pastVars, repoVars
<1>20. ASSUME FinishRun(r)
       PROVE  SameRun(q)
  BY <1>0, <1>20 DEF FinishRun, Shape, SameRun, Goto, draftVars, modelVars, graphVars,
     pastVars, repoVars
<1>21. ASSUME EndRun(r)
       PROVE  SameRun(q)
  BY <1>0, <1>21 DEF EndRun, Shape, SameRun, Goto, draftVars, modelVars, graphVars,
     pastVars, repoVars, keptVars
<1>22. ASSUME Crash(r)
       PROVE  SameRun(q)
  BY <1>0, <1>22 DEF Crash, Shape, SameRun, Goto, draftVars, modelVars, graphVars, pastVars,
     repoVars, keptVars
<1> QED
  BY <1>1, <1>2, <1>3, <1>4, <1>5, <1>6, <1>7, <1>8, <1>9, <1>10, <1>11, <1>12, <1>13,
     <1>14, <1>15, <1>16, <1>17, <1>18, <1>19, <1>20, <1>21, <1>22 DEF Step, Keep

\* A name that another run made up stays what it is: the names of two attempts differ.
LEMMA OtherNamesStay ==
  ASSUME NEW r \in Runs, NEW q \in Runs \ {r}, Step(r)
  PROVE  SameNames(q)
<1>0. \A n, kind : /\ <<q, n>> # Attempt(r)
                   /\ <<kind, <<q, n>>>> \notin {Dir("patch", r), Dir("verify", r)}
  BY DEF Attempt, Dir
<1>1. ASSUME Analysis(r)
      PROVE  SameNames(q)
  BY <1>0, <1>1 DEF Analysis, SameNames, ValidAnswer, repoVars
<1>2. ASSUME ProposeEdits(r)
      PROVE  SameNames(q)
  BY <1>0, <1>2 DEF ProposeEdits, SameNames, ValidAnswer, repoVars
<1>3. ASSUME Review(r)
      PROVE  SameNames(q)
  BY <1>0, <1>3 DEF Review, SameNames, ValidAnswer, repoVars
<1>4. ASSUME BadAnswer(r)
      PROVE  SameNames(q)
  BY <1>0, <1>4 DEF BadAnswer, SameNames, repoVars
<1>5. ASSUME ProviderFails(r)
      PROVE  SameNames(q)
  BY <1>0, <1>5 DEF ProviderFails, SameNames, repoVars
<1>6. ASSUME AddWorktree(r)
      PROVE  SameNames(q)
  BY <1>0, <1>6 DEF AddWorktree, SameNames, modelVars
<1>7. ASSUME ApplyEdits(r)
      PROVE  SameNames(q)
  BY <1>0, <1>7 DEF ApplyEdits, SameNames, modelVars, repoVars
<1>8. ASSUME Commit(r)
      PROVE  SameNames(q)
  BY <1>0, <1>8 DEF Commit, SameNames, modelVars, repoVars
<1>9. ASSUME GitFails(r)
      PROVE  SameNames(q)
  BY <1>0, <1>9 DEF GitFails, SameNames, modelVars
<1>10. ASSUME RemoveWorktree(r)
       PROVE  SameNames(q)
  BY <1>0, <1>10 DEF RemoveWorktree, SameNames, modelVars
<1>11. ASSUME DeleteBranch(r)
       PROVE  SameNames(q)
  BY <1>0, <1>11 DEF DeleteBranch, SameNames, modelVars
<1>12. ASSUME CleanUpFails(r)
       PROVE  SameNames(q)
  BY <1>0, <1>12 DEF CleanUpFails, SameNames, modelVars, repoVars
<1>13. ASSUME ClearTemp(r)
       PROVE  SameNames(q)
  BY <1>0, <1>13 DEF ClearTemp, SameNames
<1>14. ASSUME CloneBase(r)
       PROVE  SameNames(q)
  BY <1>0, <1>14 DEF CloneBase, SameNames, draftVars, modelVars
<1>15. ASSUME CloneFails(r)
       PROVE  SameNames(q)
  BY <1>0, <1>15 DEF CloneFails, SameNames, draftVars, modelVars, repoVars
<1>16. ASSUME Judge(r)
       PROVE  SameNames(q)
  BY <1>0, <1>16 DEF Judge, SameNames
<1>17. ASSUME Decide(r)
       PROVE  SameNames(q)
  BY <1>0, <1>17 DEF Decide, SameNames, repoVars
<1>18. ASSUME NEW a \in Artifacts, WriteFile(r, a)
       PROVE  SameNames(q)
  BY <1>0, <1>18 DEF WriteFile, SameNames, draftVars, modelVars, repoVars
<1>19. ASSUME NEW a \in Artifacts, RecordArtifact(r, a)
       PROVE  SameNames(q)
  BY <1>0, <1>19 DEF RecordArtifact, SameNames, draftVars, modelVars, repoVars
<1>20. ASSUME FinishRun(r)
       PROVE  SameNames(q)
  BY <1>0, <1>20 DEF FinishRun, SameNames, draftVars, modelVars, repoVars
<1>21. ASSUME EndRun(r)
       PROVE  SameNames(q)
  BY <1>0, <1>21 DEF EndRun, SameNames, draftVars, modelVars, repoVars
<1>22. ASSUME Crash(r)
       PROVE  SameNames(q)
  BY <1>0, <1>22 DEF Crash, SameNames, draftVars, modelVars, repoVars
<1> QED
  BY <1>1, <1>2, <1>3, <1>4, <1>5, <1>6, <1>7, <1>8, <1>9, <1>10, <1>11, <1>12, <1>13,
     <1>14, <1>15, <1>16, <1>17, <1>18, <1>19, <1>20, <1>21, <1>22 DEF Step, Keep

-----------------------------------------------------------------------------
(***************************************************************************)
(* The names in the clone.                                                 *)
(***************************************************************************)

\* The clone keeps to its shape.
LEMMA RepoShapeStep ==
  ASSUME IInv, NEW r \in Runs, Step(r)
  PROVE  RepoShape'
<1>0. /\ RepoShape /\ Attempt(r) \in Attempts
      /\ {Dir("patch", r), Dir("verify", r)} \subseteq {"patch", "verify"} \X Attempts
  BY DEF IInv, Shape, Attempt, Attempts, Dir
<1>1. ASSUME Analysis(r)
      PROVE  RepoShape'
  BY <1>0, <1>1 DEF Analysis, RepoShape, ValidAnswer, repoVars
<1>2. ASSUME ProposeEdits(r)
      PROVE  RepoShape'
  BY <1>0, <1>2 DEF ProposeEdits, RepoShape, ValidAnswer, repoVars
<1>3. ASSUME Review(r)
      PROVE  RepoShape'
  BY <1>0, <1>3 DEF Review, RepoShape, ValidAnswer, repoVars
<1>4. ASSUME BadAnswer(r)
      PROVE  RepoShape'
  BY <1>0, <1>4 DEF BadAnswer, RepoShape, repoVars
<1>5. ASSUME ProviderFails(r)
      PROVE  RepoShape'
  BY <1>0, <1>5 DEF ProviderFails, RepoShape, repoVars
<1>6. ASSUME AddWorktree(r)
      PROVE  RepoShape'
  BY <1>0, <1>6 DEF AddWorktree, RepoShape, modelVars
<1>7. ASSUME ApplyEdits(r)
      PROVE  RepoShape'
  BY <1>0, <1>7 DEF ApplyEdits, RepoShape, modelVars, repoVars
<1>8. ASSUME Commit(r)
      PROVE  RepoShape'
  BY <1>0, <1>8 DEF Commit, RepoShape, modelVars, repoVars
<1>9. ASSUME GitFails(r)
      PROVE  RepoShape'
  BY <1>0, <1>9 DEF GitFails, RepoShape, modelVars
<1>10. ASSUME RemoveWorktree(r)
       PROVE  RepoShape'
  BY <1>0, <1>10 DEF RemoveWorktree, RepoShape, modelVars
<1>11. ASSUME DeleteBranch(r)
       PROVE  RepoShape'
  BY <1>0, <1>11 DEF DeleteBranch, RepoShape, modelVars
<1>12. ASSUME CleanUpFails(r)
       PROVE  RepoShape'
  BY <1>0, <1>12 DEF CleanUpFails, RepoShape, modelVars, repoVars
<1>13. ASSUME ClearTemp(r)
       PROVE  RepoShape'
  BY <1>0, <1>13 DEF ClearTemp, RepoShape
<1>14. ASSUME CloneBase(r)
       PROVE  RepoShape'
  BY <1>0, <1>14 DEF CloneBase, RepoShape, draftVars, modelVars
<1>15. ASSUME CloneFails(r)
       PROVE  RepoShape'
  BY <1>0, <1>15 DEF CloneFails, RepoShape, draftVars, modelVars, repoVars
<1>16. ASSUME Judge(r)
       PROVE  RepoShape'
  BY <1>0, <1>16 DEF Judge, RepoShape
<1>17. ASSUME Decide(r)
       PROVE  RepoShape'
  BY <1>0, <1>17 DEF Decide, RepoShape, repoVars
<1>18. ASSUME NEW a \in Artifacts, WriteFile(r, a)
       PROVE  RepoShape'
  BY <1>0, <1>18 DEF WriteFile, RepoShape, draftVars, modelVars, repoVars
<1>19. ASSUME NEW a \in Artifacts, RecordArtifact(r, a)
       PROVE  RepoShape'
  BY <1>0, <1>19 DEF RecordArtifact, RepoShape, draftVars, modelVars, repoVars
<1>20. ASSUME FinishRun(r)
       PROVE  RepoShape'
  BY <1>0, <1>20 DEF FinishRun, RepoShape, draftVars, modelVars, repoVars
<1>21. ASSUME EndRun(r)
       PROVE  RepoShape'
  BY <1>0, <1>21 DEF EndRun, RepoShape, draftVars, modelVars, repoVars
<1>22. ASSUME Crash(r)
       PROVE  RepoShape'
  BY <1>0, <1>22 DEF Crash, RepoShape, draftVars, modelVars, repoVars
<1> QED
  BY <1>1, <1>2, <1>3, <1>4, <1>5, <1>6, <1>7, <1>8, <1>9, <1>10, <1>11, <1>12, <1>13,
     <1>14, <1>15, <1>16, <1>17, <1>18, <1>19, <1>20, <1>21, <1>22 DEF Step, Keep

-----------------------------------------------------------------------------
(***************************************************************************)
(* What a step does to its own run: there are twelve kinds.                *)
(***************************************************************************)
NewDraft(r) == stage'[r] = "asking" /\ drafts'[r] = drafts[r] + 1 /\ asked'[r] = 0
SameDraft(r) == drafts'[r] = drafts[r] /\ asked'[r] = asked[r]
Revises(r, used) ==
  \/ used < MaxRevisions /\ NewDraft(r)
  \/ stage'[r] = "finishing" /\ SameDraft(r)

SameGraph(r) == last'[r] = last[r] /\ revised'[r] = revised[r]
SameOutcome(r) == patch'[r] = patch[r] /\ report'[r] = report[r] /\ decision'[r] = decision[r]
SameKept(r) ==
  /\ saved'[r] = saved[r] /\ recorded'[r] = recorded[r] /\ row'[r] = row[r]
  /\ r \in reopened' <=> r \in reopened
SameRest(r) ==
  /\ plan'[r] = plan[r] /\ failure'[r] = failure[r] /\ SameGraph(r) /\ SameDraft(r)
  /\ SameOutcome(r)

\* It asks, and has its plan, or gives up.
Thinks(r) ==
  /\ stage[r] = "asking" /\ stage'[r] \in {"asking", "adding", "raised"}
  /\ last'[r] = last[r] \/ last'[r] = "discovered"
  /\ drafts'[r] = drafts[r] /\ revised'[r] = revised[r] /\ failure'[r] = failure[r]
  /\ SameOutcome(r) /\ SameKept(r)
\* It goes on with what it edits, commits and cleans up.
Works(r) ==
  /\ stage[r] \in Working \ {"clearing"} /\ stage'[r] \in Working
  /\ plan'[r] = plan[r] /\ SameGraph(r) /\ SameDraft(r) /\ SameOutcome(r) /\ SameKept(r)
\* It raises, or its process dies.
Fails(r) ==
  /\ \/ stage[r] \in {"clearing", "cloning"} /\ stage'[r] = "raised"
     \/ stage[r] \notin {"gate", "done", "raised", "dead"} /\ stage'[r] = "dead"
  /\ SameRest(r) /\ SameKept(r)
\* The draft is no patch.
DrawsBlank(r) ==
  /\ stage[r] \in {"asking", "clearing"} /\ mode[r] # "file"
  /\ plan'[r] = plan[r] /\ failure'[r] = "no"
  /\ last'[r] = "drafted" /\ revised'[r] = Used(r) /\ Revises(r, Used(r))
  /\ patch'[r] = Missing /\ report'[r] = report[r] /\ decision'[r] = decision[r]
  /\ SameKept(r)
\* The draft is a patch.
Delivers(r) ==
  /\ stage[r] = "clearing" /\ failure[r] = "no" /\ failure'[r] = "no"
  /\ stage'[r] = IF mode[r] = "file" THEN "saving patch" ELSE "cloning"
  /\ plan'[r] = plan[r] /\ last'[r] = "drafted" /\ SameDraft(r)
  /\ patch'[r] = [by |-> drafts[r], plan |-> plan[r], tree |-> Committed(tree[r])]
  /\ report'[r] = report[r] /\ decision'[r] = decision[r] /\ SameKept(r)
Clones(r) ==
  stage[r] = "cloning" /\ stage'[r] = "judging" /\ SameRest(r) /\ SameKept(r)
\* The patch is judged, and shown or given up.
Judges(r) ==
  /\ stage[r] = "judging" /\ plan'[r] = plan[r] /\ failure'[r] = failure[r]
  /\ patch'[r] = patch[r] /\ decision'[r] = decision[r] /\ SameKept(r)
  /\ report'[r] = [of |-> patch[r].by, verdict |-> Verdict(patch[r].tree, Scope(r))]
  /\ last'[r] = "validated" /\ revised'[r] = revised[r]
  /\ \/ mode[r] = "file" /\ stage'[r] = "saving validation" /\ SameDraft(r)
     \/ /\ mode[r] # "file" /\ Verdict(patch[r].tree, Scope(r)) = "rejected"
        /\ Revises(r, revised[r])
     \/ /\ mode[r] # "file" /\ Verdict(patch[r].tree, Scope(r)) # "rejected"
        /\ stage'[r] = "gate" /\ SameDraft(r)
\* A reviewer rules, and the run goes on from where its checkpoint is.
RulesOn(r) ==
  \/ Revises(r, revised[r]) /\ last'[r] = "ruled"
  \/ stage'[r] = "finishing" /\ SameDraft(r) /\ last'[r] \in {"ruled", "evaluated"}
Resumes(r) ==
  \/ /\ last[r] \in {"retrieved", "discovered"} /\ last'[r] = last[r]
     /\ stage'[r] = "asking" /\ asked'[r] = 0
  \/ last[r] = "drafted" /\ patch[r] # Missing /\ stage'[r] = "cloning" /\ last'[r] = last[r]
  \/ /\ last[r] \in {"drafted", "validated"} /\ Revises(r, revised[r]) /\ last'[r] = last[r]
  \/ last[r] = "validated" /\ report[r].verdict # "rejected" /\ RulesOn(r)
  \/ last[r] = "ruled" /\ RulesOn(r)
  \/ last[r] = "evaluated" /\ stage'[r] = "finishing" /\ last'[r] = last[r] /\ SameDraft(r)
Rules(r) ==
  /\ mode[r] # "file" /\ stage[r] \in {"gate", "raised", "dead"} /\ Resumes(r)
  /\ plan'[r] = plan[r] /\ failure'[r] = "no" /\ revised'[r] = revised[r]
  /\ patch'[r] = patch[r] /\ report'[r] = report[r]
  /\ saved'[r] = saved[r] /\ recorded'[r] = recorded[r] /\ row'[r] = row[r]
  /\ r \in reopened' <=> r \in reopened \/ row[r] # Missing
\* A file is written, then its record.
Saves(r, a) ==
  /\ \/ a = "patch" /\ stage[r] = "saving patch" /\ stage'[r] = "recording patch"
     \/ a = "validation" /\ stage[r] = "saving validation" /\ stage'[r] = "recording validation"
     \/ a = "run" /\ stage[r] = "saving run" /\ stage'[r] = "recording run"
  /\ saved'[r] = [saved[r] EXCEPT ![a] = Content(r, a)]
  /\ recorded'[r] = recorded[r] /\ row'[r] = row[r] /\ (r \in reopened' <=> r \in reopened)
  /\ SameRest(r)
Registers(r, a) ==
  /\ \/ /\ a = "patch" /\ stage[r] = "recording patch"
        /\ stage'[r] = IF mode[r] = "file" THEN "cloning" ELSE "returning"
     \/ /\ a = "validation" /\ stage[r] = "recording validation"
        /\ stage'[r] = IF mode[r] = "file" THEN "finishing"
                       ELSE IF patch[r] # Missing THEN "saving patch" ELSE "returning"
     \/ a = "run" /\ stage[r] = "recording run" /\ stage'[r] = "returning"
  /\ recorded'[r] = [recorded[r] EXCEPT ![a] = Content(r, a)]
  /\ saved'[r] = saved[r] /\ row'[r] = row[r] /\ (r \in reopened' <=> r \in reopened)
  /\ SameRest(r)
\* The row is settled, and the run ends.
Settles(r) ==
  /\ stage[r] = "finishing"
  /\ stage'[r] = IF mode[r] = "file" THEN "saving run"
                 ELSE IF report[r] # Missing THEN "saving validation"
                 ELSE IF patch[r] # Missing THEN "saving patch" ELSE "returning"
  /\ row'[r] = [verdict |-> FinalVerdict(r), cost |-> clients[r].cost]
  /\ saved'[r] = saved[r] /\ recorded'[r] = recorded[r] /\ (r \in reopened' <=> r \in reopened)
  /\ SameRest(r)
Ends(r) ==
  stage[r] = "returning" /\ stage'[r] = "done" /\ SameRest(r) /\ SameKept(r)

Does(r) ==
  \/ Thinks(r) \/ Works(r) \/ Fails(r) \/ DrawsBlank(r) \/ Delivers(r) \/ Clones(r)
  \/ Judges(r) \/ Rules(r) \/ (\E a \in Artifacts : Saves(r, a) \/ Registers(r, a))
  \/ Settles(r) \/ Ends(r)

\* What the operators that several actions use do to the run itself.
LEMMA PartsDone ==
  ASSUME Shape, NEW r \in Runs
  PROVE  /\ \A s : Goto(r, s) => stage'[r] = s
         /\ \A used : ReviseOrPersist(r, used) => Revises(r, used)
         /\ \A n : Return(r, n) => last'[r] = n
         /\ \A outcome : ReturnDraft(r, outcome) =>
              last'[r] = "drafted" /\ revised'[r] = Used(r) /\ patch'[r] = outcome
         /\ \A d : Follow(r, d) => Resumes(r)
<1>1. \A s : Goto(r, s) => stage'[r] = s
  BY DEF Shape, Goto
<1>2. \A used : ReviseOrPersist(r, used) => Revises(r, used)
  BY <1>1 DEF Shape, ReviseOrPersist, Revises, NewDraft, SameDraft
<1>3. \A n : Return(r, n) => last'[r] = n
  BY DEF Shape, Return
<1>4. \A outcome : ReturnDraft(r, outcome) =>
        last'[r] = "drafted" /\ revised'[r] = Used(r) /\ patch'[r] = outcome
  BY <1>3 DEF Shape, ReturnDraft
<1>5. \A s : Again(r, s) => stage'[r] = s /\ asked'[r] = 0 /\ last'[r] = last[r]
  BY <1>1 DEF Shape, Again
<1>6. \A d : AfterRuling(r, d) => RulesOn(r)
  BY <1>1, <1>2, <1>3 DEF AfterRuling, RulesOn, SameDraft
<1>7. \A d : Follow(r, d) => Resumes(r)
  BY <1>1, <1>2, <1>5, <1>6 DEF Follow, Resumes, SameDraft
<1> QED
  BY <1>1, <1>2, <1>3, <1>4, <1>7

\* Every step of a run is of one of these kinds.
LEMMA StepDoes ==
  ASSUME IInv, NEW r \in Runs, Step(r)
  PROVE  Does(r)
<1>0. Shape /\ Asking(r) /\ EditedSoFar(r)
  BY DEF IInv, Own
<1>1. ASSUME Analysis(r)
      PROVE  Does(r)
  <2>1. Thinks(r)
    BY <1>0, <1>1, PartsDone DEF Analysis, At, Shape, keptVars, pastVars, Thinks,
       SameOutcome, SameKept, Return
  <2> QED
    BY <2>1 DEF Does
<1>2. ASSUME ProposeEdits(r)
      PROVE  Does(r)
  <2>1. Thinks(r)
    BY <1>0, <1>2, PartsDone DEF ProposeEdits, At, Shape, graphVars, keptVars, pastVars,
       Thinks, SameOutcome, SameKept, Proceed
  <2> QED
    BY <2>1 DEF Does
<1>3. ASSUME Review(r)
      PROVE  Does(r)
  <2>1. stage[r] = "asking" /\ mode[r] # "file" /\ failure[r] = "no"
    BY <1>0, <1>3 DEF Review, At, Asking, EditedSoFar
  <2>2. CASE Proceed(r) /\ UNCHANGED <<graphVars, drafts, patch>>
    <3>1. Thinks(r)
      BY <1>0, <1>3, <2>1, <2>2, PartsDone DEF Review, Proceed, Thinks, SameOutcome, SameKept,
         graphVars, pastVars, keptVars
    <3> QED
      BY <3>1 DEF Does
  <2>3. CASE ReturnDraft(r, Missing) /\ ReviseOrPersist(r, Used(r))
    <3>1. DrawsBlank(r)
      BY <1>0, <1>3, <2>1, <2>3, PartsDone DEF Review, DrawsBlank, SameKept, pastVars, keptVars
    <3> QED
      BY <3>1 DEF Does
  <2> QED
    BY <1>3, <2>2, <2>3 DEF Review
<1>4. ASSUME BadAnswer(r)
      PROVE  Does(r)
  <2>1. Thinks(r)
    BY <1>0, <1>4, PartsDone DEF BadAnswer, At, Shape, graphVars, keptVars, pastVars,
       Thinks, SameOutcome, SameKept
  <2> QED
    BY <2>1 DEF Does
<1>5. ASSUME ProviderFails(r)
      PROVE  Does(r)
  <2>1. Thinks(r)
    BY <1>0, <1>5, PartsDone DEF ProviderFails, At, Shape, graphVars, keptVars, pastVars,
       Thinks, SameOutcome, SameKept
  <2> QED
    BY <2>1 DEF Does
<1>6. ASSUME AddWorktree(r)
      PROVE  Does(r)
  <2>1. Works(r)
    BY <1>0, <1>6, PartsDone DEF AddWorktree, At, Shape, modelVars, graphVars, pastVars,
       keptVars, Works, Working, SameGraph, SameDraft, SameOutcome, SameKept
  <2> QED
    BY <2>1 DEF Does
<1>7. ASSUME ApplyEdits(r)
      PROVE  Does(r)
  <2>1. Works(r)
    BY <1>0, <1>7, PartsDone DEF ApplyEdits, At, Shape, modelVars, graphVars, pastVars,
       keptVars, Works, Working, SameGraph, SameDraft, SameOutcome, SameKept
  <2> QED
    BY <2>1 DEF Does
<1>8. ASSUME Commit(r)
      PROVE  Does(r)
  <2>1. Works(r)
    BY <1>0, <1>8, PartsDone DEF Commit, At, Shape, modelVars, graphVars, pastVars,
       keptVars, Works, Working, SameGraph, SameDraft, SameOutcome, SameKept
  <2> QED
    BY <2>1 DEF Does
<1>9. ASSUME GitFails(r)
      PROVE  Does(r)
  <2>1. Works(r)
    BY <1>0, <1>9, PartsDone DEF GitFails, At, Shape, modelVars, graphVars, pastVars,
       keptVars, Works, Working, SameGraph, SameDraft, SameOutcome, SameKept
  <2> QED
    BY <2>1 DEF Does
<1>10. ASSUME RemoveWorktree(r)
       PROVE  Does(r)
  <2>1. Works(r)
    BY <1>0, <1>10, PartsDone DEF RemoveWorktree, At, Shape, modelVars, graphVars,
       pastVars, keptVars, Works, Working, SameGraph, SameDraft, SameOutcome, SameKept
  <2> QED
    BY <2>1 DEF Does
<1>11. ASSUME DeleteBranch(r)
       PROVE  Does(r)
  <2>1. Works(r)
    BY <1>0, <1>11, PartsDone DEF DeleteBranch, At, Shape, modelVars, graphVars, pastVars,
       keptVars, Works, Working, SameGraph, SameDraft, SameOutcome, SameKept
  <2> QED
    BY <2>1 DEF Does
<1>12. ASSUME CleanUpFails(r)
       PROVE  Does(r)
  <2>1. Works(r)
    BY <1>0, <1>12, PartsDone DEF CleanUpFails, At, Shape, modelVars, graphVars, pastVars,
       keptVars, Works, Working, SameGraph, SameDraft, SameOutcome, SameKept
  <2> QED
    BY <2>1 DEF Does
<1>13. ASSUME ClearTemp(r)
       PROVE  Does(r)
  <2> DEFINE made == [by |-> drafts[r], plan |-> plan[r], tree |-> Committed(tree[r])]
  <2>1. /\ stage[r] = "clearing" /\ SameKept(r) /\ plan'[r] = plan[r]
        /\ report'[r] = report[r] /\ decision'[r] = decision[r]
    BY <1>13 DEF ClearTemp, At, SameKept, pastVars, keptVars
  <2>2. CASE /\ failure[r] = "no" /\ ReturnDraft(r, made)
             /\ Goto(r, IF mode[r] = "file" THEN "saving patch" ELSE "cloning")
             /\ UNCHANGED <<drafts, asked, failure>>
    <3>1. patch'[r] = made /\ last'[r] = "drafted"
      BY <1>0, <2>2, PartsDone
    <3>2. Delivers(r)
      BY <1>0, <2>1, <2>2, <3>1, PartsDone DEF Delivers, SameDraft
    <3> QED
      BY <3>2 DEF Does
  <2>3. CASE /\ mode[r] # "file" /\ ReturnDraft(r, Missing)
             /\ failure' = [failure EXCEPT ![r] = "no"] /\ ReviseOrPersist(r, Used(r))
    <3>1. DrawsBlank(r)
      BY <1>0, <2>1, <2>3, PartsDone DEF DrawsBlank, Shape
    <3> QED
      BY <3>1 DEF Does
  <2>4. CASE Goto(r, "raised") /\ UNCHANGED <<graphVars, drafts, asked, failure, patch>>
    <3>1. Fails(r)
      BY <1>0, <2>1, <2>4, PartsDone DEF Fails, SameRest, SameGraph, SameDraft, SameOutcome,
         graphVars
    <3> QED
      BY <3>1 DEF Does
  <2> QED
    BY <1>13, <2>2, <2>3, <2>4 DEF ClearTemp
<1>14. ASSUME CloneBase(r)
       PROVE  Does(r)
  <2>1. Clones(r)
    BY <1>0, <1>14, PartsDone DEF CloneBase, At, Shape, draftVars, modelVars, graphVars,
       pastVars, keptVars, Clones, SameRest, SameGraph, SameDraft, SameOutcome, SameKept
  <2> QED
    BY <2>1 DEF Does
<1>15. ASSUME CloneFails(r)
       PROVE  Does(r)
  <2>1. Fails(r)
    BY <1>0, <1>15, PartsDone DEF CloneFails, At, Shape, draftVars, modelVars, graphVars,
       pastVars, keptVars, Fails, SameRest, SameGraph, SameDraft, SameOutcome, SameKept
  <2> QED
    BY <2>1 DEF Does
<1>16. ASSUME Judge(r)
       PROVE  Does(r)
  <2>1. Judges(r)
    BY <1>0, <1>16, PartsDone DEF Judge, At, Shape, keptVars, pastVars, Judges, SameDraft,
       SameKept
  <2> QED
    BY <2>1 DEF Does
<1>17. ASSUME Decide(r)
       PROVE  Does(r)
  <2>1. PICK d \in {"approve", "reject", "revise"} : Follow(r, d)
    BY <1>17 DEF Decide
  <2>2. Rules(r)
    BY <1>0, <1>17, <2>1, PartsDone DEF Decide, At, Shape, Rules, keptVars
  <2> QED
    BY <2>2 DEF Does
<1>18. ASSUME NEW a \in Artifacts, WriteFile(r, a)
       PROVE  Does(r)
  <2>1. /\ stage[r] = Saving[a] /\ stage'[r] = Recording[a]
        /\ saved' = [saved EXCEPT ![r][a] = Content(r, a)]
    BY <1>0, <1>18, PartsDone DEF WriteFile, At
  <2>2. saved'[r] = [saved[r] EXCEPT ![a] = Content(r, a)]
    BY <1>0, <2>1 DEF Shape
  <2>3. UNCHANGED <<graphVars, drafts, asked, failure, plan, patch, report, decision, recorded,
                    row, reopened>>
    BY <1>18 DEF WriteFile, draftVars, modelVars, graphVars, pastVars
  <2>4. Saves(r, a)
    BY <2>1, <2>2, <2>3, KeepingStages DEF Saves, SameRest, SameGraph, SameDraft, SameOutcome,
       graphVars
  <2> QED
    BY <2>4 DEF Does
<1>19. ASSUME NEW a \in Artifacts, RecordArtifact(r, a)
       PROVE  Does(r)
  <2>1. /\ stage[r] = Recording[a]
        /\ stage'[r] = IF a = "patch" THEN AfterPatch(r)
                       ELSE IF a = "validation" THEN AfterValidation(r) ELSE "returning"
        /\ recorded' = [recorded EXCEPT ![r][a] = Content(r, a)]
    BY <1>0, <1>19, PartsDone DEF RecordArtifact, At
  <2>2. recorded'[r] = [recorded[r] EXCEPT ![a] = Content(r, a)]
    BY <1>0, <2>1 DEF Shape
  <2>3. /\ SameRest(r) /\ saved'[r] = saved[r] /\ row'[r] = row[r]
        /\ r \in reopened' <=> r \in reopened
    BY <1>19 DEF RecordArtifact, draftVars, modelVars, graphVars, pastVars, SameRest, SameGraph,
       SameDraft, SameOutcome
  <2>4. a = "patch" => Registers(r, a)
    BY <2>1, <2>2, <2>3, KeepingStages DEF AfterPatch, Registers
  <2>5. a = "validation" => Registers(r, a)
    BY <2>1, <2>2, <2>3, KeepingStages DEF AfterValidation, Registers
  <2>6. a = "run" => Registers(r, a)
    BY <2>1, <2>2, <2>3, KeepingStages DEF Registers
  <2> QED
    BY <2>4, <2>5, <2>6 DEF Artifacts, Does
<1>20. ASSUME FinishRun(r)
       PROVE  Does(r)
  <2>1. /\ SameRest(r) /\ saved'[r] = saved[r] /\ recorded'[r] = recorded[r]
        /\ r \in reopened' <=> r \in reopened
    BY <1>20 DEF FinishRun, draftVars, modelVars, graphVars, pastVars, SameRest, SameGraph,
       SameDraft, SameOutcome
  <2>2. Settles(r)
    BY <1>0, <1>20, <2>1, PartsDone DEF FinishRun, At, Shape, AfterFinish, AfterValidation,
       Settles
  <2> QED
    BY <2>2 DEF Does
<1>21. ASSUME EndRun(r)
       PROVE  Does(r)
  <2>1. Ends(r)
    BY <1>0, <1>21, PartsDone DEF EndRun, At, Shape, draftVars, modelVars, graphVars,
       pastVars, keptVars, Ends, SameRest, SameGraph, SameDraft, SameOutcome, SameKept
  <2> QED
    BY <2>1 DEF Does
<1>22. ASSUME Crash(r)
       PROVE  Does(r)
  <2>1. Fails(r)
    BY <1>0, <1>22, PartsDone DEF Crash, At, Shape, draftVars, modelVars, graphVars,
       pastVars, keptVars, Fails, SameRest, SameGraph, SameDraft, SameOutcome, SameKept
  <2> QED
    BY <2>1 DEF Does
<1> QED
  BY <1>1, <1>2, <1>3, <1>4, <1>5, <1>6, <1>7, <1>8, <1>9, <1>10, <1>11, <1>12, <1>13,
     <1>14, <1>15, <1>16, <1>17, <1>18, <1>19, <1>20, <1>21, <1>22 DEF Step, Keep

-----------------------------------------------------------------------------
(***************************************************************************)
(* What a run holds of its own.                                            *)
(***************************************************************************)

\* Of the attempts of a run only what its own steps made is there.
LEMMA LeftStep ==
  ASSUME IInv, NEW r \in Runs, Step(r)
  PROVE  Left(r)'
<1>0. Shape /\ Left(r)
  BY DEF IInv, Own
<1>1. ASSUME Analysis(r)
      PROVE  Left(r)'
  BY <1>0, <1>1, PartsDone DEF Analysis, Left, Attempt, Dir, Working, At, ValidAnswer,
     repoVars, keptVars, Proceed, Shape, Goto
<1>2. ASSUME ProposeEdits(r)
      PROVE  Left(r)'
  BY <1>0, <1>2, PartsDone DEF ProposeEdits, Left, Attempt, Dir, Working, At, ValidAnswer,
     repoVars, keptVars, Proceed, Shape, Goto
<1>3. ASSUME Review(r)
      PROVE  Left(r)'
  BY <1>0, <1>3, PartsDone DEF Review, Left, Attempt, Dir, Working, At, ValidAnswer,
     repoVars, keptVars, Proceed, Shape, Goto, Revises, NewDraft, SameDraft
<1>4. ASSUME BadAnswer(r)
      PROVE  Left(r)'
  BY <1>0, <1>4, PartsDone DEF BadAnswer, Left, Attempt, Dir, Working, At, repoVars,
     keptVars
<1>5. ASSUME ProviderFails(r)
      PROVE  Left(r)'
  BY <1>0, <1>5, PartsDone DEF ProviderFails, Left, Attempt, Dir, Working, At, repoVars,
     keptVars
<1>6. ASSUME AddWorktree(r)
      PROVE  Left(r)'
  BY <1>0, <1>6, PartsDone DEF AddWorktree, Left, Attempt, Dir, Working, At, modelVars,
     keptVars
<1>7. ASSUME ApplyEdits(r)
      PROVE  Left(r)'
  BY <1>0, <1>7, PartsDone DEF ApplyEdits, Left, Attempt, Dir, Working, At, modelVars,
     repoVars, keptVars
<1>8. ASSUME Commit(r)
      PROVE  Left(r)'
  BY <1>0, <1>8, PartsDone DEF Commit, Left, Attempt, Dir, Working, At, modelVars,
     repoVars, keptVars
<1>9. ASSUME GitFails(r)
      PROVE  Left(r)'
  BY <1>0, <1>9, PartsDone DEF GitFails, Left, Attempt, Dir, Working, At, modelVars,
     keptVars
<1>10. ASSUME RemoveWorktree(r)
       PROVE  Left(r)'
  BY <1>0, <1>10, PartsDone DEF RemoveWorktree, Left, Attempt, Dir, Working, At, modelVars,
     keptVars
<1>11. ASSUME DeleteBranch(r)
       PROVE  Left(r)'
  BY <1>0, <1>11, PartsDone DEF DeleteBranch, Left, Attempt, Dir, Working, At, modelVars,
     keptVars
<1>12. ASSUME CleanUpFails(r)
       PROVE  Left(r)'
  BY <1>0, <1>12, PartsDone DEF CleanUpFails, Left, Attempt, Dir, Working, At, modelVars,
     repoVars, keptVars
<1>13. ASSUME ClearTemp(r)
       PROVE  Left(r)'
  BY <1>0, <1>13, PartsDone DEF ClearTemp, Left, Attempt, Dir, Working, At, keptVars,
     Revises, NewDraft, SameDraft
<1>14. ASSUME CloneBase(r)
       PROVE  Left(r)'
  BY <1>0, <1>14, PartsDone DEF CloneBase, Left, Attempt, Dir, Working, At, draftVars,
     modelVars, keptVars
<1>15. ASSUME CloneFails(r)
       PROVE  Left(r)'
  BY <1>0, <1>15, PartsDone DEF CloneFails, Left, Attempt, Dir, Working, At, draftVars,
     modelVars, repoVars, keptVars
<1>16. ASSUME Judge(r)
       PROVE  Left(r)'
  BY <1>0, <1>16, PartsDone DEF Judge, Left, Attempt, Dir, Working, At, keptVars, Revises,
     NewDraft, SameDraft
<1>17. ASSUME Decide(r)
       PROVE  Left(r)'
  BY <1>0, <1>17, PartsDone DEF Decide, Left, Attempt, Dir, Working, At, repoVars, keptVars
<1>18. ASSUME NEW a \in Artifacts, WriteFile(r, a)
       PROVE  Left(r)'
  <2>1. stage[r] \notin Working \union {"judging"}
    BY <1>18, KeepingStages DEF WriteFile, At, Working
  <2> QED
    BY <1>0, <1>18, <2>1, PartsDone DEF WriteFile, Left, Working, At, draftVars, modelVars,
       repoVars
<1>19. ASSUME NEW a \in Artifacts, RecordArtifact(r, a)
       PROVE  Left(r)'
  <2>1. stage[r] \notin Working \union {"judging"}
    BY <1>19, KeepingStages DEF RecordArtifact, At, Working
  <2> QED
    BY <1>0, <1>19, <2>1, PartsDone DEF RecordArtifact, Left, Working, At, draftVars, modelVars,
       repoVars
<1>20. ASSUME FinishRun(r)
       PROVE  Left(r)'
  BY <1>0, <1>20, PartsDone DEF FinishRun, Left, Attempt, Dir, Working, At, draftVars,
     modelVars, repoVars
<1>21. ASSUME EndRun(r)
       PROVE  Left(r)'
  BY <1>0, <1>21, PartsDone DEF EndRun, Left, Attempt, Dir, Working, At, draftVars,
     modelVars, repoVars, keptVars
<1>22. ASSUME Crash(r)
       PROVE  Left(r)'
  BY <1>0, <1>22, PartsDone DEF Crash, Left, Attempt, Dir, Working, At, draftVars,
     modelVars, repoVars, keptVars
<1> QED
  BY <1>1, <1>2, <1>3, <1>4, <1>5, <1>6, <1>7, <1>8, <1>9, <1>10, <1>11, <1>12, <1>13,
     <1>14, <1>15, <1>16, <1>17, <1>18, <1>19, <1>20, <1>21, <1>22 DEF Step, Keep

\* A node that begins has questions to ask, and no review before a plan.
LEMMA NewDraftAsks ==
  ASSUME NEW r \in Runs, asked'[r] = 0
  PROVE  asked'[r] < Len(QuestionsOf(r)') /\ Question(r)' # "PatchReview"
<1>1. Len(QuestionsOf(r)') \in 1..2 /\ QuestionsOf(r)'[1] # "PatchReview"
  BY QuestionsNext
<1> QED
  BY <1>1 DEF Question

\* After an answer there is a question left, or the questions are over.
LEMMA ProceedAsks ==
  ASSUME Shape, NEW r \in Runs, Asking(r), At(r, "asking"), Proceed(r),
         mode' = mode, last'[r] = last[r]
  PROVE  \/ stage'[r] = "adding"
         \/ stage'[r] = "asking" /\ asked'[r] < Len(QuestionsOf(r)')
<1>1. asked[r] \in 0..1 /\ asked[r] < Len(QuestionsOf(r)) /\ Len(QuestionsOf(r)) \in 1..2
  BY Asks
<1>2. CASE LastQuestion(r)
  BY <1>2 DEF Proceed, Goto, Shape
<1>3. CASE ~LastQuestion(r)
  <2>1. asked'[r] = asked[r] + 1 /\ stage'[r] = "asking" /\ QuestionsOf(r)' = QuestionsOf(r)
    BY <1>3, QuestionsStay DEF Proceed, Shape, At
  <2>2. asked[r] + 1 # Len(QuestionsOf(r))
    BY <1>3 DEF LastQuestion
  <2>3. asked[r] + 1 < Len(QuestionsOf(r))
    BY <1>1, <2>2, OneMore
  <2> QED
    BY <2>1, <2>3
<1> QED
  BY <1>2, <1>3

\* A node that goes on asking knows what it has to.
LEMMA ThinksOn ==
  ASSUME IInv, NEW r \in Runs, Step(r), Thinks(r)
  PROVE  Asking(r)'
<1>0. /\ Shape /\ Asking(r) /\ mode' = mode /\ stage[r] = "asking" /\ mode[r] # "file"
      /\ revised'[r] = revised[r]
  BY ModeStays DEF IInv, Own, Thinks, Asking
<1>1. ASSUME Analysis(r)
      PROVE  Asking(r)'
  <2>1. stage'[r] = "asking" /\ plan' = plan /\ last[r] = "retrieved"
    BY <1>0, <1>1 DEF Analysis
  <2>2. asked[r] \in 0..1 /\ asked[r] < Len(QuestionsOf(r)) /\ Len(QuestionsOf(r)) \in 1..2
    BY <1>0, Asks DEF At
  <2>3. CASE LastQuestion(r)
    <3>1. asked'[r] = 0 /\ last'[r] = "discovered"
      BY <1>0, <1>1, <2>3 DEF Analysis, Shape, Return
    <3> QED
      BY <1>0, <2>1, <3>1, NewDraftAsks DEF Asking, At, Working
  <2>4. CASE ~LastQuestion(r)
    <3>1. asked'[r] = asked[r] + 1 /\ last' = last
      BY <1>0, <1>1, <2>4 DEF Analysis, Shape
    <3>2. QuestionsOf(r)' = QuestionsOf(r)
      BY <1>0, <3>1, QuestionsStay
    <3>3. asked[r] + 1 # Len(QuestionsOf(r))
      BY <2>4 DEF LastQuestion
    <3>4. asked[r] + 1 < Len(QuestionsOf(r)) /\ asked[r] + 1 \in 0..1
      BY <2>2, <3>3, OneMore
    <3>5. asked[r] + 1 + 1 \in 1..Len(QuestionsOf(r))
      BY <2>2, <3>4
    <3>6. QuestionsOf(r)[asked[r] + 1 + 1] # "PatchReview"
      BY <2>1, <3>5, QuestionsOfOrder
    <3>7. Question(r)' # "PatchReview"
      BY <3>1, <3>2, <3>6 DEF Question
    <3> QED
      BY <1>0, <2>1, <3>1, <3>2, <3>4, <3>7 DEF Asking, At, Working
  <2> QED
    BY <2>3, <2>4
<1>2. ASSUME ProposeEdits(r)
      PROVE  Asking(r)'
  <2>1. Proceed(r) /\ last' = last /\ Question(r) = "EditPlan"
    BY <1>2 DEF ProposeEdits, graphVars
  <2>2. last[r] # "retrieved"
    BY <1>0, <2>1, Asks DEF At
  <2>3. plan'[r] # Missing
    BY <1>0, <1>2, DraftingAssumption, MissingAssumption DEF ProposeEdits, Shape
  <2> QED
    BY <1>0, <2>1, <2>2, <2>3, ProceedAsks DEF Asking, At, Working
<1>3. ASSUME Review(r)
      PROVE  Asking(r)'
  <2>1. /\ plan' = plan /\ plan[r] # Missing /\ last[r] # "retrieved"
        /\ Question(r) = "PatchReview"
    BY <1>0, <1>3, Asks DEF Review, Asking, At
  <2>2. CASE Proceed(r) /\ UNCHANGED graphVars
    BY <1>0, <2>1, <2>2, ProceedAsks DEF Asking, At, Working, graphVars
  <2>3. CASE ReturnDraft(r, Missing) /\ ReviseOrPersist(r, Used(r))
    <3>1. Revises(r, Used(r)) /\ last'[r] = "drafted" /\ revised'[r] = Used(r)
      BY <1>0, <2>3, PartsDone
    <3>2. CASE Used(r) < MaxRevisions /\ NewDraft(r)
      <4>1. asked'[r] < Len(QuestionsOf(r)') /\ Question(r)' # "PatchReview"
        BY <3>2, NewDraftAsks DEF NewDraft
      <4> QED
        BY <1>0, <2>1, <3>1, <3>2, <4>1 DEF NewDraft, Asking, At, Working
    <3>3. CASE stage'[r] = "finishing"
      BY <1>0, <2>1, <3>1, <3>3 DEF Asking, At, Working
    <3> QED
      BY <3>1, <3>2, <3>3 DEF Revises
  <2> QED
    BY <1>3, <2>2, <2>3 DEF Review
<1>4. ASSUME BadAnswer(r) \/ ProviderFails(r)
      PROVE  Asking(r)'
  <2>1. /\ asked' = asked /\ last' = last /\ plan' = plan
        /\ stage'[r] \in {"asking", "raised"}
    BY <1>0, <1>4, PartsDone DEF BadAnswer, ProviderFails, graphVars
  <2>2. QuestionsOf(r)' = QuestionsOf(r) /\ Question(r)' = Question(r)
    BY <1>0, <2>1, QuestionsStay DEF Question
  <2> QED
    BY <1>0, <2>1, <2>2 DEF Asking, At, Working
<1>5. Analysis(r) \/ ProposeEdits(r) \/ Review(r) \/ BadAnswer(r) \/ ProviderFails(r) \/ Crash(r)
  <2>1. \A a \in Artifacts : ~Keep(r, a)
    BY <1>0, KeepingStages DEF Keep, WriteFile, RecordArtifact, At
  <2> QED
    BY <1>0, <2>1 DEF Step, At, AddWorktree, ApplyEdits, Commit, GitFails, RemoveWorktree,
       DeleteBranch, CleanUpFails, ClearTemp, CloneBase, CloneFails, Judge, Decide, FinishRun,
       EndRun
<1>6. ~Crash(r)
  BY <1>0, PartsDone DEF Crash, Thinks
<1> QED
  BY <1>1, <1>2, <1>3, <1>4, <1>5, <1>6

\* A node asks its questions in their order and has a plan when they are over, and a
\* revision stays within its budget.
LEMMA AskingStep ==
  ASSUME IInv, NEW r \in Runs, Step(r)
  PROVE  Asking(r)'
<1>0. Shape /\ Asking(r) /\ mode' = mode /\ Does(r)
  BY ModeStays, StepDoes DEF IInv, Own
<1>1. ASSUME Thinks(r)
      PROVE  Asking(r)'
  BY <1>1, ThinksOn
<1>2. ASSUME Works(r)
      PROVE  Asking(r)'
  BY <1>0, <1>2 DEF Works, SameGraph, SameDraft, SameOutcome, SameKept, Working, Asking, At
<1>3. ASSUME Fails(r)
      PROVE  Asking(r)'
  BY <1>0, <1>3 DEF Fails, SameRest, SameGraph, SameDraft, SameOutcome, SameKept, Asking,
     At, Working
<1>4. ASSUME DrawsBlank(r)
      PROVE  Asking(r)'
  <2>1. asked'[r] = 0 => asked'[r] < Len(QuestionsOf(r)') /\ Question(r)' # "PatchReview"
    BY NewDraftAsks
  <2> QED
    BY <1>0, <1>4, <2>1 DEF DrawsBlank, SameKept, Revises, NewDraft, SameDraft, Asking, At,
       Working
<1>5. ASSUME Delivers(r)
      PROVE  Asking(r)'
  BY <1>0, <1>5 DEF Delivers, SameDraft, SameKept, Asking, At, Working
<1>6. ASSUME Clones(r)
      PROVE  Asking(r)'
  BY <1>0, <1>6 DEF Clones, SameRest, SameGraph, SameDraft, SameOutcome, SameKept, Asking,
     At, Working
<1>7. ASSUME Judges(r)
      PROVE  Asking(r)'
  <2>1. asked'[r] = 0 => asked'[r] < Len(QuestionsOf(r)') /\ Question(r)' # "PatchReview"
    BY NewDraftAsks
  <2> QED
    BY <1>0, <1>7, <2>1 DEF Judges, SameKept, SameDraft, Revises, NewDraft, Asking, At, Working
<1>8. ASSUME Rules(r)
      PROVE  Asking(r)'
  <2>1. asked'[r] = 0 => asked'[r] < Len(QuestionsOf(r)') /\ Question(r)' # "PatchReview"
    BY NewDraftAsks
  <2> QED
    BY <1>0, <1>8, <2>1 DEF Rules, Resumes, RulesOn, Revises, NewDraft, SameDraft, Asking, At,
       Working
<1>9. ASSUME NEW a \in Artifacts, Saves(r, a)
      PROVE  Asking(r)'
  BY <1>0, <1>9 DEF Saves, SameRest, SameGraph, SameDraft, SameOutcome, Asking, At, Working
<1>10. ASSUME NEW a \in Artifacts, Registers(r, a)
       PROVE  Asking(r)'
  BY <1>0, <1>10 DEF Registers, SameRest, SameGraph, SameDraft, SameOutcome, Asking, At,
     Working
<1>11. ASSUME Settles(r)
       PROVE  Asking(r)'
  BY <1>0, <1>11 DEF Settles, SameRest, SameGraph, SameDraft, SameOutcome, Asking, At,
     Working
<1>12. ASSUME Ends(r)
       PROVE  Asking(r)'
  BY <1>0, <1>12 DEF Ends, SameRest, SameGraph, SameDraft, SameOutcome, SameKept, Asking,
     At, Working
<1> QED
  BY <1>0, <1>1, <1>2, <1>3, <1>4, <1>5, <1>6, <1>7, <1>8, <1>9, <1>10, <1>11, <1>12 DEF
     Does

\* There is a patch to be judged, and what is about to be written is there.
LEMMA FreshStep ==
  ASSUME IInv, NEW r \in Runs, Step(r)
  PROVE  Fresh(r)' /\ Written(r)'
<1>0. /\ Shape /\ Asking(r) /\ Fresh(r) /\ Written(r) /\ JudgedSoFar(r) /\ mode' = mode
      /\ Does(r)
  BY ModeStays, StepDoes DEF IInv, Own
<1>1. ASSUME Thinks(r)
      PROVE  Fresh(r)' /\ Written(r)'
  BY <1>0, <1>1 DEF Thinks, SameOutcome, SameKept, Fresh, Written, Kept
<1>2. ASSUME Works(r)
      PROVE  Fresh(r)' /\ Written(r)'
  BY <1>0, <1>2 DEF Works, SameGraph, SameDraft, SameOutcome, SameKept, Working, Fresh,
     Written, Kept
<1>3. ASSUME Fails(r)
      PROVE  Fresh(r)' /\ Written(r)'
  BY <1>0, <1>3 DEF Fails, SameRest, SameGraph, SameDraft, SameOutcome, SameKept, Fresh,
     Written, Kept
<1>4. ASSUME DrawsBlank(r)
      PROVE  Fresh(r)' /\ Written(r)'
  BY <1>0, <1>4 DEF DrawsBlank, SameKept, Revises, NewDraft, SameDraft, Fresh, Written, Kept
<1>5. ASSUME Delivers(r)
      PROVE  Fresh(r)' /\ Written(r)'
  <2> DEFINE made == [by |-> drafts[r], plan |-> plan[r], tree |-> Committed(tree[r])]
  <2>1. patch'[r] = made /\ plan[r] # Missing
    BY <1>0, <1>5 DEF Delivers, Asking, Working
  <2>2. made # Missing /\ made.by = drafts[r]
    BY <1>0, <2>1, CommitIsPatch
  <2> HIDE DEF made
  <2> QED
    BY <1>0, <1>5, <2>1, <2>2 DEF Delivers, SameDraft, Fresh, Written, Kept
<1>6. ASSUME Clones(r)
      PROVE  Fresh(r)' /\ Written(r)'
  BY <1>0, <1>6 DEF Clones, SameRest, SameGraph, SameDraft, SameOutcome, SameKept, Fresh,
     Written, Kept
<1>7. ASSUME Judges(r)
      PROVE  Fresh(r)' /\ Written(r)'
  <2>1. report'[r] # Missing
    BY <1>0, <1>7, JudgedIsReport DEF Judges, Fresh
  <2> QED
    BY <1>0, <1>7, <2>1 DEF Judges, SameDraft, Revises, NewDraft, Fresh, Written, Kept
<1>8. ASSUME Rules(r)
      PROVE  Fresh(r)' /\ Written(r)'
  BY <1>0, <1>8 DEF Rules, Resumes, RulesOn, Revises, NewDraft, SameDraft, Fresh, Written,
     Kept
<1>9. ASSUME NEW a \in Artifacts, Saves(r, a)
      PROVE  Fresh(r)' /\ Written(r)'
  BY <1>0, <1>9 DEF Saves, SameRest, SameGraph, SameDraft, SameOutcome, Fresh, Written, Kept
<1>10. ASSUME NEW a \in Artifacts, Registers(r, a)
       PROVE  Fresh(r)' /\ Written(r)'
  BY <1>0, <1>10 DEF Registers, SameRest, SameGraph, SameDraft, SameOutcome, Fresh, Written,
     Kept
<1>11. ASSUME Settles(r)
       PROVE  Fresh(r)' /\ Written(r)'
  BY <1>0, <1>11 DEF Settles, SameRest, SameGraph, SameDraft, SameOutcome, Fresh, Written,
     Kept
<1>12. ASSUME Ends(r)
       PROVE  Fresh(r)' /\ Written(r)'
  BY <1>0, <1>12 DEF Ends, SameRest, SameGraph, SameDraft, SameOutcome, SameKept, Fresh,
     Written, Kept
<1> QED
  BY <1>0, <1>1, <1>2, <1>3, <1>4, <1>5, <1>6, <1>7, <1>8, <1>9, <1>10, <1>11, <1>12 DEF
     Does

-----------------------------------------------------------------------------
(***************************************************************************)
(* The patch is what the plan's edits lead to.                             *)
(***************************************************************************)

\* What a plan's edits lead to depends on nothing but the plan.
LEMMA SamePlan ==
  ASSUME NEW r, plan'[r] = plan[r]
  PROVE  DonePlan(r)' = DonePlan(r) /\ (CannotBe(r)' <=> CannotBe(r))
BY DEF DonePlan, CannotBe

\* What is edited, committed and cleaned up is what the plan says.
LEMMA WorksOn ==
  ASSUME IInv, NEW r \in Runs, Step(r), Works(r)
  PROVE  EditedSoFar(r)' /\ EditedPatch(r)'
<1>0. /\ Shape /\ EditedSoFar(r) /\ EditedPatch(r) /\ Left(r) /\ plan[r] # Missing
      /\ broken \subseteq broken' /\ stage'[r] \in Working /\ stage[r] \in Working \ {"clearing"}
  BY ModeStays DEF IInv, Own, Works, Asking
<1>1. DonePlan(r)' = DonePlan(r) /\ (CannotBe(r)' <=> CannotBe(r)) /\ Attempt(r)' = Attempt(r)
  BY SamePlan DEF Works, SameDraft, Attempt
<1>2. /\ plan'[r] # Missing /\ patch'[r] = patch[r]
      /\ failure[r] # "no" => Attempt(r) \in broken \/ CannotBe(r)
  BY <1>0 DEF Works, SameOutcome, EditedPatch
<1>3. ASSUME AddWorktree(r)
      PROVE  EditedSoFar(r)' /\ EditedPatch(r)'
  <2>1. CASE Attempt(r) \in branches
    <3>1. failure'[r] = "git" /\ stage'[r] = "removing" /\ stage[r] = "adding"
      BY <1>0, <1>3, <2>1, PartsDone DEF AddWorktree, Shape, At
    <3>2. Attempt(r) \in broken
      BY <1>0, <2>1, <3>1 DEF Left, Attempt, Shape
    <3>3. EditedSoFar(r)'
      BY <1>2, <3>1 DEF EditedSoFar, At
    <3> QED
      BY <1>0, <1>1, <1>2, <3>2, <3>3 DEF EditedPatch
  <2>2. CASE Attempt(r) \notin branches
    <3>1. failure'[r] = "no" /\ stage'[r] = "editing"
      BY <1>0, <1>3, <2>2, PartsDone DEF AddWorktree, At, EditedSoFar
    <3> QED
      BY <1>0, <1>2, <3>1 DEF EditedSoFar, EditedPatch, At
  <2> QED
    BY <2>1, <2>2
<1>4. ASSUME ApplyEdits(r)
      PROVE  EditedSoFar(r)' /\ EditedPatch(r)'
  <2>1. /\ tree'[r] = DonePlan(r).tree /\ failure'[r] = DonePlan(r).failed
        /\ stage'[r] = IF DonePlan(r).failed = "no" THEN "committing" ELSE "removing"
    BY <1>0, <1>4, PartsDone DEF ApplyEdits, Shape, DonePlan
  <2>2. DonePlan(r) \in Outcomes
    BY <1>0, PlanIsEdited DEF DonePlan
  <2>3. DonePlan(r) = [tree |-> DonePlan(r).tree, failed |-> DonePlan(r).failed]
    BY <2>2 DEF Outcomes
  <2>4. EditedSoFar(r)'
    BY <1>1, <1>2, <2>1, <2>3 DEF EditedSoFar, At
  <2>5. failure'[r] # "no" => CannotBe(r)
    BY <2>1 DEF CannotBe
  <2> QED
    BY <1>0, <1>1, <1>2, <2>4, <2>5 DEF EditedPatch
<1>5. ASSUME Commit(r)
      PROVE  EditedSoFar(r)' /\ EditedPatch(r)'
  <2>1. /\ stage[r] = "committing" /\ stage'[r] = "removing" /\ tree'[r] = tree[r]
        /\ \/ /\ failure'[r] = "git"
              /\ Changed(Committed(tree[r])) = {} \/ plan[r].message = "pathlike"
           \/ failure'[r] = failure[r] /\ Changed(Committed(tree[r])) # {}
    BY <1>0, <1>5, PartsDone DEF Commit, Shape, At
  <2>2. DonePlan(r) = [tree |-> tree[r], failed |-> "no"]
    BY <1>0, <2>1 DEF EditedSoFar, At
  <2>3. EditedSoFar(r)'
    BY <1>1, <1>2, <2>1, <2>2 DEF EditedSoFar, At
  <2>4. failure'[r] # "no" => Attempt(r) \in broken \/ CannotBe(r)
    BY <1>2, <2>1, <2>2 DEF CannotBe
  <2> QED
    BY <1>0, <1>1, <1>2, <2>3, <2>4 DEF EditedPatch
<1>6. ASSUME GitFails(r)
      PROVE  EditedSoFar(r)' /\ EditedPatch(r)'
  <2>1. failure'[r] = "git" /\ stage'[r] = "removing" /\ Attempt(r) \in broken'
    BY <1>0, <1>6, PartsDone DEF GitFails, Shape
  <2> QED
    BY <1>0, <1>1, <1>2, <2>1 DEF EditedSoFar, EditedPatch, At
<1>7. ASSUME RemoveWorktree(r) \/ DeleteBranch(r) \/ CleanUpFails(r)
      PROVE  EditedSoFar(r)' /\ EditedPatch(r)'
  <2>1. /\ tree'[r] = tree[r] /\ failure'[r] = failure[r]
        /\ stage[r] \in {"removing", "deleting"} /\ stage'[r] \in {"deleting", "clearing"}
    BY <1>0, <1>7, PartsDone DEF RemoveWorktree, DeleteBranch, CleanUpFails, At
  <2> QED
    BY <1>0, <1>1, <1>2, <2>1 DEF EditedSoFar, EditedPatch, At
<1>8. \/ AddWorktree(r) \/ ApplyEdits(r) \/ Commit(r) \/ GitFails(r)
      \/ RemoveWorktree(r) \/ DeleteBranch(r) \/ CleanUpFails(r)
  <2>1. \A a \in Artifacts : ~Keep(r, a)
    BY <1>0, KeepingStages DEF Keep, WriteFile, RecordArtifact, At, Working
  <2>2. ~Crash(r)
    BY <1>0, PartsDone DEF Crash, Working
  <2> QED
    BY <1>0, <2>1, <2>2 DEF Step, At, Working, Analysis, ProposeEdits, Review, BadAnswer,
       ProviderFails, ClearTemp, CloneBase, CloneFails, Judge, Decide, FinishRun, EndRun
<1> QED
  BY <1>3, <1>4, <1>5, <1>6, <1>7, <1>8

\* A run whose attempt has not failed and is not at work has a patch or none as before.
LEMMA EditedKeeps ==
  ASSUME NEW r \in Runs, EditedPatch(r), patch'[r] \in {patch[r], Missing},
         failure'[r] = "no",
         stage'[r] \notin {"committing", "removing", "deleting", "clearing"}
  PROVE  EditedSoFar(r)' /\ EditedPatch(r)'
BY DEF EditedSoFar, EditedPatch, At

\* What the run has edited, committed and failed in is what its plan says.
LEMMA EditedStep ==
  ASSUME IInv, NEW r \in Runs, Step(r)
  PROVE  EditedSoFar(r)' /\ EditedPatch(r)'
<1>0. /\ Shape /\ EditedSoFar(r) /\ EditedPatch(r) /\ broken \subseteq broken' /\ mode' = mode
      /\ Does(r)
  BY ModeStays, StepDoes DEF IInv, Own
<1>1. ASSUME Thinks(r)
      PROVE  EditedSoFar(r)' /\ EditedPatch(r)'
  BY <1>0, <1>1, EditedKeeps DEF Thinks, SameOutcome, EditedSoFar
<1>2. ASSUME Works(r)
      PROVE  EditedSoFar(r)' /\ EditedPatch(r)'
  BY <1>2, WorksOn
<1>3. ASSUME Fails(r)
      PROVE  EditedSoFar(r)' /\ EditedPatch(r)'
  <2>1. /\ DonePlan(r)' = DonePlan(r) /\ (CannotBe(r)' <=> CannotBe(r))
        /\ Attempt(r)' = Attempt(r)
    BY <1>3, SamePlan DEF Fails, SameRest, SameDraft, Attempt
  <2>2. EditedSoFar(r)'
    BY <1>0, <1>3, <2>1 DEF Fails, SameRest, EditedSoFar, At
  <2>3. EditedPatch(r)'
    BY <1>0, <1>3, <2>1 DEF Fails, SameRest, SameOutcome, EditedPatch
  <2> QED
    BY <2>2, <2>3
<1>4. ASSUME DrawsBlank(r)
      PROVE  EditedSoFar(r)' /\ EditedPatch(r)'
  BY <1>0, <1>4, EditedKeeps DEF DrawsBlank, Revises, NewDraft, EditedSoFar
<1>5. ASSUME Delivers(r)
      PROVE  EditedSoFar(r)' /\ EditedPatch(r)'
  <2> DEFINE made == [by |-> drafts[r], plan |-> plan[r], tree |-> Committed(tree[r])]
  <2>1. patch'[r] = made /\ failure'[r] = "no" /\ stage'[r] \in {"saving patch", "cloning"}
    BY <1>5 DEF Delivers
  <2>2. /\ Edited(plan[r].edits) = [tree |-> tree[r], failed |-> "no"]
        /\ Changed(Committed(tree[r])) # {}
    BY <1>0, <1>5 DEF Delivers, EditedSoFar, DonePlan
  <2>3. /\ made.plan = plan[r] /\ made.tree = Committed(tree[r])
    OBVIOUS
  <2> HIDE DEF made
  <2>4. /\ Edited(made.plan.edits).failed = "no" /\ Changed(made.tree) # {}
        /\ made.tree = Committed(Edited(made.plan.edits).tree)
    BY <2>2, <2>3
  <2> QED
    BY <2>1, <2>4 DEF EditedSoFar, EditedPatch, At
<1>6. ASSUME Clones(r)
      PROVE  EditedSoFar(r)' /\ EditedPatch(r)'
  BY <1>0, <1>6, EditedKeeps DEF Clones, SameRest, SameOutcome, EditedSoFar
<1>7. ASSUME Judges(r)
      PROVE  EditedSoFar(r)' /\ EditedPatch(r)'
  BY <1>0, <1>7, EditedKeeps DEF Judges, Revises, NewDraft, EditedSoFar
<1>8. ASSUME Rules(r)
      PROVE  EditedSoFar(r)' /\ EditedPatch(r)'
  BY <1>0, <1>8, EditedKeeps DEF Rules, Resumes, RulesOn, Revises, NewDraft, EditedSoFar
<1>9. ASSUME NEW a \in Artifacts, Saves(r, a)
      PROVE  EditedSoFar(r)' /\ EditedPatch(r)'
  BY <1>0, <1>9, EditedKeeps DEF Saves, SameRest, SameOutcome, EditedSoFar
<1>10. ASSUME NEW a \in Artifacts, Registers(r, a)
       PROVE  EditedSoFar(r)' /\ EditedPatch(r)'
  BY <1>0, <1>10, EditedKeeps DEF Registers, SameRest, SameOutcome, EditedSoFar
<1>11. ASSUME Settles(r)
       PROVE  EditedSoFar(r)' /\ EditedPatch(r)'
  BY <1>0, <1>11, EditedKeeps DEF Settles, SameRest, SameOutcome, EditedSoFar
<1>12. ASSUME Ends(r)
       PROVE  EditedSoFar(r)' /\ EditedPatch(r)'
  BY <1>0, <1>12, EditedKeeps DEF Ends, SameRest, SameOutcome, EditedSoFar
<1> QED
  BY <1>0, <1>1, <1>2, <1>3, <1>4, <1>5, <1>6, <1>7, <1>8, <1>9, <1>10, <1>11, <1>12 DEF
     Does

-----------------------------------------------------------------------------
(***************************************************************************)
(* The report is of the patch, and so is the outcome.                      *)
(***************************************************************************)

\* The scope of a run is settled when it starts, or by the plan of its file.
LEMMA ScopeStays ==
  ASSUME NEW r, mode' = mode, mode[r] = "file" => plan'[r] = plan[r]
  PROVE  Scope(r)' = Scope(r)
BY DEF Scope

\* What a report says of a patch stands as long as neither changes.
LEMMA PassedStays ==
  ASSUME NEW r, Scope(r)' = Scope(r), patch'[r] = patch[r], report'[r] = report[r]
  PROVE  (ReportOfPatch(r)' <=> ReportOfPatch(r)) /\ (Passed(r)' <=> Passed(r))
BY DEF ReportOfPatch, Passed

\* Once the checkpoint is past a check, the check was of the patch that is there.
LEMMA JudgedStep ==
  ASSUME IInv, NEW r \in Runs, Step(r)
  PROVE  JudgedSoFar(r)'
<1>0. /\ Shape /\ Asking(r) /\ Fresh(r) /\ JudgedSoFar(r) /\ mode' = mode /\ Does(r)
  BY ModeStays, StepDoes DEF IInv, Own
<1>1. ASSUME Thinks(r)
      PROVE  JudgedSoFar(r)'
  <2>1. Scope(r)' = Scope(r) /\ patch'[r] = patch[r] /\ report'[r] = report[r]
    BY <1>0, <1>1, ScopeStays DEF Thinks, SameOutcome, Asking
  <2>2. (ReportOfPatch(r)' <=> ReportOfPatch(r)) /\ (Passed(r)' <=> Passed(r))
    BY <2>1, PassedStays
  <2> QED
    BY <1>0, <1>1, <2>2 DEF Thinks, SameOutcome, SameKept, JudgedSoFar, At, Asking
<1>2. ASSUME Works(r)
      PROVE  JudgedSoFar(r)'
  <2>1. Scope(r)' = Scope(r) /\ patch'[r] = patch[r] /\ report'[r] = report[r]
    BY <1>0, <1>2, ScopeStays DEF Works, SameOutcome
  <2>2. (ReportOfPatch(r)' <=> ReportOfPatch(r)) /\ (Passed(r)' <=> Passed(r))
    BY <2>1, PassedStays
  <2> QED
    BY <1>0, <1>2, <2>2 DEF Works, SameGraph, SameDraft, SameOutcome, SameKept, Working,
       JudgedSoFar, At, Asking
<1>3. ASSUME Fails(r)
      PROVE  JudgedSoFar(r)'
  <2>1. Scope(r)' = Scope(r) /\ patch'[r] = patch[r] /\ report'[r] = report[r]
    BY <1>0, <1>3, ScopeStays DEF Fails, SameRest, SameOutcome
  <2>2. (ReportOfPatch(r)' <=> ReportOfPatch(r)) /\ (Passed(r)' <=> Passed(r))
    BY <2>1, PassedStays
  <2> QED
    BY <1>0, <1>3, <2>2 DEF Fails, SameRest, SameGraph, SameDraft, SameOutcome, SameKept,
       JudgedSoFar, At
<1>4. ASSUME DrawsBlank(r)
      PROVE  JudgedSoFar(r)'
  BY <1>0, <1>4 DEF DrawsBlank, SameKept, Revises, NewDraft, SameDraft, JudgedSoFar, At
<1>5. ASSUME Delivers(r)
      PROVE  JudgedSoFar(r)'
  BY <1>0, <1>5 DEF Delivers, SameKept, SameDraft, JudgedSoFar, At
<1>6. ASSUME Clones(r)
      PROVE  JudgedSoFar(r)'
  <2>1. Scope(r)' = Scope(r) /\ patch'[r] = patch[r] /\ report'[r] = report[r]
    BY <1>0, <1>6, ScopeStays DEF Clones, SameRest, SameOutcome
  <2>2. (ReportOfPatch(r)' <=> ReportOfPatch(r)) /\ (Passed(r)' <=> Passed(r))
    BY <2>1, PassedStays
  <2> QED
    BY <1>0, <1>6, <2>2 DEF Clones, SameRest, SameGraph, SameDraft, SameOutcome, SameKept,
       JudgedSoFar, At
<1>7. ASSUME Judges(r)
      PROVE  JudgedSoFar(r)'
  <2>1. Scope(r)' = Scope(r) /\ patch'[r] = patch[r] /\ patch[r] # Missing
    BY <1>0, <1>7, ScopeStays DEF Judges, Fresh
  <2> DEFINE rep == [of |-> patch[r].by, verdict |-> Verdict(patch[r].tree, Scope(r))]
  <2>2. report'[r] = rep /\ rep # Missing
    BY <1>0, <1>7, <2>1, JudgedIsReport DEF Judges
  <2>3. rep.of = patch[r].by /\ rep.verdict = Verdict(patch[r].tree, Scope(r))
    OBVIOUS
  <2> HIDE DEF rep
  <2>4. ReportOfPatch(r)' /\ (Verdict(patch[r].tree, Scope(r)) # "rejected" => Passed(r)')
    BY <2>1, <2>2, <2>3 DEF ReportOfPatch, Passed
  <2> QED
    BY <1>0, <1>7, <2>4 DEF Judges, SameKept, SameDraft, Revises, NewDraft, JudgedSoFar, At
<1>8. ASSUME Rules(r)
      PROVE  JudgedSoFar(r)'
  <2>1. Scope(r)' = Scope(r) /\ patch'[r] = patch[r] /\ report'[r] = report[r]
    BY <1>0, <1>8, ScopeStays DEF Rules
  <2>2. (ReportOfPatch(r)' <=> ReportOfPatch(r)) /\ (Passed(r)' <=> Passed(r))
    BY <2>1, PassedStays
  <2> QED
    BY <1>0, <1>8, <2>2 DEF Rules, Resumes, RulesOn, Revises, NewDraft, SameDraft,
       JudgedSoFar, At, Passed
<1>9. ASSUME NEW a \in Artifacts, Saves(r, a)
      PROVE  JudgedSoFar(r)'
  <2>1. Scope(r)' = Scope(r) /\ patch'[r] = patch[r] /\ report'[r] = report[r]
    BY <1>0, <1>9, ScopeStays DEF Saves, SameRest, SameOutcome
  <2>2. (ReportOfPatch(r)' <=> ReportOfPatch(r)) /\ (Passed(r)' <=> Passed(r))
    BY <2>1, PassedStays
  <2> QED
    BY <1>0, <1>9, <2>2 DEF Saves, SameRest, SameGraph, SameDraft, SameOutcome,
       JudgedSoFar, At
<1>10. ASSUME NEW a \in Artifacts, Registers(r, a)
       PROVE  JudgedSoFar(r)'
  <2>1. Scope(r)' = Scope(r) /\ patch'[r] = patch[r] /\ report'[r] = report[r]
    BY <1>0, <1>10, ScopeStays DEF Registers, SameRest, SameOutcome
  <2>2. (ReportOfPatch(r)' <=> ReportOfPatch(r)) /\ (Passed(r)' <=> Passed(r))
    BY <2>1, PassedStays
  <2> QED
    BY <1>0, <1>10, <2>2 DEF Registers, SameRest, SameGraph, SameDraft, SameOutcome,
       JudgedSoFar, At
<1>11. ASSUME Settles(r)
       PROVE  JudgedSoFar(r)'
  <2>1. Scope(r)' = Scope(r) /\ patch'[r] = patch[r] /\ report'[r] = report[r]
    BY <1>0, <1>11, ScopeStays DEF Settles, SameRest, SameOutcome
  <2>2. (ReportOfPatch(r)' <=> ReportOfPatch(r)) /\ (Passed(r)' <=> Passed(r))
    BY <2>1, PassedStays
  <2>3. mode[r] = "file" => ReportOfPatch(r) /\ FinalVerdict(r) = report[r].verdict
    BY <1>0, <1>11 DEF Settles, JudgedSoFar, FinalVerdict
  <2> DEFINE settled == [verdict |-> FinalVerdict(r), cost |-> clients[r].cost]
  <2>5. row'[r] = settled
    BY <1>11 DEF Settles
  <2>6. settled.verdict = FinalVerdict(r)
    OBVIOUS
  <2> HIDE DEF settled
  <2>4. mode[r] = "file" => row'[r].verdict = report[r].verdict
    BY <2>3, <2>5, <2>6
  <2> QED
    BY <1>0, <1>11, <2>2, <2>3, <2>4 DEF Settles, SameRest, SameGraph, SameDraft, JudgedSoFar,
       Passed, At
<1>12. ASSUME Ends(r)
       PROVE  JudgedSoFar(r)'
  <2>1. Scope(r)' = Scope(r) /\ patch'[r] = patch[r] /\ report'[r] = report[r]
    BY <1>0, <1>12, ScopeStays DEF Ends, SameRest, SameOutcome
  <2>2. (ReportOfPatch(r)' <=> ReportOfPatch(r)) /\ (Passed(r)' <=> Passed(r))
    BY <2>1, PassedStays
  <2> QED
    BY <1>0, <1>12, <2>2 DEF Ends, SameRest, SameGraph, SameDraft, SameOutcome, SameKept,
       JudgedSoFar, At
<1> QED
  BY <1>0, <1>1, <1>2, <1>3, <1>4, <1>5, <1>6, <1>7, <1>8, <1>9, <1>10, <1>11, <1>12 DEF
     Does

-----------------------------------------------------------------------------
(***************************************************************************)
(* What is on record.                                                      *)
(***************************************************************************)

\* A row that is settled is there.
LEMMA SettledIsSomething ==
  ASSUME Shape, NEW r \in Runs, At(r, "finishing"), mode[r] = "file" => report[r] # Missing
  PROVE  [verdict |-> FinalVerdict(r), cost |-> clients[r].cost] # Missing
<1>1. report[r] # Missing =>
        report[r].verdict \in {"validated", "review", "rejected", "inconclusive"}
  BY DEF Shape, ValidationReport
<1>2. FinalVerdict(r) \in {"validated", "review", "rejected", "inconclusive"}
  BY <1>1 DEF FinalVerdict
<1>3. clients[r].cost \in Nat
  BY DEF Shape, Clients
<1> QED
  BY <1>2, <1>3, MissingAssumption DEF RunRow

\* What a file is about does not change unless the draft or the outcome does.
LEMMA ContentStays ==
  ASSUME NEW r, NEW a, patch'[r] = patch[r], report'[r] = report[r], drafts'[r] = drafts[r]
  PROVE  Content(r, a)' = Content(r, a)
BY DEF Content

\* A run that records nothing next has no file to have written before.
LEMMA NothingToRecord ==
  ASSUME NEW r, stage'[r] \notin {"recording patch", "recording validation", "recording run"}
  PROVE  (\A a \in Artifacts : At(r, Recording[a]) => saved[r][a] = Content(r, a))'
<1>1. \A a \in Artifacts : stage'[r] # Recording[a]
  BY KeepingStages
<1> QED
  BY <1>1 DEF At

\* Nothing is recorded before its step, and nothing outlives the run of PersistRun it is of.
LEMMA UnrecordedStep ==
  ASSUME IInv, NEW r \in Runs, Step(r)
  PROVE  Unrecorded(r)'
<1>0. /\ Shape /\ Asking(r) /\ Fresh(r) /\ Written(r) /\ JudgedSoFar(r) /\ Unrecorded(r)
      /\ OnRecord(r) /\ RecordedAt(r) /\ mode' = mode /\ Does(r)
  BY ModeStays, StepDoes DEF IInv, Own, Records
<1>1. ASSUME Thinks(r)
      PROVE  Unrecorded(r)'
  BY <1>0, <1>1 DEF Thinks, SameKept, Unrecorded, Kept, Asking
<1>2. ASSUME Works(r)
      PROVE  Unrecorded(r)'
  BY <1>0, <1>2 DEF Works, SameKept, Unrecorded, Kept, Asking, Working
<1>3. ASSUME Fails(r)
      PROVE  Unrecorded(r)'
  BY <1>0, <1>3 DEF Fails, SameKept, Unrecorded, Kept, Asking
<1>4. ASSUME DrawsBlank(r)
      PROVE  Unrecorded(r)'
  BY <1>0, <1>4 DEF DrawsBlank, SameKept, Revises, NewDraft, Unrecorded, Kept, Asking
<1>5. ASSUME Delivers(r)
      PROVE  Unrecorded(r)'
  BY <1>0, <1>5 DEF Delivers, SameKept, Unrecorded, Kept, Asking
<1>6. ASSUME Clones(r)
      PROVE  Unrecorded(r)'
  BY <1>0, <1>6 DEF Clones, SameKept, Unrecorded, Kept, Asking
<1>7. ASSUME Judges(r)
      PROVE  Unrecorded(r)'
  BY <1>0, <1>7 DEF Judges, SameKept, Revises, NewDraft, Unrecorded, Kept, Asking
<1>8. ASSUME Rules(r)
      PROVE  Unrecorded(r)'
  <2>1. stage'[r] \notin Kept /\ mode'[r] = mode[r] /\ mode[r] # "file"
    BY <1>0, <1>8 DEF Rules, Resumes, RulesOn, Revises, NewDraft, Kept
  <2>2. r \notin reopened' => /\ r \notin reopened /\ row[r] = Missing /\ row'[r] = Missing
                            /\ recorded'[r] = recorded[r]
    BY <1>8 DEF Rules
  <2> QED
    BY <1>0, <2>1, <2>2 DEF Unrecorded, Kept, Artifacts
<1>9. ASSUME NEW a \in Artifacts, Saves(r, a)
      PROVE  Unrecorded(r)'
  BY <1>0, <1>9 DEF Saves, Unrecorded, Kept
<1>10. ASSUME NEW a \in Artifacts, Registers(r, a)
       PROVE  Unrecorded(r)'
  <2>1. /\ recorded'[r][a] = Content(r, a)
        /\ \A b \in Artifacts \ {a} : recorded'[r][b] = recorded[r][b]
    BY <1>0, <1>10 DEF Registers, Shape, Counts
  <2> QED
    BY <1>0, <1>10, <2>1 DEF Registers, Unrecorded, Artifacts, Kept, Asking, Working
<1>11. ASSUME Settles(r)
       PROVE  Unrecorded(r)'
  <2>1. row'[r] # Missing
    BY <1>0, <1>11, SettledIsSomething DEF Settles, JudgedSoFar, ReportOfPatch, At
  <2> QED
    BY <1>0, <1>11, <2>1 DEF Settles, Unrecorded, Kept
<1>12. ASSUME Ends(r)
       PROVE  Unrecorded(r)'
  BY <1>0, <1>12 DEF Ends, SameKept, Unrecorded, Kept, Asking
<1> QED
  BY <1>0, <1>1, <1>2, <1>3, <1>4, <1>5, <1>6, <1>7, <1>8, <1>9, <1>10, <1>11, <1>12 DEF
     Does

\* What has been written by now is there.
LEMMA OnRecordStep ==
  ASSUME IInv, NEW r \in Runs, Step(r)
  PROVE  OnRecord(r)'
<1>0. /\ Shape /\ Asking(r) /\ Fresh(r) /\ Written(r) /\ JudgedSoFar(r) /\ Unrecorded(r)
      /\ OnRecord(r) /\ RecordedAt(r) /\ mode' = mode /\ Does(r)
  BY ModeStays, StepDoes DEF IInv, Own, Records
<1>1. ASSUME Thinks(r)
      PROVE  OnRecord(r)'
  <2>1. (\A a \in Artifacts : At(r, Recording[a]) => saved[r][a] = Content(r, a))'
    BY <1>0, <1>1, NothingToRecord DEF Thinks
  <2> QED
    BY <1>0, <1>1, <2>1 DEF Thinks, SameOutcome, SameKept, OnRecord, Asking
<1>2. ASSUME Works(r)
      PROVE  OnRecord(r)'
  <2>1. (\A a \in Artifacts : At(r, Recording[a]) => saved[r][a] = Content(r, a))'
    BY <1>0, <1>2, NothingToRecord DEF Works, Working
  <2> QED
    BY <1>0, <1>2, <2>1 DEF Works, SameGraph, SameDraft, SameOutcome, SameKept, Working,
       OnRecord, Asking
<1>3. ASSUME Fails(r)
      PROVE  OnRecord(r)'
  <2>1. (\A a \in Artifacts : At(r, Recording[a]) => saved[r][a] = Content(r, a))'
    BY <1>0, <1>3, NothingToRecord DEF Fails
  <2> QED
    BY <1>0, <1>3, <2>1 DEF Fails, SameRest, SameGraph, SameDraft, SameOutcome, SameKept,
       OnRecord, Asking
<1>4. ASSUME DrawsBlank(r)
      PROVE  OnRecord(r)'
  <2>1. (\A a \in Artifacts : At(r, Recording[a]) => saved[r][a] = Content(r, a))'
    BY <1>0, <1>4, NothingToRecord DEF DrawsBlank, Revises, NewDraft
  <2> QED
    BY <1>0, <1>4, <2>1 DEF DrawsBlank, SameKept, Revises, NewDraft, SameDraft, OnRecord,
       Asking
<1>5. ASSUME Delivers(r)
      PROVE  OnRecord(r)'
  <2>1. (\A a \in Artifacts : At(r, Recording[a]) => saved[r][a] = Content(r, a))'
    BY <1>0, <1>5, NothingToRecord DEF Delivers
  <2> QED
    BY <1>0, <1>5, <2>1 DEF Delivers, SameDraft, SameKept, OnRecord, Asking
<1>6. ASSUME Clones(r)
      PROVE  OnRecord(r)'
  <2>1. (\A a \in Artifacts : At(r, Recording[a]) => saved[r][a] = Content(r, a))'
    BY <1>0, <1>6, NothingToRecord DEF Clones
  <2> QED
    BY <1>0, <1>6, <2>1 DEF Clones, SameRest, SameGraph, SameDraft, SameOutcome, SameKept,
       OnRecord, Asking
<1>7. ASSUME Judges(r)
      PROVE  OnRecord(r)'
  <2>1. (\A a \in Artifacts : At(r, Recording[a]) => saved[r][a] = Content(r, a))'
    BY <1>0, <1>7, NothingToRecord DEF Judges, Revises, NewDraft
  <2> QED
    BY <1>0, <1>7, <2>1 DEF Judges, SameKept, SameDraft, Revises, NewDraft, OnRecord,
       Asking
<1>8. ASSUME Rules(r)
      PROVE  OnRecord(r)'
  <2>1. (\A a \in Artifacts : At(r, Recording[a]) => saved[r][a] = Content(r, a))'
    BY <1>0, <1>8, NothingToRecord DEF Rules, Resumes, RulesOn, Revises, NewDraft
  <2> QED
    BY <1>0, <1>8, <2>1 DEF Rules, Resumes, RulesOn, Revises, NewDraft, SameDraft,
       OnRecord, Asking
<1>9. ASSUME NEW a \in Artifacts, Saves(r, a)
      PROVE  OnRecord(r)'
  <2>1. stage'[r] = Recording[a] /\ \A b \in Artifacts : stage'[r] = Recording[b] => b = a
    BY <1>9, KeepingStages DEF Saves
  <2>2. Content(r, a)' = Content(r, a)
    BY <1>9, ContentStays DEF Saves, SameRest, SameOutcome, SameDraft
  <2>3. saved'[r][a] = Content(r, a)' /\ \A b \in Artifacts \ {a} : saved'[r][b] = saved[r][b]
    BY <1>0, <1>9, <2>2 DEF Saves, Shape, Counts
  <2>4. (\A b \in Artifacts : At(r, Recording[b]) => saved[r][b] = Content(r, b))'
    BY <2>1, <2>3 DEF At
  <2>5. /\ stage[r] = "saving patch" => saved'[r]["validation"] = saved[r]["validation"]
        /\ stage'[r] \notin {"saving patch", "recording patch"} =>
             stage'[r] \in {"recording validation", "recording run"}
    BY <1>9, <2>3 DEF Saves, Artifacts
  <2> QED
    BY <1>0, <1>9, <2>4, <2>5 DEF Saves, SameRest, SameOutcome, SameDraft, OnRecord
<1>10. ASSUME NEW a \in Artifacts, Registers(r, a)
       PROVE  OnRecord(r)'
  <2>1. (\A b \in Artifacts : At(r, Recording[b]) => saved[r][b] = Content(r, b))'
    BY <1>10, NothingToRecord DEF Registers
  <2>2. /\ recorded'[r][a] = Content(r, a)
        /\ \A b \in Artifacts \ {a} : recorded'[r][b] = recorded[r][b]
    BY <1>0, <1>10 DEF Registers, Shape, Counts
  <2>3. stage[r] = Recording[a]
    BY <1>10, KeepingStages DEF Registers
  <2>4. saved'[r] = saved[r] /\ saved[r][a] = Content(r, a)
    BY <1>0, <1>10, <2>3 DEF Registers, OnRecord, At
  <2>5. /\ report'[r] = report[r] /\ patch'[r] = patch[r] /\ drafts'[r] = drafts[r]
        /\ mode'[r] = mode[r]
    BY <1>0, <1>10 DEF Registers, SameRest, SameOutcome, SameDraft
  <2>6. CASE a = "patch"
    <3>1. recorded'[r]["patch"] = patch[r].by /\ saved'[r]["patch"] = patch[r].by
      BY <2>2, <2>4, <2>6 DEF Content
    <3>2. recorded'[r]["validation"] = recorded[r]["validation"]
      BY <2>2, <2>6 DEF Artifacts
    <3> QED
      BY <1>0, <1>10, <2>1, <2>4, <2>5, <2>6, <3>1, <3>2 DEF Registers, OnRecord, Fresh, Kept
  <2>7. CASE a = "validation"
    <3>1. recorded'[r]["validation"] = report[r].of /\ saved'[r]["validation"] = report[r].of
      BY <2>2, <2>4, <2>7 DEF Content
    <3>2. recorded'[r]["patch"] = recorded[r]["patch"]
      BY <2>2, <2>7 DEF Artifacts
    <3>3. CASE mode[r] = "file"
      <4>1. stage'[r] = "finishing" /\ report[r].of = drafts[r] /\ recorded[r]["patch"] = drafts[r]
        BY <1>0, <1>10, <2>7, <3>3 DEF Registers, OnRecord, Fresh, Kept, JudgedSoFar,
           ReportOfPatch
      <4> QED
        BY <1>0, <2>1, <2>5, <3>1, <3>2, <3>3, <4>1 DEF OnRecord
    <3>4. CASE mode[r] # "file"
      BY <1>0, <1>10, <2>1, <2>4, <2>5, <2>7, <3>1, <3>2, <3>4 DEF Registers, OnRecord
    <3> QED
      BY <3>3, <3>4
  <2>8. CASE a = "run"
    <3>1. /\ recorded'[r]["patch"] = recorded[r]["patch"]
          /\ recorded'[r]["validation"] = recorded[r]["validation"]
      BY <2>2, <2>8 DEF Artifacts
    <3> QED
      BY <1>0, <1>10, <2>1, <2>4, <2>5, <2>8, <3>1 DEF Registers, OnRecord, Unrecorded
  <2> QED
    BY <2>6, <2>7, <2>8 DEF Artifacts
<1>11. ASSUME Settles(r)
       PROVE  OnRecord(r)'
  <2>1. (\A a \in Artifacts : At(r, Recording[a]) => saved[r][a] = Content(r, a))'
    BY <1>0, <1>11, NothingToRecord DEF Settles
  <2> QED
    BY <1>0, <1>11, <2>1 DEF Settles, SameRest, SameGraph, SameDraft, SameOutcome,
       OnRecord, Asking
<1>12. ASSUME Ends(r)
       PROVE  OnRecord(r)'
  <2>1. (\A a \in Artifacts : At(r, Recording[a]) => saved[r][a] = Content(r, a))'
    BY <1>0, <1>12, NothingToRecord DEF Ends
  <2> QED
    BY <1>0, <1>12, <2>1 DEF Ends, SameRest, SameGraph, SameDraft, SameOutcome, SameKept,
       OnRecord, Asking
<1> QED
  BY <1>0, <1>1, <1>2, <1>3, <1>4, <1>5, <1>6, <1>7, <1>8, <1>9, <1>10, <1>11, <1>12 DEF
     Does

\* What is on record is on disk.
LEMMA RecordedAtStep ==
  ASSUME IInv, NEW r \in Runs, Step(r)
  PROVE  RecordedAt(r)'
<1>0. /\ Shape /\ Asking(r) /\ Fresh(r) /\ Written(r) /\ JudgedSoFar(r) /\ Unrecorded(r)
      /\ OnRecord(r) /\ RecordedAt(r) /\ mode' = mode /\ Does(r)
  BY ModeStays, StepDoes DEF IInv, Own, Records
<1>1. ASSUME Thinks(r)
      PROVE  RecordedAt(r)'
  BY <1>0, <1>1 DEF Thinks, SameOutcome, SameKept, RecordedAt, Asking
<1>2. ASSUME Works(r)
      PROVE  RecordedAt(r)'
  BY <1>0, <1>2 DEF Works, SameGraph, SameDraft, SameOutcome, SameKept, RecordedAt
<1>3. ASSUME Fails(r)
      PROVE  RecordedAt(r)'
  BY <1>0, <1>3 DEF Fails, SameRest, SameGraph, SameDraft, SameOutcome, SameKept,
     RecordedAt
<1>4. ASSUME DrawsBlank(r)
      PROVE  RecordedAt(r)'
  BY <1>0, <1>4 DEF DrawsBlank, SameKept, Revises, NewDraft, SameDraft, RecordedAt,
     Unrecorded, Asking, JudgedSoFar, Kept
<1>5. ASSUME Delivers(r)
      PROVE  RecordedAt(r)'
  BY <1>0, <1>5 DEF Delivers, SameDraft, SameKept, RecordedAt, Unrecorded, JudgedSoFar,
     Kept
<1>6. ASSUME Clones(r)
      PROVE  RecordedAt(r)'
  BY <1>0, <1>6 DEF Clones, SameRest, SameGraph, SameDraft, SameOutcome, SameKept,
     RecordedAt
<1>7. ASSUME Judges(r)
      PROVE  RecordedAt(r)'
  BY <1>0, <1>7 DEF Judges, SameKept, SameDraft, Revises, NewDraft, RecordedAt,
     Unrecorded, JudgedSoFar, Kept
<1>8. ASSUME Rules(r)
      PROVE  RecordedAt(r)'
  <2>1. r \notin reopened' => \A a \in Artifacts : recorded'[r][a] = 0
    BY <1>0, <1>8 DEF Rules, Unrecorded
  <2>2. mode'[r] # "file"
    BY <1>0, <1>8 DEF Rules
  <2> QED
    BY <2>1, <2>2 DEF RecordedAt, Artifacts
<1>9. ASSUME NEW a \in Artifacts, Saves(r, a)
      PROVE  RecordedAt(r)'
  <2>1. \A b \in Artifacts \ {a} : saved'[r][b] = saved[r][b]
    BY <1>0, <1>9 DEF Saves, Shape, Counts
  <2>2. r \notin reopened => recorded[r][a] = 0
    BY <1>0, <1>9 DEF Saves, Unrecorded, Artifacts
  <2> QED
    BY <1>0, <1>9, <2>1, <2>2 DEF Saves, SameRest, SameOutcome, SameDraft, RecordedAt
<1>10. ASSUME NEW a \in Artifacts, Registers(r, a)
       PROVE  RecordedAt(r)'
  <2>1. stage[r] = Recording[a]
    BY <1>10, KeepingStages DEF Registers
  <2>2. saved'[r] = saved[r] /\ saved[r][a] = Content(r, a)
    BY <1>0, <1>10, <2>1 DEF Registers, OnRecord, At
  <2>3. /\ recorded'[r][a] = Content(r, a)
        /\ \A b \in Artifacts \ {a} : recorded'[r][b] = recorded[r][b]
    BY <1>0, <1>10 DEF Registers, Shape, Counts
  <2>4. /\ patch'[r] = patch[r] /\ report'[r] = report[r] /\ drafts'[r] = drafts[r]
        /\ row'[r] = row[r] /\ (r \in reopened' <=> r \in reopened)
    BY <1>10 DEF Registers, SameRest, SameOutcome, SameDraft
  <2>5. /\ a = "patch" => patch[r] # Missing /\ recorded'[r]["patch"] = patch[r].by
        /\ a = "validation" => recorded'[r]["validation"] = report[r].of
        /\ a # "patch" => recorded'[r]["patch"] = recorded[r]["patch"]
        /\ a # "validation" => recorded'[r]["validation"] = recorded[r]["validation"]
    BY <1>0, <1>10, <2>3 DEF Registers, Content, Written, Artifacts
  <2>6. mode[r] = "file" /\ row[r] # Missing => a = "run"
    BY <1>0, <1>10 DEF Registers, JudgedSoFar
  <2> QED
    BY <1>0, <2>2, <2>3, <2>4, <2>5, <2>6 DEF RecordedAt
<1>11. ASSUME Settles(r)
       PROVE  RecordedAt(r)'
  <2>1. mode[r] = "file" =>
          recorded[r]["patch"] = drafts[r] /\ recorded[r]["validation"] = drafts[r]
    BY <1>0, <1>11 DEF Settles, OnRecord
  <2> QED
    BY <1>0, <1>11, <2>1 DEF Settles, SameRest, SameOutcome, SameDraft, RecordedAt
<1>12. ASSUME Ends(r)
       PROVE  RecordedAt(r)'
  BY <1>0, <1>12 DEF Ends, SameRest, SameGraph, SameDraft, SameOutcome, SameKept,
     RecordedAt
<1> QED
  BY <1>0, <1>1, <1>2, <1>3, <1>4, <1>5, <1>6, <1>7, <1>8, <1>9, <1>10, <1>11, <1>12 DEF
     Does

\* What a client reports and what the run is billed go together.
LEMMA PaidStep ==
  ASSUME IInv, NEW r \in Runs, Step(r)
  PROVE  EveryAnswerIsPaid'
<1>0. Shape /\ EveryAnswerIsPaid
  BY DEF IInv
<1>1. ASSUME Analysis(r)
      PROVE  EveryAnswerIsPaid'
  BY <1>0, <1>1, ChargeIsPaid DEF Analysis, ValidAnswer
<1>2. ASSUME ProposeEdits(r)
      PROVE  EveryAnswerIsPaid'
  BY <1>0, <1>2, ChargeIsPaid DEF ProposeEdits, ValidAnswer
<1>3. ASSUME Review(r)
      PROVE  EveryAnswerIsPaid'
  BY <1>0, <1>3, ChargeIsPaid DEF Review, ValidAnswer
<1>4. ASSUME BadAnswer(r)
      PROVE  EveryAnswerIsPaid'
  BY <1>0, <1>4, ChargeIsPaid DEF BadAnswer
<1>5. ASSUME ProviderFails(r)
      PROVE  EveryAnswerIsPaid'
  BY <1>0, <1>5 DEF ProviderFails, EveryAnswerIsPaid, repoVars, keptVars
<1>6. ASSUME AddWorktree(r)
      PROVE  EveryAnswerIsPaid'
  BY <1>0, <1>6 DEF AddWorktree, EveryAnswerIsPaid, modelVars, keptVars
<1>7. ASSUME ApplyEdits(r)
      PROVE  EveryAnswerIsPaid'
  BY <1>0, <1>7 DEF ApplyEdits, EveryAnswerIsPaid, modelVars, repoVars, keptVars
<1>8. ASSUME Commit(r)
      PROVE  EveryAnswerIsPaid'
  BY <1>0, <1>8 DEF Commit, EveryAnswerIsPaid, modelVars, repoVars, keptVars
<1>9. ASSUME GitFails(r)
      PROVE  EveryAnswerIsPaid'
  BY <1>0, <1>9 DEF GitFails, EveryAnswerIsPaid, modelVars, keptVars
<1>10. ASSUME RemoveWorktree(r)
       PROVE  EveryAnswerIsPaid'
  BY <1>0, <1>10 DEF RemoveWorktree, EveryAnswerIsPaid, modelVars, keptVars
<1>11. ASSUME DeleteBranch(r)
       PROVE  EveryAnswerIsPaid'
  BY <1>0, <1>11 DEF DeleteBranch, EveryAnswerIsPaid, modelVars, keptVars
<1>12. ASSUME CleanUpFails(r)
       PROVE  EveryAnswerIsPaid'
  BY <1>0, <1>12 DEF CleanUpFails, EveryAnswerIsPaid, modelVars, repoVars, keptVars
<1>13. ASSUME ClearTemp(r)
       PROVE  EveryAnswerIsPaid'
  BY <1>0, <1>13 DEF ClearTemp, EveryAnswerIsPaid, keptVars
<1>14. ASSUME CloneBase(r)
       PROVE  EveryAnswerIsPaid'
  BY <1>0, <1>14 DEF CloneBase, EveryAnswerIsPaid, draftVars, modelVars, keptVars
<1>15. ASSUME CloneFails(r)
       PROVE  EveryAnswerIsPaid'
  BY <1>0, <1>15 DEF CloneFails, EveryAnswerIsPaid, draftVars, modelVars, repoVars,
     keptVars
<1>16. ASSUME Judge(r)
       PROVE  EveryAnswerIsPaid'
  BY <1>0, <1>16 DEF Judge, EveryAnswerIsPaid, keptVars
<1>17. ASSUME Decide(r)
       PROVE  EveryAnswerIsPaid'
  <2>1. clients' = [clients EXCEPT ![r] = NewClient(Provider[r])] /\ billed' = billed
    BY <1>17 DEF Decide
  <2>2. /\ \A q \in Runs \ {r} : clients'[q] = clients[q]
        /\ clients'[r] = NewClient(Provider[r]) /\ billed[r] \in Nat
    BY <1>0, <2>1 DEF Shape
  <2>3. clients'[r].cost = 0 /\ clients'[r].billed = 0 /\ clients'[r].omitted = 0
    BY <2>2 DEF NewClient
  <2> QED
    BY <1>0, <2>1, <2>2, <2>3 DEF EveryAnswerIsPaid
<1>18. ASSUME NEW a \in Artifacts, WriteFile(r, a)
       PROVE  EveryAnswerIsPaid'
  BY <1>0, <1>18 DEF WriteFile, EveryAnswerIsPaid, draftVars, modelVars, repoVars
<1>19. ASSUME NEW a \in Artifacts, RecordArtifact(r, a)
       PROVE  EveryAnswerIsPaid'
  BY <1>0, <1>19 DEF RecordArtifact, EveryAnswerIsPaid, draftVars, modelVars, repoVars
<1>20. ASSUME FinishRun(r)
       PROVE  EveryAnswerIsPaid'
  BY <1>0, <1>20 DEF FinishRun, EveryAnswerIsPaid, draftVars, modelVars, repoVars
<1>21. ASSUME EndRun(r)
       PROVE  EveryAnswerIsPaid'
  BY <1>0, <1>21 DEF EndRun, EveryAnswerIsPaid, draftVars, modelVars, repoVars, keptVars
<1>22. ASSUME Crash(r)
       PROVE  EveryAnswerIsPaid'
  BY <1>0, <1>22 DEF Crash, EveryAnswerIsPaid, draftVars, modelVars, repoVars, keptVars
<1> QED
  BY <1>1, <1>2, <1>3, <1>4, <1>5, <1>6, <1>7, <1>8, <1>9, <1>10, <1>11, <1>12, <1>13,
     <1>14, <1>15, <1>16, <1>17, <1>18, <1>19, <1>20, <1>21, <1>22 DEF Step, Keep

-----------------------------------------------------------------------------
(***************************************************************************)
(* The invariant is kept.                                                  *)
(***************************************************************************)

\* At first nothing is asked, made or recorded.
LEMMA InitShape == Init => Shape
<1>1. SUFFICES ASSUME Init
               PROVE  Shape
  OBVIOUS
<1>2. /\ MaxRevisions \in Nat /\ Modes \subseteq [Runs -> {"single", "multi", "file"}]
      /\ \A r \in Runs : \A p \in Plans[r] : p \in EditPlan
  BY DraftingAssumption
<1>3. mode \in Modes /\ mode \in [Runs -> {"single", "multi", "file"}]
  BY <1>1, <1>2 DEF Init
<1>4. stage \in [Runs -> Stages] /\ asked \in [Runs -> 0..1] /\ drafts \in [Runs -> Nat \ {0}]
  BY <1>1 DEF Init, Stages
<1>5. last \in [Runs -> Returned] /\ revised \in [Runs -> 0..MaxRevisions]
  BY <1>1, <1>2 DEF Init, Returned
<1>6. clients \in [Runs -> Clients]
  BY <1>1, NewClientIsClient DEF Init
<1>7. plan \in [Runs -> EditPlan \union {Missing}]
  BY <1>1, <1>2 DEF Init
<1>8. tree \in [Runs -> GrownTrees] /\ failure \in [Runs -> {"no", "edit", "read", "git"}]
  BY <1>1, BaseGrows DEF Init
<1>9. /\ patch \in [Runs -> Patches \union {Missing}]
      /\ report \in [Runs -> ValidationReport \union {Missing}]
      /\ decision \in [Runs -> Decisions]
  BY <1>1 DEF Init, Decisions
<1>10. saved \in [Runs -> Counts] /\ recorded \in [Runs -> Counts] /\ billed \in [Runs -> Nat]
  BY <1>1 DEF Init, Counts
<1>11. row \in [Runs -> RunRow \union {Missing}]
  BY <1>1 DEF Init
<1> QED
  BY <1>3, <1>4, <1>5, <1>6, <1>7, <1>8, <1>9, <1>10, <1>11 DEF Shape

\* At first a run has begun an attempt and nothing else.
LEMMA InitOwn ==
  ASSUME Init, NEW r \in Runs
  PROVE  Own(r)
<1>1. /\ stage[r] = IF mode[r] = "file" THEN "adding" ELSE "asking"
      /\ last[r] = IF mode[r] = "file" THEN "discovered" ELSE "retrieved"
      /\ asked[r] = 0 /\ drafts[r] = 1 /\ failure[r] = "no" /\ patch[r] = Missing
      /\ decision[r] = "none" /\ row[r] = Missing /\ r \notin reopened
  BY DEF Init
<1>2. mode[r] = "file" => plan[r] # Missing
  BY DraftingAssumption, MissingAssumption DEF Init
<1>3. Asking(r)
  <2>1. Len(QuestionsOf(r)) \in 1..2 /\ QuestionsOf(r)[1] # "PatchReview"
    BY QuestionsOfOrder
  <2> QED
    BY <1>1, <1>2, <2>1 DEF Asking, At, Question, Working
<1>4. Left(r)
  BY DEF Init, Left
<1>5. Fresh(r) /\ Written(r)
  BY <1>1 DEF Fresh, Written, Kept
<1>6. EditedSoFar(r) /\ EditedPatch(r)
  BY <1>1 DEF EditedSoFar, EditedPatch, At
<1>7. JudgedSoFar(r)
  BY <1>1 DEF JudgedSoFar, At
<1>8. \A a \in Artifacts : recorded[r][a] = 0
  BY DEF Init
<1>9. recorded[r]["patch"] = 0 /\ recorded[r]["validation"] = 0 /\ recorded[r]["run"] = 0
  BY <1>8 DEF Artifacts
<1>10. Unrecorded(r) /\ RecordedAt(r)
  BY <1>1, <1>8, <1>9 DEF Unrecorded, RecordedAt, Kept
<1>11. OnRecord(r)
  BY <1>1, KeepingStages DEF OnRecord, At
<1> QED
  BY <1>3, <1>4, <1>5, <1>6, <1>7, <1>10, <1>11 DEF Own, Records

\* The invariant holds at first.
LEMMA InitInv == Init => IInv
<1>1. SUFFICES ASSUME Init
               PROVE  IInv
  OBVIOUS
<1>2. Shape /\ \A r \in Runs : Own(r)
  BY <1>1, InitShape, InitOwn
<1>3. RepoShape
  BY <1>1 DEF Init, RepoShape
<1>4. EveryAnswerIsPaid
  BY <1>1 DEF Init, EveryAnswerIsPaid, NewClient
<1> QED
  BY <1>2, <1>3, <1>4 DEF IInv

\* What a run holds of its own stays true while others step.
LEMMA OwnStays ==
  ASSUME NEW q \in Runs, Own(q), SameRun(q), SameNames(q)
  PROVE  Own(q)'
<1>1. QuestionsOf(q)' = QuestionsOf(q) /\ Question(q)' = Question(q)
  BY DEF SameRun, QuestionsOf, Question
<1>2. Asking(q)'
  BY <1>1 DEF Own, SameRun, Asking, At
<1>3. Left(q)'
  BY DEF Own, SameRun, SameNames, Left, At
<1>4. Fresh(q)' /\ Written(q)'
  BY DEF Own, SameRun, Fresh, Written
<1>5. DonePlan(q)' = DonePlan(q) /\ (CannotBe(q)' <=> CannotBe(q))
  BY SamePlan DEF SameRun
<1>6. EditedSoFar(q)'
  BY <1>5 DEF Own, SameRun, EditedSoFar, At
<1>7. Attempt(q)' = Attempt(q) /\ (Attempt(q) \in broken' <=> Attempt(q) \in broken)
  BY DEF SameRun, SameNames, Attempt
<1>8. EditedPatch(q)'
  BY <1>5, <1>7 DEF Own, SameRun, EditedPatch
<1>9. Scope(q)' = Scope(q)
  BY DEF SameRun, Scope
<1>10. (ReportOfPatch(q)' <=> ReportOfPatch(q)) /\ (Passed(q)' <=> Passed(q))
  BY <1>9 DEF SameRun, ReportOfPatch, Passed
<1>11. JudgedSoFar(q)'
  BY <1>10 DEF Own, SameRun, JudgedSoFar, At
<1>12. Unrecorded(q)'
  BY DEF Own, Records, SameRun, Unrecorded
<1>13. \A a \in Artifacts : Content(q, a)' = Content(q, a)
  BY DEF SameRun, Content
<1>14. OnRecord(q)'
  BY <1>13 DEF Own, Records, SameRun, OnRecord, At
<1>15. RecordedAt(q)'
  BY DEF Own, Records, SameRun, RecordedAt
<1> QED
  BY <1>2, <1>3, <1>4, <1>6, <1>8, <1>11, <1>12, <1>14, <1>15 DEF Own, Records

\* Every step of a run keeps the invariant.
LEMMA IInvNextStep ==
  ASSUME IInv, NEW r \in Runs, Step(r)
  PROVE  IInv'
<1>1. Shape' /\ RepoShape' /\ EveryAnswerIsPaid'
  BY ShapeStep, RepoShapeStep, PaidStep
<1>2. Records(r)'
  BY UnrecordedStep, OnRecordStep, RecordedAtStep DEF Records
<1>3. Own(r)'
  BY <1>2, AskingStep, LeftStep, FreshStep, EditedStep, JudgedStep DEF Own
<1>4. ASSUME NEW q \in Runs \ {r}
      PROVE  Own(q)'
  <2>1. Shape /\ Own(q)
    BY DEF IInv
  <2> QED
    BY <2>1, OthersStay, OtherNamesStay, OwnStays
<1>5. \A q \in Runs : Own(q)'
  BY <1>3, <1>4
<1> QED
  BY <1>1, <1>5 DEF IInv

\* So does a step that changes nothing.
LEMMA IInvStutter ==
  ASSUME IInv, UNCHANGED vars
  PROVE  IInv'
<1>1. /\ UNCHANGED <<mode, stage, asked, clients, last, revised, drafts, plan, tree, failure>>
      /\ UNCHANGED <<patch, report, decision, branches, worktrees, temps, saved, recorded>>
      /\ UNCHANGED <<row, broken, reopened, billed>>
  BY DEF vars, ownVars, graphVars, repoVars, keptVars, seenVars, pastVars
<1>2. Shape' /\ RepoShape' /\ EveryAnswerIsPaid'
  BY <1>1 DEF IInv, Shape, RepoShape, EveryAnswerIsPaid
<1>3. ASSUME NEW q \in Runs
      PROVE  Own(q)'
  <2>1. SameRun(q) /\ SameNames(q)
    BY <1>1 DEF SameRun, SameNames
  <2> QED
    BY <2>1, OwnStays DEF IInv
<1> QED
  BY <1>2, <1>3 DEF IInv

-----------------------------------------------------------------------------
(***************************************************************************)
(* Theorems.                                                               *)
(***************************************************************************)

\* In every reachable state the invariant holds.
THEOREM DraftingInvariant == Spec => []IInv
<1>1. Init => IInv
  BY InitInv
<1>2. IInv /\ [Next]_vars => IInv'
  BY IInvNextStep, IInvStutter DEF Next
<1> QED
  BY <1>1, <1>2, PTL DEF Spec

\* The variables keep to their shapes, and a node never runs out of questions.
THEOREM DraftingTypeOK == Spec => []TypeOK
<1>1. IInv => TypeOK
  <2>1. SUFFICES ASSUME IInv
                 PROVE  TypeOK
    OBVIOUS
  <2>2. Shape /\ RepoShape
    BY <2>1 DEF IInv
  <2>3. \A t \in GrownTrees : t \in Trees
    BY DEF GrownTrees
  <2>4. \A r \in Runs : stage[r] = "asking" => Question(r) \in Questions
    BY <2>1, <2>2, Asks DEF IInv, Own, At
  <2>5. \A r \in Runs : patch[r] # Missing => patch[r] \in PatchArtifact
    BY <2>2 DEF Shape, Patches
  <2> QED
    BY <2>2, <2>3, <2>4, <2>5 DEF TypeOK, Shape, RepoShape
<1> QED
  BY <1>1, DraftingInvariant, PTL

\* The patch of a run is what the edits of the plan it was made of lead to, and an
\* attempt is given up only for a plan that cannot be, or a command that failed: no
\* other run, and nothing an earlier attempt left in the clone, has a part in it.
THEOREM DraftingPatchIsEdited == Spec => []PatchIsEdited
<1>1. IInv => PatchIsEdited
  BY DEF IInv, Own, PatchIsEdited
<1> QED
  BY <1>1, DraftingInvariant, PTL

\* The patch of a run is what its plan asks for, file by file, and an attempt is given
\* up only for a plan that git refuses, or a command that failed: no other run, and
\* nothing an earlier attempt left in the clone, has a part in it (generate_patch).
THEOREM DraftingPatchIsThePlan == Spec => []PatchIsThePlan
<1>1. IInv => PatchIsThePlan
  <2>1. SUFFICES ASSUME IInv, NEW r \in Runs
                 PROVE  /\ patch[r] # Missing =>
                             /\ patch[r].tree = Wanted(patch[r].plan.edits)
                             /\ ~Impossible(patch[r].plan.edits)
                        /\ failure[r] # "no" => <<r, drafts[r]>> \in broken \/ Refused(plan[r])
    BY DEF PatchIsThePlan
  <2>2. EditedPatch(r) /\ EditedSoFar(r) /\ Shape
    BY <2>1 DEF IInv, Own
  <2>3. ASSUME patch[r] # Missing
        PROVE  /\ patch[r].tree = Wanted(patch[r].plan.edits)
               /\ ~Impossible(patch[r].plan.edits)
    <3>1. patch[r].plan.edits \in Seq(Edits)
      BY <2>2, <2>3 DEF Shape, Patches, PatchArtifact, EditPlan
    <3> QED
      BY <2>2, <2>3, <3>1, EditedOrImpossible DEF EditedPatch
  <2>4. ASSUME failure[r] # "no"
        PROVE  <<r, drafts[r]>> \in broken \/ Refused(plan[r])
    <3>1. plan[r].edits \in Seq(Edits)
      BY <2>2, <2>4 DEF Shape, EditedSoFar, EditPlan
    <3> QED
      BY <2>2, <2>4, <3>1, EditedOrImpossible DEF EditedPatch, CannotBe, DonePlan, Refused,
         Attempt
  <2> QED
    BY <2>3, <2>4
<1> QED
  BY <1>1, DraftingInvariant, PTL

\* An attempt whose commands did not fail and whose run did not die leaves nothing
\* in the clone that every later run shares.
THEOREM DraftingNothingLeftBehind == Spec => []NothingLeftBehind
<1>1. IInv => NothingLeftBehind
  <2>1. SUFFICES ASSUME IInv, NEW r \in Runs, NEW n \in 1..drafts[r],
                        <<r, n>> \notin broken, ~(n = drafts[r] /\ stage[r] \in Drafted(r))
                 PROVE  /\ <<r, n>> \notin branches \union worktrees
                        /\ <<"patch", <<r, n>>>> \notin temps
                        /\ <<"verify", <<r, n>>>> \in temps => (n = drafts[r] /\ At(r, "judging"))
    BY DEF NothingLeftBehind
  <2>2. Left(r) /\ n \in Nat \ {0}
    BY <2>1 DEF IInv, Own, Shape
  <2> QED
    BY <2>1, <2>2 DEF Left, Drafted, Working
<1> QED
  BY <1>1, DraftingInvariant, PTL

\* The patch at the gate, the patch an approval sends past it, and the patch that the
\* pipeline keeps as validated, is the one that was judged, is in scope, applies and
\* adds no secret.
THEOREM DraftingJudgedAsItStands == Spec => []JudgedAsItStands
<1>1. IInv => JudgedAsItStands
  <2>1. SUFFICES ASSUME IInv, NEW r \in Runs, PastGate(r)
                 PROVE  /\ patch[r] # Missing /\ report[r] # Missing
                        /\ report[r].of = patch[r].by /\ report[r].verdict # "rejected"
                        /\ Changed(patch[r].tree) # {}
                        /\ Changed(patch[r].tree) \subseteq Scope(r)
                        /\ \A p \in Changed(patch[r].tree) :
                             /\ Base[p] = Missing \/ Base[p].eol = "lf"
                             /\ \A i \in DOMAIN patch[r].tree[p].lines :
                                  patch[r].tree[p].lines[i] \in SecretLines =>
                                    /\ Base[p] # Missing
                                    /\ patch[r].tree[p].lines[i] \in ToSet(Base[p].lines)
    BY DEF JudgedAsItStands
  <2>2. JudgedSoFar(r) /\ EditedPatch(r) /\ Shape
    BY <2>1 DEF IInv, Own
  <2>3. Passed(r)
    BY <2>1, <2>2 DEF JudgedSoFar, PastGate
  <2>4. /\ patch[r] # Missing /\ report[r] # Missing
        /\ report[r].of = patch[r].by /\ report[r].verdict # "rejected"
        /\ Verdict(patch[r].tree, Scope(r)) # "rejected"
    BY <2>3 DEF Passed, ReportOfPatch
  <2>5. patch[r].tree \in GrownTrees /\ Changed(patch[r].tree) # {}
    BY <2>2, <2>4 DEF Shape, Patches, EditedPatch
  <2>6. /\ Changed(patch[r].tree) \subseteq Scope(r)
        /\ \A p \in Changed(patch[r].tree) :
             /\ Base[p] = Missing \/ Base[p].eol = "lf"
             /\ \A i \in DOMAIN patch[r].tree[p].lines :
                  patch[r].tree[p].lines[i] \in SecretLines =>
                    /\ Base[p] # Missing
                    /\ patch[r].tree[p].lines[i] \in ToSet(Base[p].lines)
    BY <2>4, <2>5, PassedPatch
  <2> QED
    BY <2>4, <2>5, <2>6
<1> QED
  BY <1>1, DraftingInvariant, PTL

\* Every answer is paid for.
THEOREM DraftingEveryAnswerIsPaid == Spec => []EveryAnswerIsPaid
<1>1. IInv => EveryAnswerIsPaid
  BY DEF IInv
<1> QED
  BY <1>1, DraftingInvariant, PTL

\* What is on record of a run that PersistRun has not begun with twice can be opened and
\* is about its patch and its report; of a run that is done this holds however often.
THEOREM DraftingRecordedIsOnDisk == Spec => []RecordedIsOnDisk
<1>1. IInv => RecordedIsOnDisk
  <2>1. SUFFICES ASSUME IInv, NEW r \in Runs
                 PROVE  /\ r \notin reopened =>
                             /\ \A a \in Artifacts :
                                  recorded[r][a] # 0 => recorded[r][a] = saved[r][a]
                             /\ recorded[r]["patch"] # 0 =>
                                  patch[r] # Missing /\ recorded[r]["patch"] = patch[r].by
                             /\ recorded[r]["validation"] # 0 =>
                                  recorded[r]["validation"] = report[r].of
                        /\ At(r, "done") =>
                             /\ patch[r] # Missing =>
                                  /\ saved[r]["patch"] = patch[r].by
                                  /\ recorded[r]["patch"] = patch[r].by
                             /\ report[r] # Missing =>
                                  /\ saved[r]["validation"] = report[r].of
                                  /\ recorded[r]["validation"] = report[r].of
                        /\ mode[r] = "file" /\ row[r] # Missing =>
                             \A a \in {"patch", "validation"} : recorded[r][a] = drafts[r]
    BY DEF RecordedIsOnDisk
  <2>2. /\ Asking(r) /\ Fresh(r) /\ OnRecord(r) /\ RecordedAt(r) /\ drafts[r] # 0
    BY <2>1 DEF IInv, Own, Records, Shape
  <2>3. ASSUME At(r, "done"), mode[r] = "file"
        PROVE  /\ saved[r]["patch"] = patch[r].by /\ recorded[r]["patch"] = patch[r].by
               /\ saved[r]["validation"] = report[r].of
               /\ recorded[r]["validation"] = report[r].of
    <3>1. recorded[r]["patch"] = drafts[r] /\ recorded[r]["validation"] = drafts[r]
      BY <2>2, <2>3 DEF OnRecord, At
    <3>2. r \notin reopened
      BY <2>2, <2>3 DEF Asking
    <3> QED
      BY <2>2, <3>1, <3>2 DEF RecordedAt, Artifacts
  <2>4. ASSUME At(r, "done"), mode[r] # "file"
        PROVE  /\ patch[r] # Missing =>
                    saved[r]["patch"] = patch[r].by /\ recorded[r]["patch"] = patch[r].by
               /\ report[r] # Missing =>
                    /\ saved[r]["validation"] = report[r].of
                    /\ recorded[r]["validation"] = report[r].of
    BY <2>2, <2>4 DEF OnRecord, At
  <2> QED
    BY <2>2, <2>3, <2>4 DEF RecordedAt
<1> QED
  BY <1>1, DraftingInvariant, PTL
=============================================================================
