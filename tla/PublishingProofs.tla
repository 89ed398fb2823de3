-------------------------- MODULE PublishingProofs --------------------------
(***************************************************************************)
(* Proofs about the publishing of patches, for any number of runs and of   *)
(* calls and any number of faults.                                         *)
(*                                                                         *)
(* A run with a branch directory of its own shares neither the directory   *)
(* nor the branch with another, so what its calls do to each other is all  *)
(* there is to see.  A branch is begun only by a build, builds begin after *)
(* the approval, and pushes find what builds made: that carries the        *)
(* approval to the fork although push and pull request never ask for it.   *)
(***************************************************************************)
EXTENDS PublishingProperties, TLAPS

\* A directory holds a branch of the runs it is for, and that branch is there.
DirsInv ==
  \A d \in Dirs : dirs[d] # None => BranchDir(dirs[d]) = d /\ refs[dirs[d]] # None

BuildOn(q, r) == calls[q] \in Calls /\ calls[q].run = r /\ calls[q].stage \in Building

\* What the branches of a run with its own directory can hold, and that there is
\* nothing of a run before it was approved.
ReviewedInv ==
  \A r \in OwnDirRuns :
    /\ refs[r] \in {None, {}, {r}} /\ remote[r] \in {None, {}, {r}}
    /\ refs[r] # None \/ remote[r] # None => verdict[r] = "validated"
    /\ \A q \in Requests : BuildOn(q, r) => verdict[r] = "validated"
    /\ r \in prs => remote[r] = {r}

\* A branch without its directory has a build that is about to delete it.
CleanInv ==
  faults = 0 =>
    \A r \in OwnDirRuns : refs[r] # None /\ dirs[r] = None =>
      \E q \in Requests : calls[q] \in Calls /\ calls[q].run = r /\ calls[q].stage = "deleting"

IInv == TypeOK /\ DirsInv /\ ReviewedInv /\ CleanInv

USE DEF At, Goto, Answer, ReplyTo

-----------------------------------------------------------------------------
\* Runs with a directory of their own are alone in it.
LEMMA OwnDir ==
  /\ \A r \in Runs : BranchDir(r) \in Dirs
  /\ \A r \in OwnDirRuns : r \in Runs /\ BranchDir(r) = r /\ r \in Dirs
  /\ \A r \in Runs, s \in OwnDirRuns : BranchDir(r) = s => r = s
  BY PublishingAssumption DEF OwnDirRuns, BranchDir, Dirs, Runs

\* Nothing is published at first.
LEMMA InitIInv == Init => IInv
  <1> SUFFICES ASSUME Init PROVE IInv
    OBVIOUS
  <1>1. TypeOK
    <2>1. overlapped \in BOOLEAN
      BY DEF Init
    <2> QED
      BY <2>1, PublishingAssumption DEF Init, TypeOK
  <1>2. DirsInv /\ ReviewedInv /\ CleanInv
    BY NoneAssumption, OwnDir DEF Init, DirsInv, ReviewedInv, CleanInv, BuildOn
  <1> QED
    BY <1>1, <1>2 DEF IInv

\* A call that stays of the right shape when it moves on, and what it is answered.
LEMMA CallMoves ==
  ASSUME TypeOK, NEW q \in Requests, calls[q] # None
  PROVE  /\ calls[q] \in Calls /\ calls[q].run \in Runs
         /\ \A s \in Serving : [calls[q] EXCEPT !.stage = s] \in Calls
         /\ \A status \in {"ok", "conflict", "refused", "error", "lost"},
               sha \in Commits \union {None} : ReplyTo(calls[q], status, sha) \in Replies
  <1>1. calls[q] \in Calls
    BY DEF TypeOK
  <1>2. calls[q].run \in Runs /\ calls[q].op \in Ops
    BY <1>1 DEF Calls
  <1>3. \A s \in Serving : [calls[q] EXCEPT !.stage = s] \in Calls
    BY <1>1 DEF Calls
  <1> QED
    BY <1>1, <1>2, <1>3 DEF Replies

\* Every step keeps the variables in their shapes.
LEMMA NextTypeOK == TypeOK /\ DirsInv /\ [Next]_vars => TypeOK'
  <1> SUFFICES ASSUME TypeOK, DirsInv, [Next]_vars PROVE TypeOK'
    OBVIOUS
  <1> USE DEF TypeOK
  <1>1. ASSUME NEW r \in Runs, Conclude(r) PROVE TypeOK'
    BY <1>1 DEF Conclude, repoVars
  <1>2. ASSUME NEW q \in Requests, NEW r \in Runs,
               SubmitBuild(q, r) \/ SubmitPush(q, r) \/ SubmitPullRequest(q, r)
        PROVE  TypeOK'
    <2>1. ASSUME NEW op \in Ops, NEW stage \in Serving, NEW admitted, Begin(q, op, r, admitted, stage)
          PROVE  /\ calls' \in [Requests -> Calls \union {None}]
                 /\ reply' \in [Requests -> Replies \union {None}]
                 /\ overlapped' \in BOOLEAN
      <3>1. [op |-> op, run |-> r, stage |-> stage] \in Calls
        BY DEF Calls
      <3>2. [op |-> op, run |-> r, status |-> "conflict", sha |-> None] \in Replies
        BY DEF Replies
      <3> QED
        BY <2>1, <3>1, <3>2 DEF Begin
    <2>2. /\ calls' \in [Requests -> Calls \union {None}]
          /\ reply' \in [Requests -> Replies \union {None}]
          /\ overlapped' \in BOOLEAN
      BY <1>2, <2>1 DEF SubmitBuild, SubmitPush, SubmitPullRequest, Ops, Serving, Building
    <2> QED
      BY <1>2, <2>2 DEF SubmitBuild, SubmitPush, SubmitPullRequest, repoVars
  <1>3. ASSUME NEW q \in Requests, Serve(q) PROVE TypeOK'
    <2>1. calls[q] # None
      BY <1>3 DEF Serve, LookForDir, Recheck, AddWorktree, ApplyPatch, GitFails, DirVanished,
                  RemoveWorktree, DeleteBranch, ReadHead, GitPush, PushBreaks,
                  OpenPullRequest, PullRequestAnswerLost
    <2> DEFINE r == calls[q].run
    <2>2. /\ r \in Runs /\ BranchDir(r) \in Dirs
          /\ \A s \in Serving : [calls[q] EXCEPT !.stage = s] \in Calls
          /\ \A status \in {"ok", "conflict", "refused", "error", "lost"},
                sha \in Commits \union {None} : ReplyTo(calls[q], status, sha) \in Replies
      BY <2>1, CallMoves, OwnDir
    <2>3. \A s \in Serving : Goto(q, s) =>
            /\ calls' \in [Requests -> Calls \union {None}]
            /\ reply' \in [Requests -> Replies \union {None}]
      BY <2>2
    <2>4. \A status \in {"ok", "conflict", "refused", "error", "lost"},
             sha \in Commits \union {None} : Answer(q, status, sha) =>
            /\ calls' \in [Requests -> Calls \union {None}]
            /\ reply' \in [Requests -> Replies \union {None}]
      BY <2>2
    <2>5. CASE LookForDir(q) \/ Recheck(q) \/ DirVanished(q)
      BY <2>3, <2>4, <2>5 DEF LookForDir, Recheck, DirVanished, Serving, Building, repoVars
    <2>6. CASE AddWorktree(q)
      BY <2>2, <2>3, <2>6 DEF AddWorktree, Serving, Building, Commits, repoVars
    <2>7. CASE ApplyPatch(q)
      <3>1. dirs[BranchDir(r)] \in Runs
        BY <2>2, <2>7 DEF ApplyPatch
      <3>2. refs[dirs[BranchDir(r)]] \union {r} \in Commits
        BY <2>2, <2>7, <3>1 DEF ApplyPatch, DirsInv, Commits
      <3>3. refs' \in [Runs -> Commits \union {None}]
        BY <2>7, <3>1, <3>2 DEF ApplyPatch
      <3> QED
        BY <2>3, <2>7, <3>3 DEF ApplyPatch, Serving, Building
    <2>8. CASE GitFails(q)
      BY <2>3, <2>8, PublishingAssumption DEF GitFails, Serving, Building, repoVars
    <2>9. CASE RemoveWorktree(q) \/ DeleteBranch(q)
      BY <2>2, <2>3, <2>4, <2>9 DEF RemoveWorktree, DeleteBranch, Serving, Building
    <2>10. CASE ReadHead(q)
      <3>1. refs[dirs[BranchDir(r)]] \in Commits \union {None}
        BY <2>2, <2>10 DEF ReadHead, Exists
      <3> QED
        BY <2>4, <2>10, <3>1 DEF ReadHead, repoVars
    <2>11. CASE GitPush(q) \/ PushBreaks(q)
      BY <2>2, <2>4, <2>11, PublishingAssumption DEF GitPush, PushBreaks, FastForward, repoVars
    <2>12. CASE OpenPullRequest(q) \/ PullRequestAnswerLost(q)
      BY <2>2, <2>4, <2>12, PublishingAssumption
      DEF OpenPullRequest, PullRequestAnswerLost, repoVars
    <2> QED
      BY <1>3, <2>5, <2>6, <2>7, <2>8, <2>9, <2>10, <2>11, <2>12 DEF Serve
  <1>4. ASSUME ServerCrash PROVE TypeOK'
    <2>1. \A q \in Requests : calls[q] # None => ReplyTo(calls[q], "lost", None) \in Replies
      BY CallMoves
    <2> QED
      BY <1>4, <2>1, PublishingAssumption DEF ServerCrash, repoVars
  <1>5. CASE UNCHANGED vars
    BY <1>5 DEF vars, repoVars
  <1> QED
    BY <1>1, <1>2, <1>3, <1>4, <1>5 DEF Next, Submit

-----------------------------------------------------------------------------
\* The steps of the git commands that change branches or directories, and the rest.
RepoStep(q) == AddWorktree(q) \/ ApplyPatch(q) \/ RemoveWorktree(q) \/ DeleteBranch(q)

\* Every other step leaves branches and directories alone.
LEMMA OtherStepsKeepRepo ==
  [Next]_vars => (\E q \in Requests : RepoStep(q)) \/ UNCHANGED repoVars
  BY DEF Next, Conclude, Submit, SubmitBuild, SubmitPush, SubmitPullRequest, Serve,
         LookForDir, Recheck, GitFails, DirVanished, ReadHead, GitPush, PushBreaks,
         OpenPullRequest, PullRequestAnswerLost, ServerCrash, vars, repoVars, RepoStep

\* git never leaves a directory without the branch it has checked out.
LEMMA NextDirs == TypeOK /\ DirsInv /\ [Next]_vars => DirsInv'
  <1> SUFFICES ASSUME TypeOK, DirsInv, [Next]_vars PROVE DirsInv'
    OBVIOUS
  <1>1. CASE UNCHANGED repoVars
    BY <1>1 DEF repoVars, DirsInv
  <1>2. ASSUME NEW q \in Requests, RepoStep(q) PROVE DirsInv'
    <2> DEFINE r == calls[q].run
    <2>1. r \in Runs /\ BranchDir(r) \in Dirs
      BY <1>2, CallMoves, OwnDir
      DEF RepoStep, AddWorktree, ApplyPatch, RemoveWorktree, DeleteBranch
    <2>2. None \notin Runs /\ None \notin Commits /\ {} \in Commits
      BY NoneAssumption DEF Commits
    <2>3. CASE AddWorktree(q)
      <3>1. \A s \in Runs : refs[s] # None => refs'[s] # None
        BY <2>1, <2>2, <2>3 DEF AddWorktree, repoVars, TypeOK
      <3>2. \/ dirs' = dirs
            \/ dirs' = [dirs EXCEPT ![BranchDir(r)] = r] /\ refs'[r] # None
        BY <2>1, <2>2, <2>3 DEF AddWorktree, repoVars, TypeOK
      <3>3. \A d \in Dirs : dirs[d] \in Runs \union {None}
        BY DEF TypeOK
      <3> QED
        BY <2>1, <3>1, <3>2, <3>3 DEF DirsInv, TypeOK
    <2>4. CASE ApplyPatch(q)
      <3> DEFINE onto == dirs[BranchDir(r)]
      <3>1. onto \in Runs /\ refs[onto] \in Commits
        BY <2>1, <2>4 DEF ApplyPatch, TypeOK, DirsInv
      <3>2. refs[onto] \union {r} \in Commits
        BY <2>1, <3>1 DEF Commits
      <3>3. dirs' = dirs /\ \A s \in Runs : refs[s] # None => refs'[s] # None
        BY <2>2, <2>4, <3>1, <3>2 DEF ApplyPatch, TypeOK
      <3>4. \A d \in Dirs : dirs[d] \in Runs \union {None}
        BY DEF TypeOK
      <3> QED
        BY <3>3, <3>4 DEF DirsInv
    <2>5. CASE RemoveWorktree(q)
      BY <2>1, <2>5 DEF RemoveWorktree, TypeOK, DirsInv
    <2>6. CASE DeleteBranch(q)
      BY <2>1, <2>6 DEF DeleteBranch, TypeOK, DirsInv
    <2> QED
      BY <1>2, <2>3, <2>4, <2>5, <2>6 DEF RepoStep
  <1> QED
    BY <1>1, <1>2, OtherStepsKeepRepo

\* A build that is served was begun after the approval.
LEMMA BuildsAreApproved ==
  ASSUME TypeOK, [Next]_vars, NEW r \in Runs, NEW q \in Requests, BuildOn(q, r)'
  PROVE  BuildOn(q, r) \/ verdict[r] = "validated"
  <1>0. None \notin Calls
    BY NoneAssumption
  <1>1. CASE calls'[q] = calls[q]
    BY <1>1 DEF BuildOn
  <1>2. ASSUME NEW p \in Requests, NEW s \in Runs,
               SubmitBuild(p, s) \/ SubmitPush(p, s) \/ SubmitPullRequest(p, s)
        PROVE  BuildOn(q, r) \/ verdict[r] = "validated"
    <2>1. CASE p = q
      BY <1>1, <1>2, <2>1
      DEF SubmitBuild, SubmitPush, SubmitPullRequest, Begin, TypeOK, BuildOn, Building
    <2>2. CASE p # q
      BY <1>1, <1>2, <2>2 DEF SubmitBuild, SubmitPush, SubmitPullRequest, Begin, TypeOK
    <2> QED
      BY <2>1, <2>2
  <1>3. ASSUME NEW p \in Requests, Serve(p) PROVE BuildOn(q, r) \/ verdict[r] = "validated"
    <2>1. CASE p # q
      <3>1. calls'[q] = calls[q]
        BY <1>3, <2>1 DEF Serve, LookForDir, Recheck, AddWorktree, ApplyPatch, GitFails,
             DirVanished, RemoveWorktree, DeleteBranch, ReadHead, GitPush, PushBreaks,
             OpenPullRequest, PullRequestAnswerLost, TypeOK
      <3> QED
        BY <1>1, <3>1
    <2>2. CASE p = q
      <3>1. CASE LookForDir(q) \/ Recheck(q) \/ AddWorktree(q) \/ ApplyPatch(q)
                   \/ GitFails(q) \/ RemoveWorktree(q)
        <4>1. calls[q] \in Calls /\ calls[q].stage \in Building
          BY <3>1 DEF LookForDir, Recheck, AddWorktree, ApplyPatch, GitFails, RemoveWorktree,
                      TypeOK, Building
        <4>2. calls'[q] = None \/ \E stage \in Serving : Goto(q, stage)
          BY <3>1 DEF LookForDir, Recheck, AddWorktree, ApplyPatch, GitFails, RemoveWorktree,
                      TypeOK, Building, Serving
        <4>3. calls'[q] = None \/ calls'[q].run = calls[q].run
          BY <4>1, <4>2 DEF TypeOK, Calls
        <4> QED
          BY <1>0, <4>1, <4>3 DEF BuildOn
      <3>2. CASE DirVanished(q) \/ DeleteBranch(q) \/ ReadHead(q) \/ GitPush(q)
                   \/ PushBreaks(q) \/ OpenPullRequest(q) \/ PullRequestAnswerLost(q)
        <4>1. calls'[q] = None
          BY <3>2 DEF DirVanished, DeleteBranch, ReadHead, GitPush, PushBreaks,
                      OpenPullRequest, PullRequestAnswerLost, TypeOK
        <4> QED
          BY <1>0, <4>1 DEF BuildOn
      <3> QED
        BY <1>3, <2>2, <3>1, <3>2 DEF Serve
    <2> QED
      BY <2>1, <2>2
  <1>4. CASE ServerCrash
    BY <1>0, <1>4 DEF ServerCrash, BuildOn
  <1>5. CASE UNCHANGED calls
    BY <1>1, <1>5
  <1> QED
    BY <1>2, <1>3, <1>4, <1>5 DEF Next, Conclude, Submit, vars

\* What is recorded of an investigation stays.
LEMMA VerdictStays ==
  ASSUME TypeOK, [Next]_vars, NEW r \in Runs, verdict[r] = "validated"
  PROVE  verdict'[r] = "validated"
  BY DEF Next, Conclude, Submit, SubmitBuild, SubmitPush, SubmitPullRequest, Serve,
         LookForDir, Recheck, AddWorktree, ApplyPatch, GitFails, DirVanished,
         RemoveWorktree, DeleteBranch, ReadHead, GitPush, PushBreaks,
         OpenPullRequest, PullRequestAnswerLost, ServerCrash, vars, TypeOK

-----------------------------------------------------------------------------
\* A run's own branch holds its base, then its patch, and is only begun by a build.
LEMMA NextBranch ==
  ASSUME IInv, [Next]_vars, NEW r \in OwnDirRuns
  PROVE  /\ refs'[r] \in {None, {}, {r}}
         /\ refs'[r] # None => verdict[r] = "validated"
  <1> USE DEF IInv
  <1>1. CASE UNCHANGED repoVars
    BY <1>1 DEF repoVars, ReviewedInv
  <1>2. ASSUME NEW q \in Requests, RepoStep(q)
        PROVE  /\ refs'[r] \in {None, {}, {r}}
               /\ refs'[r] # None => verdict[r] = "validated"
    <2> DEFINE s == calls[q].run
    <2>1. s \in Runs /\ BranchDir(s) \in Dirs /\ calls[q] \in Calls /\ r \in Runs
      BY <1>2, CallMoves, OwnDir
      DEF RepoStep, AddWorktree, ApplyPatch, RemoveWorktree, DeleteBranch
    <2>2. s = r => verdict[r] = "validated"
      BY <1>2, <2>1 DEF RepoStep, AddWorktree, ApplyPatch, RemoveWorktree, DeleteBranch,
                        BuildOn, Building, ReviewedInv
    <2>3. refs[r] \in {None, {}, {r}} /\ (refs[r] # None => verdict[r] = "validated")
      BY DEF ReviewedInv
    <2>4. CASE AddWorktree(q)
      BY <2>1, <2>2, <2>3, <2>4 DEF AddWorktree, repoVars, TypeOK
    <2>5. CASE ApplyPatch(q)
      <3> DEFINE onto == dirs[BranchDir(s)]
      <3>1. onto \in Runs /\ refs[onto] # None /\ BranchDir(onto) = BranchDir(s)
        BY <2>1, <2>5 DEF ApplyPatch, TypeOK, DirsInv
      <3>2. onto = r => s = r
        BY <2>1, <3>1, OwnDir
      <3>3. refs[r] # None => refs[r] \union {r} = {r}
        BY <2>3
      <3>4. \/ refs' = refs
            \/ refs' = [refs EXCEPT ![onto] = @ \union {s}]
        BY <2>5 DEF ApplyPatch
      <3>5. refs'[r] = refs[r] \/ (s = r /\ refs[r] # None /\ refs'[r] = refs[r] \union {r})
        BY <2>1, <3>1, <3>2, <3>4 DEF TypeOK
      <3> QED
        BY <2>2, <2>3, <3>3, <3>5
    <2>6. CASE RemoveWorktree(q) \/ DeleteBranch(q)
      BY <2>1, <2>3, <2>6 DEF RemoveWorktree, DeleteBranch, TypeOK
    <2> QED
      BY <1>2, <2>4, <2>5, <2>6 DEF RepoStep
  <1> QED
    BY <1>1, <1>2, OtherStepsKeepRepo

\* The fork gets what is on the branch, GitHub what is on the fork.
LEMMA NextFork ==
  ASSUME IInv, [Next]_vars, NEW r \in OwnDirRuns
  PROVE  /\ remote'[r] \in {None, {}, {r}}
         /\ remote'[r] # None => verdict[r] = "validated"
         /\ r \in prs' => remote'[r] = {r}
         /\ On(remote[r]) \subseteq On(remote'[r])
  <1> USE DEF IInv
  <1>1. /\ refs[r] \in {None, {}, {r}} /\ remote[r] \in {None, {}, {r}}
        /\ refs[r] # None \/ remote[r] # None => verdict[r] = "validated"
        /\ r \in prs => remote[r] = {r}
    BY DEF ReviewedInv
  <1>2. None # {r} /\ None # {} /\ r \in Runs
    BY NoneAssumption, OwnDir DEF Commits
  <1>3. CASE UNCHANGED <<remote, prs>>
    BY <1>1, <1>3
  <1>4. ASSUME NEW q \in Requests, GitPush(q) \/ PushBreaks(q)
        PROVE  /\ prs' = prs
               /\ \/ remote'[r] = remote[r]
                  \/ /\ remote'[r] = refs[r] /\ refs[r] # None
                     /\ On(remote[r]) \subseteq refs[r]
    BY <1>2, <1>4 DEF GitPush, PushBreaks, FastForward, TypeOK
  <1>5. ASSUME NEW q \in Requests, OpenPullRequest(q) \/ PullRequestAnswerLost(q)
        PROVE  remote' = remote /\ (r \in prs' => r \in prs \/ On(remote[r]) # {})
    BY <1>5 DEF OpenPullRequest, PullRequestAnswerLost
  <1>6. CASE \E q \in Requests : GitPush(q) \/ PushBreaks(q)
    BY <1>1, <1>2, <1>4, <1>6 DEF On
  <1>7. CASE \E q \in Requests : OpenPullRequest(q) \/ PullRequestAnswerLost(q)
    BY <1>1, <1>5, <1>7 DEF On
  <1> QED
    BY <1>3, <1>6, <1>7
    DEF Next, Conclude, Submit, SubmitBuild, SubmitPush, SubmitPullRequest, Serve,
        LookForDir, Recheck, AddWorktree, ApplyPatch, GitFails, DirVanished,
        RemoveWorktree, DeleteBranch, ReadHead, ServerCrash, vars

\* What leaves a run with a directory of its own is its own work, and was approved.
LEMMA NextReviewed == IInv /\ [Next]_vars => ReviewedInv'
  <1> SUFFICES ASSUME IInv, [Next]_vars, NEW r \in OwnDirRuns
               PROVE  /\ refs'[r] \in {None, {}, {r}} /\ remote'[r] \in {None, {}, {r}}
                      /\ refs'[r] # None \/ remote'[r] # None => verdict'[r] = "validated"
                      /\ \A q \in Requests : BuildOn(q, r)' => verdict'[r] = "validated"
                      /\ r \in prs' => remote'[r] = {r}
    BY DEF ReviewedInv
  <1>1. TypeOK /\ r \in Runs
    BY OwnDir DEF IInv
  <1>2. ASSUME NEW q \in Requests, BuildOn(q, r)' PROVE verdict'[r] = "validated"
    BY <1>1, <1>2, BuildsAreApproved, VerdictStays DEF IInv, ReviewedInv
  <1> QED
    BY <1>1, <1>2, NextBranch, NextFork, VerdictStays

\* A branch that loses its directory has a build that will delete it.
LEMMA NextClean == IInv /\ [Next]_vars => CleanInv'
  <1> DEFINE Deleting(q, r) == calls[q] \in Calls /\ calls[q].run = r /\ calls[q].stage = "deleting"
  <1> SUFFICES ASSUME IInv, [Next]_vars, faults' = 0, NEW r \in OwnDirRuns,
                      refs'[r] # None, dirs'[r] = None
               PROVE  \E q \in Requests : Deleting(q, r)'
    BY DEF CleanInv
  <1> USE DEF IInv
  <1>1. r \in Runs /\ BranchDir(r) = r /\ r \in Dirs
    BY OwnDir
  <1>2. faults = 0 /\ ~ServerCrash /\ \A q \in Requests : ~GitFails(q)
    <2>1. faults \in Nat
      BY PublishingAssumption DEF TypeOK
    <2>2. faults' = faults \/ faults' = faults + 1
      BY DEF Next, Conclude, Submit, SubmitBuild, SubmitPush, SubmitPullRequest, Serve,
        LookForDir, Recheck, AddWorktree, ApplyPatch, GitFails, DirVanished,
        RemoveWorktree, DeleteBranch, ReadHead, GitPush, PushBreaks,
        OpenPullRequest, PullRequestAnswerLost, ServerCrash, vars
    <2> QED
      BY <2>1, <2>2 DEF ServerCrash, GitFails
  \* Only the deletion itself ends a call that is about to delete.
  <1>3. ASSUME NEW q \in Requests, Deleting(q, r), ~DeleteBranch(q) PROVE Deleting(q, r)'
    <2>1. ASSUME NEW p \in Requests, Serve(p) PROVE calls'[q] = calls[q]
      BY <1>2, <1>3, <2>1
      DEF Serve, LookForDir, Recheck, AddWorktree, ApplyPatch, DirVanished,
          RemoveWorktree, DeleteBranch, ReadHead, GitPush, PushBreaks,
          OpenPullRequest, PullRequestAnswerLost, TypeOK
    <2>2. ASSUME NEW p \in Requests, Submit(p) PROVE calls'[q] = calls[q]
      BY <1>3, <2>2, NoneAssumption
      DEF Submit, SubmitBuild, SubmitPush, SubmitPullRequest, Begin, New, TypeOK
    <2>3. calls'[q] = calls[q]
      BY <1>2, <2>1, <2>2 DEF Next, Conclude, vars
    <2> QED
      BY <1>3, <2>3
  <1>4. ASSUME NEW q \in Requests, DeleteBranch(q) PROVE calls[q].run # r
    <2>1. ASSUME NEW d \in Dirs, dirs[d] = r PROVE dirs[r] = r
      BY <1>1, <2>1, NoneAssumption DEF DirsInv
    <2>2. dirs[r] # r
      BY <1>1, <1>4, NoneAssumption DEF DeleteBranch
    <2> QED
      BY <1>1, <1>4, <2>1, <2>2 DEF DeleteBranch, TypeOK
  <1>5. CASE refs[r] # None /\ dirs[r] = None
    BY <1>2, <1>3, <1>4, <1>5 DEF CleanInv
  <1>6. CASE refs[r] = None \/ dirs[r] # None
    <2>1. ~UNCHANGED repoVars
      BY <1>6 DEF repoVars
    <2>2. PICK q \in Requests : RepoStep(q)
      BY <2>1, OtherStepsKeepRepo
    <2>3. calls[q] \in Calls /\ calls[q].run \in Runs /\ BranchDir(calls[q].run) \in Dirs
      BY <2>2, CallMoves, OwnDir
      DEF RepoStep, AddWorktree, ApplyPatch, RemoveWorktree, DeleteBranch
    <2>4. refs[r] = None => dirs[r] = None
      BY <1>1, OwnDir DEF DirsInv, TypeOK
    <2>5. ~AddWorktree(q)
      <3> SUFFICES ASSUME AddWorktree(q) PROVE FALSE
        OBVIOUS
      <3> DEFINE s == calls[q].run
      <3>1. CASE s = r
        BY <1>1, <1>6, <2>3, <2>4, <3>1, NoneAssumption
        DEF AddWorktree, Exists, repoVars, TypeOK
      <3>2. CASE s # r
        <4>1. BranchDir(s) # r
          BY <2>3, <3>2, OwnDir
        <4>2. refs'[r] = refs[r] /\ dirs'[r] = dirs[r]
          BY <1>1, <2>3, <3>2, <4>1 DEF AddWorktree, repoVars, TypeOK
        <4> QED
          BY <1>6, <4>2
      <3> QED
        BY <3>1, <3>2
    <2>6. ~ApplyPatch(q)
      <3> DEFINE onto == dirs[BranchDir(calls[q].run)]
      <3>1. ASSUME ApplyPatch(q) PROVE dirs' = dirs /\ (refs[r] = None => refs'[r] = None)
        <4>1. onto \in Runs /\ refs[onto] # None
          BY <2>3, <3>1 DEF ApplyPatch, DirsInv, TypeOK
        <4>2. refs' = refs \/ refs' = [refs EXCEPT ![onto] = @ \union {calls[q].run}]
          BY <3>1 DEF ApplyPatch
        <4> QED
          BY <1>1, <3>1, <4>1, <4>2 DEF ApplyPatch, TypeOK
      <3> QED
        BY <1>6, <2>4, <3>1
    <2>7. ~DeleteBranch(q)
      BY <1>6, <2>3, <2>4, <1>1 DEF DeleteBranch, TypeOK
    <2>8. RemoveWorktree(q) /\ calls[q].run = r
      BY <1>1, <1>6, <2>2, <2>3, <2>4, <2>5, <2>6, <2>7, OwnDir
      DEF RepoStep, RemoveWorktree, TypeOK
    <2>9. calls'[q] = [calls[q] EXCEPT !.stage = "deleting"]
      BY <2>8 DEF RemoveWorktree, TypeOK
    <2>10. Deleting(q, r)'
      BY <2>3, <2>8, <2>9 DEF Calls, Serving, Building
    <2> QED
      BY <2>10
  <1> QED
    BY <1>5, <1>6

\* The variables keep to their shapes, and the branches of a run to what its own
\* builds make of them.
THEOREM PublishingInvariant == Spec => []IInv
  <1>1. IInv /\ [Next]_vars => IInv'
    BY NextTypeOK, NextDirs, NextReviewed, NextClean DEF IInv
  <1> QED
    BY InitIInv, <1>1, PTL DEF Spec

\* Nothing but a run's own approved patch reaches the fork or a pull request (push_run
\* and create_pull_request, which do not look at the verdict).
THEOREM OnlyReviewedWorkLeavesHolds == Spec => []OnlyReviewedWorkLeaves
  <1>1. IInv => OnlyReviewedWorkLeaves
    BY DEF IInv, ReviewedInv, OnlyReviewedWorkLeaves
  <1> QED
    BY <1>1, PublishingInvariant, PTL

\* What reached the fork is never taken back (push_branch, without --force).
THEOREM ForkNeverRewindsHolds == Spec => ForkNeverRewinds
  <1>1. IInv /\ [Next]_vars =>
          [\A r \in OwnDirRuns : On(remote[r]) \subseteq On(remote'[r])]_remote
    BY NextFork
  <1> QED
    BY <1>1, PublishingInvariant, PTL DEF Spec, ForkNeverRewinds

\* Builds that fail, however they overlap, leave a branch exactly where they leave a
\* directory (materialize_branch and its clean-up).
THEOREM FailedBuildLeavesNothingHolds == Spec => []FailedBuildLeavesNothing
  <1>1. ASSUME IInv, faults = 0, Quiet, NEW r \in OwnDirRuns
        PROVE  refs[r] # None <=> dirs[BranchDir(r)] = r
    <2>1. r \in Runs /\ BranchDir(r) = r /\ r \in Dirs /\ dirs[r] \in Runs \union {None}
      BY <1>1, OwnDir DEF IInv, TypeOK
    <2>2. dirs[r] # None => dirs[r] = r /\ refs[r] # None
      BY <1>1, <2>1, OwnDir DEF IInv, DirsInv
    <2>3. refs[r] # None => dirs[r] # None
      BY <1>1, <2>1, NoneAssumption DEF IInv, CleanInv, Quiet
    <2> QED
      BY <2>1, <2>2, <2>3, NoneAssumption
  <1>2. IInv => FailedBuildLeavesNothing
    BY <1>1 DEF FailedBuildLeavesNothing
  <1> QED
    BY <1>2, PublishingInvariant, PTL
=============================================================================
