----------------------------- MODULE Publishing -----------------------------
(***************************************************************************)
(* What happens to a validated patch: POST /runs/{id}/build puts it on a   *)
(* branch in a worktree that stays, /push sends the branch to the user's   *)
(* fork, /pull-request opens a pull request from there.                    *)
(*                                                                         *)
(* The state is what survives a request: the directories and the branches  *)
(* of the cloned repositories, the branches of the fork, the pull requests *)
(* on GitHub.  The handlers run in a thread pool and take no lock; each    *)
(* git command is one step.  Branch names are itp/<run id>, so a branch is *)
(* named by its run.  A commit is the set of patches applied on top of the *)
(* commit the snapshot was taken at: {} is that commit, {r} the patch of r.*)
(* A commit of a smaller set is an ancestor: identity and date of commits  *)
(* are fixed, so building a patch again gives the same commit.             *)
(***************************************************************************)
EXTENDS Naturals, FiniteSets

CONSTANTS
  UrlRuns,        \* started from an issue URL: each clones a snapshot of its own
  PlanRuns,       \* started from one saved plan: they share its snapshot
  SnapshotRuns,   \* started by POST /runs on one and the same snapshot
  Requests,       \* the build, push and pull-request calls
  None,
  MaxFaults       \* bound on failing git commands and server crashes

Runs == UrlRuns \union PlanRuns \union SnapshotRuns

ASSUME PublishingAssumption ==
  /\ UrlRuns \intersect PlanRuns = {}
  /\ SnapshotRuns \intersect (UrlRuns \union PlanRuns) = {}
  /\ "shared" \notin Runs
  /\ MaxFaults \in Nat

VARIABLES
  verdict,   \* final_state of each run's checkpoint, "open" before there is one
  dirs,      \* the run whose branch is checked out in each branch directory
  refs,      \* the commit of each branch in the cloned repository
  remote,    \* the commit of each branch on the fork
  prs,       \* the runs with an open pull request
  calls,     \* what each call asks for and how far it has come
  reply,     \* what each call was answered
  overlapped,   \* some call came while another was being served; only observed
  faults        \* faults so far; only bounds the model

repoVars == <<dirs, refs>>
vars == <<verdict, repoVars, remote, prs, calls, reply, overlapped, faults>>

Commits == SUBSET Runs

\* The patches on a branch that may not exist.
On(commit) == IF commit = None THEN {} ELSE commit

\* branch_target: a run whose snapshot is a plan's gets a directory of its own
\* there, any other run uses the one directory "branch" beside its snapshot.
BranchDir(r) == IF r \in SnapshotRuns THEN "shared" ELSE r
Dirs == {BranchDir(r) : r \in Runs}

Building == {"looking", "rechecking", "adding", "applying", "removing",
             "deleting", "reading"}
Serving == Building \union {"pushing", "opening"}
Ops == {"build", "push", "pull-request"}
Calls == [op : Ops, run : Runs, stage : Serving]
Replies == [op : Ops, run : Runs,
            status : {"ok", "conflict", "refused", "error", "lost"},
            sha : Commits \union {None}]

ASSUME NoneAssumption == None \notin Runs \union Calls /\ \A c \in Commits : c # None

Init ==
  /\ verdict = [r \in Runs |-> "open"]
  /\ dirs = [d \in Dirs |-> None]
  /\ refs = [r \in Runs |-> None]
  /\ remote = [r \in Runs |-> None]
  /\ prs = {}
  /\ calls = [q \in Requests |-> None]
  /\ reply = [q \in Requests |-> None]
  /\ overlapped = FALSE
  /\ faults = 0

-----------------------------------------------------------------------------
Quiet == \A q \in Requests : calls[q] = None

New(q) == calls[q] = None /\ reply[q] = None

At(q, stage) == calls[q] # None /\ calls[q].stage = stage

Goto(q, stage) ==
  /\ calls' = [calls EXCEPT ![q].stage = stage]
  /\ UNCHANGED reply

ReplyTo(call, status, sha) ==
  [op |-> call.op, run |-> call.run, status |-> status, sha |-> sha]

Answer(q, status, sha) ==
  /\ calls' = [calls EXCEPT ![q] = None]
  /\ reply' = [reply EXCEPT ![q] = ReplyTo(calls[q], status, sha)]

\* A call that begins, or is turned down before it does anything.
Begin(q, op, r, admitted, stage) ==
  LET call == [op |-> op, run |-> r, stage |-> stage]
  IN  /\ overlapped' = (overlapped \/ ~Quiet)
      /\ IF admitted
         THEN calls' = [calls EXCEPT ![q] = call] /\ UNCHANGED reply
         ELSE reply' = [reply EXCEPT ![q] = ReplyTo(call, "conflict", None)] /\ UNCHANGED calls

Exists(r) == dirs[BranchDir(r)] # None

\* The investigation ends; what is recorded of it does not change any more.
Conclude(r) ==
  /\ verdict[r] = "open"
  /\ \E v \in {"validated", "other"} : verdict' = [verdict EXCEPT ![r] = v]
  /\ UNCHANGED <<repoVars, remote, prs, calls, reply, overlapped, faults>>

-----------------------------------------------------------------------------
(***************************************************************************)
(* Build.  The handler looks for the directory and materialize_branch      *)
(* looks again; what git worktree add finds may be different once more.    *)
(***************************************************************************)

\* Mutant: whatever the run ended in is built.
SubmitBuildUnchecked(q, r) ==
  /\ New(q)
  /\ Begin(q, "build", r, TRUE, "looking")
  /\ UNCHANGED <<verdict, repoVars, remote, prs, faults>>

SubmitBuild(q, r) ==
  /\ New(q)
  /\ Begin(q, "build", r, verdict[r] = "validated", "looking")
  /\ UNCHANGED <<verdict, repoVars, remote, prs, faults>>

LookForDir(q) ==
  /\ At(q, "looking")
  /\ Goto(q, IF Exists(calls[q].run) THEN "reading" ELSE "rechecking")
  /\ UNCHANGED <<verdict, repoVars, remote, prs, overlapped, faults>>

Recheck(q) ==
  /\ At(q, "rechecking")
  /\ IF Exists(calls[q].run) THEN Answer(q, "error", None) ELSE Goto(q, "adding")
  /\ UNCHANGED <<verdict, repoVars, remote, prs, overlapped, faults>>

\* git worktree add -b makes the branch, then the directory: it stops at once if
\* the branch is there, and leaves the branch behind if the directory is.
AddWorktree(q) ==
  LET r == calls[q].run
  IN  /\ At(q, "adding")
      /\ IF refs[r] = None
         THEN /\ refs' = [refs EXCEPT ![r] = {}]
              /\ IF Exists(r)
                 THEN UNCHANGED dirs /\ Goto(q, "removing")
                 ELSE /\ dirs' = [dirs EXCEPT ![BranchDir(r)] = r]
                      /\ Goto(q, "applying")
         ELSE UNCHANGED repoVars /\ Goto(q, "removing")
      /\ UNCHANGED <<verdict, remote, prs, overlapped, faults>>

\* git am commits onto whatever branch is checked out in the directory.  It does
\* not apply a patch twice, and another run's patch may be in its way.
ApplyPatch(q) ==
  LET r == calls[q].run
      onto == dirs[BranchDir(r)]
  IN  /\ At(q, "applying")
      /\ onto # None
      /\ \/ /\ r \notin refs[onto]
            /\ refs' = [refs EXCEPT ![onto] = @ \union {r}]
            /\ Goto(q, "reading")
         \/ /\ refs[onto] # {}
            /\ Goto(q, "removing")
            /\ UNCHANGED refs
      /\ UNCHANGED <<verdict, dirs, remote, prs, overlapped, faults>>

\* A git command fails of its own, on a full disk for one.
GitFails(q) ==
  /\ At(q, "adding") \/ (At(q, "applying") /\ Exists(calls[q].run))
  /\ faults < MaxFaults
  /\ faults' = faults + 1
  /\ Goto(q, "removing")
  /\ UNCHANGED <<verdict, repoVars, remote, prs, overlapped>>

\* The directory a git command is to run in is gone: the exception is not the
\* one materialize_branch cleans up after.
DirVanished(q) ==
  /\ At(q, "applying") \/ At(q, "reading") \/ At(q, "pushing")
  /\ ~Exists(calls[q].run)
  /\ Answer(q, "error", None)
  /\ UNCHANGED <<verdict, repoVars, remote, prs, overlapped, faults>>

RemoveWorktree(q) ==
  /\ At(q, "removing")
  /\ dirs' = [dirs EXCEPT ![BranchDir(calls[q].run)] = None]
  /\ Goto(q, "deleting")
  /\ UNCHANGED <<verdict, refs, remote, prs, overlapped, faults>>

\* Mutant: the branch of a failed build stays.
DeleteNoBranch(q) ==
  /\ At(q, "deleting")
  /\ Answer(q, "error", None)
  /\ UNCHANGED <<verdict, repoVars, remote, prs, overlapped, faults>>

\* git branch -D refuses a branch that is checked out somewhere.
DeleteBranch(q) ==
  LET r == calls[q].run
  IN  /\ At(q, "deleting")
      /\ refs' = IF \E d \in Dirs : dirs[d] = r THEN refs
                 ELSE [refs EXCEPT ![r] = None]
      /\ Answer(q, "error", None)
      /\ UNCHANGED <<verdict, dirs, remote, prs, overlapped, faults>>

ReadHead(q) ==
  /\ At(q, "reading")
  /\ Exists(calls[q].run)
  /\ Answer(q, "ok", refs[dirs[BranchDir(calls[q].run)]])
  /\ UNCHANGED <<verdict, repoVars, remote, prs, overlapped, faults>>

-----------------------------------------------------------------------------
(***************************************************************************)
(* Push and pull request.  Both only ask whether the directory is there.   *)
(***************************************************************************)

SubmitPush(q, r) ==
  /\ New(q)
  /\ Begin(q, "push", r, Exists(r), "pushing")
  /\ UNCHANGED <<verdict, repoVars, remote, prs, faults>>

\* git push itp/r:itp/r without --force: the branch must exist and must not
\* rewind the one on the fork.
FastForward(r) == refs[r] # None /\ On(remote[r]) \subseteq refs[r]

\* Mutant: git push --force.
GitPushForced(q) ==
  LET r == calls[q].run
  IN  /\ At(q, "pushing")
      /\ Exists(r)
      /\ IF refs[r] # None
         THEN remote' = [remote EXCEPT ![r] = refs[r]] /\ Answer(q, "ok", refs[r])
         ELSE UNCHANGED remote /\ Answer(q, "refused", None)
      /\ UNCHANGED <<verdict, repoVars, prs, overlapped, faults>>

GitPush(q) ==
  LET r == calls[q].run
  IN  /\ At(q, "pushing")
      /\ Exists(r)
      /\ IF FastForward(r)
         THEN remote' = [remote EXCEPT ![r] = refs[r]] /\ Answer(q, "ok", refs[r])
         ELSE UNCHANGED remote /\ Answer(q, "refused", None)
      /\ UNCHANGED <<verdict, repoVars, prs, overlapped, faults>>

\* The connection breaks, before or after the fork took the branch.
PushBreaks(q) ==
  LET r == calls[q].run
  IN  /\ At(q, "pushing")
      /\ Exists(r)
      /\ faults < MaxFaults
      /\ faults' = faults + 1
      /\ \/ UNCHANGED remote
         \/ FastForward(r) /\ remote' = [remote EXCEPT ![r] = refs[r]]
      /\ Answer(q, "refused", None)
      /\ UNCHANGED <<verdict, repoVars, prs, overlapped>>

SubmitPullRequest(q, r) ==
  /\ New(q)
  /\ Begin(q, "pull-request", r, Exists(r), "opening")
  /\ UNCHANGED <<verdict, repoVars, remote, prs, faults>>

\* artifacts/<run id>/raw/repository.json is only written by auto_ingest, so by
\* runs started from a URL.  Without it the handler raises.
HasRepositoryRecord(r) == r \in UrlRuns

\* GitHub opens one pull request per branch, of a branch that is ahead.
OpenPullRequest(q) ==
  LET r == calls[q].run
  IN  /\ At(q, "opening")
      /\ IF ~HasRepositoryRecord(r) THEN UNCHANGED prs /\ Answer(q, "error", None)
         ELSE IF On(remote[r]) = {} \/ r \in prs
              THEN UNCHANGED prs /\ Answer(q, "refused", None)
              ELSE prs' = prs \union {r} /\ Answer(q, "ok", remote[r])
      /\ UNCHANGED <<verdict, repoVars, remote, overlapped, faults>>

\* GitHub opened it but answered with a 5xx: the client posts again and is told
\* that there is one already.
PullRequestAnswerLost(q) ==
  LET r == calls[q].run
  IN  /\ At(q, "opening")
      /\ HasRepositoryRecord(r) /\ On(remote[r]) # {} /\ r \notin prs
      /\ faults < MaxFaults
      /\ faults' = faults + 1
      /\ prs' = prs \union {r}
      /\ Answer(q, "refused", None)
      /\ UNCHANGED <<verdict, repoVars, remote, overlapped>>

-----------------------------------------------------------------------------
\* The process dies: the calls in flight go unanswered, what git did stays done.
ServerCrash ==
  /\ faults < MaxFaults
  /\ ~Quiet
  /\ faults' = faults + 1
  /\ calls' = [q \in Requests |-> None]
  /\ reply' = [q \in Requests |-> IF calls[q] = None THEN reply[q]
                                  ELSE ReplyTo(calls[q], "lost", None)]
  /\ UNCHANGED <<verdict, repoVars, remote, prs, overlapped>>

Submit(q) ==
  \E r \in Runs : SubmitBuild(q, r) \/ SubmitPush(q, r) \/ SubmitPullRequest(q, r)

Serve(q) ==
  \/ LookForDir(q) \/ Recheck(q) \/ AddWorktree(q) \/ ApplyPatch(q)
  \/ GitFails(q) \/ DirVanished(q) \/ RemoveWorktree(q) \/ DeleteBranch(q)
  \/ ReadHead(q) \/ GitPush(q) \/ PushBreaks(q)
  \/ OpenPullRequest(q) \/ PullRequestAnswerLost(q)

Next ==
  \/ \E r \in Runs : Conclude(r)
  \/ \E q \in Requests : Submit(q) \/ Serve(q)
  \/ ServerCrash

Spec == Init /\ [][Next]_vars
=============================================================================
