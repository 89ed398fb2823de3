------------------------ MODULE PublishingProperties ------------------------
(***************************************************************************)
(* What Publishing must guarantee, and what the program says of itself and *)
(* does not keep.                                                          *)
(***************************************************************************)
EXTENDS Publishing

TypeOK ==
  /\ verdict \in [Runs -> {"open", "validated", "other"}]
  /\ dirs \in [Dirs -> Runs \union {None}]
  /\ refs \in [Runs -> Commits \union {None}]
  /\ remote \in [Runs -> Commits \union {None}]
  /\ prs \subseteq Runs
  /\ calls \in [Requests -> Calls \union {None}]
  /\ reply \in [Requests -> Replies \union {None}]
  /\ overlapped \in BOOLEAN
  /\ faults \in 0..MaxFaults

\* Runs that have a branch directory to themselves, and whose builds do not
\* meet those of another run.
OwnDirRuns == Runs \ SnapshotRuns

\* Whatever calls overlap and wherever the server dies, nothing leaves the
\* server for a run but its own patch, and only once a reviewer's approval was
\* recorded: push and pull-request do not look at the verdict themselves.
OnlyReviewedWorkLeaves ==
  \A r \in OwnDirRuns :
    /\ remote[r] \in {None, {}, {r}}
    /\ remote[r] # None => verdict[r] = "validated"
    /\ r \in prs => remote[r] = {r}

\* A patch that reached the fork is never taken back, by a rebuild that was cut
\* short and pushed for one.
ForkNeverRewinds ==
  [][\A r \in OwnDirRuns : On(remote[r]) \subseteq On(remote'[r])]_remote

\* A build that fails leaves nothing that would make the next one fail: when no
\* call is in flight, a branch is there exactly if its directory is, however the
\* calls overlapped, unless the clean-up itself was cut short.
FailedBuildLeavesNothing ==
  faults = 0 /\ Quiet => \A r \in OwnDirRuns : refs[r] # None <=> dirs[BranchDir(r)] = r

-----------------------------------------------------------------------------
(***************************************************************************)
(* What comments promise of every environment.  The program keeps it as    *)
(* long as calls come one at a time and nothing fails.                     *)
(***************************************************************************)

Undisturbed == ~overlapped /\ faults = 0

Reported(q) == reply[q] # None /\ reply[q].op = "build" /\ reply[q].status = "ok"

\* build_run, "Materialize the validated patch onto a real, persistent branch":
\* what a build reports is the run's patch on its base, no less and no more.
BuildIsThePatch == \A q \in Requests : Reported(q) => reply[q].sha = {reply[q].run}

\* build_run, "persistent" and "idempotent": once a build was reported, its
\* branch and its directory stay as they were reported.
BuildStays ==
  \A q \in Requests : Reported(q) =>
    /\ dirs[BranchDir(reply[q].run)] = reply[q].run
    /\ refs[reply[q].run] = reply[q].sha

\* Both, where they hold: a build that a reviewer is shown is the patch that was
\* reviewed, and is what push and pull-request will find.
BuildReportsThePatch == Undisturbed => BuildIsThePatch
ReportedBuildStays   == Undisturbed => BuildStays

\* README.md:130, "For an approved, validated patch, optionally Build branch,
\* Push branch to your fork, and Create Pull Request": GitHub may refuse, but
\* the application itself is able to ask, for a plan's run as for any other.
PullRequestCanBeAsked ==
  \A q \in Requests :
    reply[q] # None /\ reply[q].op = "pull-request" => reply[q].status # "error"
=============================================================================
