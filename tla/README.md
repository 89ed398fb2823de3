# Issue-to-Patch, verified

TLA+ models of the Issue-to-Patch pipeline (`src/src/issue_to_patch/`), the
TLC configurations that check them, and TLAPS proofs about them. Paths below
are relative to that package unless they start with `src/`.

The program takes a GitHub issue, drafts a resolution plan or runs a full
investigation, has a person review the patch it drafted, and publishes an
approved patch. It is a FastAPI server: handlers declared `def` run in a thread
pool and interleave between any two database transactions, file accesses and
network calls; long work runs in background tasks of the same process. What
survives a crash is one SQL database, LangGraph's checkpoints, and the
directories of the cloned repositories.

## 1. Inventory

| Component | State | Operations | What is hard about it | What makes it correct |
|---|---|---|---|---|
| Investigation graph and runs (`graph/`) | run row, checkpoint, decision log, saved patch, each request's copy of the graph | start, twelve nodes and their edges, review, resume | two requests drive one checkpoint and the last writer wins; a node raises or the server dies between two writes; old decisions and reports stay in the state | loops end, only a patch that passed is reviewed, validation needs an authorised approval, records agree, a run ends once and as its last review says |
| Issue plans (`planning/`, `api/issue_plans.py`) | `issue_plans` rows, the creation lock, background jobs, snapshots | create, regenerate, hand off to an investigation, the generation job, settling at start-up | two first clicks at once, regenerate beside a running job, a failure half-way, a restart, a push upstream | one plan per issue, one job per plan, the last complete preview survives, evidence, text and commit belong together |
| Automatic runs, index of chunks, run page (`api/routes.py`, `auto_run.py`, `api/pending_runs.py`, `processing/index.py`, `retrieval/service.py`, `api/ui.py`, `api/ui.js`) | progress in memory, run row, checkpoint, chunk table, an index in memory per request, browser tabs | accept, ingest, index, investigate, fail, search, show, refresh | progress is lost in a restart; pages read checkpoint and progress apart; runs re-index a commit others are searching; the embedder changes | accepted runs stay visible, pages settle, searches never mix vectors or lose text |
| Publishing (`patching/worktree.py`, `patching/push.py`, `pull_request.py`) | branch directories, local branches, the fork, pull requests | build, push, pull request | builds of one run overlap and clean up after each other; a crash between `git worktree add` and `git am` | only the reviewed patch leaves, and stays; failed builds clean up |
| Audit log (`persistence/store.py`, `persistence/audit.py`) | two hash chains, the run row | append by read-then-insert, verify, assemble a trail | appends race, a trail is read in several transactions, runs are resumed off the gate, rows are edited by hand | no false alarm, no row vouched for whose hashed columns were changed, a trail explains a state that was settled at the gate |
| Patch generation and validation (`patching/`, `pipeline.py`), model clients (`llm/client.py`) | branches, worktrees and temporary directories of a clone, the draft in work, files and rows about it, a cost per client | ask, review, draft, commit, clean up, validate, revise, write and record | runs share a clone; a git command or its clean-up fails, the process dies, and a decision takes the run up again; a bad answer is paid for and asked for again; a report outlives its patch | the patch is what the last plan asks for, nothing stays behind in the clone, what is shown at the gate, or approved there, was judged as it is, every answer is paid |
| Access and rate limit (`api/deps.py`, `safety/`, accounts of `cli.py`) | users, a list of admissions per host | create and disable accounts, authenticate, count, serve | identity is read before the request is counted and served; lists are pruned only when their host calls | the lists are a rate limit, nobody acts under an account or role that is not theirs |
| Ingestion, GitHub client, snapshots (`ingestion/`) | the client's cache of pages, `raw/`, the clone, its manifest | request, retry, walk pages, archive, clone, describe | lists change while they are read, 304 replies, refusals, an ingest that stops anywhere and is tried again in its directory | lists come whole, a loadable snapshot is whole, what was fetched is archived first, an ingest ends |
| Pure functions: issue pages (`fetch.py`), chunking (`processing/`), rows of a patch (`diff_render.py`), requests to the embedder (`persistence/vector.py`) | none | one function each | the ends of pages, blocks and batches; lines that look like something else; classes of one name, paths in quotes | each shows every issue, line and token once, in its place |
| Ranking, prompts, evaluation, the rest of the CLI, settings, logging | files or none | | string processing, arithmetic on reals, or a sequential front end | not modelled (section 8) |

How they meet: a plan hands an investigation its snapshot and guidance
(`IssuePlans`, `AutoRun`); the automatic run indexes a commit and starts the
graph (`AutoRun`, then `Investigation`); the graph's last node writes run row
and audit log (`Investigation`, `AuditChain`); publishing reads the verdict the
graph left in its checkpoint (`Publishing`). An ingest leaves the snapshot all of
them work on (`Ingestion`); the draft and validation nodes of the graph are choices
in `InvestigationGraph` and spelled out in `Drafting`; every route is reached through
`Access`.

## 2. Modules

```
InvestigationGraph          nodes and routers as operators on the graph's state
  Investigation             requests, checkpoint, row, log, crashes
    InvestigationProperties ---- refines ---> RunLifecycle   (what a client is promised)
      InvestigationProofs, MCInvestigation
IssuePlans
  IssuePlansProperties ---- refines ---> PlanPreview         (what a reader of a plan is promised)
      IssuePlansProofs, MCIssuePlans
AutoRun      - AutoRunProperties    - AutoRunProofs, MCAutoRun
Publishing   - PublishingProperties - PublishingProofs, MCPublishing
AuditChain   - AuditChainProperties - AccessProofs (with those of Access)
EditPlans, LanguageModel            what an edit plan does; what a client of a model counts
  Drafting   - DraftingProperties   - DraftingProofs, MCDrafting
Access       - AccessProperties ---- refines ---> Admission  (what a rate limit promises)
                 AccessProofs, MCAccess
GitHubClient                        pages, retries, the cache of pages
  Ingestion  - IngestionProperties  - IngestionProofs
IssuePages, Chunking, DiffRows, Pooling             pure functions
  Algorithms - AlgorithmsProperties - AlgorithmsProofs, MCAlgorithms
```

In every component module a transaction, a file access or an external command
is one action, and what happens between two of them in one thread is no action
at all. Definitions commented `Mutant:` are slips a future change could make;
no specification uses them. They are there so that for every property some
plausible bug is known that makes its run fail.

**InvestigationGraph / Investigation.** The state of the graph keeps what
routers and properties tell apart: a patch is its attempt and whether it touches
a risky path, a report is the attempt it is about and whether it passed, a
hypothesis is one of the three grades `route_after_analyze` distinguishes. Each
node is an operator from a state to the set of states it may return; `Successor`
is the edge table of `graph/build.py`. A driver is a request thread; it reads the
checkpoint once when it invokes the graph and writes its own copy back after
each node. `RequestHumanValidation` and `PersistRun` write to the database
before their checkpoint is written, so each is two steps. LangGraph is external:
its `invoke`, `update_state` and pause before the gate are modelled from how
`graph/run.py` uses them.

**IssuePlans.** `rows` is the table in order of creation. A request goes through
look-up, insert and, on a collision of request ids, a second look-up; a job goes
through one stage per awaited call or transaction, and any stage may raise.
`original` and `saved` are the two copies of the payload `generate_plan` works
with. `Restart` is `interrupt_unfinished`.

**AutoRun.** `stage` is the position in `_run_auto_pipeline`, `pending` the
dictionary of `pending_runs`, `chunks` the chunk table by commit. `service` is
the index a request's `RetrievalService` has cached; hits are taken from it and
their texts read from the table one at a time. `page` is what a tab shows,
`refreshing` the tabs whose *document* has the refresh tag: a page navigated to
has its head, `swapPage` keeps the old one. `splits` is a history variable.

**Publishing.** One step per git command or request to GitHub. A commit is the
set of patches on top of the snapshot's commit, `dirs` and `refs` are the
worktrees and branches of the clone. `overlapped` is a history variable.

**AuditChain.** The two tables as sets of rows, an append as the read of the last
row and the insert with the unique `(run_id, seq)` key that refuses a second
one. A hash is a record of what is hashed: equal hashes mean equal content.
A trail is put together in the four reads of `build_audit_trail`. Of the graph
`AuditChain` keeps whose decision its state holds and whether the gate comes next, in
the checkpoint and in the copy each request drives: a request sets its decision, invokes
the graph and, if that stands before the gate, logs the decision its copy holds. It may
also go on elsewhere, where a node raised, and finish the run without coming by the gate;
`ruling.gated` says which of the two a row was written by. `authenticated` is a column of
a decision that no hash covers, as `store.py:168` explains, and may be edited unseen.

**EditPlans / LanguageModel / Drafting.** A file is its lines and how they end; an
edit replaces one line, or makes a file. `EditPlans` says what `_apply_one`, `git
add -A` and `git commit` make of a plan's edits and what `validate_patch` says of
the outcome, binary content that comes of a NUL, an attribute or the text of a binary
patch included. `LanguageModel` is a client with its one retry, what it counted in
`cost_usd` and, apart from that, what was billed. `Drafting` runs them: one step
per answer, git command, written file and database row, for several runs on one
clone, started in either agent mode or as the deterministic pipeline. An attempt
is a call of `generate_patch` and stands for the names it makes up. A run that raised or
died is taken up again by `Decide`, at the node its checkpoint names: `last` is the last
node that returned, and `Follow` takes its edges on a state that holds the decision, as
`update_state` does. What the node that raised had done is lost, what it left in the
clone is not. `MaxResumes` bounds such decisions. `broken`, `reopened` (runs taken up
again once `PersistRun` had settled them) and `billed` are history variables. `Edited` makes a plan's edits by their number
(`EditedUpTo`, a recursive function), as the loop of `generate_patch` does. The verdicts of the graph are those of
`InvestigationGraph`: `EvaluateRun` and the Gatekeeper are left out here, drafts and
reports are detailed.

**Admission / Access.** `Access` has authenticating, counting and serving a request
as three steps; accounts come and go in between. `window` holds the lists of
`_rate_windows`, with each entry's request, so that two at one instant differ.
`Admission` only says how many admissions may count at once. `admitted` is a
history variable, and so is the `standing` a call remembers.

**GitHubClient / Ingestion.** A resource is the list of its items, numbered as they
were made; people append and delete while it is read. An ETag stands for a page
with its `Link` header, and a 304 may come without one. A fetch is one step per
response, then two for the file under `raw/`, which has an entry for each resource
archived so far. The file holds what the fetch returns, which of the timeline is what
mentions a change (`Result`), and is opened before it is written, so that it may be torn
(`OpenRaw`, `Archive`). The clone is begun, finished, checked
out, and described by a manifest that is opened before it is written. Several
ingests may name one directory.

**Algorithms.** A behaviour takes one input of one function and applies it.
`IssuePages` says in closed form what `list_issue_page` finds by walking pages;
`Chunking`, `DiffRows` and `Pooling` follow the loops of the code as recursive functions
(the state after so many lines, levels or segments), none of them a `RECURSIVE` operator,
so that they can be reasoned about. GitHub's list, tree-sitter's nodes and git's patches
are the inputs: `DiffRows` also has the patch git writes for a change, so that what is
displayed is compared with the change and not with the patch. `AlgorithmsAssumption`
says what the inputs are: `WellNested` is what Python's grammar makes of a file,
`ChangesOfFiles` what a change of a file may be. A definition's parent is the qualified
name of its class, as in the code, so that classes of one name share their methods. A
file of a patch opens with a header `_FILE_HEADER_RE` knows, or with one whose paths git
quotes (`core.quotePath`), which it does not.

## 3. What the runs check

| Run | Bounds | Shows |
|---|---|---|
| `inv_serial` | 3 reviews, 1 revision, 1 fault; requests one at a time | a run recorded as validated was evaluated, passed, and was approved with authority by the last logged decision (`ValidatedMeansReviewed`); row, log, checkpoint and saved patch agree (`RecordsAgree`); the log has no decision nobody made, in spite of crashes (`NoPhantomDecisions`); an accepted ruling ends the run (`RulingEndsRun`); invocations return (`InvocationsReturn`); the whole is an implementation of `RunLifecycle` |
| `inv_overlap` | a review overlapping the starting request, 2 revisions, 1 fault | `LoopsBounded`, `GateOffersPassedPatch`, `ClearedWithAuthority` hold in every interleaving |
| `plans` | 3 requests of any kind, 2 request ids, 2 commits upstream, 1 restart, 1 unhandled database error, snapshots deleted at any time | `OnePlanPerIssue`, `JobsMatchPlans`, `EvidenceMatchesResult`, `HandoffIsCoherent`, and every plan implements `PlanPreview` |
| `plans_liveness` | 2 requests, 2 issues, one request id, 1 restart | generations settle, requests are answered, the one refused for a request id in use included |
| `autorun` | 2 runs, 2 ways of cutting, 2 embedders, 1 restart, one run watched in a tab | `AcceptedIsVisible`, `SearchIsSound`, `RefreshingPageSettles` |
| `publish` | 5 calls for one run, 1 fault | `OnlyReviewedWorkLeaves`, `ForkNeverRewinds`, `FailedBuildLeavesNothing` |
| `audit` | 2 requests, 1 edit by hand, readers all the time | `NoFalseAlarm`, `TrailShowsTheRuling`, `VerifiedMeansUntouched` |
| `drafting` | 2 runs on one clone: a pipeline with a plan that fits, and a run of the multi-agent mode or another pipeline with 10 plans; 2 providers, 1 revision, 1 fault, 1 decision on a run that raised or died | `PatchIsThePlan`, `NothingLeftBehind`, `JudgedAsItStands`, `EveryAnswerIsPaid`, `RecordedIsOnDisk` |
| `access` | 3 requests of 2 hosts, at most 2 in a window of 2 ticks, 1 account and the shared key, 1 restart with or without a key | `IdentityHolds`, and the lists implement `Admission` |
| `ingest` | 3 ingests of one directory, pages of one item of which 2 are read, 3 comments, 2 commits, one retry | `WalkIsComplete`, `LoadableIsWhole`, `ArchivedBeforeUsed`, `IngestEnds` |
| `algorithms` | lists of up to 9 entries, files of up to 5 lines, patches of up to three files, up to 4 texts | `PagesShowEveryIssue`, `ChunksFollowStructure`, `DiffShowsBothVersions`, `EveryTokenIsPooledOnce` |
| `inv_no_patch` | 1 review, 1 fault | finds the violation of section 6 |

Type invariants (`TypeOK` in each properties module) are not part of these runs.
Those of `Investigation`, `IssuePlans`, `Publishing`, `AuditChain` (`AuditTypeOK`), `Access`,
`AutoRun` and `Drafting` are proved (section 5); the others were checked with the
constants above, by adding `TypeOK` to the configuration. So were `OneJobPerPlan`, `ActiveHasJob` (together `JobsMatchPlans`), `VectorsComparable`,
`EvidenceHasText` (together `SearchIsSound`), `SnapshotPinned`, `CostIsAccounted`,
`FinishesOnce`, `MissingMeansLost`, `InvestigatedIsIndexed`, `BuildReportsThePatch`
and `ReportedBuildStays`, which hold with the constants of their module's run.

The bounds, and why they are enough. Three reviews with one revision reach the
budget's end and one review beyond; two revisions let one pass and one fail.
In `inv_overlap` one reviewer overlaps the starter, which already gives two
drivers of one checkpoint; that two or more reviewers add nothing is what the
proofs of section 5 show for exactly these properties. Three plan requests are a
create, a regenerate and a third that races with either; two keys let ids
collide or differ. Two automatic runs are one that searches and one that
re-indexes under it; requests are symmetric otherwise. Five publishing calls
are two builds that race, a third that meets what they left, a push and a pull
request. Two audit requests race for a place, rewrite each other's checkpoint, or
follow one another at the gate and off it. Two runs on a clone are what it takes to be
in each other's way, and one revision gives a run two attempts of its own, a resumed
one three; the plans reach every way `_apply_one`, git or a check can turn one down. The
single-agent mode asks fewer of the same questions and is left to the proofs. Three requests against a limit
of two, in a window of two ticks of a clock that goes to three, are one too many,
and one that comes when the first has just ceased to count. Pages of one item
with two read make every boundary of a page and of the budget fall within three
comments. In `algorithms` a list spans three pages, with screens of two and two
pages read, so that screens end inside, at and beyond pages; five lines hold a
split class with two methods, a block between them, or two classes of one name; a
patch's scripts reach five lines, with hunks begun anywhere, and of three files any may
have its path quoted.

`CHECK_DEADLOCK FALSE` is given where every request has been made and answered:
those systems really stop. The audit log has readers forever and is checked
for deadlock.

Symmetry is used in runs without liveness only, over requests and names that no
definition tells apart.

## 4. Fairness

`Investigation` assumes weak fairness of the starter's and every admitted
reviewer's steps: a worker thread is not suspended for ever, and calls to the
provider return or raise. Nobody has to submit a review, and neither exceptions
nor crashes are fair. `IssuePlans` assumes the same of requests past their
submission and of jobs; both are disabled while the server is down, and nobody
has to restart it, so `ActivePlansSettle` and the rest speak of a server that
stays up. `AutoRun` adds that a browser refreshes a page that tells it to.
`Ingestion` assumes that a request to GitHub is answered or runs into the client's
timeout, and that git ends; an ingest gives its `git clone` no timeout of its own. People need not comment, and crashes are not fair. The other
modules claim no liveness.

## 5. What is proved

**InvestigationProofs**, for every number of reviewers, every
`MaxRevisions`, every overlap of requests and any number of faults, from
`StarterAssumption`, `EnvironmentAssumption` and the assumptions on the graph's
constants: `TypeOK`, `LoopsBounded`, `GateOffersPassedPatch` and
`ClearedWithAuthority`. None is inductive: a router's guarantee at one node is
needed at the next, on a copy some other thread may write back later. The
invariant `IInv` says of every copy of the graph, durable or in memory, that
its state satisfies what the node that left it establishes (`StateInv`) and
that its next node is that node's successor on that state (`CopyInv`). Writes
replace copies whole, so lost updates and overlaps move copies about but never
mix two; `NodeLemma` shows that each node takes a good copy to a good state, and
`StandingLemma` that setting a decision on any standing state does too.

The second half of the module speaks of `Overlap = "none"`, where a request is served
before the next one comes, and proves `NoPhantomDecisions`, `ValidatedMeansReviewed`,
`RecordsAgree`, `FinishesOnce`, and that every step implements one of `RunLifecycle`.
`SerialInv` says that the one active driver has the checkpoint in memory, and that the
verdict a graph acts on is the one its own reviewer submitted. `LogInv` counts: of each
decision the log has at most as many entries as reviewers who gave it and are past
submitting it, which is what `NoPhantomDecisions` needs in spite of crashes. The rest
(`UndisturbedInv`) holds until the first fault. `CompleteInv`: the log has just these
entries, and its last one is the verdict. `PathInv`: an approval with authority leads
past the gate to the end on a patch that passed. `RowInv`: the row is finished as the
checkpoint says. `BudgetInv` ties the reviews to the revisions, which `RunLifecycle`
bounds: each review but the one being acted on has cost one. `RunLifecycle`'s fairness
stays with TLC: `InvestigationImplementsLifecycle` is about its initial states and steps.

**AccessProofs, second half** (the audit log), for any number of requests and edits, from
`AuditAssumption`: `AuditTypeOK`, `NoFalseAlarm`, `TrailShowsTheRuling`, `VerifiedMeansUntouched`. `Verify` speaks
of the order of rows; the proof does not. `ChainInv` says that an unedited table
is `Linked` (each row has its predecessor by number and hash) and that a request
about to insert holds a place that continues it; the unique key makes the insert
keep that. `RulingInv` follows the order of writes, decision before run row, and
of reads, run row before decisions: a request that came by the gate has logged the
decision of its own copy, which nobody else can change, and that is what it finishes the
run by, whatever others put into the checkpoint meanwhile. `OriginInv` ties each row, up to its entry,
to one that was issued, so that a row whose hash fits is one.

**AccessProofs, first half** (accounts and the rate limit), for any number of hosts, users
and requests, any `Limit` and any `Window` above zero. `WithinLimit` shows that a limiter which
only ever looks at what counts *now* bounds every stretch of `Window` ticks.
`AccessInvariant` says of the lists of `_rate_windows` that they hold
nothing but admissions, and every admission that still counts. They hold fewer than
were admitted, because a list is pruned when its host calls; but what is left after
pruning is exactly what `Admission` counts, so `AccessIsAdmission`, the refinement a run
checks, follows action by action, and `AccessWithinLimit` carries the bound over.
`IdentityHoldsAlways` rests on what neither command of the command line can do
(`AccountsStand`: take an account away, change its role, enable it again): what a
look-up found (`CallOk`) is then still true when the request is served.

**PublishingProofs**, for any number of runs, calls, faults and overlapping builds:
`OnlyReviewedWorkLeaves`, `ForkNeverRewinds`, `FailedBuildLeavesNothing`. A run with a
directory of its own (`OwnDirRuns`) shares neither it nor its branch, so only its own
calls touch them. Push and pull request never look at the verdict; the approval reaches
them through `ReviewedInv`: a branch is begun by a build only, builds begin after the
approval, and a push finds what a build made. `CleanInv` is what makes the clean-up
inductive: a branch without a directory has a build that is about to delete it.

**IssuePlansProofs**, for any number of requests, users, issues, request ids, commits
upstream, crashes and database errors, from `PlansAssumption` and `NoneAssumption`:
`OnePlanPerIssue`, `JobsMatchPlans`, `EvidenceMatchesResult`, `HandoffIsCoherent`, and
`PreviewImplemented`, the refinement of `PlanPreview` that a run checks for three
requests. Three invariants carry it. `RequestInv`: who is between look-up and insert
holds the lock, and who is about to insert found no plan; so an insert makes the first
plan of its user for its issue. `JobInv`: the plan of a generating job is active and no
other generating job's; jobs are started on plans that are not active only. `TextInv`:
payloads of rows are coherent, and what a job carries at each stage is the result it
found, with its excerpts and commit, until `WritePlan` gives it one of its own. Each
step of a job is shown to be `Faithful`, that is to keep what it found; the effect on
everybody else follows once, in `FaithKept`. That a published result is new and from
the commit of the one it replaces, which `PlanPreview` asks, is `TextInv` again: no row
has a result by a job that is still to write one. `ActiveHasJob` counts: only an error
of the database adds a stranded plan, one each, and a restart leaves none.

**AutoRunProofs**, for any number of runs, commits, ways of cutting, embedders and
restarts, from `AutoRunAssumption`: `AcceptedIsVisible`, `SearchIsSound`, and
`InvestigatedIsIndexed`. `TaskOk` says what a stage of the background task implies: a
pending entry until there is a checkpoint, and a commit to work on. `SearchOk` says it of
the index: what `_ensure_embeddings` is about to store covers every row that is stale. It
stays true whatever other runs do in between, because each of their transactions
`Refreshes` the table: no commit loses its rows, and no row gets an older vector. That
evidence has its text needs `CutOnce`: the rows of a commit, and any index once loaded
from them, are all the pieces of one cut, so a hit whose row is gone (`CutTwice`) shows
that the commit was cut in another way since.

**IngestionProofs**, for every size and number of pages, any number of directories,
ingests, commits and retries, whatever is appended, deleted or pushed meanwhile, from
`ClientAssumption` and `IngestionAssumption`: `WalkIsComplete`, `LoadableIsWhole` and
`ArchivedBeforeUsed`. `ListsInOrder` is what GitHub owes: items keep their order, and the
newest one stays. `ReadInOrder` is the half of the walk that survives deletions: what was
read is in order and older than all that is still to be read. `ReadWhole` is the half that
needs a list nothing was deleted from: what was read is the list up to the page asked for
next. A page from the cache after a 304 is the page as it is now, links and all, so that
it keeps both. `SnapshotStages` says what
`create_snapshot` has made at each of its steps; the step that opens the manifest finds a
whole clone. A second ingest in the same directory may find anything an earlier one left,
so `ManifestOfClone` and `ArchivesClean` are about directories and not about the job: a
manifest lies beside the clone it names unless it is torn, a clone beside a full
archive, and a raw file is torn or redacted. `ArchivedSoFar` counts the archive off against the resources in their order.

**DraftingProofs**, for any number of runs in one clone, any files, plans, scopes,
providers and budgets of revisions, and any number of bad answers, failing commands and
crashes, from `BaseAssumption`, `DraftingAssumption`, `MissingAssumption` and, for
`PatchIsThePlan`, `NoFileAssumption`: `TypeOK`, `PatchIsThePlan`,
`NothingLeftBehind`, `JudgedAsItStands`, `EveryAnswerIsPaid` and `RecordedIsOnDisk`.
`PatchIsEdited` is the part of `PatchIsThePlan` that other runs and earlier attempts could
break: the patch is what `Edited` makes of the base. The other part is about the edits
alone. `PatchIsThePlan` edits each file by itself, following the plan's edits of that file
(`WantedFile`); `EditedIsWanted` shows that making all of them in the plan's order comes to
the same as long as none of them fails, and `ReplacedOnce` that replacing an anchor that
occurs once, as the code does on the whole text, is replacing one line. `Own` has what `IInv` says of one run, and is eight facts. An attempt is its run's alone, so
a step is shown to keep them for its own run (`StepDoes` names the twelve kinds of step
there are, by what they do to the run), and to leave what belongs to the others
(`OthersStay`, `OtherNamesStay`). `Asking` has of each stage how far the questions are
and that a plan is there; `Left` what exists of each attempt that was not `broken`;
`Fresh` and `Written` that there is a patch to be judged, or a file to be written.
`EditedSoFar` carries the edits through to the commit and `EditedPatch` keeps them true
of the patch. `JudgedSoFar` goes by the node that returned last and not by the stage:
from the validation on the report is of the patch, and past the gate it let the patch
pass, wherever the run raises afterwards and is taken up again. `Records` says that
nothing is on record before its stage and that what is there has just been written, for
runs `PersistRun` has not begun twice with. That edits take no file away and a commit is a tree
again is proved for every list of edits from a least one for which it would fail, since
the prover has no induction of its own.

**AlgorithmsProofs**, for every input and any limits, from `PagesAssumption`,
`ChunkingAssumption`, `DiffAssumption`, `PoolingAssumption` and `AlgorithmsAssumption`:
all four properties of `Algorithms`. An output is what a function makes of its input, so
each theorem is a lemma about that function. Where it works
step by step, the first step at which what is claimed went wrong is shown not to exist
(`LeastNumber`), which takes the place of an induction.

* `PagesShowEveryIssue`: a screen shows the issues between its cursor and its `Stop`, and
  the next one starts there (`ShownUpToStop`, `ScreensShowEveryIssue`), so the screens
  part the list; a screen that is not full has walked to the end of the list or of the
  pages it may read (`ScreenIsFull`). For Previous, `BackAndForth` counts pages: going forward from the page
  Previous goes back to reaches the cursor again, because both count whole pages.
* `ChunksFollowStructure`: nodes nest (`NodesNest`), so of two definitions one is in the
  other or they are apart; if the classes at the top differ in their names, what is cut of
  one definition is cut in order (`SymbolIsCutInOrder`) and all of it lies in its
  definition. In any file a chunk begins and ends at an edge of a definition
  (`ChunksHaveEdges`), and no edge is inside a function (`FunctionsAreClear`). Of a Markdown file
  `OpenAt` says which headings are open below a line, as `ReadLine` leaves them.
* `DiffShowsBothVersions`: in a hunk the two counters of `_parse` are one more than the
  numbers of the last lines read of each version, or that version has no more lines in
  the hunk (`InHunk`); this is what git writes into a hunk's header, whose number is one
  less where a version has no line in it. So what is read is what is due (`Due`). A file
  with a quoted path adds lines to the file before it and no table (`OneMoreQuoted`),
  which is why tables are counted by the plain headers (`PatchIsRead`). Of the
  rows, `Placed` says that they show the lines so far but for the run of changes being
  gathered, whose numbers are larger.
* `EveryTokenIsPooledOnce`: the segments of a text part its tokens, no two segments are
  alike (`SegmentsOfTexts`), and after each of them the requests, with the one being
  filled, hold the first segments in one place each and fit (`Filling`).

Only model-checked: all liveness, the fairness `RunLifecycle` asks for included, since
fairness and `ENABLED` are outside the prover's reach; and `TypeOK` of
`Ingestion`, where `related_changes` are picked by a `SelectSeq`.

## 6. Where the code and its documentation disagree

Checked by a run that must find the violation:

* `inv_no_patch`: a run whose drafting raised can be approved, since
  `awaiting_human` is true of everything that has not ended, and ends
  `PATCH_VALIDATED` without the patch `api/routes.py:306` relies on. Equally, one that
  raised behind a rejected validation may end so on the rejected patch; `JudgedAsItStands`
  speaks of what was past the gate, where the code keeps its promise.

Stated in the properties modules, refuted with the constants given, but not
checked on every change:

| Property | Refuted with | Disagreement |
|---|---|---|
| `ApprovalIsAudited` | `Overlap = "reviewers"`, two reviewers, `MaxRevisions = 1`, without faults | of two overlapping reviews the approval may take effect and only the other be logged, against `graph/nodes.py:466` |
| `RulingIsLogged` | one audit request, no edits | a run that raised is resumed with a decision, does not come by the gate, and its row follows a decision that is in no log; `graph/nodes.py:465` takes the log for the durable record of what was decided |
| `FailedPatchIsRejected` | `inv_serial`'s constants | a revision that fails validation ends in human review: `_determine_final_state` looks at the old "revise" first; `graph/router.py:83` says "revise once, then reject" |
| `FinishesOnce` | `Overlap = "reviewers"`, two reviewers, without faults | two overlapping reviews finish a run twice, in different states; `run_states.py:4` says "exactly one" |
| `UnfinishedIsPaused` | `inv_serial`'s constants | a run whose graph raised is listed as awaiting review (`api/ui.py:70`) |
| `CreateReplacesLostPlan` | two requests, one request id, one commit, neither restarts nor faults | "Create a new plan" (`planning/service.py:78`) returns the plan whose snapshot is gone, for ever |
| `PageShowsOutcome` | one run, watched in a tab, no restart, `FairSpec` | the waiting page is said to refresh until there is a diagnosis or a failure (`src/docs/project-guide.md:92`); reached the usual way, through `swapPage`, it has no refresh tag, and otherwise it stops at the first checkpoint, so that a failure after that is never shown |
| `BuildIsThePatch` | `UrlRuns` of one run, two calls, `MaxFaults = 1` | after a crash between `git worktree add` and `git am` every later build reports the bare base commit as built |
| `BuildIsThePatch` | `UrlRuns = {}`, `SnapshotRuns` of two runs, two calls, `MaxFaults = 0` | two runs of `POST /runs` on one snapshot share a directory; building one reports the other's branch |
| `BuildStays` | `UrlRuns` of one run, three calls, `MaxFaults = 0` | the build that loses a race removes the branch the other has reported |
| `PullRequestCanBeAsked` | `UrlRuns = {}`, one run in `PlanRuns` | a plan's run has no `repository.json`, which `pull_request.py:50` reads |
| `VerifiedMeansComplete` | `audit`'s constants | a chain whose last rows were deleted verifies (`src/IMPLEMENTATION_PLAN.md:226`: "tamper-evident") |
| `EveryPayloadIsArchived` | one ingest, `MaxHead = 1` | what is archived is what the fetches return, typed and, of the timeline, filtered (`ingestion/ingest.py:78`); `ingestion/raw_store.py:1` says every fetched payload, exact but for redaction |
| `RunCostsWhatItWasBilled` | `drafting`'s constants | the request that carries a decision builds its own client, so the run row has the cost of the last request only; `llm/client.py:54` calls it the running total that fills in `Run.cost_usd` |

Of the pure functions, stated as the limits of their properties:

* Chunks of a file share lines, or an id, if two of its classes at the top have one name:
  `processing/chunker.py:74` gives each the methods of both. `processing/chunker.py:1-15` speaks of
  structure, not of names. `ChunksFollowStructure` asks of such a file only that no
  function is cut.
* A path git puts in quotes (any that is not plain ASCII, since `SafeGit` leaves
  `core.quotePath` on) has no table on the page of a patch: `api/diff_render.py:19` does
  not know its header, so its lines are shown as the previous file's, or dropped at the
  start. The same quotes are in what `git diff --name-only` says
  (`patching/worktree.py:63-71`), so that scope and risk patterns are matched against a
  quoted name.

`ActiveHasJob` is as strong as the code allows and no stronger: a database error
outside `generate_plan`'s handlers leaves a plan active with no job, and until the
next restart neither create nor regenerate revives it. The property says that each such
error strands at most one plan, and that nothing else strands any.

## 7. Plan

Done, in this order: `InvestigationGraph`, `Investigation`, `RunLifecycle` with their
proofs, undisturbed investigations and the safety part of the refinement included; `IssuePlans` and `PlanPreview` with their proofs; `Publishing` with its proofs;
`AuditChain` with its proofs;
`AutoRun`, the index of chunks and the run page, with its proofs; `Drafting` with the plans, models
and git commands behind the graph's nodes, with its proofs; `Access` and `Admission` with
their proofs; `Ingestion` with its proofs; the pure functions of `Algorithms` with their
proofs. Every safety property a run checks is proved.

Left: a CLI process beside the server, sharing database and directories with it.

## 8. What is not modelled, and why

* Ranking (BM25, fusion, cosine) is arithmetic on reals without state.
* Prompts, parsing of answers, normalisation and Markdown or HTML rendering are
  string processing; where an outcome matters to control it is a nondeterministic
  choice. `_highlight_changes` is left out of `DiffRows`: it marks words within rows
  and changes none.
* The command allow-list of `SafeGit`, settings, logging and migrations.
* Evaluation runs offline. The CLI calls the same operations one after another;
  a CLI process beside the server, with an embedder of its own, is outside
  `AutoRun`, where one process has one embedder at a time. `create-user` and
  `disable-user` beside the server are in `Access`.
* `discard_snapshot` has no caller; `IssuePlans` has snapshots disappear at any time.
* `replace_chunks` and the other sessions are taken as serialised transactions,
  which SQLite gives; two overlapping replacements under another database may
  additionally refuse one of them, which `AutoRun` covers as a failing stage.
* One server process: `pending_runs`, `_rate_windows` and the creation lock are per
  process by design.
* GitHub's ETag is taken to stand for the page with its links. A 304 for a page whose
  content is as before while its `Link` header would have changed is not assumed.

What the properties leave open, because the code does:

* A decision about a run that raised is modelled from the node its checkpoint names on;
  what a second decision about a run that is still being driven does is in
  `Investigation` and `AuditChain`, while `Drafting` has one driver per run.
* A model call that times out after the provider billed it has no answer:
  `EveryAnswerIsPaid` counts answers.
* An account that is disabled while a request of it is being served does not stop that
  request.
* An embedder is known by the length of its vectors: two models of one length are one
  here, as they are to `persistence/vector.py:97`.
* A comment deleted while its list is read may make another be skipped: the second
  half of `WalkIsComplete` speaks of reads nothing was deleted under.
* The cursor to the next screen of issues may lead to an empty one, when only pull
  requests follow. `PagesShowEveryIssue` asks that walking shows every issue once.
* A function inside an `if` or `try` of a long file may be cut; module code
  after the first definition, and text before a Markdown file's first heading, are in
  no chunk of a file that is cut by structure. `ChunksFollowStructure` says what is.
* `_parse` splits a patch with `splitlines()`, which also breaks lines at form feeds;
  lines here have no such characters.
* `rate_limit` calls itself a fixed window. It is a sliding one, which is stronger.
