----------------------------- MODULE Ingestion ------------------------------
(***************************************************************************)
(* ingest_issue and create_snapshot: an issue, its discussion, its         *)
(* repository and the changes that mention it are fetched page by page,    *)
(* what is made of each archived under raw/, then the repository is cloned,*)
(* checked out and described by a manifest, which load_snapshot asks for.  *)
(* Meanwhile people comment and push; GitHub, git or the process may fail  *)
(* at any point.                                                           *)
(***************************************************************************)
EXTENDS GitHubClient

CONSTANTS
  Dirs,        \* run directories; a caller may name one twice
  Edited,      \* the resources that change while they are read
  Tagged,      \* the resources GitHub sends with an ETag
  Secret,      \* the items that hold a token
  Mentions,    \* the timeline events collect_related_changes keeps
  Torn,        \* a file that was opened for writing and not yet written
  MaxItems, MaxHead, MaxJobs   \* bounds

Resources == <<"issue", "issue_comments", "repository", "related_changes">>
Names == {"issue", "issue_comments", "repository", "related_changes"}
Commits == 1..MaxHead
Redacted == 0
Items == 1..MaxItems

ASSUME IngestionAssumption ==
  /\ MaxItems \in Nat \ {0} /\ MaxHead \in Nat \ {0} /\ MaxJobs \in Nat
  /\ Edited \subseteq {"issue_comments", "related_changes"}
  /\ Secret \subseteq Items /\ Mentions \subseteq Items
  /\ None \notin Commits /\ Torn \notin Commits \union {None}

VARIABLES
  listing,   \* what GitHub holds of each resource; its items are numbered as made
  head,      \* the newest commit of the repository's default branch
  cache,     \* GitHubClient._etags
  job,       \* the ingest being run
  disk,      \* the run directories
  jobs       \* only bounds the model

vars == <<listing, head, cache, job, disk, jobs>>

Idle == [stage |-> "idle", dir |-> None, ref |-> None, at |-> 1, page |-> 1, items |-> <<>>,
         attempt |-> 1, first |-> <<>>, shrunk |-> FALSE, fetched |-> [n \in Names |-> None],
         commit |-> None]
\* raw holds the resources that are archived, and those only.
EmptyDir == [raw |-> [n \in {} |-> <<>>], repo |-> "absent", tree |-> None,
             manifest |-> None, recorded |-> None]
Pages == 1..MaxPages

\* A client that remembers no page.
Forgotten == [n \in Names, p \in Pages |-> None]

Init ==
  /\ listing = [n \in Names |-> <<1>>]
  /\ head = 1
  /\ cache = Forgotten
  /\ job = Idle
  /\ disk = [d \in Dirs |-> EmptyDir]
  /\ jobs = 0

-----------------------------------------------------------------------------
(***************************************************************************)
(* GitHub's users.                                                         *)
(***************************************************************************)
Name == Resources[job.at]

Newest(name) == IF listing[name] = <<>> THEN 0 ELSE Last(listing[name])

Comment(name) ==
  /\ Newest(name) < MaxItems
  /\ listing' = [listing EXCEPT ![name] = Append(@, Newest(name) + 1)]
  /\ UNCHANGED <<head, cache, job, disk, jobs>>

Fetching == {"fetching", "archiving", "writing raw"}

\* What follows the item moves up, perhaps to a page that was already read. The newest
\* stays: it numbers the next one.
Delete(name) ==
  \E i \in 1..(Len(listing[name]) - 1) :
    /\ listing' = [listing EXCEPT ![name] = RemoveAt(@, i)]
    /\ job' = [job EXCEPT !.shrunk = @ \/ (job.stage \in Fetching /\ name = Name)]
    /\ UNCHANGED <<head, cache, disk, jobs>>

Push ==
  /\ head < MaxHead
  /\ head' = head + 1
  /\ UNCHANGED <<listing, cache, job, disk, jobs>>

-----------------------------------------------------------------------------
(***************************************************************************)
(* ingest_issue.                                                           *)
(***************************************************************************)
Over == job.stage \in {"idle", "returned", "failed"}

\* The client may be the one of an earlier ingest, which remembers its pages.
Start ==
  /\ Over /\ jobs < MaxJobs
  /\ \E d \in Dirs, ref \in Commits \union {None} :
       job' = [Idle EXCEPT !.stage = "fetching", !.dir = d, !.ref = ref, !.first = listing["issue"]]
  /\ cache' \in {cache, Forgotten}
  /\ jobs' = jobs + 1
  /\ UNCHANGED <<listing, head, disk>>

Fail == job' = [job EXCEPT !.stage = "failed"]

Receive(page) ==
  LET items == job.items \o page.items
  IN  job' = IF GoesOn(page, job.page)
             THEN [job EXCEPT !.items = items, !.page = @ + 1, !.attempt = 1]
             ELSE [job EXCEPT !.items = items, !.stage = "archiving"]

\* The client remembers a page that comes with an ETag.
Respond ==
  LET page == PageOf(listing[Name], job.page)
  IN  /\ job.stage = "fetching"
      /\ Receive(page)
      /\ cache' = IF Name \in Tagged
                  THEN [cache EXCEPT ![<<Name, job.page>>] = Remembered(page)] ELSE cache
      /\ UNCHANGED <<listing, head, disk, jobs>>

RespondNotModified ==
  /\ job.stage = "fetching"
  /\ NotModified(cache[<<Name, job.page>>], listing[Name], job.page)
  /\ Receive(cache[<<Name, job.page>>])
  /\ UNCHANGED <<listing, head, cache, disk, jobs>>

\* 429, 403 for a rate limit, 500, 502, 503, 504: asked again, after a wait.
RespondBusy ==
  /\ job.stage = "fetching"
  /\ IF AfterRefusal(job.attempt) = None
     THEN Fail
     ELSE job' = [job EXCEPT !.attempt = AfterRefusal(job.attempt)]
  /\ UNCHANGED <<listing, head, cache, disk, jobs>>

\* 404, any other refusal, no connection, or a body that is not what was asked for.
RespondError ==
  /\ job.stage = "fetching"
  /\ Fail
  /\ UNCHANGED <<listing, head, cache, disk, jobs>>

\* What the fetch returns: of the timeline, the events that mention a change.
Result ==
  IF Name = "related_changes" THEN SelectSeq(job.items, LAMBDA i : i \in Mentions) ELSE job.items

\* redact_secrets.
Redact(items) == [i \in DOMAIN items |-> IF items[i] \in Secret THEN Redacted ELSE items[i]]

\* RawArtifactWriter.write is handed the typed and filtered result, not the payload.
Archived == Redact(Result)

\* Mutant: a file that an earlier ingest left is not written again.
FiledOnce(content) ==
  disk' = [disk EXCEPT ![job.dir].raw = [n \in DOMAIN @ \union {Name} |->
             IF n = Name /\ (n \notin DOMAIN @ \/ @[n] = Torn) THEN content ELSE @[n]]]

\* The file is opened, then written.
Filed(content) ==
  disk' = [disk EXCEPT ![job.dir].raw = [n \in DOMAIN @ \union {Name} |->
                                          IF n = Name THEN content ELSE @[n]]]

OpenRaw ==
  /\ job.stage = "archiving"
  /\ Filed(Torn)
  /\ job' = [job EXCEPT !.stage = "writing raw"]
  /\ UNCHANGED <<listing, head, cache, jobs>>

\* On to the next resource, or to the clone.
Archive ==
  /\ job.stage = "writing raw"
  /\ Filed(Archived)
  /\ LET done == [Idle EXCEPT !.dir = job.dir, !.ref = job.ref,
                              !.fetched = [job.fetched EXCEPT ![Name] = Result]]
     IN  job' = IF job.at = Len(Resources)
                THEN [done EXCEPT !.stage = "cloning"]
                ELSE [done EXCEPT !.stage = "fetching", !.at = job.at + 1,
                                  !.first = listing[Resources[job.at + 1]]]
  /\ UNCHANGED <<listing, head, cache, jobs>>

-----------------------------------------------------------------------------
(***************************************************************************)
(* create_snapshot.                                                        *)
(***************************************************************************)
\* Mutant: what is in the directory is cloned over.
PopulatedIgnored(d) == FALSE

\* A clone, whole or not, is never cloned over.
Populated(d) == disk[d].repo # "absent"

Refuse ==
  /\ job.stage = "cloning" /\ Populated(job.dir)
  /\ Fail
  /\ UNCHANGED <<listing, head, cache, disk, jobs>>

\* The record of the repository names no clone URL, or one that is no repository.
NothingToClone ==
  /\ job.stage = "cloning"
  /\ Fail
  /\ UNCHANGED <<listing, head, cache, disk, jobs>>

Clone ==
  /\ job.stage = "cloning" /\ ~Populated(job.dir)
  /\ disk' = [disk EXCEPT ![job.dir].repo = "partial", ![job.dir].tree = None]
  /\ job' = [job EXCEPT !.stage = "cloned"]
  /\ UNCHANGED <<listing, head, cache, jobs>>

\* The working tree is at the newest commit of the default branch.
Cloned ==
  /\ job.stage = "cloned"
  /\ disk' = [disk EXCEPT ![job.dir].repo = "whole", ![job.dir].tree = head]
  /\ job' = [job EXCEPT !.stage =
               IF job.ref = None THEN "describing" ELSE "checking out"]
  /\ UNCHANGED <<listing, head, cache, jobs>>

\* git takes away what it made; killed at the timeout, it leaves it.
CloneFails ==
  /\ job.stage = "cloned"
  /\ disk' \in {disk, [disk EXCEPT ![job.dir].repo = "absent"]}
  /\ Fail
  /\ UNCHANGED <<listing, head, cache, jobs>>

\* The default branch is where the clone is already; a ref it does not hold is an error.
Checkout ==
  /\ job.stage = "checking out"
  /\ IF job.ref <= disk[job.dir].tree
     THEN /\ disk' = [disk EXCEPT ![job.dir].tree = job.ref]
          /\ job' = [job EXCEPT !.stage = "describing"]
     ELSE Fail /\ UNCHANGED disk
  /\ UNCHANGED <<listing, head, cache, jobs>>

\* rev-parse, then the file is opened and written.
Describe ==
  /\ job.stage = "describing"
  /\ job' = [job EXCEPT !.stage = "writing", !.commit = disk[job.dir].tree]
  /\ disk' = [disk EXCEPT ![job.dir].manifest = Torn]
  /\ UNCHANGED <<listing, head, cache, jobs>>

WriteManifest ==
  /\ job.stage = "writing"
  /\ disk' = [disk EXCEPT ![job.dir].manifest = job.commit]
  /\ job' = [job EXCEPT !.stage = "recording"]
  /\ UNCHANGED <<listing, head, cache, jobs>>

\* raw.write("snapshot_manifest", ...), and ingest_issue returns.
OpenRecord ==
  /\ job.stage = "recording"
  /\ disk' = [disk EXCEPT ![job.dir].recorded = Torn]
  /\ job' = [job EXCEPT !.stage = "writing record"]
  /\ UNCHANGED <<listing, head, cache, jobs>>

Record ==
  /\ job.stage = "writing record"
  /\ disk' = [disk EXCEPT ![job.dir].recorded = job.commit]
  /\ job' = [job EXCEPT !.stage = "returned"]
  /\ UNCHANGED <<listing, head, cache, jobs>>

\* load_snapshot, which anyone may call at any time.
Loadable(d) == disk[d].manifest \notin {None, Torn} /\ disk[d].repo # "absent"

\* The process is gone, and with it the client and what it remembered.
Crash ==
  /\ ~Over
  /\ job' = Idle
  /\ cache' = Forgotten
  /\ UNCHANGED <<listing, head, disk, jobs>>

-----------------------------------------------------------------------------
Answer == Respond \/ RespondNotModified \/ RespondBusy \/ RespondError

Store == OpenRaw \/ Archive

Prepare ==
  \/ Refuse \/ NothingToClone \/ Clone \/ Cloned \/ CloneFails
  \/ Checkout \/ Describe \/ WriteManifest \/ OpenRecord \/ Record

Next ==
  \/ \E name \in Edited : Comment(name) \/ Delete(name)
  \/ Push \/ Start \/ Answer \/ Store \/ Prepare \/ Crash

\* GitHub answers or the client's timeouts do, and git ends.
Spec == Init /\ [][Next]_vars /\ WF_vars(Answer) /\ WF_vars(Store) /\ WF_vars(Prepare)
=============================================================================
