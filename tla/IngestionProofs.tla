-------------------------- MODULE IngestionProofs --------------------------
(***************************************************************************)
(* For any page size, any number of pages, attempts, commits, directories  *)
(* and ingests: a list that is read page by page comes whole and in order, *)
(* what load_snapshot accepts is the clone its manifest names, and what    *)
(* was fetched is archived, without tokens, before it is used.             *)
(***************************************************************************)
EXTENDS IngestionProperties, SequenceTheorems, TLAPS

-----------------------------------------------------------------------------
(***************************************************************************)
(* The inductive invariant.                                                *)
(***************************************************************************)
Stages == {"idle", "failed"} \union Fetching \union Using

\* The job and the directories are records of these shapes; nothing is said yet of
\* what is fetched or archived.
JobIsRecord ==
  job = [stage |-> job.stage, dir |-> job.dir, ref |-> job.ref, at |-> job.at,
         page |-> job.page, items |-> job.items, attempt |-> job.attempt,
         first |-> job.first, shrunk |-> job.shrunk, fetched |-> job.fetched,
         commit |-> job.commit]

JobShape ==
  /\ JobIsRecord
  /\ job.fetched = [n \in Names |-> job.fetched[n]]
  /\ job.stage \in Stages /\ job.shrunk \in BOOLEAN /\ job.at \in 1..Len(Resources)
  /\ job.page \in Pages /\ job.ref \in Commits \union {None}
  /\ ~Over => job.dir \in Dirs
  /\ job.stage = "returned" => job.dir \in Dirs

DiskShape ==
  /\ disk = [d \in Dirs |-> disk[d]]
  /\ \A d \in Dirs :
       /\ disk[d] = [raw |-> disk[d].raw, repo |-> disk[d].repo, tree |-> disk[d].tree,
                     manifest |-> disk[d].manifest, recorded |-> disk[d].recorded]
       /\ disk[d].raw = [n \in DOMAIN disk[d].raw |-> disk[d].raw[n]]
       /\ DOMAIN disk[d].raw \subseteq Names

Shape == JobShape /\ DiskShape /\ head \in Commits

\* GitHub never renumbers: its items stay in the order they were made, and the newest
\* one stays.
ListsInOrder ==
  /\ listing \in [Names -> Seq(Items)]
  /\ \A n \in Names : listing[n] # <<>> /\ Increasing(listing[n])

\* The items on the pages before the page that is asked for next.
Before(page) == (page - 1) * PerPage

\* What was read is in order and older than what is still to be read, whatever was
\* deleted or added meanwhile.
ReadInOrder ==
  job.stage \in Fetching =>
    /\ job.items \in Seq(Items) /\ Increasing(job.items)
    /\ \A i \in DOMAIN job.items : job.items[i] <= Last(listing[Name])
    /\ job.stage = "fetching" =>
         \A i \in DOMAIN job.items, j \in DOMAIN listing[Name] :
           Before(job.page) < j => job.items[i] < listing[Name][j]

\* One list begins with the other.
Begins(s, t) == Len(s) <= Len(t) /\ \A i \in 1..Len(s) : s[i] = t[i]

\* If nothing was deleted, the first list is still there and what was read are its
\* first pages, up to the last one that paginate asks for.
ReadWhole ==
  job.stage \in Fetching =>
    /\ job.first \in Seq(Items)
    /\ ~job.shrunk =>
         /\ Begins(job.first, listing[Name]) /\ Begins(job.items, listing[Name])
         /\ job.stage = "fetching" => Len(job.items) = Before(job.page)
         /\ job.stage = "archiving" =>
              Len(job.first) <= Len(job.items) \/ MaxPages * PerPage <= Len(job.items)

\* How far the directory of the job has come at each stage of create_snapshot.
SnapshotStages ==
  /\ job.stage = "cloned" => disk[job.dir].repo = "partial" /\ disk[job.dir].manifest = None
  /\ job.stage \in {"checking out", "describing"} =>
       disk[job.dir].repo = "whole" /\ disk[job.dir].manifest = None
  /\ job.stage = "checking out" => job.ref \in Commits
  /\ job.stage \in {"describing", "checking out"} => disk[job.dir].tree \in Commits
  /\ job.stage \in {"writing", "recording", "writing record", "returned"} =>
       /\ disk[job.dir].repo = "whole" /\ disk[job.dir].tree = job.commit
       /\ job.commit \in Commits
  /\ job.stage \in {"recording", "writing record", "returned"} => disk[job.dir].manifest = job.commit
  /\ job.stage = "returned" => disk[job.dir].recorded = job.commit

\* A manifest, torn or not, lies beside a whole clone, and names its commit.
ManifestOfClone ==
  \A d \in Dirs :
    /\ disk[d].repo \in {"absent", "partial", "whole"}
    /\ disk[d].manifest # None => disk[d].repo = "whole"
    /\ disk[d].manifest \notin {None, Torn} => disk[d].tree = disk[d].manifest

\* No archived file holds a token; a repository lies beside a full archive.
ArchivesClean ==
  \A d \in Dirs :
    /\ \A n \in DOMAIN disk[d].raw :
         disk[d].raw[n] # Torn => \A i \in Secret : i \notin Range(disk[d].raw[n])
    /\ disk[d].repo # "absent" => DOMAIN disk[d].raw = Names

\* The job's resource is archived already.
Kept(n) ==
  n \in DOMAIN disk[job.dir].raw /\ disk[job.dir].raw[n] = Redact(job.fetched[n])

\* What the job has fetched so far is archived as it was fetched.
ArchivedSoFar ==
  /\ job.stage \in Fetching => \A k \in 1..(job.at - 1) : Kept(Resources[k])
  /\ job.stage \in Using => \A n \in Names : Kept(n)

IInv ==
  /\ Shape /\ ListsInOrder /\ ReadInOrder /\ ReadWhole
  /\ SnapshotStages /\ ManifestOfClone /\ ArchivesClean /\ ArchivedSoFar

-----------------------------------------------------------------------------
(***************************************************************************)
(* What each action does to the fields of the job and of its directory.    *)
(***************************************************************************)
\* The job's directory holds this afterwards, and the others what they held.
DirAfter(raw, repo, tree, manifest, recorded) ==
  /\ job.dir \in Dirs
  /\ disk' = [disk EXCEPT ![job.dir] =
                [raw |-> raw, repo |-> repo, tree |-> tree, manifest |-> manifest,
                 recorded |-> recorded]]

\* The job is still about the same resource, and has what it had of the others.
SameErrand ==
  /\ JobIsRecord'
  /\ UNCHANGED <<job.dir, job.ref, job.at, job.first, job.shrunk, job.fetched>>

\* The job goes on to a stage, with this commit.
GoesTo(stage, commit) ==
  job'.stage = stage /\ job'.commit = commit /\ SameErrand /\ UNCHANGED <<job.page, job.items>>

\* A directory that is written has the fields that were written.
LEMMA DirAfterFields ==
  ASSUME DiskShape, NEW raw, NEW repo, NEW tree, NEW manifest, NEW recorded,
         DirAfter(raw, repo, tree, manifest, recorded),
         raw = [n \in DOMAIN raw |-> raw[n]], DOMAIN raw \subseteq Names
  PROVE  /\ DiskShape'
         /\ disk'[job.dir].raw = raw /\ disk'[job.dir].repo = repo
         /\ disk'[job.dir].tree = tree /\ disk'[job.dir].manifest = manifest
         /\ disk'[job.dir].recorded = recorded
         /\ \A d \in Dirs \ {job.dir} : disk'[d] = disk[d]
<1> DEFINE R == [raw |-> raw, repo |-> repo, tree |-> tree, manifest |-> manifest,
                 recorded |-> recorded]
<1>1. R.raw = raw /\ R.repo = repo /\ R.tree = tree /\ R.manifest = manifest
      /\ R.recorded = recorded
  OBVIOUS
<1>2. R = [raw |-> R.raw, repo |-> R.repo, tree |-> R.tree, manifest |-> R.manifest,
           recorded |-> R.recorded]
  OBVIOUS
<1>3. job.dir \in Dirs /\ disk' = [disk EXCEPT ![job.dir] = R]
  BY DEF DirAfter
<1> HIDE DEF R
<1>4. disk' = [d \in Dirs |-> disk'[d]] /\ disk'[job.dir] = R
      /\ \A d \in Dirs \ {job.dir} : disk'[d] = disk[d]
  BY <1>3 DEF DiskShape
<1>5. disk'[job.dir].raw = raw /\ disk'[job.dir].repo = repo /\ disk'[job.dir].tree = tree
      /\ disk'[job.dir].manifest = manifest /\ disk'[job.dir].recorded = recorded
  BY <1>1, <1>4
<1>6. /\ disk'[job.dir] = [raw |-> disk'[job.dir].raw, repo |-> disk'[job.dir].repo,
                           tree |-> disk'[job.dir].tree, manifest |-> disk'[job.dir].manifest,
                           recorded |-> disk'[job.dir].recorded]
      /\ disk'[job.dir].raw = [n \in DOMAIN disk'[job.dir].raw |-> disk'[job.dir].raw[n]]
      /\ DOMAIN disk'[job.dir].raw \subseteq Names
  BY <1>2, <1>4, <1>5
<1>7. ASSUME NEW d \in Dirs \ {job.dir}
      PROVE  /\ disk'[d] = [raw |-> disk'[d].raw, repo |-> disk'[d].repo,
                            tree |-> disk'[d].tree, manifest |-> disk'[d].manifest,
                            recorded |-> disk'[d].recorded]
             /\ disk'[d].raw = [n \in DOMAIN disk'[d].raw |-> disk'[d].raw[n]]
             /\ DOMAIN disk'[d].raw \subseteq Names
  <2>1. disk'[d] = disk[d]
    BY <1>4
  <2> QED
    BY <2>1 DEF DiskShape
<1>8. DiskShape'
  BY <1>4, <1>6, <1>7 DEF DiskShape
<1> QED
  BY <1>4, <1>5, <1>8

\* A directory's fields, when some are written.
LEMMA DirWritten ==
  ASSUME DiskShape, job.dir \in Dirs, NEW v, NEW w
  PROVE  LET x == disk[job.dir]
         IN  /\ disk' = [disk EXCEPT ![job.dir].raw = v] =>
                  DirAfter(v, x.repo, x.tree, x.manifest, x.recorded)
             /\ disk' = [disk EXCEPT ![job.dir].repo = v] =>
                  DirAfter(x.raw, v, x.tree, x.manifest, x.recorded)
             /\ disk' = [disk EXCEPT ![job.dir].repo = v, ![job.dir].tree = w] =>
                  DirAfter(x.raw, v, w, x.manifest, x.recorded)
             /\ disk' = [disk EXCEPT ![job.dir].tree = v] =>
                  DirAfter(x.raw, x.repo, v, x.manifest, x.recorded)
             /\ disk' = [disk EXCEPT ![job.dir].manifest = v] =>
                  DirAfter(x.raw, x.repo, x.tree, v, x.recorded)
             /\ disk' = [disk EXCEPT ![job.dir].recorded = v] =>
                  DirAfter(x.raw, x.repo, x.tree, x.manifest, v)
<1> DEFINE x == disk[job.dir]
<1>1. x = [raw |-> x.raw, repo |-> x.repo, tree |-> x.tree, manifest |-> x.manifest,
           recorded |-> x.recorded]
  BY DEF DiskShape
<1>2. [disk EXCEPT ![job.dir].repo = v, ![job.dir].tree = w] =
        [disk EXCEPT ![job.dir] = [[x EXCEPT !.repo = v] EXCEPT !.tree = w]]
  BY DEF DiskShape
<1> HIDE DEF x
<1>3. /\ [x EXCEPT !.raw = v] =
           [raw |-> v, repo |-> x.repo, tree |-> x.tree, manifest |-> x.manifest,
            recorded |-> x.recorded]
      /\ [x EXCEPT !.repo = v] =
           [raw |-> x.raw, repo |-> v, tree |-> x.tree, manifest |-> x.manifest,
            recorded |-> x.recorded]
      /\ [x EXCEPT !.tree = v] =
           [raw |-> x.raw, repo |-> x.repo, tree |-> v, manifest |-> x.manifest,
            recorded |-> x.recorded]
      /\ [x EXCEPT !.manifest = v] =
           [raw |-> x.raw, repo |-> x.repo, tree |-> x.tree, manifest |-> v,
            recorded |-> x.recorded]
      /\ [x EXCEPT !.recorded = v] =
           [raw |-> x.raw, repo |-> x.repo, tree |-> x.tree, manifest |-> x.manifest,
            recorded |-> v]
  BY <1>1
<1>4. [[x EXCEPT !.repo = v] EXCEPT !.tree = w] =
        [raw |-> x.raw, repo |-> v, tree |-> w, manifest |-> x.manifest,
         recorded |-> x.recorded]
  <2> DEFINE y == [x EXCEPT !.repo = v]
  <2>1. y = [raw |-> x.raw, repo |-> v, tree |-> x.tree, manifest |-> x.manifest,
             recorded |-> x.recorded]
    BY <1>3
  <2> HIDE DEF y
  <2>2. [y EXCEPT !.tree = w] =
          [raw |-> x.raw, repo |-> v, tree |-> w, manifest |-> x.manifest,
           recorded |-> x.recorded]
    BY <2>1
  <2> QED
    BY <2>2 DEF y
<1> QED
  BY <1>2, <1>3, <1>4 DEF DirAfter, x

\* A job's fields, when its stage is written, and its commit.
LEMMA JobWritten ==
  ASSUME JobShape, NEW v, NEW w
  PROVE  /\ job' = [job EXCEPT !.stage = v] =>
              GoesTo(v, job.commit)
         /\ job' = [job EXCEPT !.stage = v, !.commit = w] =>
              GoesTo(v, w)
  BY DEF JobShape, JobIsRecord, SameErrand, GoesTo

\* The clone begins: the directory holds a part of it.
LEMMA CloneEffect ==
  ASSUME Shape, Clone
  PROVE  /\ DirAfter(disk[job.dir].raw, "partial", None, disk[job.dir].manifest,
                     disk[job.dir].recorded)
         /\ GoesTo("cloned", job.commit)
<1>1. job.dir \in Dirs
  BY DEF Shape, JobShape, Clone, Over
<1>2. /\ disk' = [disk EXCEPT ![job.dir].repo = "partial", ![job.dir].tree = None]
      /\ job' = [job EXCEPT !.stage = "cloned"]
  BY DEF Clone
<1> QED
  BY <1>1, <1>2, DirWritten, JobWritten DEF Shape

\* The clone is whole, at the newest commit.
LEMMA ClonedEffect ==
  ASSUME Shape, Cloned
  PROVE  /\ DirAfter(disk[job.dir].raw, "whole", head, disk[job.dir].manifest,
                     disk[job.dir].recorded)
         /\ GoesTo(IF job.ref = None THEN "describing" ELSE "checking out",
                   job.commit)
<1>1. job.dir \in Dirs
  BY DEF Shape, JobShape, Cloned, Over
<1>2. /\ disk' = [disk EXCEPT ![job.dir].repo = "whole", ![job.dir].tree = head]
      /\ job' = [job EXCEPT !.stage = IF job.ref = None THEN "describing" ELSE "checking out"]
  BY DEF Cloned
<1> QED
  BY <1>1, <1>2, DirWritten, JobWritten DEF Shape

\* The manifest is opened, and torn until it is written.
LEMMA DescribeEffect ==
  ASSUME Shape, Describe
  PROVE  /\ DirAfter(disk[job.dir].raw, disk[job.dir].repo, disk[job.dir].tree, Torn,
                     disk[job.dir].recorded)
         /\ GoesTo("writing", disk[job.dir].tree)
<1>1. job.dir \in Dirs
  BY DEF Shape, JobShape, Describe, Over
<1>2. /\ disk' = [disk EXCEPT ![job.dir].manifest = Torn]
      /\ job' = [job EXCEPT !.stage = "writing", !.commit = disk[job.dir].tree]
  BY DEF Describe
<1> QED
  BY <1>1, <1>2, DirWritten, JobWritten DEF Shape

\* The manifest is written.
LEMMA WriteManifestEffect ==
  ASSUME Shape, WriteManifest
  PROVE  /\ DirAfter(disk[job.dir].raw, disk[job.dir].repo, disk[job.dir].tree, job.commit,
                     disk[job.dir].recorded)
         /\ GoesTo("recording", job.commit)
<1>1. job.dir \in Dirs
  BY DEF Shape, JobShape, WriteManifest, Over
<1>2. /\ disk' = [disk EXCEPT ![job.dir].manifest = job.commit]
      /\ job' = [job EXCEPT !.stage = "recording"]
  BY DEF WriteManifest
<1> QED
  BY <1>1, <1>2, DirWritten, JobWritten DEF Shape

\* The manifest is archived too.
LEMMA RecordEffect ==
  ASSUME Shape, OpenRecord \/ Record
  PROVE  /\ DirAfter(disk[job.dir].raw, disk[job.dir].repo, disk[job.dir].tree,
                     disk[job.dir].manifest, IF Record THEN job.commit ELSE Torn)
         /\ GoesTo(IF Record THEN "returned" ELSE "writing record", job.commit)
<1>1. job.dir \in Dirs
  BY DEF Shape, JobShape, OpenRecord, Record, Over
<1>2. CASE Record
  <2>1. /\ disk' = [disk EXCEPT ![job.dir].recorded = job.commit]
        /\ job' = [job EXCEPT !.stage = "returned"]
    BY <1>2 DEF Record
  <2> QED
    BY <1>1, <1>2, <2>1, DirWritten, JobWritten DEF Shape
<1>3. CASE OpenRecord /\ ~Record
  <2>1. /\ disk' = [disk EXCEPT ![job.dir].recorded = Torn]
        /\ job' = [job EXCEPT !.stage = "writing record"]
    BY <1>3 DEF OpenRecord
  <2> QED
    BY <1>1, <1>3, <2>1, DirWritten, JobWritten DEF Shape
<1> QED
  BY <1>2, <1>3

\* A clone that fails is taken away, or what there is of it stays.
LEMMA CloneFailsEffect ==
  ASSUME Shape, CloneFails
  PROVE  /\ \/ UNCHANGED disk
            \/ DirAfter(disk[job.dir].raw, "absent", disk[job.dir].tree,
                        disk[job.dir].manifest, disk[job.dir].recorded)
         /\ GoesTo("failed", job.commit)
<1>1. job.dir \in Dirs
  BY DEF Shape, JobShape, CloneFails, Over
<1>2. /\ disk' = disk \/ disk' = [disk EXCEPT ![job.dir].repo = "absent"]
      /\ job' = [job EXCEPT !.stage = "failed"]
  BY DEF CloneFails, Fail
<1>3. GoesTo("failed", job.commit)
  BY <1>2, JobWritten DEF Shape
<1>4. \/ UNCHANGED disk
      \/ DirAfter(disk[job.dir].raw, "absent", disk[job.dir].tree, disk[job.dir].manifest,
                  disk[job.dir].recorded)
  BY <1>1, <1>2, DirWritten DEF Shape
<1> QED
  BY <1>3, <1>4

\* The ref that was asked for is checked out, or is not there.
LEMMA CheckoutEffect ==
  ASSUME Shape, Checkout
  PROVE  \/ UNCHANGED disk /\ GoesTo("failed", job.commit)
         \/ /\ DirAfter(disk[job.dir].raw, disk[job.dir].repo, job.ref,
                        disk[job.dir].manifest, disk[job.dir].recorded)
            /\ GoesTo("describing", job.commit)
<1>1. job.dir \in Dirs
  BY DEF Shape, JobShape, Checkout, Over
<1>2. \/ /\ disk' = disk
         /\ job' = [job EXCEPT !.stage = "failed"]
      \/ /\ disk' = [disk EXCEPT ![job.dir].tree = job.ref]
         /\ job' = [job EXCEPT !.stage = "describing"]
  BY DEF Checkout, Fail
<1>3. CASE disk' = disk /\ job' = [job EXCEPT !.stage = "failed"]
  BY <1>3, JobWritten DEF Shape
<1>4. CASE /\ disk' = [disk EXCEPT ![job.dir].tree = job.ref]
           /\ job' = [job EXCEPT !.stage = "describing"]
  <2>1. DirAfter(disk[job.dir].raw, disk[job.dir].repo, job.ref, disk[job.dir].manifest,
                 disk[job.dir].recorded)
    BY <1>1, <1>4, DirWritten DEF Shape
  <2>2. GoesTo("describing", job.commit)
    BY <1>4, JobWritten DEF Shape
  <2> QED
    BY <2>1, <2>2
<1> QED
  BY <1>2, <1>3, <1>4

\* The archive with this content in the file of the resource.
RawWith(content) ==
  [n \in DOMAIN disk[job.dir].raw \union {Name} |->
     IF n = Name THEN content ELSE disk[job.dir].raw[n]]

\* A raw file that is opened or written.
LEMMA FiledEffect ==
  ASSUME Shape, job.dir \in Dirs, NEW content, Filed(content)
  PROVE  DirAfter(RawWith(content), disk[job.dir].repo, disk[job.dir].tree,
                  disk[job.dir].manifest, disk[job.dir].recorded)
<1>1. disk' = [disk EXCEPT ![job.dir].raw = RawWith(content)]
  BY DEF Filed, RawWith
<1> QED
  BY <1>1, DirWritten DEF Shape

\* A raw file is opened; the job goes on with the same resource.
LEMMA OpenRawEffect ==
  ASSUME Shape, OpenRaw
  PROVE  /\ job.dir \in Dirs
         /\ DirAfter(RawWith(Torn), disk[job.dir].repo, disk[job.dir].tree,
                     disk[job.dir].manifest, disk[job.dir].recorded)
         /\ GoesTo("writing raw", job.commit) /\ UNCHANGED <<listing, head>>
<1>1. job.dir \in Dirs
  BY DEF Shape, JobShape, OpenRaw, Over
<1>2. GoesTo("writing raw", job.commit)
  BY JobWritten DEF Shape, OpenRaw
<1> QED
  BY <1>1, <1>2, FiledEffect DEF OpenRaw

\* What was fetched of a resource is archived; then comes the next, or the clone.
LEMMA ArchiveEffect ==
  ASSUME Shape, Archive
  PROVE  /\ job.dir \in Dirs
         /\ DirAfter(RawWith(Archived), disk[job.dir].repo, disk[job.dir].tree,
                     disk[job.dir].manifest, disk[job.dir].recorded)
         /\ JobIsRecord'
         /\ job'.dir = job.dir /\ job'.ref = job.ref /\ job'.items = <<>> /\ job'.page = 1
         /\ job'.fetched = [job.fetched EXCEPT ![Name] = Result]
         /\ \/ /\ job.at = Len(Resources) /\ job'.stage = "cloning" /\ job'.at = 1
            \/ /\ job.at # Len(Resources) /\ job'.stage = "fetching"
               /\ job'.at = job.at + 1 /\ job'.first = listing[Resources[job.at + 1]]
         /\ ~job'.shrunk
<1>1. job.dir \in Dirs
  BY DEF Shape, JobShape, Archive, Over
<1> DEFINE all == [job.fetched EXCEPT ![Name] = Result]
           done == [Idle EXCEPT !.dir = job.dir, !.ref = job.ref, !.fetched = all]
           more == [done EXCEPT !.stage = "fetching", !.at = job.at + 1,
                                !.first = listing[Resources[job.at + 1]]]
           full == [done EXCEPT !.stage = "cloning"]
<1>3. /\ Filed(Archived)
      /\ job' = IF job.at = Len(Resources) THEN full ELSE more
  BY DEF Archive
<1> HIDE DEF all
<1>4. /\ full.dir = job.dir /\ full.ref = job.ref /\ full.items = <<>> /\ full.page = 1
      /\ full.fetched = all /\ full.stage = "cloning" /\ full.at = 1 /\ full.shrunk = FALSE
  BY DEF Idle
<1>5. /\ more.dir = job.dir /\ more.ref = job.ref /\ more.items = <<>> /\ more.page = 1
      /\ more.fetched = all /\ more.stage = "fetching" /\ more.at = job.at + 1
      /\ more.shrunk = FALSE /\ more.first = listing[Resources[job.at + 1]]
  BY DEF Idle
<1>6. DirAfter(RawWith(Archived), disk[job.dir].repo, disk[job.dir].tree,
               disk[job.dir].manifest, disk[job.dir].recorded)
  BY <1>1, <1>3, FiledEffect
<1>7. JobIsRecord'
  BY <1>3 DEF Idle, JobIsRecord
<1> HIDE DEF full, more
<1> QED
  BY <1>1, <1>3, <1>4, <1>5, <1>6, <1>7 DEF all

-----------------------------------------------------------------------------
(***************************************************************************)
(* Each part of the invariant, first the shapes.                           *)
(***************************************************************************)
\* The resource that is read is one of them, and none of those before it.
LEMMA NameIsResource ==
  ASSUME JobShape
  PROVE  Name \in Names /\ \A k \in 1..(job.at - 1) : Resources[k] # Name
  BY DEF JobShape, Name, Names, Resources

\* What a raw file that is opened or written leaves in the directories.
LEMMA RawKeeps ==
  ASSUME Shape, job.dir \in Dirs, NEW content,
         DirAfter(RawWith(content), disk[job.dir].repo, disk[job.dir].tree,
                  disk[job.dir].manifest, disk[job.dir].recorded)
  PROVE  /\ Name \in Names /\ DiskShape'
         /\ DOMAIN disk'[job.dir].raw = DOMAIN disk[job.dir].raw \union {Name}
         /\ disk'[job.dir].raw[Name] = content
         /\ \A n \in DOMAIN disk[job.dir].raw \ {Name} :
              disk'[job.dir].raw[n] = disk[job.dir].raw[n]
         /\ disk'[job.dir].repo = disk[job.dir].repo
         /\ disk'[job.dir].tree = disk[job.dir].tree
         /\ disk'[job.dir].manifest = disk[job.dir].manifest
         /\ \A d \in Dirs \ {job.dir} : disk'[d] = disk[d]
<1> DEFINE raw == RawWith(content)
<1>1. Name \in Names
  BY NameIsResource DEF Shape
<1>2. /\ raw = [n \in DOMAIN raw |-> raw[n]] /\ DOMAIN raw \subseteq Names
      /\ DOMAIN raw = DOMAIN disk[job.dir].raw \union {Name} /\ raw[Name] = content
      /\ \A n \in DOMAIN disk[job.dir].raw \ {Name} : raw[n] = disk[job.dir].raw[n]
  BY <1>1 DEF DiskShape, Shape, RawWith
<1> HIDE DEF raw
<1>3. DiskShape' /\ disk'[job.dir].raw = raw /\ disk'[job.dir].repo = disk[job.dir].repo
      /\ disk'[job.dir].tree = disk[job.dir].tree
      /\ disk'[job.dir].manifest = disk[job.dir].manifest
      /\ \A d \in Dirs \ {job.dir} : disk'[d] = disk[d]
  BY <1>2, DirAfterFields DEF Shape, raw
<1> QED
  BY <1>1, <1>2, <1>3

\* An answer of GitHub is to the job that asks, whose errand it leaves alone.
Answered ==
  /\ job.stage = "fetching" /\ job'.stage \in {"fetching", "archiving", "failed"}
  /\ job'.page \in Pages /\ job'.commit = job.commit
  /\ SameErrand /\ UNCHANGED <<listing, head, disk>>

\* Each answer is such an answer.
LEMMA AnswerEffect ==
  ASSUME JobShape, Answer
  PROVE  Answered
<1>1. ASSUME NEW page, Receive(page), job.stage = "fetching",
             UNCHANGED <<listing, head, disk>>
      PROVE  Answered
  <2> DEFINE items == job.items \o page.items
  <2>1. CASE GoesOn(page, job.page)
    <3>1. job' = [job EXCEPT !.items = items, !.page = @ + 1, !.attempt = 1]
      BY <1>1, <2>1 DEF Receive
    <3>2. job.page + 1 \in Pages
      BY <2>1, ClientAssumption DEF GoesOn, JobShape, Pages
    <3> HIDE DEF items
    <3> QED
      BY <1>1, <3>1, <3>2 DEF JobShape, JobIsRecord, SameErrand, Answered
  <2>2. CASE ~GoesOn(page, job.page)
    <3>1. job' = [job EXCEPT !.items = items, !.stage = "archiving"]
      BY <1>1, <2>2 DEF Receive
    <3> HIDE DEF items
    <3> QED
      BY <1>1, <3>1 DEF JobShape, JobIsRecord, SameErrand, Answered
  <2> QED
    BY <2>1, <2>2
<1>2. CASE Respond
  BY <1>1, <1>2 DEF Respond
<1>3. CASE RespondNotModified
  BY <1>1, <1>3 DEF RespondNotModified
<1>4. CASE RespondBusy
  BY <1>4 DEF RespondBusy, Fail, JobShape, JobIsRecord, SameErrand, Answered
<1>5. CASE RespondError
  BY <1>5 DEF RespondError, Fail, JobShape, JobIsRecord, SameErrand, Answered
<1> QED
  BY <1>2, <1>3, <1>4, <1>5 DEF Answer

\* The answers that end the job, or have it ask again, bring nothing.
LEMMA RefusalEffect ==
  ASSUME JobShape, RespondBusy \/ RespondError
  PROVE  /\ job'.stage \in {"fetching", "failed"}
         /\ UNCHANGED <<job.items, job.page>>
  BY DEF RespondBusy, RespondError, Fail, JobShape, JobIsRecord

\* A new job has nothing yet.
LEMMA StartEffect ==
  ASSUME Start
  PROVE  /\ JobIsRecord' /\ job'.stage = "fetching" /\ job'.dir \in Dirs
         /\ job'.ref \in Commits \union {None} /\ job'.at = 1 /\ job'.page = 1
         /\ job'.items = <<>> /\ job'.first = listing["issue"] /\ job'.shrunk = FALSE
         /\ job'.fetched = [n \in Names |-> None]
         /\ UNCHANGED <<listing, head, disk>>
<1>1. PICK d \in Dirs, ref \in Commits \union {None} :
        job' = [Idle EXCEPT !.stage = "fetching", !.dir = d, !.ref = ref,
                            !.first = listing["issue"]]
  BY Zenon DEF Start
<1> QED
  BY <1>1 DEF Start, Idle, JobIsRecord

\* A crash forgets the job, and what is on disk stays.
LEMMA CrashEffect ==
  ASSUME Crash
  PROVE  /\ JobIsRecord' /\ job'.stage = "idle" /\ job'.at = 1 /\ job'.page = 1
         /\ job'.shrunk = FALSE /\ job'.ref = None /\ job'.fetched = [n \in Names |-> None]
         /\ UNCHANGED <<listing, head, disk>>
  BY DEF Crash, Idle, JobIsRecord

\* A deletion is only noted of the resource that is being read.
LEMMA DeleteEffect ==
  ASSUME JobShape, NEW name \in Names, Delete(name)
  PROVE  /\ JobIsRecord' /\ job'.shrunk \in BOOLEAN
         /\ job.shrunk \/ (job.stage \in Fetching /\ name = Name) <=> job'.shrunk
         /\ UNCHANGED <<job.stage, job.dir, job.ref, job.at, job.page, job.items, job.first,
                        job.fetched, job.commit, head, disk>>
  BY DEF Delete, JobShape, JobIsRecord, Fetching

\* A job that goes to a stage of create_snapshot keeps its shape, and so do the
\* directories.
LEMMA ShapeGoesOn ==
  ASSUME Shape, job.dir \in Dirs
  PROVE  /\ \A stage \in Stages : \A commit : GoesTo(stage, commit) => JobShape'
         /\ \A repo, tree, manifest, recorded :
              DirAfter(disk[job.dir].raw, repo, tree, manifest, recorded) => DiskShape'
<1>1. ASSUME NEW stage \in Stages, NEW commit, GoesTo(stage, commit)
      PROVE  JobShape'
  BY <1>1 DEF GoesTo, SameErrand, Shape, JobShape, Over
<1>2. ASSUME NEW repo, NEW tree, NEW manifest, NEW recorded,
             DirAfter(disk[job.dir].raw, repo, tree, manifest, recorded)
      PROVE  DiskShape'
  BY <1>2, DirAfterFields DEF Shape, DiskShape
<1> QED
  BY <1>1, <1>2

\* The shapes are kept.
LEMMA ShapeStep ==
  ASSUME Shape, [Next]_vars
  PROVE  Shape'
<1> USE DEF Shape
<1>1. CASE Answer
  <2>1. Answered
    BY <1>1, AnswerEffect
  <2>2. JobShape'
    BY <2>1 DEF JobShape, Answered, SameErrand, Over, Stages, Fetching
  <2>3. DiskShape'
    BY <2>1 DEF Answered, DiskShape
  <2> QED
    BY <2>1, <2>2, <2>3 DEF Answered
<1>11. CASE OpenRaw
  <2>1. job.dir \in Dirs /\ head' = head /\ DiskShape'
    BY <1>11, OpenRawEffect, RawKeeps
  <2>2. JobShape'
    BY <1>11, <2>1, OpenRawEffect, ShapeGoesOn DEF Stages, Fetching
  <2> QED
    BY <2>1, <2>2
<1>2. CASE Archive
  <2>1. job.dir \in Dirs
    BY <1>2, ArchiveEffect
  <2>3. DiskShape'
    BY <1>2, <2>1, ArchiveEffect, RawKeeps
  <2>4. /\ JobIsRecord' /\ job'.dir = job.dir /\ job'.ref = job.ref /\ job'.page = 1
        /\ job'.fetched = [job.fetched EXCEPT ![Name] = Result]
        /\ job'.stage \in {"fetching", "cloning"} /\ ~job'.shrunk /\ job'.shrunk \in BOOLEAN
        /\ job'.at \in 1..Len(Resources)
    <3>1. job.at \in 1..4 /\ Len(Resources) = 4
      BY DEF JobShape, Resources
    <3>2. job'.shrunk \in BOOLEAN
      BY <1>2 DEF Archive, Idle
    <3> QED
      BY <1>2, <3>1, <3>2, ArchiveEffect
  <2>5. JobShape'
    <3>1. job'.fetched = [n \in Names |-> job'.fetched[n]]
      BY <2>4 DEF JobShape
    <3>2. job'.stage \in Stages /\ job'.stage \in {"fetching", "cloning"}
      BY <2>4 DEF Stages, Fetching, Using
    <3>3. job'.page \in Pages
      BY <2>4, ClientAssumption DEF Pages
    <3> QED
      BY <2>1, <2>4, <3>1, <3>2, <3>3 DEF JobShape, Over
  <2>6. head' = head
    BY <1>2 DEF Archive
  <2> QED
    BY <2>3, <2>5, <2>6
<1>3. CASE Refuse \/ NothingToClone
  BY <1>3 DEF Refuse, NothingToClone, Fail, JobShape, JobIsRecord, DiskShape, Over, Stages
<1>4. ASSUME Prepare, ~Refuse, ~NothingToClone
      PROVE  Shape'
  <2>1. job.dir \in Dirs /\ head' = head
    BY <1>4 DEF Prepare, Clone, Cloned, CloneFails, Checkout, Describe, WriteManifest, OpenRecord,
       Record,
       JobShape, Over
  <2>2. \E stage \in Stages : \E commit : GoesTo(stage, commit)
    BY <1>4, CloneEffect, ClonedEffect, CloneFailsEffect, CheckoutEffect, DescribeEffect,
       WriteManifestEffect, RecordEffect DEF Prepare, Stages, Using
  <2>3. \/ disk' = disk
        \/ \E repo, tree, manifest, recorded :
             DirAfter(disk[job.dir].raw, repo, tree, manifest, recorded)
    BY <1>4, CloneEffect, ClonedEffect, CloneFailsEffect, CheckoutEffect, DescribeEffect,
       WriteManifestEffect, RecordEffect DEF Prepare
  <2> QED
    BY <2>1, <2>2, <2>3, ShapeGoesOn DEF DiskShape
<1>5. CASE \E name \in Edited : Comment(name)
  BY <1>5 DEF Comment, JobShape, JobIsRecord, DiskShape, Over
<1>6. CASE \E name \in Edited : Delete(name)
  <2>1. PICK name \in Names : Delete(name)
    BY <1>6, IngestionAssumption DEF Names
  <2> QED
    BY <2>1, DeleteEffect DEF JobShape, DiskShape, Over
<1>7. CASE Push
  BY <1>7, IngestionAssumption DEF Push, JobShape, JobIsRecord, DiskShape, Over, Commits
<1>8. CASE Start
  <2>1. job'.fetched = [n \in Names |-> job'.fetched[n]]
    BY <1>8, StartEffect
  <2>4. 1 \in Pages /\ 1 \in 1..Len(Resources)
    BY ClientAssumption DEF Pages, Resources
  <2>2. job'.stage \in Stages /\ job'.page \in Pages /\ job'.at \in 1..Len(Resources)
    BY <1>8, <2>4, StartEffect DEF Stages, Fetching
  <2>3. JobShape'
    BY <1>8, <2>1, <2>2, StartEffect DEF JobShape, Over
  <2> QED
    BY <1>8, <2>3, StartEffect DEF DiskShape
<1>9. CASE Crash
  <2>1. job'.fetched = [n \in Names |-> job'.fetched[n]]
    BY <1>9, CrashEffect
  <2>4. 1 \in Pages /\ 1 \in 1..Len(Resources)
    BY ClientAssumption DEF Pages, Resources
  <2>2. job'.stage \in Stages /\ job'.page \in Pages /\ job'.at \in 1..Len(Resources)
    BY <1>9, <2>4, CrashEffect DEF Stages, Fetching
  <2>3. JobShape'
    BY <1>9, <2>1, <2>2, CrashEffect DEF JobShape, Over
  <2> QED
    BY <1>9, <2>3, CrashEffect DEF DiskShape
<1>10. CASE UNCHANGED vars
  BY <1>10 DEF vars, JobShape, JobIsRecord, DiskShape, Over
<1> QED
  BY <1>1, <1>2, <1>3, <1>4, <1>5, <1>6, <1>7, <1>8, <1>9, <1>10, <1>11 DEF Next,
     Store, Prepare

\* What a step of create_snapshot leaves in the directories.
LEMMA DirGoesOn ==
  ASSUME Shape, NEW repo, NEW tree, NEW manifest, NEW recorded,
         DirAfter(disk[job.dir].raw, repo, tree, manifest, recorded)
  PROVE  /\ job.dir \in Dirs
         /\ disk'[job.dir].raw = disk[job.dir].raw
         /\ disk'[job.dir].repo = repo /\ disk'[job.dir].tree = tree
         /\ disk'[job.dir].manifest = manifest /\ disk'[job.dir].recorded = recorded
         /\ \A d \in Dirs \ {job.dir} : disk'[d] = disk[d]
<1>1. job.dir \in Dirs
  BY DEF DirAfter
<1>2. /\ disk[job.dir].raw = [n \in DOMAIN disk[job.dir].raw |-> disk[job.dir].raw[n]]
      /\ DOMAIN disk[job.dir].raw \subseteq Names
  BY <1>1 DEF Shape, DiskShape
<1> QED
  BY <1>1, <1>2, DirAfterFields DEF Shape

\* A job that goes on to any other stage than those of a snapshot says nothing of one.
Snapshotless == {"idle", "failed", "fetching", "archiving", "writing raw", "cloning"}

\* Where create_snapshot is, and what its manifest names.
LEMMA SnapshotStep ==
  ASSUME Shape, SnapshotStages, ManifestOfClone, [Next]_vars
  PROVE  SnapshotStages' /\ ManifestOfClone'
<1>0. None \notin Commits /\ Torn \notin Commits /\ Torn # None
  BY IngestionAssumption
<1>1. ASSUME job'.stage \in Snapshotless, disk' = disk
      PROVE  SnapshotStages' /\ ManifestOfClone'
  BY <1>1 DEF Snapshotless, SnapshotStages, ManifestOfClone
<1>2. ASSUME UNCHANGED <<job.stage, job.dir, job.ref, job.commit, disk>>
      PROVE  SnapshotStages' /\ ManifestOfClone'
  BY <1>2 DEF SnapshotStages, ManifestOfClone
<1>3. CASE Answer
  BY <1>1, <1>3, AnswerEffect DEF Shape, Answered, Snapshotless
<1>4. CASE Store
  <2>1. /\ job.dir \in Dirs
        /\ \E content : DirAfter(RawWith(content), disk[job.dir].repo, disk[job.dir].tree,
                                  disk[job.dir].manifest, disk[job.dir].recorded)
        /\ job'.stage \in Snapshotless
    BY <1>4, ArchiveEffect, OpenRawEffect DEF Store, GoesTo, Snapshotless
  <2>2. /\ disk'[job.dir].repo = disk[job.dir].repo
        /\ disk'[job.dir].tree = disk[job.dir].tree
        /\ disk'[job.dir].manifest = disk[job.dir].manifest
        /\ \A d \in Dirs \ {job.dir} : disk'[d] = disk[d]
    BY <2>1, RawKeeps
  <2> QED
    BY <2>1, <2>2 DEF Snapshotless, SnapshotStages, ManifestOfClone
<1>5. CASE Refuse \/ NothingToClone
  BY <1>1, <1>5 DEF Refuse, NothingToClone, Fail, Shape, JobShape, JobIsRecord, Snapshotless
<1>6. CASE Clone
  <2>1. disk[job.dir].manifest = None
    BY <1>6, CloneEffect DEF Clone, Populated, ManifestOfClone, DirAfter
  <2>2. /\ job'.stage = "cloned" /\ job'.commit = job.commit
        /\ job'.dir = job.dir /\ job'.ref = job.ref
    BY <1>6, CloneEffect DEF GoesTo, SameErrand
  <2>3. /\ job.dir \in Dirs /\ disk'[job.dir].repo = "partial" /\ disk'[job.dir].tree = None
        /\ disk'[job.dir].manifest = disk[job.dir].manifest
        /\ disk'[job.dir].recorded = disk[job.dir].recorded
        /\ \A d \in Dirs \ {job.dir} : disk'[d] = disk[d]
    BY <1>6, CloneEffect, DirGoesOn
  <2>4. SnapshotStages'
    BY <1>0, <2>1, <2>2, <2>3 DEF SnapshotStages
  <2>5. ManifestOfClone'
    BY <1>0, <2>1, <2>2, <2>3 DEF ManifestOfClone
  <2> QED
    BY <2>4, <2>5
<1>7. CASE Cloned
  <2>1. disk[job.dir].manifest = None /\ head \in Commits /\ job.ref \in Commits \union {None}
    BY <1>7 DEF Cloned, SnapshotStages, Shape, JobShape
  <2>2. /\ job'.stage = (IF job.ref = None THEN "describing" ELSE "checking out")
        /\ job'.commit = job.commit
        /\ job'.dir = job.dir /\ job'.ref = job.ref
    BY <1>7, ClonedEffect DEF GoesTo, SameErrand
  <2>3. /\ job.dir \in Dirs /\ disk'[job.dir].repo = "whole" /\ disk'[job.dir].tree = head
        /\ disk'[job.dir].manifest = disk[job.dir].manifest
        /\ disk'[job.dir].recorded = disk[job.dir].recorded
        /\ \A d \in Dirs \ {job.dir} : disk'[d] = disk[d]
    <3>1. DirAfter(disk[job.dir].raw, "whole", head, disk[job.dir].manifest,
                   disk[job.dir].recorded)
      BY <1>7, ClonedEffect
    <3> QED
      BY <3>1, DirGoesOn
  <2>4. SnapshotStages'
    BY <1>0, <2>1, <2>2, <2>3 DEF SnapshotStages
  <2>5. ManifestOfClone'
    BY <1>0, <2>1, <2>2, <2>3 DEF ManifestOfClone
  <2> QED
    BY <2>4, <2>5
<1>8. CASE CloneFails
  <2>1. disk[job.dir].manifest = None
    BY <1>8 DEF CloneFails, SnapshotStages
  <2>2. job'.stage = "failed"
    BY <1>8, CloneFailsEffect DEF GoesTo
  <2>3. \/ disk' = disk
        \/ /\ job.dir \in Dirs /\ disk'[job.dir].repo = "absent"
           /\ disk'[job.dir].tree = disk[job.dir].tree
           /\ disk'[job.dir].manifest = disk[job.dir].manifest
           /\ \A d \in Dirs \ {job.dir} : disk'[d] = disk[d]
    BY <1>8, CloneFailsEffect, DirGoesOn
  <2> QED
    BY <1>1, <2>1, <2>2, <2>3 DEF Snapshotless, SnapshotStages, ManifestOfClone
<1>9. CASE Checkout
  <2>1. /\ disk[job.dir].manifest = None /\ disk[job.dir].repo = "whole"
        /\ job.ref \in Commits
    BY <1>9 DEF Checkout, SnapshotStages
  <2>2. CASE UNCHANGED disk /\ GoesTo("failed", job.commit)
    BY <1>1, <2>2 DEF GoesTo, Snapshotless
  <2>3. CASE /\ DirAfter(disk[job.dir].raw, disk[job.dir].repo, job.ref,
                         disk[job.dir].manifest, disk[job.dir].recorded)
             /\ GoesTo("describing", job.commit)
    <3>1. /\ job'.stage = "describing" /\ job'.commit = job.commit
          /\ job'.dir = job.dir /\ job'.ref = job.ref
      BY <2>3 DEF GoesTo, SameErrand
    <3>2. /\ job.dir \in Dirs /\ disk'[job.dir].repo = disk[job.dir].repo
          /\ disk'[job.dir].tree = job.ref
          /\ disk'[job.dir].manifest = disk[job.dir].manifest
          /\ \A d \in Dirs \ {job.dir} : disk'[d] = disk[d]
      BY <2>3, DirGoesOn
    <3> QED
      BY <2>1, <3>1, <3>2, IngestionAssumption, ZenonT(60) DEF SnapshotStages, ManifestOfClone
  <2> QED
    BY <1>9, <2>2, <2>3, CheckoutEffect
<1>10. CASE Describe
  <2>1. disk[job.dir].repo = "whole" /\ disk[job.dir].tree \in Commits
    BY <1>10 DEF Describe, SnapshotStages
  <2>2. /\ job'.stage = "writing" /\ job'.commit = disk[job.dir].tree
        /\ job'.dir = job.dir /\ job'.ref = job.ref
    BY <1>10, DescribeEffect DEF GoesTo, SameErrand
  <2>3. /\ job.dir \in Dirs /\ disk'[job.dir].repo = disk[job.dir].repo
        /\ disk'[job.dir].tree = disk[job.dir].tree
        /\ disk'[job.dir].manifest = Torn /\ disk'[job.dir].recorded = disk[job.dir].recorded
        /\ \A d \in Dirs \ {job.dir} : disk'[d] = disk[d]
    BY <1>10, DescribeEffect, DirGoesOn
  <2>4. SnapshotStages'
    BY <1>0, <2>1, <2>2, <2>3 DEF SnapshotStages
  <2>5. ManifestOfClone'
    BY <1>0, <2>1, <2>2, <2>3 DEF ManifestOfClone
  <2> QED
    BY <2>4, <2>5
<1>11. CASE WriteManifest
  <2>1. /\ disk[job.dir].repo = "whole" /\ disk[job.dir].tree = job.commit
        /\ job.commit \in Commits
    BY <1>11 DEF WriteManifest, SnapshotStages
  <2>2. /\ job'.stage = "recording" /\ job'.commit = job.commit
        /\ job'.dir = job.dir /\ job'.ref = job.ref
    BY <1>11, WriteManifestEffect DEF GoesTo, SameErrand
  <2>3. /\ job.dir \in Dirs /\ disk'[job.dir].repo = disk[job.dir].repo
        /\ disk'[job.dir].tree = disk[job.dir].tree
        /\ disk'[job.dir].manifest = job.commit
        /\ disk'[job.dir].recorded = disk[job.dir].recorded
        /\ \A d \in Dirs \ {job.dir} : disk'[d] = disk[d]
    BY <1>11, WriteManifestEffect, DirGoesOn
  <2>4. SnapshotStages'
    BY <1>0, <2>1, <2>2, <2>3 DEF SnapshotStages
  <2>5. ManifestOfClone'
    BY <1>0, <2>1, <2>2, <2>3 DEF ManifestOfClone
  <2> QED
    BY <2>4, <2>5
<1>12. CASE OpenRecord \/ Record
  <2>1. /\ disk[job.dir].repo = "whole" /\ disk[job.dir].tree = job.commit
        /\ job.commit \in Commits /\ disk[job.dir].manifest = job.commit
    BY <1>12 DEF OpenRecord, Record, SnapshotStages
  <2> DEFINE recorded == IF Record THEN job.commit ELSE Torn
             stage == IF Record THEN "returned" ELSE "writing record"
  <2>2. /\ job'.stage = stage /\ job'.commit = job.commit
        /\ job'.dir = job.dir /\ job'.ref = job.ref
    BY <1>12, RecordEffect DEF GoesTo, SameErrand
  <2>3. /\ job.dir \in Dirs /\ disk'[job.dir].repo = disk[job.dir].repo
        /\ disk'[job.dir].tree = disk[job.dir].tree
        /\ disk'[job.dir].manifest = disk[job.dir].manifest
        /\ disk'[job.dir].recorded = recorded
        /\ \A d \in Dirs \ {job.dir} : disk'[d] = disk[d]
    <3>1. DirAfter(disk[job.dir].raw, disk[job.dir].repo, disk[job.dir].tree,
                   disk[job.dir].manifest, recorded)
      BY <1>12, RecordEffect
    <3> HIDE DEF recorded
    <3> QED
      BY <3>1, DirGoesOn
  <2>6. (stage = "returned" /\ recorded = job.commit) \/ stage = "writing record"
    OBVIOUS
  <2> HIDE DEF recorded, stage
  <2>4. SnapshotStages'
    BY <1>0, <2>1, <2>2, <2>3, <2>6 DEF SnapshotStages
  <2>5. ManifestOfClone'
    BY <1>0, <2>1, <2>2, <2>3, <2>6 DEF ManifestOfClone
  <2> QED
    BY <2>4, <2>5
<1>13. CASE \E name \in Edited : Comment(name)
  BY <1>2, <1>13 DEF Comment
<1>14. CASE \E name \in Edited : Delete(name)
  <2>1. PICK name \in Names : Delete(name)
    BY <1>14, IngestionAssumption DEF Names
  <2> QED
    BY <1>2, <2>1, DeleteEffect DEF Shape
<1>15. CASE Push
  BY <1>2, <1>15 DEF Push
<1>16. CASE Start
  BY <1>1, <1>16, StartEffect DEF Snapshotless
<1>17. CASE Crash
  BY <1>1, <1>17, CrashEffect DEF Snapshotless
<1>18. CASE UNCHANGED vars
  BY <1>2, <1>18 DEF vars
<1> QED
  BY <1>3, <1>4, <1>5, <1>6, <1>7, <1>8, <1>9, <1>10, <1>11, <1>12, <1>13, <1>14, <1>15,
     <1>16, <1>17, <1>18 DEF Next, Prepare

\* What is redacted holds no token, and is as long as it was.
LEMMA RedactCleans ==
  ASSUME NEW items
  PROVE  /\ \A i \in Secret : i \notin Range(Redact(items))
         /\ Redact(items) = [i \in DOMAIN items |-> Redact(items)[i]]
  BY IngestionAssumption DEF Range, Redact, Redacted, Items

\* An archive that is not written keeps what the job put there.
LEMMA KeptStays ==
  ASSUME NEW n, Kept(n), job'.dir = job.dir, job'.fetched = job.fetched,
         disk'[job.dir].raw = disk[job.dir].raw
  PROVE  Kept(n)'
  BY DEF Kept, Redact

\* What Archive leaves in the directories and in the job.
LEMMA ArchiveKeeps ==
  ASSUME Shape, Archive
  PROVE  /\ job.dir \in Dirs /\ Name \in Names
         /\ DOMAIN disk'[job.dir].raw = DOMAIN disk[job.dir].raw \union {Name}
         /\ disk'[job.dir].raw[Name] = Redact(Result)
         /\ \A n \in DOMAIN disk[job.dir].raw \ {Name} :
              disk'[job.dir].raw[n] = disk[job.dir].raw[n]
         /\ disk'[job.dir].repo = disk[job.dir].repo
         /\ \A d \in Dirs \ {job.dir} : disk'[d] = disk[d]
         /\ job'.fetched[Name] = Result
         /\ \A n \in Names \ {Name} : job'.fetched[n] = job.fetched[n]
<1>1. job.dir \in Dirs /\ job'.fetched = [job.fetched EXCEPT ![Name] = Result]
  BY ArchiveEffect
<1>2. Name \in Names
  BY NameIsResource DEF Shape
<1>3. /\ job'.fetched[Name] = Result
      /\ \A n \in Names \ {Name} : job'.fetched[n] = job.fetched[n]
  BY <1>1, <1>2 DEF Shape, JobShape
<1> QED
  BY <1>1, <1>2, <1>3, ArchiveEffect, RawKeeps DEF Archived

\* The archives stay clean and full.
LEMMA CleanStep ==
  ASSUME Shape, SnapshotStages, ArchivesClean, ArchivedSoFar, [Next]_vars
  PROVE  ArchivesClean'
<1>1. ASSUME disk' = disk
      PROVE  ArchivesClean'
  BY <1>1 DEF ArchivesClean
<1>2. ASSUME NEW repo, NEW tree, NEW manifest, NEW recorded,
             DirAfter(disk[job.dir].raw, repo, tree, manifest, recorded),
             disk[job.dir].repo # "absent" \/ repo = "absent"
      PROVE  ArchivesClean'
  <2>1. /\ disk'[job.dir].raw = disk[job.dir].raw /\ disk'[job.dir].repo = repo
        /\ \A d \in Dirs \ {job.dir} : disk'[d] = disk[d]
    BY <1>2, DirGoesOn
  <2> QED
    BY <1>2, <2>1 DEF ArchivesClean
<1>3. CASE Store
  <2>1. PICK content :
          /\ job.dir \in Dirs
          /\ DirAfter(RawWith(content), disk[job.dir].repo, disk[job.dir].tree,
                      disk[job.dir].manifest, disk[job.dir].recorded)
          /\ content # Torn => \A i \in Secret : i \notin Range(content)
    BY <1>3, ArchiveEffect, OpenRawEffect, RedactCleans DEF Store, Archived
  <2>2. ASSUME NEW d \in Dirs
        PROVE  /\ \A n \in DOMAIN disk'[d].raw :
                    disk'[d].raw[n] # Torn => \A i \in Secret : i \notin Range(disk'[d].raw[n])
               /\ disk'[d].repo # "absent" => DOMAIN disk'[d].raw = Names
    <3>1. CASE d # job.dir
      BY <2>1, <3>1, RawKeeps DEF ArchivesClean
    <3>2. CASE d = job.dir
      <4>1. /\ Name \in Names
            /\ DOMAIN disk'[d].raw = DOMAIN disk[d].raw \union {Name}
            /\ disk'[d].raw[Name] = content /\ disk'[d].repo = disk[d].repo
            /\ \A n \in DOMAIN disk[d].raw \ {Name} : disk'[d].raw[n] = disk[d].raw[n]
        BY <2>1, <3>2, RawKeeps
      <4> QED
        BY <2>1, <4>1 DEF ArchivesClean
    <3> QED
      BY <3>1, <3>2
  <2> QED
    BY <2>2 DEF ArchivesClean
<1>4. CASE Clone
  <2>1. job.dir \in Dirs /\ DOMAIN disk[job.dir].raw = Names
    <3>1. job.dir \in Dirs /\ job.stage = "cloning"
      BY <1>4 DEF Clone, Shape, JobShape, Over
    <3>2. \A n \in Names : n \in DOMAIN disk[job.dir].raw
      BY <3>1 DEF ArchivedSoFar, Using, Kept
    <3> QED
      BY <3>1, <3>2 DEF Shape, DiskShape
  <2>2. /\ disk'[job.dir].raw = disk[job.dir].raw
        /\ \A d \in Dirs \ {job.dir} : disk'[d] = disk[d]
    BY <1>4, CloneEffect, DirGoesOn
  <2> QED
    BY <2>1, <2>2 DEF ArchivesClean
<1>5. CASE Cloned
  <2>1. disk[job.dir].repo # "absent"
    BY <1>5 DEF Cloned, SnapshotStages
  <2>2. DirAfter(disk[job.dir].raw, "whole", head, disk[job.dir].manifest,
                 disk[job.dir].recorded)
    BY <1>5, ClonedEffect
  <2> QED
    BY <1>2, <2>1, <2>2
<1>6. CASE CloneFails
  BY <1>1, <1>2, <1>6, CloneFailsEffect
<1>7. CASE Checkout \/ Describe \/ WriteManifest \/ OpenRecord \/ Record
  <2>1. disk[job.dir].repo # "absent"
    BY <1>7 DEF Checkout, Describe, WriteManifest, OpenRecord,
       Record, SnapshotStages
  <2>2. \/ disk' = disk
        \/ \E tree, manifest, recorded :
             DirAfter(disk[job.dir].raw, disk[job.dir].repo, tree, manifest, recorded)
    BY <1>7, CheckoutEffect, DescribeEffect, WriteManifestEffect, RecordEffect
  <2> QED
    BY <1>1, <1>2, <2>1, <2>2
<1>8. CASE Answer
  BY <1>1, <1>8, AnswerEffect DEF Shape, Answered
<1> QED
  BY <1>1, <1>3, <1>4, <1>5, <1>6, <1>7, <1>8 DEF Next, Prepare, Refuse, NothingToClone, Comment,
     Delete, Push, Start, Crash, vars

\* What the job has fetched stays archived as it was fetched.
LEMMA ArchivedStep ==
  ASSUME Shape, ArchivedSoFar, [Next]_vars
  PROVE  ArchivedSoFar'
<1>1. ASSUME job'.stage \in {"idle", "failed"}
      PROVE  ArchivedSoFar'
  BY <1>1 DEF ArchivedSoFar, Fetching, Using
<1>2. ASSUME disk'[job.dir].raw = disk[job.dir].raw,
             UNCHANGED <<job.dir, job.at, job.fetched>>,
             job'.stage \in Fetching => job.stage \in Fetching,
             job'.stage \in Using => job.stage \in Using
      PROVE  ArchivedSoFar'
  BY <1>2, KeptStays DEF ArchivedSoFar
<1>3. CASE Answer
  BY <1>1, <1>2, <1>3, AnswerEffect DEF Shape, Answered, SameErrand, Fetching, Using
<1>13. CASE OpenRaw
  <2>1. /\ job'.stage = "writing raw" /\ job'.at = job.at /\ job'.dir = job.dir
        /\ job'.fetched = job.fetched
    BY <1>13, OpenRawEffect DEF GoesTo, SameErrand
  <2>2. ASSUME NEW k \in 1..(job.at - 1)
        PROVE  Kept(Resources[k])'
    <3>1. Kept(Resources[k]) /\ Resources[k] # Name
      BY <1>13, NameIsResource DEF OpenRaw, ArchivedSoFar, Fetching, Shape
    <3>2. /\ DOMAIN disk'[job.dir].raw = DOMAIN disk[job.dir].raw \union {Name}
          /\ \A n \in DOMAIN disk[job.dir].raw \ {Name} :
               disk'[job.dir].raw[n] = disk[job.dir].raw[n]
      BY <1>13, OpenRawEffect, RawKeeps
    <3>3. Kept(Resources[k]) => /\ Resources[k] \in DOMAIN disk[job.dir].raw
                               /\ disk[job.dir].raw[Resources[k]]
                                    = Redact(job.fetched[Resources[k]])
      BY DEF Kept
    <3>4. /\ Resources[k] \in DOMAIN disk'[job.dir].raw
          /\ disk'[job.dir].raw[Resources[k]] = Redact(job'.fetched[Resources[k]])
      BY <2>1, <3>1, <3>2, <3>3
    <3> QED
      BY <2>1, <3>4 DEF Kept, Redact
  <2> QED
    BY <2>1, <2>2 DEF ArchivedSoFar, Using
<1>4. CASE Archive
  <2>1. ASSUME NEW n \in Names, n # Name => Kept(n)
        PROVE  Kept(n)'
    <3>1. job'.dir = job.dir
      BY <1>4, ArchiveEffect
    <3>2. n \in DOMAIN disk'[job.dir].raw /\ disk'[job.dir].raw[n] = Redact(job'.fetched[n])
      BY <1>4, <2>1, ArchiveKeeps DEF Kept
    <3> QED
      BY <3>1, <3>2 DEF Kept, Redact
  <2>2. \A k \in 1..(job.at - 1) : Kept(Resources[k])
    BY <1>4 DEF Archive, ArchivedSoFar, Fetching
  <2>3. job.at \in 1..4 /\ Len(Resources) = 4 /\ Name = Resources[job.at]
        /\ Names = {Resources[1], Resources[2], Resources[3], Resources[4]}
    BY DEF Shape, JobShape, Resources, Names, Name
  <2>4. ASSUME NEW k \in 1..job.at
        PROVE  Kept(Resources[k])'
    <3>1. Resources[k] \in Names /\ (Resources[k] # Name => Kept(Resources[k]))
      BY <2>2, <2>3
    <3> QED
      BY <2>1, <3>1
  <2>5. CASE job.at = Len(Resources) /\ job'.stage = "cloning" /\ job'.at = 1
    <3>1. ASSUME NEW n \in Names
          PROVE  Kept(n)'
      <4>1. PICK k \in 1..job.at : n = Resources[k]
        BY <2>3, <2>5
      <4>2. n # Name => Kept(n)
        BY <2>2, <2>3, <4>1
      <4> QED
        BY <2>1, <4>2
    <3> QED
      BY <2>5, <3>1 DEF ArchivedSoFar, Fetching
  <2>6. CASE job.at # Len(Resources) /\ job'.stage = "fetching" /\ job'.at = job.at + 1
    <3>1. job'.at - 1 = job.at
      BY <2>3, <2>6
    <3> QED
      BY <2>4, <2>6, <3>1 DEF ArchivedSoFar, Using
  <2> QED
    BY <1>4, <2>5, <2>6, ArchiveEffect
<1>5. CASE Refuse \/ NothingToClone
  BY <1>1, <1>5 DEF Refuse, NothingToClone, Fail, Shape, JobShape, JobIsRecord
<1>6. ASSUME Prepare, ~Refuse, ~NothingToClone
      PROVE  ArchivedSoFar'
  <2>1. job.stage \in Using
    BY <1>6 DEF Prepare, Clone, Cloned, CloneFails, Checkout, Describe, WriteManifest, OpenRecord,
       Record,
       Using
  <2>2. \E stage \in {"failed"} \union Using : \E commit : GoesTo(stage, commit)
    BY <1>6, CloneEffect, ClonedEffect, CloneFailsEffect, CheckoutEffect, DescribeEffect,
       WriteManifestEffect, RecordEffect DEF Prepare, Using
  <2>3. \/ disk' = disk
        \/ \E repo, tree, manifest, recorded :
             DirAfter(disk[job.dir].raw, repo, tree, manifest, recorded)
    BY <1>6, CloneEffect, ClonedEffect, CloneFailsEffect, CheckoutEffect, DescribeEffect,
       WriteManifestEffect, RecordEffect DEF Prepare
  <2>4. disk'[job.dir].raw = disk[job.dir].raw
    BY <2>3, DirGoesOn
  <2> QED
    BY <1>1, <1>2, <2>1, <2>2, <2>4 DEF GoesTo, SameErrand, Using, Fetching
<1>7. CASE \E name \in Edited : Comment(name)
  BY <1>2, <1>7 DEF Comment
<1>8. CASE \E name \in Edited : Delete(name)
  <2>1. PICK name \in Names : Delete(name)
    BY <1>8, IngestionAssumption DEF Names
  <2> QED
    BY <1>2, <2>1, DeleteEffect DEF Shape
<1>9. CASE Push
  BY <1>2, <1>9 DEF Push
<1>10. CASE Start
  <2>1. job'.stage = "fetching" /\ 1..(job'.at - 1) = {}
    BY <1>10, StartEffect
  <2> QED
    BY <2>1 DEF ArchivedSoFar, Using
<1>11. CASE Crash
  BY <1>1, <1>11, CrashEffect
<1>12. CASE UNCHANGED vars
  BY <1>2, <1>12 DEF vars
<1> QED
  BY <1>3, <1>4, <1>5, <1>6, <1>7, <1>8, <1>9, <1>10, <1>11, <1>12, <1>13 DEF Next,
     Store, Prepare

-----------------------------------------------------------------------------
(***************************************************************************)
(* The walk through the pages.                                             *)
(***************************************************************************)
\* Items are numbers.
LEMMA ItemsAreNumbers == Items \subseteq Int
  BY IngestionAssumption DEF Items

\* So are the elements of a list of them.
LEMMA ElementIsNumber ==
  ASSUME NEW s \in Seq(Items), NEW i \in DOMAIN s
  PROVE  s[i] \in Int
<1>1. i \in 1..Len(s)
  OBVIOUS
<1> QED
  BY <1>1, ItemsAreNumbers, ElementOfSeq

\* What a list holds once an item is deleted that is not its last.
LEMMA RemoveAtKeeps ==
  ASSUME NEW s \in Seq(Items), NEW i \in 1..(Len(s) - 1)
  PROVE  /\ RemoveAt(s, i) \in Seq(Items) /\ Len(RemoveAt(s, i)) = Len(s) - 1
         /\ \A j \in 1..(Len(s) - 1) :
              RemoveAt(s, i)[j] = IF j < i THEN s[j] ELSE s[j + 1]
<1> DEFINE a == SubSeq(s, 1, i - 1)
           b == SubSeq(s, i + 1, Len(s))
<1>1. Len(s) \in Nat /\ i \in Nat /\ 1 <= i /\ i <= Len(s) - 1
  OBVIOUS
<1>2. /\ a \in Seq(Items) /\ Len(a) = i - 1
      /\ \A j \in 1..(i - 1) : a[j] = s[j]
  BY <1>1
<1>3. /\ b \in Seq(Items) /\ Len(b) = Len(s) - i
      /\ \A j \in 1..(Len(s) - i) : b[j] = s[i + j]
  BY <1>1
<1>4. RemoveAt(s, i) = a \o b
  BY DEF RemoveAt
<1> HIDE DEF a, b
<1>5. /\ a \o b \in Seq(Items) /\ Len(a \o b) = Len(a) + Len(b)
      /\ \A j \in 1..(Len(a) + Len(b)) :
           (a \o b)[j] = IF j <= Len(a) THEN a[j] ELSE b[j - Len(a)]
  BY <1>2, <1>3, ConcatProperties
<1>6. ASSUME NEW j \in 1..(Len(s) - 1)
      PROVE  (a \o b)[j] = IF j < i THEN s[j] ELSE s[j + 1]
  <2>1. CASE j < i
    BY <1>1, <1>2, <1>5, <2>1
  <2>2. CASE ~(j < i)
    <3>1. j - (i - 1) \in 1..(Len(s) - i) /\ i + (j - (i - 1)) = j + 1
      BY <1>1, <2>2
    <3>2. (a \o b)[j] = b[j - (i - 1)]
      BY <1>1, <1>2, <1>3, <1>5, <2>2
    <3> QED
      BY <1>3, <2>2, <3>1, <3>2
  <2> QED
    BY <2>1, <2>2
<1> QED
  BY <1>1, <1>2, <1>3, <1>4, <1>5, <1>6

\* A page is the part of the list after the pages before it, up to its end or to that
\* of the list.
LEMMA PageItems ==
  ASSUME NEW list \in Seq(Items), NEW n \in Nat \ {0}
  PROVE  LET items == PageOf(list, n).items
         IN  /\ items \in Seq(Items)
             /\ \A i \in 1..Len(items) :
                  Before(n) + i <= Len(list) /\ items[i] = list[Before(n) + i]
             /\ Before(n) \in Nat /\ Before(n + 1) = n * PerPage
             /\ Before(n + 1) = Before(n) + PerPage
             /\ Len(items) <= PerPage
             /\ Before(n) <= Len(list) =>
                  Before(n) + Len(items) =
                    IF PageOf(list, n).next THEN Before(n + 1) ELSE Len(list)
<1>1. /\ Before(n) \in Nat /\ Before(n + 1) = n * PerPage
      /\ Before(n + 1) = Before(n) + PerPage /\ PerPage \in Nat \ {0}
  BY ClientAssumption DEF Before
<1> DEFINE b == Before(n)
           e == Before(n + 1)
           m == Min({e, Len(list)})
<1>2. m = IF e <= Len(list) THEN e ELSE Len(list)
  BY <1>1 DEF Min
<1>3. PageOf(list, n).items = SubSeq(list, b + 1, m) /\ PageOf(list, n).next = (e < Len(list))
  BY <1>1 DEF PageOf, Before
<1> HIDE DEF b, e, m
<1>4. b \in Nat /\ e \in Nat /\ e = b + PerPage /\ m \in Nat /\ m <= Len(list) /\ m <= e
  BY <1>1, <1>2 DEF b, e
<1> DEFINE items == SubSeq(list, b + 1, m)
<1>5. /\ items \in Seq(Items)
      /\ Len(items) = IF b + 1 <= m THEN m - b ELSE 0
      /\ \A i \in 1..Len(items) : items[i] = list[b + i]
  BY <1>4
<1> HIDE DEF items
<1>6. Len(list) \in Nat /\ PerPage \in Nat /\ 1 <= PerPage
  BY <1>1
<1>7. \A i \in 1..Len(items) : b + i <= Len(list)
  BY <1>4, <1>5, <1>6
<1>8. Len(items) <= PerPage
  BY <1>4, <1>5, <1>6
<1>9. b <= Len(list) => b + Len(items) = IF e < Len(list) THEN e ELSE Len(list)
  BY <1>2, <1>4, <1>5, <1>6, SMTT(30)
<1> QED
  BY <1>1, <1>3, <1>5, <1>7, <1>8, <1>9 DEF b, e, items

\* The lists of GitHub stay in order.
LEMMA ListsStep ==
  ASSUME ListsInOrder, [Next]_vars
  PROVE  ListsInOrder'
<1>1. ASSUME listing' = listing
      PROVE  ListsInOrder'
  BY <1>1 DEF ListsInOrder, Increasing
<1>2. ASSUME NEW name \in Names, NEW list \in Seq(Items), list # <<>>, Increasing(list),
             listing' = [listing EXCEPT ![name] = list]
      PROVE  ListsInOrder'
  <2>1. listing' \in [Names -> Seq(Items)]
    BY <1>2 DEF ListsInOrder
  <2>2. ASSUME NEW n \in Names
        PROVE  listing'[n] # <<>> /\ Increasing(listing'[n])
    BY <1>2 DEF ListsInOrder
  <2>3. ASSUME NEW n \in Names
        PROVE  Increasing(listing[n])'
    BY <2>2 DEF Increasing
  <2> QED
    BY <2>1, <2>2, <2>3 DEF ListsInOrder
<1>3. CASE \E name \in Edited : Comment(name)
  <2>1. PICK name \in Names : Comment(name)
    BY <1>3, IngestionAssumption DEF Names
  <2> DEFINE old == listing[name]
             new == Newest(name) + 1
  <2>2. old \in Seq(Items) /\ old # <<>> /\ Increasing(old)
    BY DEF ListsInOrder
  <2>3. new = old[Len(old)] + 1 /\ new <= MaxItems /\ old[Len(old)] \in Items
    BY <2>1, <2>2, IngestionAssumption DEF Comment, Newest, Last, Items
  <2>4. listing' = [listing EXCEPT ![name] = Append(old, new)]
    BY <2>1 DEF Comment
  <2> HIDE DEF old, new
  <2>5. new \in Items /\ \A i \in DOMAIN old : old[i] \in Items /\ old[i] < new
    BY <2>2, <2>3, IngestionAssumption DEF Items, Increasing
  <2>6. Append(old, new) \in Seq(Items) /\ Append(old, new) # <<>>
    BY <2>2, <2>5
  <2>7. Increasing(Append(old, new))
    BY <2>2, <2>5 DEF Increasing
  <2> QED
    BY <1>2, <2>4, <2>6, <2>7
<1>4. CASE \E name \in Edited : Delete(name)
  <2>1. PICK name \in Names : Delete(name)
    BY <1>4, IngestionAssumption DEF Names
  <2>2. PICK i \in 1..(Len(listing[name]) - 1) :
          listing' = [listing EXCEPT ![name] = RemoveAt(listing[name], i)]
    BY <2>1 DEF Delete
  <2> DEFINE old == listing[name]
             new == RemoveAt(old, i)
  <2>3. old \in Seq(Items) /\ Increasing(old) /\ \A k \in 1..Len(old) : old[k] \in Int
    <3>1. old \in Seq(Items) /\ Increasing(old)
      BY DEF ListsInOrder
    <3> HIDE DEF old
    <3> QED
      BY <3>1, ItemsAreNumbers, ElementOfSeq
  <2>4. /\ new \in Seq(Items) /\ Len(new) = Len(old) - 1
        /\ \A j \in 1..(Len(old) - 1) : new[j] = IF j < i THEN old[j] ELSE old[j + 1]
    BY <2>2, <2>3, RemoveAtKeeps
  <2> HIDE DEF old, new
  <2>5. Increasing(new)
    <3>1. ASSUME NEW j \in 1..Len(new), NEW k \in 1..Len(new), j < k
          PROVE  new[j] < new[k]
      <4>1. \A x, y \in 1..Len(old) : x < y => old[x] < old[y]
        BY <2>3 DEF Increasing
      <4>2. /\ j \in 1..Len(old) /\ j + 1 \in 1..Len(old)
            /\ k \in 1..Len(old) /\ k + 1 \in 1..Len(old)
            /\ j < k + 1 /\ j + 1 < k + 1 /\ (j < i \/ ~(k < i))
        BY <2>3, <2>4, <3>1
      <4>3. /\ new[j] = IF j < i THEN old[j] ELSE old[j + 1]
            /\ new[k] = IF k < i THEN old[k] ELSE old[k + 1]
        BY <2>4, <3>1
      <4> QED
        BY <3>1, <4>1, <4>2, <4>3
    <3> QED
      BY <2>4, <3>1 DEF Increasing
  <2>6. new # <<>>
    BY <2>2, <2>4 DEF old
  <2> QED
    BY <1>2, <2>2, <2>4, <2>5, <2>6 DEF old, new
<1>5. CASE Answer
  BY <1>1, <1>5 DEF Answer, Respond, RespondNotModified, RespondBusy, RespondError
<1> QED
  BY <1>1, <1>3, <1>4, <1>5 DEF Next, Prepare, Push, Start, Store, OpenRaw, Archive, Refuse,
     NothingToClone,
     Clone, Cloned, CloneFails, Checkout, Describe, WriteManifest, OpenRecord,
       Record, Crash, vars

\* What is true of a page that is added to what was read before it.
LEMMA PageAdded ==
  ASSUME NEW list \in Seq(Items), Increasing(list), NEW n \in Nat \ {0},
         NEW read \in Seq(Items), Increasing(read),
         \A i \in DOMAIN read : read[i] <= Last(list),
         \A i \in DOMAIN read, j \in DOMAIN list : Before(n) < j => read[i] < list[j]
  PROVE  LET all == read \o PageOf(list, n).items
         IN  /\ all \in Seq(Items) /\ Increasing(all)
             /\ \A i \in DOMAIN all : all[i] <= Last(list)
             /\ \A i \in DOMAIN all, j \in DOMAIN list :
                  Before(n + 1) < j => all[i] < list[j]
             /\ Begins(read, list) /\ Len(read) = Before(n) =>
                  /\ Begins(all, list)
                  /\ Len(all) = IF PageOf(list, n).next THEN Before(n + 1) ELSE Len(list)
<1> DEFINE page == PageOf(list, n).items
           all == read \o page
           b == Before(n)
           e == Before(n + 1)
<1>1. /\ page \in Seq(Items)
      /\ \A i \in 1..Len(page) : b + i <= Len(list) /\ page[i] = list[b + i]
      /\ b \in Nat /\ e = b + PerPage /\ PerPage \in Nat /\ Len(page) <= PerPage
      /\ b <= Len(list) => b + Len(page) = IF PageOf(list, n).next THEN e ELSE Len(list)
  BY PageItems, ClientAssumption
<1> HIDE DEF page, b, e
<1>2. /\ all \in Seq(Items) /\ Len(all) = Len(read) + Len(page)
      /\ \A i \in 1..(Len(read) + Len(page)) :
           all[i] = IF i <= Len(read) THEN read[i] ELSE page[i - Len(read)]
  BY <1>1, ConcatProperties
<1> HIDE DEF all
<1>3. /\ \A i \in 1..Len(list) : list[i] \in Int
      /\ \A i \in 1..Len(read) : read[i] \in Int
  BY ItemsAreNumbers, ElementOfSeq
<1>4. \A i, j \in 1..Len(list) : i < j => list[i] < list[j]
  BY DEF Increasing
<1>5. \A i, j \in 1..Len(read) : i < j => read[i] < read[j]
  BY DEF Increasing
<1>6. /\ \A i \in 1..Len(read) : read[i] <= list[Len(list)]
      /\ \A i \in 1..Len(read), j \in 1..Len(list) : b < j => read[i] < list[j]
  BY DEF Last, b
<1>7. ASSUME NEW i \in 1..Len(all)
      PROVE  \/ i \in 1..Len(read) /\ all[i] = read[i]
             \/ /\ i - Len(read) \in 1..Len(page)
                /\ all[i] = page[i - Len(read)] /\ page[i - Len(read)] = list[b + (i - Len(read))]
                /\ b + (i - Len(read)) \in 1..Len(list) /\ b + (i - Len(read)) <= e
                /\ b < b + (i - Len(read))
  <2>1. Len(read) \in Nat /\ Len(page) \in Nat
    BY <1>1
  <2>2. CASE i <= Len(read)
    BY <1>2, <2>1, <2>2
  <2>3. CASE ~(i <= Len(read))
    <3>1. i - Len(read) \in 1..Len(page) /\ all[i] = page[i - Len(read)]
      BY <1>2, <2>1, <2>3
    <3> QED
      BY <1>1, <2>1, <3>1
  <2> QED
    BY <2>2, <2>3
<1>8. Increasing(all)
  <2>1. ASSUME NEW i \in 1..Len(all), NEW j \in 1..Len(all), i < j
        PROVE  all[i] < all[j]
    <3>1. Len(read) \in Nat /\ Len(all) \in Nat /\ i \in Int /\ j \in Int
      BY <1>2
    <3>2. CASE j \in 1..Len(read)
      BY <1>2, <1>5, <2>1, <3>1, <3>2
    <3>3. CASE j \notin 1..Len(read) /\ i \in 1..Len(read)
      BY <1>2, <1>6, <1>7, <2>1, <3>1, <3>3, SMTT(30)
    <3>4. CASE i \notin 1..Len(read)
      <4>1. b + (i - Len(read)) < b + (j - Len(read)) /\ j \notin 1..Len(read)
        BY <1>1, <2>1, <3>1, <3>4
      <4> QED
        BY <1>4, <1>7, <3>4, <4>1
    <3> QED
      BY <3>2, <3>3, <3>4
  <2> QED
    BY <1>2, <2>1 DEF Increasing
<1>9. ASSUME NEW i \in 1..Len(all)
      PROVE  all[i] <= list[Len(list)]
  <2>1. \A k \in 1..Len(list) : list[k] <= list[Len(list)]
    BY <1>3, <1>4
  <2> QED
    BY <1>6, <1>7, <2>1
<1>10. ASSUME NEW i \in 1..Len(all), NEW j \in 1..Len(list), e < j
       PROVE  all[i] < list[j]
  <2>1. b < j
    BY <1>1, <1>10
  <2>2. CASE i \in 1..Len(read) /\ all[i] = read[i]
    BY <1>6, <2>1, <2>2
  <2>3. ASSUME NEW k \in 1..Len(list), k <= e, all[i] = list[k]
        PROVE  all[i] < list[j]
    <3>1. k < j
      BY <1>1, <1>10, <2>3
    <3> QED
      BY <1>4, <2>3, <3>1
  <2> QED
    BY <1>7, <2>2, <2>3
<1>11. ASSUME Begins(read, list), Len(read) = b
       PROVE  /\ Begins(all, list)
              /\ Len(all) = IF PageOf(list, n).next THEN e ELSE Len(list)
  <2>1. b <= Len(list) /\ \A i \in 1..Len(read) : read[i] = list[i]
    BY <1>11 DEF Begins
  <2>2. Len(all) = IF PageOf(list, n).next THEN e ELSE Len(list)
    BY <1>1, <1>2, <1>11, <2>1
  <2>3. ASSUME NEW i \in 1..Len(all)
        PROVE  all[i] = list[i]
    <3>1. b + (i - Len(read)) = i
      BY <1>1, <1>2, <1>11
    <3> QED
      BY <1>7, <2>1, <3>1
  <2>4. Len(all) <= Len(list)
    <3>1. \A i \in 1..Len(all) : i <= Len(list)
      BY <1>1, <1>2, <1>7, <1>11, <2>1
    <3>2. Len(all) \in Nat /\ Len(list) \in Nat
      BY <1>2
    <3> QED
      BY <3>1, <3>2
  <2> QED
    BY <2>2, <2>3, <2>4 DEF Begins
<1>12. DOMAIN all = 1..Len(all) /\ DOMAIN list = 1..Len(list)
  BY <1>2
<1>13. /\ \A i \in DOMAIN all : all[i] <= Last(list)
       /\ \A i \in DOMAIN all, j \in DOMAIN list : e < j => all[i] < list[j]
  BY <1>9, <1>10, <1>12 DEF Last
<1> QED
  BY <1>2, <1>8, <1>11, <1>13 DEF all, page, b, e

\* Whether the page comes from GitHub or is remembered, it is the list's own page.
LEMMA PageArrives ==
  ASSUME JobShape, Respond \/ RespondNotModified
  PROVE  LET page == PageOf(listing[Name], job.page)
         IN  /\ job'.items = job.items \o page.items
             /\ \/ /\ job'.stage = "fetching" /\ job'.page = job.page + 1 /\ page.next
                \/ /\ job'.stage = "archiving" /\ job'.page = job.page
                   /\ page.next => MaxPages <= job.page
<1> DEFINE page == PageOf(listing[Name], job.page)
<1>1. Receive(page)
  BY DEF Respond, RespondNotModified, NotModified, Remembered
<1> HIDE DEF page
<1> DEFINE items == job.items \o page.items
<1>2. CASE GoesOn(page, job.page)
  <2>1. job' = [job EXCEPT !.items = items, !.page = @ + 1, !.attempt = 1]
    BY <1>1, <1>2 DEF Receive
  <2> HIDE DEF items
  <2>2. job'.items = items /\ job'.page = job.page + 1 /\ job'.stage = job.stage
    BY <2>1 DEF JobShape, JobIsRecord
  <2>3. page.next /\ job.stage = "fetching"
    BY <1>2 DEF GoesOn, Respond, RespondNotModified
  <2> QED
    BY <2>2, <2>3 DEF items, page
<1>3. CASE ~GoesOn(page, job.page)
  <2>1. job' = [job EXCEPT !.items = items, !.stage = "archiving"]
    BY <1>1, <1>3 DEF Receive
  <2> HIDE DEF items
  <2>2. job'.items = items /\ job'.page = job.page /\ job'.stage = "archiving"
    BY <2>1 DEF JobShape, JobIsRecord
  <2>3. page.next => MaxPages <= job.page
    BY <1>3, ClientAssumption DEF GoesOn, JobShape, Pages
  <2> QED
    BY <2>2, <2>3 DEF items, page
<1> QED
  BY <1>2, <1>3

\* A page that arrives is added to what was read.
LEMMA ArrivalStep ==
  ASSUME Shape, ListsInOrder, ReadInOrder, ReadWhole, Respond \/ RespondNotModified
  PROVE  ReadInOrder' /\ ReadWhole'
<1> DEFINE list == listing[Name]
           n == job.page
           page == PageOf(list, n)
           all == job.items \o page.items
<1>1. /\ list \in Seq(Items) /\ Increasing(list) /\ n \in Nat \ {0} /\ n <= MaxPages
      /\ job.stage = "fetching" /\ listing' = listing /\ Name' = Name
      /\ job'.first = job.first /\ job'.shrunk = job.shrunk
  BY NameIsResource, AnswerEffect, ClientAssumption
     DEF Shape, JobShape, Pages, ListsInOrder, Answer, Answered, SameErrand, Name
<1>2. /\ job.items \in Seq(Items) /\ Increasing(job.items)
      /\ \A i \in DOMAIN job.items : job.items[i] <= Last(list)
      /\ \A i \in DOMAIN job.items, j \in DOMAIN list :
           Before(n) < j => job.items[i] < list[j]
  BY <1>1 DEF ReadInOrder, Fetching
<1>3. /\ job.first \in Seq(Items)
      /\ ~job.shrunk => /\ Begins(job.first, list) /\ Begins(job.items, list)
                        /\ Len(job.items) = Before(n)
  BY <1>1 DEF ReadWhole, Fetching
<1>4. /\ job'.items = all
      /\ \/ job'.stage = "fetching" /\ job'.page = n + 1 /\ page.next
         \/ job'.stage = "archiving" /\ job'.page = n /\ (page.next => MaxPages <= n)
  BY PageArrives DEF Shape
<1>5. Before(n + 1) = n * PerPage
  BY <1>1, PageItems
<1> HIDE DEF list, n
<1>6. /\ all \in Seq(Items) /\ Increasing(all)
      /\ \A i \in DOMAIN all : all[i] <= Last(list)
      /\ \A i \in DOMAIN all, j \in DOMAIN list : Before(n + 1) < j => all[i] < list[j]
      /\ Begins(job.items, list) /\ Len(job.items) = Before(n) =>
           /\ Begins(all, list)
           /\ Len(all) = IF page.next THEN Before(n + 1) ELSE Len(list)
  BY <1>1, <1>2, PageAdded
<1> HIDE DEF all, page
<1>7. listing[Name]' = list
  BY <1>1 DEF list
<1>8. ReadInOrder'
  <2>1. Increasing(job'.items)
    BY <1>4, <1>6
  <2> QED
    BY <1>4, <1>6, <1>7, <2>1 DEF ReadInOrder, Fetching, Increasing
<1>9. ReadWhole'
  <2>1. CASE job.shrunk
    BY <1>1, <1>3, <2>1 DEF ReadWhole
  <2>2. CASE ~job.shrunk
    <3>1. /\ Begins(job.first, list) /\ Begins(all, list)
          /\ Len(all) = IF page.next THEN Before(n + 1) ELSE Len(list)
      BY <1>3, <1>6, <2>2
    <3>2. job'.stage = "fetching" => Len(all) = Before(job'.page)
      BY <1>4, <3>1
    <3>3. ASSUME job'.stage = "archiving"
          PROVE  Len(job.first) <= Len(all) \/ MaxPages * PerPage <= Len(all)
      <4>1. CASE page.next
        <5>1. n = MaxPages
          BY <1>1, <1>4, <3>3, <4>1, ClientAssumption
        <5> QED
          BY <1>5, <3>1, <4>1, <5>1, ClientAssumption
      <4>2. CASE ~page.next
        BY <3>1, <4>2 DEF Begins
      <4> QED
        BY <4>1, <4>2
    <3> QED
      BY <1>1, <1>3, <1>4, <1>7, <3>1, <3>2, <3>3 DEF ReadWhole, Fetching
  <2> QED
    BY <1>1, <2>1, <2>2 DEF Shape, JobShape
<1> QED
  BY <1>8, <1>9

\* A list begins as it did when it grows.
LEMMA BeginsStays ==
  ASSUME NEW s \in Seq(Items), NEW t \in Seq(Items), NEW x \in Items, Begins(t, s)
  PROVE  Begins(t, Append(s, x))
  BY DEF Begins

\* Someone comments: what was read is older.
LEMMA CommentStep ==
  ASSUME Shape, ListsInOrder, ReadInOrder, ReadWhole, NEW name \in Names, Comment(name)
  PROVE  ReadInOrder' /\ ReadWhole'
<1> DEFINE list == listing[Name]
           new == Newest(name) + 1
<1>1. job' = job /\ Name' = Name /\ Name \in Names
  BY NameIsResource DEF Comment, Name, Shape
<1>2. list \in Seq(Items) /\ list # <<>> /\ Len(list) \in Nat /\ Len(list) # 0
  BY <1>1 DEF ListsInOrder
<1>3. CASE name # Name
  <2>1. listing'[Name] = list
    BY <1>1, <1>3 DEF Comment, ListsInOrder
  <2> QED
    BY <1>1, <2>1 DEF ReadInOrder, ReadWhole, Increasing
<1>4. CASE name = Name
  <2>1. /\ listing'[Name] = Append(list, new) /\ new = list[Len(list)] + 1
        /\ new <= MaxItems
    <3>1. listing'[Name] = Append(list, new) /\ Newest(name) < MaxItems
      BY <1>1, <1>4 DEF Comment, ListsInOrder
    <3>2. Newest(name) = list[Len(list)]
      BY <1>2, <1>4 DEF Newest, Last
    <3>3. list[Len(list)] \in Items
      <4> HIDE DEF list
      <4> QED
        BY <1>2, ElementOfSeq
    <3>4. list[Len(list)] \in Int
      BY <3>3, ItemsAreNumbers
    <3> QED
      BY <3>1, <3>2, <3>4, IngestionAssumption
  <2> HIDE DEF list, new
  <2>2. list[Len(list)] \in Items /\ new \in Items
    BY <1>2, <2>1, IngestionAssumption DEF Items
  <2>3. /\ Append(list, new) \in Seq(Items) /\ Len(Append(list, new)) = Len(list) + 1
        /\ Append(list, new)[Len(list) + 1] = new
        /\ \A j \in 1..Len(list) : Append(list, new)[j] = list[j]
    BY <1>2, <2>2
  <2>4. ASSUME job.stage \in Fetching
        PROVE  ReadInOrder'
    <3>1. /\ job.items \in Seq(Items) /\ Increasing(job.items)
          /\ \A i \in DOMAIN job.items : job.items[i] <= list[Len(list)]
      BY <2>4 DEF ReadInOrder, Last, list
    <3>2. \A i \in DOMAIN job.items : job.items[i] < new
      <4>1. list[Len(list)] \in Int /\ \A i \in DOMAIN job.items : job.items[i] \in Int
        BY <2>2, <3>1, ItemsAreNumbers, ElementIsNumber
      <4> QED
        BY <2>1, <3>1, <4>1
    <3>3. ASSUME job.stage = "fetching", NEW i \in DOMAIN job.items,
                 NEW j \in DOMAIN Append(list, new), Before(job.page) < j
          PROVE  job.items[i] < Append(list, new)[j]
      <4>1. CASE j \in 1..Len(list)
        <5>1. job.items[i] < list[j]
          BY <1>2, <3>3, <4>1 DEF ReadInOrder, Fetching, list
        <5> QED
          BY <2>3, <4>1, <5>1
      <4>2. CASE j = Len(list) + 1
        BY <2>3, <3>2, <4>2
      <4> QED
        BY <1>2, <2>3, <3>3, <4>1, <4>2
    <3>4. \A i \in DOMAIN job.items : job.items[i] <= Last(Append(list, new))
      <4>1. \A i \in DOMAIN job.items : job.items[i] \in Int
        BY <3>1, ElementIsNumber
      <4> QED
        BY <1>2, <2>2, <2>3, <3>1, <3>2, <4>1, ItemsAreNumbers DEF Last
    <3>5. /\ job'.items = job.items /\ job'.page = job.page /\ job'.stage = job.stage
          /\ listing[Name]' = Append(list, new)
      BY <1>1, <2>1
    <3>6. Increasing(job'.items)
      BY <3>1, <3>5
    <3> QED
      BY <3>1, <3>3, <3>4, <3>5, <3>6 DEF ReadInOrder, Increasing
  <2>5. ASSUME job.stage \in Fetching
        PROVE  ReadWhole'
    <3>1. /\ job.first \in Seq(Items) /\ job.items \in Seq(Items)
          /\ ~job.shrunk => Begins(job.first, list) /\ Begins(job.items, list)
      BY <2>5 DEF ReadWhole, ReadInOrder, list
    <3>2. ~job.shrunk => /\ Begins(job.first, Append(list, new))
                        /\ Begins(job.items, Append(list, new))
      BY <1>2, <2>2, <3>1, BeginsStays
    <3>3. job' = job /\ listing[Name]' = Append(list, new)
      BY <1>1, <2>1
    <3> QED
      BY <2>5, <3>2, <3>3 DEF ReadWhole
  <2> QED
    BY <1>1, <2>4, <2>5 DEF ReadInOrder, ReadWhole
<1> QED
  BY <1>3, <1>4

\* Someone deletes: what was read is still older than what is not read yet.
LEMMA DeleteStep ==
  ASSUME Shape, ListsInOrder, ReadInOrder, ReadWhole, NEW name \in Names, Delete(name)
  PROVE  ReadInOrder' /\ ReadWhole'
<1> DEFINE list == listing[Name]
<1>1. /\ UNCHANGED <<job.stage, job.at, job.page, job.items, job.first>>
      /\ job.shrunk \/ (job.stage \in Fetching /\ name = Name) <=> job'.shrunk
      /\ Name' = Name /\ Name \in Names
  BY NameIsResource, DeleteEffect DEF Shape, Name
<1>2. PICK k \in 1..(Len(listing[name]) - 1) :
        listing' = [listing EXCEPT ![name] = RemoveAt(@, k)]
  BY DEF Delete
<1>3. CASE name # Name
  <2>1. listing[Name]' = list
    BY <1>1, <1>2, <1>3 DEF ListsInOrder
  <2>2. job'.shrunk <=> job.shrunk
    BY <1>1, <1>3
  <2>3. job.items = job'.items
    BY <1>1
  <2>4. ReadInOrder'
    BY <1>1, <2>1, <2>3 DEF ReadInOrder, Increasing
  <2>5. ReadWhole'
    BY <1>1, <2>1, <2>2, <2>3 DEF ReadWhole
  <2> QED
    BY <2>4, <2>5
<1>4. CASE name = Name
  <2> DEFINE new == RemoveAt(list, k)
  <2>1. listing[Name]' = new
    BY <1>1, <1>2, <1>4 DEF ListsInOrder
  <2>2. /\ list \in Seq(Items) /\ Len(list) \in Nat /\ k \in 1..(Len(list) - 1)
    BY <1>1, <1>2, <1>4 DEF ListsInOrder
  <2>3. /\ new \in Seq(Items) /\ Len(new) = Len(list) - 1
        /\ \A j \in 1..(Len(list) - 1) : new[j] = IF j < k THEN list[j] ELSE list[j + 1]
    BY <2>2, RemoveAtKeeps
  <2> HIDE DEF list, new
  <2>4. DOMAIN new = 1..(Len(list) - 1) /\ DOMAIN list = 1..Len(list)
    BY <2>2, <2>3
  <2>5. Last(new) = Last(list)
    BY <2>2, <2>3 DEF Last
  <2>6. ASSUME job.stage \in Fetching
        PROVE  ReadInOrder'
    <3>1. /\ job.items \in Seq(Items) /\ Increasing(job.items)
          /\ \A i \in DOMAIN job.items : job.items[i] <= Last(list)
      BY <2>6 DEF ReadInOrder, list
    <3>2. ASSUME job.stage = "fetching", NEW i \in DOMAIN job.items, NEW j \in DOMAIN new,
                 Before(job.page) < j
          PROVE  job.items[i] < new[j]
      <4>1. \A m \in DOMAIN list : Before(job.page) < m => job.items[i] < list[m]
        BY <3>2 DEF ReadInOrder, Fetching, list
      <4>2. Before(job.page) \in Int
        BY ClientAssumption DEF Before, Shape, JobShape, Pages
      <4>3. j \in DOMAIN list /\ j + 1 \in DOMAIN list /\ Before(job.page) < j + 1
        BY <2>2, <2>4, <3>2, <4>2
      <4> QED
        BY <2>3, <2>4, <3>2, <4>1, <4>3
    <3>3. /\ job'.items = job.items /\ job'.page = job.page /\ job'.stage = job.stage
      BY <1>1
    <3>4. Increasing(job'.items)
      BY <3>1, <3>3
    <3> QED
      BY <2>1, <2>5, <3>1, <3>2, <3>3, <3>4 DEF ReadInOrder, Increasing
  <2>7. ReadWhole'
    <3>1. job.stage \in Fetching => job.first \in Seq(Items)
      BY DEF ReadWhole
    <3> QED
      BY <1>1, <1>4, <3>1 DEF ReadWhole
  <2>8. CASE job.stage \notin Fetching
    BY <1>1, <2>7, <2>8 DEF ReadInOrder
  <2> QED
    BY <2>6, <2>7, <2>8
<1> QED
  BY <1>3, <1>4

\* A resource is read from its first page.
LEMMA FirstPage ==
  ASSUME Shape', ListsInOrder', job'.stage \in {"fetching"} \union (Stages \ Fetching),
         job'.stage = "fetching" =>
           job'.items = <<>> /\ job'.page = 1 /\ job'.first = listing'[Name']
  PROVE  ReadInOrder' /\ ReadWhole'
<1>1. CASE job'.stage \notin Fetching
  BY <1>1 DEF ReadInOrder, ReadWhole
<1>2. CASE job'.stage = "fetching"
  <2>1. Name' \in Names
    <3>1. JobShape => Name \in Names
      BY NameIsResource
    <3>2. JobShape' => Name' \in Names
      BY DEF JobShape, Name, Names, Resources
    <3> QED
      BY <3>2 DEF Shape
  <2>2. listing'[Name'] \in Seq(Items)
    BY <2>1 DEF ListsInOrder
  <2>3. /\ <<>> \in Seq(Items) /\ Len(<<>>) = 0 /\ DOMAIN <<>> = {} /\ Before(1) = 0
    BY ClientAssumption DEF Before
  <2>4. ReadInOrder'
    BY <1>2, <2>3 DEF ReadInOrder, Increasing
  <2>5. /\ Begins(job'.first, listing'[Name']) /\ Begins(job'.items, listing'[Name'])
        /\ Len(job'.items) = Before(job'.page) /\ job'.first \in Seq(Items)
    BY <1>2, <2>2, <2>3 DEF Begins
  <2>6. ReadWhole'
    BY <1>2, <2>5 DEF ReadWhole
  <2> QED
    BY <2>4, <2>6
<1> QED
  BY <1>1, <1>2

\* What was read stays in order, and whole.
LEMMA WalkStep ==
  ASSUME Shape, ListsInOrder, ReadInOrder, ReadWhole, [Next]_vars
  PROVE  ReadInOrder' /\ ReadWhole'
<1>1. ASSUME UNCHANGED <<job.at, job.items, job.page, job.first, job.shrunk, job.stage, listing>>
      PROVE  ReadInOrder' /\ ReadWhole'
  <2>1. Name' = Name /\ job'.items = job.items
    BY <1>1 DEF Name
  <2> QED
    BY <1>1, <2>1 DEF ReadInOrder, ReadWhole, Increasing
<1>2. Shape' /\ ListsInOrder'
  BY ShapeStep, ListsStep
<1>3. ASSUME job'.stage \in Stages \ Fetching
      PROVE  ReadInOrder' /\ ReadWhole'
  BY <1>3 DEF ReadInOrder, ReadWhole
<1>4. CASE Respond \/ RespondNotModified
  BY <1>4, ArrivalStep
<1>5. CASE RespondBusy \/ RespondError
  <2>1. Answered /\ job'.stage \in {"fetching", "failed"} /\ UNCHANGED <<job.items, job.page>>
    BY <1>5, AnswerEffect, RefusalEffect DEF Shape, Answer
  <2>2. CASE job'.stage = "failed"
    BY <1>3, <2>2 DEF Stages, Fetching
  <2>3. CASE job'.stage = "fetching"
    BY <1>1, <2>1, <2>3 DEF Answered, SameErrand
  <2> QED
    BY <2>1, <2>2, <2>3
<1>14. CASE OpenRaw
  <2>1. /\ job.stage = "archiving" /\ job'.stage = "writing raw"
        /\ UNCHANGED <<job.at, job.items, job.page, job.first, job.shrunk, listing>>
    BY <1>14, OpenRawEffect DEF OpenRaw, GoesTo, SameErrand
  <2>2. Name' = Name /\ job'.items = job.items /\ listing' = listing
    BY <2>1 DEF Name
  <2> QED
    BY <2>1, <2>2 DEF ReadInOrder, ReadWhole, Increasing, Fetching
<1>6. CASE Archive
  <2>1. job'.stage = "cloning" \/ (job'.stage = "fetching" /\ job'.items = <<>> /\ job'.page = 1
          /\ job'.first = listing[Resources[job'.at]])
    BY <1>6, ArchiveEffect
  <2>2. listing' = listing /\ Name' = Resources[job'.at]
    BY <1>6 DEF Archive, Name
  <2> QED
    BY <1>2, <2>1, <2>2, FirstPage DEF Stages, Fetching, Using
<1>7. CASE Prepare
  <2>1. Refuse \/ NothingToClone => job'.stage = "failed"
    BY DEF Refuse, NothingToClone, Fail, Shape, JobShape, JobIsRecord
  <2>2. ASSUME ~Refuse, ~NothingToClone
        PROVE  \E stage \in {"failed"} \union Using : \E commit : GoesTo(stage, commit)
    BY <1>7, <2>2, CloneEffect, ClonedEffect, CloneFailsEffect, CheckoutEffect, DescribeEffect,
       WriteManifestEffect, RecordEffect DEF Prepare, Using
  <2> QED
    BY <1>3, <2>1, <2>2 DEF GoesTo, Stages, Fetching, Using
<1>8. CASE \E name \in Edited : Comment(name)
  BY <1>8, CommentStep, IngestionAssumption DEF Names
<1>9. CASE \E name \in Edited : Delete(name)
  BY <1>9, DeleteStep, IngestionAssumption DEF Names
<1>10. CASE Push
  BY <1>1, <1>10 DEF Push
<1>11. CASE Start
  <2>1. /\ job'.stage = "fetching" /\ job'.items = <<>> /\ job'.page = 1
        /\ job'.first = listing["issue"] /\ listing' = listing /\ job'.at = 1
    BY <1>11, StartEffect
  <2>2. Name' = "issue"
    BY <2>1 DEF Name, Resources
  <2> QED
    BY <1>2, <2>1, <2>2, FirstPage
<1>12. CASE Crash
  BY <1>3, <1>12, CrashEffect DEF Stages, Fetching
<1>13. CASE UNCHANGED vars
  BY <1>1, <1>13 DEF vars
<1> QED
  BY <1>4, <1>5, <1>6, <1>7, <1>8, <1>9, <1>10, <1>11, <1>12, <1>13, <1>14 DEF Next,
     Answer, Store

-----------------------------------------------------------------------------
(***************************************************************************)
(* The theorems.                                                           *)
(***************************************************************************)
\* Before the first ingest the invariant holds.
LEMMA IInvInit == Init => IInv
<1> SUFFICES ASSUME Init
             PROVE  IInv
  OBVIOUS
<1>1. JobShape
  BY ClientAssumption DEF Init, Idle, JobShape, JobIsRecord, Stages, Over, Pages, Resources
<1>2. \A d \in Dirs : disk[d] = EmptyDir
  BY DEF Init
<1>3. DiskShape
  BY <1>2 DEF Init, EmptyDir, DiskShape
<1>4. head \in Commits
  BY IngestionAssumption DEF Init, Commits
<1>5. ListsInOrder
  <2>1. 1 \in Items
    BY IngestionAssumption DEF Items
  <2> QED
    BY <2>1 DEF Init, ListsInOrder, Increasing
<1>6. job.stage = "idle"
  BY DEF Init, Idle
<1>7. ReadInOrder /\ ReadWhole /\ SnapshotStages /\ ArchivedSoFar
  BY <1>6 DEF ReadInOrder, ReadWhole, SnapshotStages, ArchivedSoFar, Fetching, Using
<1>8. ManifestOfClone /\ ArchivesClean
  BY <1>2 DEF EmptyDir, ManifestOfClone, ArchivesClean
<1> QED
  BY <1>1, <1>3, <1>4, <1>5, <1>7, <1>8 DEF IInv, Shape

\* Every step keeps it.
LEMMA IInvNext == IInv /\ [Next]_vars => IInv'
<1> SUFFICES ASSUME IInv, [Next]_vars
             PROVE  IInv'
  OBVIOUS
<1> USE DEF IInv
<1>1. Shape'
  BY ShapeStep
<1>2. ListsInOrder'
  BY ListsStep
<1>3. ReadInOrder' /\ ReadWhole'
  BY WalkStep
<1>4. SnapshotStages' /\ ManifestOfClone'
  BY SnapshotStep
<1>5. ArchivesClean'
  BY CleanStep
<1>6. ArchivedSoFar'
  BY ArchivedStep
<1> QED
  BY <1>1, <1>2, <1>3, <1>4, <1>5, <1>6

\* The inductive invariant: how far the walk, the archive and the snapshot have come at
\* each stage of an ingest, whoever comments, deletes or pushes and whatever fails.
THEOREM IngestionInvariant == Spec => []IInv
  BY IInvInit, IInvNext, PTL DEF Spec

\* What was read up to the last page is what the property asks for.
LEMMA WalkFromInvariant == IInv => WalkIsComplete
<1> SUFFICES ASSUME IInv, job.stage = "archiving"
             PROVE  /\ Increasing(job.items)
                    /\ ~job.shrunk =>
                         /\ IsPrefix(SubSeq(job.first, 1,
                                            Min({Len(job.first), MaxPages * PerPage})),
                                     job.items)
                         /\ IsPrefix(job.items, listing[Name])
  BY DEF WalkIsComplete
<1> DEFINE list == listing[Name]
           all == MaxPages * PerPage
           m == Min({Len(job.first), all})
           wanted == SubSeq(job.first, 1, m)
<1>1. /\ job.items \in Seq(Items) /\ Increasing(job.items) /\ job.first \in Seq(Items)
      /\ list \in Seq(Items)
  BY NameIsResource DEF IInv, ReadInOrder, ReadWhole, Fetching, ListsInOrder, Shape
<1>2. CASE ~job.shrunk
  <2>1. /\ Begins(job.first, list) /\ Begins(job.items, list)
        /\ Len(job.first) <= Len(job.items) \/ all <= Len(job.items)
    BY <1>2 DEF IInv, ReadWhole, Fetching
  <2>2. all \in Nat
    BY ClientAssumption
  <2>3. m = IF Len(job.first) <= all THEN Len(job.first) ELSE all
    BY <1>1, <2>2 DEF Min
  <2> HIDE DEF list, all, m
  <2>4. /\ m \in Nat /\ m <= Len(job.first) /\ m <= Len(job.items)
        /\ Len(job.items) <= Len(list) /\ Len(job.items) \in Nat
    BY <1>1, <2>1, <2>2, <2>3 DEF Begins
  <2>5. wanted \in Seq(Items) /\ Len(wanted) = m /\ \A i \in 1..m : wanted[i] = job.first[i]
    BY <1>1, <2>4
  <2> HIDE DEF wanted
  <2>6. \A i \in 1..m : wanted[i] = job.items[i]
    BY <2>1, <2>4, <2>5 DEF Begins
  <2>7. SubSeq(wanted, 1, m) = SubSeq(job.items, 1, m)
    <3>1. /\ SubSeq(wanted, 1, m) \in Seq(Items) /\ Len(SubSeq(wanted, 1, m)) = m
          /\ \A i \in 1..m : SubSeq(wanted, 1, m)[i] = wanted[i]
      BY <2>4, <2>5
    <3>2. /\ SubSeq(job.items, 1, m) \in Seq(Items) /\ Len(SubSeq(job.items, 1, m)) = m
          /\ \A i \in 1..m : SubSeq(job.items, 1, m)[i] = job.items[i]
      BY <1>1, <2>4
    <3> QED
      BY <2>6, <3>1, <3>2, SeqEqual
  <2>8. \A i \in 1..Len(job.items) : job.items[i] = list[i]
    BY <2>1 DEF Begins
  <2>9. SubSeq(job.items, 1, Len(job.items)) = SubSeq(list, 1, Len(job.items))
    BY <1>1, <2>4, <2>8
  <2> QED
    BY <1>1, <2>4, <2>5, <2>7, <2>9 DEF IsPrefix, list, all, m, wanted
<1> QED
  BY <1>1, <1>2

\* A list that is read page by page comes with every item once, oldest first, and, if
\* nothing is deleted meanwhile, with all that was there when the reading began, up to
\* max_pages: for every page size, and also from pages that a 304 brings back
\* (paginate, _request).
THEOREM IngestionWalkIsComplete == Spec => []WalkIsComplete
  BY IngestionInvariant, WalkFromInvariant, PTL

\* load_snapshot accepts whole clones only, at the commit their manifest names
\* (create_snapshot, load_snapshot).
THEOREM IngestionLoadableIsWhole == Spec => []LoadableIsWhole
<1>1. IInv => LoadableIsWhole
  BY DEF IInv, ManifestOfClone, LoadableIsWhole, Loadable
<1> QED
  BY <1>1, IngestionInvariant, PTL

\* Past its fetches an ingest finds the result of each of them in raw/, redacted and
\* its own; no file there that is whole holds a token, and no clone is there without the
\* four of them (ingest_issue, RawArtifactWriter.write).
THEOREM IngestionArchivedBeforeUsed == Spec => []ArchivedBeforeUsed
<1>1. IInv => ArchivedBeforeUsed
  BY DEF IInv, ArchivesClean, ArchivedSoFar, Kept, Using, SnapshotStages, ArchivedBeforeUsed
<1> QED
  BY <1>1, IngestionInvariant, PTL
=============================================================================
