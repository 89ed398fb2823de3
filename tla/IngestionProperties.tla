------------------------ MODULE IngestionProperties ------------------------
(* What an ingest promises. *)
EXTENDS Ingestion

\* The variables keep to their shapes.
TypeOK ==
  /\ listing \in [Names -> Seq(Items)] /\ head \in Commits /\ jobs \in 0..MaxJobs
  /\ \A n \in Names, p \in Pages : cache[n, p] # None => cache[n, p].items \in Seq(Items)
  /\ job.dir \in Dirs \union {None} /\ job.at \in 1..Len(Resources) /\ job.page \in 1..MaxPages
  /\ job.attempt \in 1..(MaxRetries + 1) /\ job.commit \in Commits \union {None}
  /\ \A d \in Dirs :
       /\ DOMAIN disk[d].raw \subseteq Names
       /\ \A n \in DOMAIN disk[d].raw : disk[d].raw[n] \in Seq(Items \union {Redacted}) \union {Torn}
       /\ disk[d].repo \in {"absent", "partial", "whole"}
       /\ disk[d].manifest \in Commits \union {None, Torn}

Increasing(s) == \A i, j \in DOMAIN s : i < j => s[i] < s[j]

\* A list that is read page by page comes with every item once, oldest first; if
\* nothing is deleted meanwhile, with all that was there when the reading began, up
\* to max_pages, and no item after one it lacks: also when pages are remembered from
\* an earlier ingest and a 304 has no Link header (paginate, _request).
WalkIsComplete ==
  job.stage = "archiving" =>
    /\ Increasing(job.items)
    /\ ~job.shrunk =>
         /\ IsPrefix(SubSeq(job.first, 1, Min({Len(job.first), MaxPages * PerPage})), job.items)
         /\ IsPrefix(job.items, listing[Name])

\* What load_snapshot accepts is a whole clone, at the commit its manifest names, no
\* matter where an ingest was stopped and what was tried in the directory since
\* (create_snapshot, load_snapshot).
LoadableIsWhole ==
  \A d \in Dirs : Loadable(d) =>
    disk[d].repo = "whole" /\ disk[d].tree = disk[d].manifest

\* The stages that use what was fetched.
Using == {"cloning", "cloned", "checking out", "describing", "writing", "recording",
          "writing record", "returned"}

\* "Archived to artifacts/<run_id>/raw/ before it is used" (ingest_issue), as far as
\* what the fetches return goes: whenever the ingest is past them, raw/ holds each of
\* their results, redacted and of this ingest, whatever earlier ingests left there. A
\* file that is whole holds no token, and no clone is there without the four files.
ArchivedBeforeUsed ==
  /\ job.stage \in Using =>
       \A n \in Names : n \in DOMAIN disk[job.dir].raw
                         /\ disk[job.dir].raw[n] = Redact(job.fetched[n])
  /\ job.stage = "returned" => disk[job.dir].recorded = disk[job.dir].manifest
  /\ \A d \in Dirs :
       /\ disk[d].repo # "absent" => DOMAIN disk[d].raw = Names
       /\ \A n \in DOMAIN disk[d].raw :
            disk[d].raw[n] # Torn => \A i \in Secret : i \notin Range(disk[d].raw[n])

\* "Archive every fetched payload, unmodified except for secret redaction"
\* (raw_store.py): refuted, for the timeline is archived after it was filtered.
EveryPayloadIsArchived ==
  [][Archive => disk'[job.dir].raw[Name] = Redact(job.items)]_vars

\* An ingest that is not interrupted ends: GitHub is not asked for ever, however
\* often it refuses and however fast a discussion grows (_request, paginate).
IngestEnds == job.stage = "fetching" ~> Over
=============================================================================
