------------------------------ MODULE DiffRows ------------------------------
(***************************************************************************)
(* api/diff_render.py: a patch, line by line, becomes for each file the    *)
(* rows of a table, the current version on the left and the modified one   *)
(* on the right.  A line of a patch is its first character and its text; a *)
(* hunk's header also carries where it starts in both versions.  The first *)
(* line of a file is "diff", or "quoted" if git puts its paths in quotes.  *)
(***************************************************************************)
EXTENDS Naturals, Sequences, FiniteSets, FiniteSetsExt, SequencesExt

CONSTANTS
  Plain, Dashes, Pluses,   \* texts: "-- ..." after a "-" and "++ ..." after a "+"
                           \* look like the lines that name a file's two versions
  Blank

Wordings == {Plain, Dashes, Pluses}
Raw(sign, text, old, new) == [sign |-> sign, text |-> text, old |-> old, new |-> new]
Line(kind, old, new, text) == [kind |-> kind, old |-> old, new |-> new, text |-> text]
FileLines == [kind : {"hunk", "add", "del", "ctx"}, old : Nat \union {Blank},
              new : Nat \union {Blank}, text : Wordings]

ASSUME DiffAssumption == Blank \notin FileLines

NamesVersion(raw) == (raw.sign = "-" /\ raw.text = Dashes) \/ (raw.sign = "+" /\ raw.text = Pluses)

\* Mutant: what looks like the name of a version is left out of the hunks as well.
IsHeaderAnywhere(state, raw) == NamesVersion(raw)

\* The names of the versions come before a file's first hunk.
IsHeader(state, raw) == NamesVersion(raw) /\ state.lines = <<>>

\* A file is closed by the next one, and by the end of the patch.
Closed(state) == IF state.open THEN Append(state.files, state.lines) ELSE state.files

Numbered(state, kind, raw) ==
  LET inOld == kind # "add"
      inNew == kind # "del"
  IN  [state EXCEPT
         !.lines = Append(@, Line(kind, IF inOld THEN state.old ELSE Blank,
                                  IF inNew THEN state.new ELSE Blank, raw.text)),
         !.old = IF inOld THEN @ + 1 ELSE @,
         !.new = IF inNew THEN @ + 1 ELSE @]

Kinds == [s \in {"+", "-", " "} |-> IF s = "+" THEN "add" ELSE IF s = "-" THEN "del" ELSE "ctx"]

\* One line of _parse: what comes before the first file, or is of no known kind, is
\* left out.  A header with quoted paths is of none (_FILE_HEADER_RE): the file before it
\* stays the current one.
Read(state, raw) ==
  IF raw.sign = "diff"
  THEN [state EXCEPT !.files = Closed(state), !.lines = <<>>, !.open = TRUE]
  ELSE IF IsHeader(state, raw) THEN state
  ELSE IF raw.sign = "@"
  THEN [state EXCEPT !.old = raw.old, !.new = raw.new,
                     !.lines = Append(@, Line("hunk", Blank, Blank, raw.text))]
  ELSE IF state.open /\ raw.sign \in DOMAIN Kinds THEN Numbered(state, Kinds[raw.sign], raw)
  ELSE state

\* The lines of a patch, or of some of it, one after the other.
ReadAll(start, patch) ==
  LET read[i \in 0..Len(patch)] == IF i = 0 THEN start ELSE Read(read[i - 1], patch[i])
  IN  read[Len(patch)]

Parse(patch) ==
  Closed(ReadAll([files |-> <<>>, lines |-> <<>>, open |-> FALSE, old |-> 0, new |-> 0], patch))

-----------------------------------------------------------------------------
Row(old, new) == [old |-> old, new |-> new]

\* The lines taken out beside those put in, as long as there are both.
Beside(removed, added) ==
  [k \in 1..Max({Len(removed), Len(added)}) |->
     Row(IF k <= Len(removed) THEN removed[k] ELSE Blank, IF k <= Len(added) THEN added[k] ELSE Blank)]

\* _render_split_rows: a run of changes ends at the next line of another kind.
Place(state, line) ==
  IF line.kind = "del" THEN [state EXCEPT !.removed = Append(@, line)]
  ELSE IF line.kind = "add" THEN [state EXCEPT !.added = Append(@, line)]
  ELSE [rows |-> Append(state.rows \o Beside(state.removed, state.added),
                        IF line.kind = "hunk" THEN Row(Blank, Blank) ELSE Row(line, line)),
        removed |-> <<>>, added |-> <<>>]

Rows(lines) ==
  LET placed[n \in 0..Len(lines)] ==
        IF n = 0 THEN [rows |-> <<>>, removed |-> <<>>, added |-> <<>>]
        ELSE Place(placed[n - 1], lines[n])
      last == placed[Len(lines)]
  IN  last.rows \o Beside(last.removed, last.added)

-----------------------------------------------------------------------------
(***************************************************************************)
(* The patch git writes.  A change of a file is a script, the lines kept,  *)
(* taken out and put in, of which some kept ones lie outside every hunk;   *)
(* git quotes a path with characters that are not ASCII (core.quotePath).  *)
(***************************************************************************)
\* The lines one version does not have, and the number of the last one it has.
Lacking == [old |-> "+", new |-> "-"]
Number(script, i, side) == Cardinality({j \in 1..i : script[j].sign # Lacking[side]})

\* A hunk starts at the next line of a version, or after the last one if it has none of it.
Hunk(change, i) ==
  LET rest == {j \in i..Len(change.script) : \A k \in i..j : k \notin change.outside}
      start(side) == Number(change.script, i - 1, side)
                     + (IF \A j \in rest : change.script[j].sign = Lacking[side] THEN 0 ELSE 1)
  IN  Raw("@", Plain, start("old"), start("new"))

\* What is written of one line of the script.
Written(change, i) ==
  IF i \in change.outside THEN <<>>
  ELSE (IF i = 1 \/ i - 1 \in change.outside THEN <<Hunk(change, i)>> ELSE <<>>)
       \o <<Raw(change.script[i].sign, change.script[i].text, 0, 0)>>

Openings == {"diff", "quoted"}
FileHeader(opening) ==
  <<Raw(opening, Plain, 0, 0), Raw("index", Plain, 0, 0),
    Raw("-", Dashes, 0, 0), Raw("+", Pluses, 0, 0)>>

GitDiff(change) ==
  FileHeader(change.opening) \o FlattenSeq([i \in DOMAIN change.script |-> Written(change, i)])

Patch(changes) ==
  <<Raw("From", Plain, 0, 0), Raw("-", Plain, 0, 0)>>
  \o FlattenSeq([i \in DOMAIN changes |-> GitDiff(changes[i])])
=============================================================================
