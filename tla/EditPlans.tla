----------------------------- MODULE EditPlans ------------------------------
(***************************************************************************)
(* What an edit plan does to a checked-out commit (patching/worktree.py)   *)
(* and what the checks of patching/validate.py say of the patch it makes.  *)
(* Pure operators; module Drafting runs them.                              *)
(*                                                                         *)
(* A file is the lines it holds and how they end; Missing is no file.  An  *)
(* edit's old and new are one line each, or NoText: what is told apart is  *)
(* whether old occurs once, never, or more than once.                      *)
(***************************************************************************)
EXTENDS Naturals, SequencesExt

CONSTANTS
  Paths,       \* the paths edits may name
  Lines,       \* the lines files are made of
  Base,        \* the files of the commit the snapshot was taken at
  UnsafePaths, \* absolute, or with a ".." in them
  Unreadable,  \* paths whose content is not UTF-8, or that are directories
  Ignored,     \* paths the repository's .gitignore names
  SecretLines, \* lines that match a pattern of _SECRET_PATTERNS
  BinaryPaths, \* paths that .gitattributes says are binary
  BinaryLines, \* lines with a NUL, or with the text "GIT binary patch", in them
  Missing, NoText,
  MaxFiles     \* _MAX_FILES_BEFORE_REVIEW; _MAX_CHANGED_LINES_... acts alike

Texts == Lines \union {NoText}
File == [eol : {"lf", "crlf"}, lines : Seq(Lines)]
Trees == [Paths -> File \union {Missing}]

ASSUME BaseAssumption ==
  /\ Base \in Trees
  /\ NoText \notin Lines
  /\ Missing \notin File
  /\ UnsafePaths \union Unreadable \union Ignored \union BinaryPaths \subseteq Paths
  /\ \A p \in Unreadable : Base[p] # Missing
  /\ \A p \in UnsafePaths : Base[p] = Missing

Edits == [path : Paths, old : Texts, new : Texts]

\* A message that starts with "/" or has a ".." component is taken for a path by
\* SafeGit's check of the arguments: git commit -m is refused.
Messages == {"plain", "pathlike"}

EditPlan == [edits : Seq(Edits), message : Messages]

-----------------------------------------------------------------------------
LinesOf(text) == IF text = NoText THEN <<>> ELSE <<text>>

Occurrences(file, line) == {i \in DOMAIN file.lines : file.lines[i] = line}

\* _apply_one: what becomes of the tree, or the reason it raises.  "edit" is
\* EditApplicationError, which the graph catches; "read" is any other exception.
EditFails(tree, edit) ==
  LET file == tree[edit.path]
  IN  IF edit.path \in UnsafePaths THEN "edit"
      ELSE IF file = Missing THEN IF edit.old = NoText THEN "no" ELSE "edit"
      ELSE IF edit.path \in Unreadable THEN "read"
      ELSE IF edit.old = NoText \/ ~ \E i \in Occurrences(file, edit.old) :
                                        Occurrences(file, edit.old) = {i}
           THEN "edit" ELSE "no"

\* A file is read with its line ends translated and written with plain ones.
Applied(tree, edit) ==
  LET file == tree[edit.path]
      i    == CHOOSE k \in Occurrences(file, edit.old) : TRUE
  IN  [tree EXCEPT ![edit.path] =
         IF file = Missing THEN [eol |-> "lf", lines |-> LinesOf(edit.new)]
         ELSE [eol |-> "lf",
               lines |-> SubSeq(file.lines, 1, i - 1) \o LinesOf(edit.new)
                           \o SubSeq(file.lines, i + 1, Len(file.lines))]]

\* What has become of the commit after one more edit; nothing more after one that raises.
AfterEdit(done, edit) ==
  IF done.failed # "no" THEN done
  ELSE IF EditFails(done.tree, edit) # "no"
       THEN [done EXCEPT !.failed = EditFails(done.tree, edit)]
       ELSE [done EXCEPT !.tree = Applied(done.tree, edit)]

\* The edits in the plan's order, by how many of them were made.
EditedUpTo(edits) ==
  LET done[n \in 0..Len(edits)] ==
        IF n = 0 THEN [tree |-> Base, failed |-> "no"] ELSE AfterEdit(done[n - 1], edits[n])
  IN  done

Edited(edits) == EditedUpTo(edits)[Len(edits)]

\* git add -A passes over a new file that is ignored.
Committed(tree) ==
  [p \in Paths |-> IF Base[p] = Missing /\ p \in Ignored THEN Missing ELSE tree[p]]

Changed(tree) == {p \in Paths : tree[p] # Base[p]}

-----------------------------------------------------------------------------
\* git apply finds the lines a patch removes only if they end as in the commit:
\* the text of the patch, decoded by subprocess, has lost its carriage returns.
Applies(tree) == \A p \in Changed(tree) : Base[p] = Missing \/ Base[p].eol = "lf"

\* The lines a file has more of than before; all of them where its ends changed.
AddedLines(tree) ==
  {line \in Lines : \E p \in Changed(tree) :
     LET had == IF Base[p] = Missing \/ Base[p].eol # tree[p].eol THEN {}
                ELSE Occurrences(Base[p], line)
     IN  Cardinality(Occurrences(tree[p], line)) > Cardinality(had)}

\* Where git writes a file as a binary patch, or what it writes looks like one: a
\* NUL does in either version of the file, the text if it is near a change.
Binary(tree) ==
  \E p \in Changed(tree) :
    \/ p \in BinaryPaths
    \/ \E version \in {Base[p], tree[p]} \ {Missing} :
         ToSet(version.lines) \intersect BinaryLines # {}

\* effective_scope: what the caller allowed, else where the evidence lies, else
\* everything.
EffectiveScope(allowed, evidence) ==
  IF allowed # {} THEN allowed ELSE IF evidence # {} THEN evidence ELSE Paths

\* Mutant: one file inside the scope will do.
VerdictLenient(tree, scope) ==
  IF ~Applies(tree) \/ Changed(tree) \intersect scope = {} \/ Binary(tree)
     \/ AddedLines(tree) \intersect SecretLines # {} THEN "rejected"
  ELSE IF Cardinality(Changed(tree)) > MaxFiles THEN "review" ELSE "validated"

\* validate_patch: any failed check rejects, a large patch only warns.  A patch
\* that git commit accepted is never empty.
Verdict(tree, scope) ==
  IF ~Applies(tree) \/ ~(Changed(tree) \subseteq scope) \/ Binary(tree)
     \/ AddedLines(tree) \intersect SecretLines # {} THEN "rejected"
  ELSE IF Cardinality(Changed(tree)) > MaxFiles THEN "review" ELSE "validated"
=============================================================================
