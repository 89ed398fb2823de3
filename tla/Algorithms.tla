----------------------------- MODULE Algorithms -----------------------------
(***************************************************************************)
(* The pure functions of the pipeline, each applied to any of the inputs   *)
(* it is given: the pages of the issue list, the chunks of a file, the     *)
(* rows of a patch and the requests of the embedder.  A behaviour picks an *)
(* input and applies the function to it.                                   *)
(***************************************************************************)
EXTENDS IssuePages, Chunking, DiffRows, Pooling

CONSTANTS
  IssueLists, PythonFiles, MarkdownFiles, Changes, Texts,   \* the inputs
  Pending

\* All the nodes of a file, those in the bodies of others too: no more levels are nested
\* than there are lines.
Nodes(nodes, length) ==
  LET level[d \in 0..length] ==
        IF d = 0 THEN nodes ELSE UNION {n.body : n \in level[d - 1]}
  IN  UNION {level[d] : d \in 0..length}

\* The statements of a body follow each other, on lines of their own.
InOrder(nodes) == \A m, n \in nodes : m # n => m.to < n.from \/ n.to < m.from

\* What Python's grammar makes of a file: a compound statement starts below the header
\* of the one it is in, and ends in it.
WellNested(nodes, length) ==
  /\ length \in Nat \ {0}
  /\ InOrder(nodes)
  /\ \A n \in Nodes(nodes, length) :
       /\ n.from \in Nat \ {0} /\ n.to \in Nat /\ n.from <= n.to
       /\ InOrder(n.body)
       /\ \A m \in n.body : n.from < m.from /\ m.to <= n.to

\* A change keeps, takes out and puts in lines; only kept ones lie outside of every hunk.
ChangesOfFiles ==
  {change \in [script : Seq([sign : DOMAIN Kinds, text : Wordings]), outside : SUBSET Nat,
               opening : Openings] :
     \A i \in change.outside : i \in DOMAIN change.script /\ change.script[i].sign = " "}

ASSUME AlgorithmsAssumption ==
  /\ IssueLists \subseteq Seq(BOOLEAN)
  /\ \A file \in PythonFiles : WellNested(file.nodes, file.length)
  /\ MarkdownFiles \subseteq Seq(Nat) \ {<<>>}
  /\ Changes \subseteq Seq(ChangesOfFiles)
  /\ Texts \subseteq Seq(Nat)

VARIABLES task, input, output

AlgorithmsInit ==
  /\ \/ task = "pages" /\ input \in IssueLists
     \/ task = "python" /\ input \in PythonFiles
     \/ task = "markdown" /\ input \in MarkdownFiles
     \/ task = "diff" /\ input \in Changes
     \/ task = "embed" /\ input \in Texts
  /\ output = Pending

Apply(name, result(_)) ==
  /\ task = name /\ output = Pending
  /\ output' = result(input)
  /\ UNCHANGED <<task, input>>

ReadIssues    == Apply("pages", Screens)
ChunkPython   == Apply("python", LAMBDA file : PythonChunks(file.nodes, file.length))
ChunkMarkdown == Apply("markdown", MarkdownChunks)
RenderDiff    == Apply("diff", LAMBDA changes :
                   LET files == Parse(Patch(changes)) IN [i \in DOMAIN files |-> Rows(files[i])])
Embed         == Apply("embed", Requests)

AlgorithmsNext == ReadIssues \/ ChunkPython \/ ChunkMarkdown \/ RenderDiff \/ Embed

AlgorithmsSpec == AlgorithmsInit /\ [][AlgorithmsNext]_<<task, input, output>>
=============================================================================
