------------------------ MODULE AlgorithmsProperties ------------------------
(* What the functions promise of every input, stated without their steps. *)
EXTENDS Algorithms

Done(name) == task = name /\ output # Pending

Issues(list) == {i \in DOMAIN list : list[i]}

\* Following Next shows every issue once and in order, at most Screen of them at a time;
\* a screen shows fewer only when the list ends or when the entries on more than Reach - 1
\* pages hold no more, for pull requests crowd them out. Following Previous from a screen
\* shows all there is between its start and that screen, and never goes past a screen
\* of issues (list_issue_page).
PagesShowEveryIssue ==
  Done("pages") =>
    /\ UNION {output[k].shown : k \in DOMAIN output} = Issues(input)
    /\ \A j, k \in DOMAIN output : j < k =>
         \A a \in output[j].shown, b \in output[k].shown : a < b
    /\ \A k \in DOMAIN output :
         LET shown == output[k].shown
             start == output[k].cursor
         IN  \/ Cardinality(shown) = Screen
             \/ /\ Cardinality(shown) < Screen
                /\ \E last \in 0..Len(input) :
                     /\ last = Len(input) \/ last > start + (Reach - 1) * PerPage
                     /\ shown = IssuesIn(input, start + 1, last)
    /\ \A k \in DOMAIN output :
         LET back  == output[k].previous
             start == output[k].cursor
         IN  IF back = NoCursor THEN IssuesIn(input, 1, start) = {}
             ELSE /\ back < start /\ Cardinality(IssuesIn(input, back + 1, start)) <= Screen
                  /\ IssuesIn(input, back + 1, start) \subseteq OnScreen(input, back)

-----------------------------------------------------------------------------
Lines(c) == c.from..c.to
Identified(chunks) == \A c, d \in chunks : <<c.from, c.to>> = <<d.from, d.to>> => c = d

Functions(nodes, length) == {f \in Nodes(nodes, length) : f.kind = "function"}

\* The classes of the top level are told apart by their names.
NamedApart(top) ==
  \A m, n \in {t \in top : t.kind = "class"} : m.name = n.name => m = n

\* In a Python file with definitions no chunk cuts a function. If no two of its classes
\* have one name, chunks are told apart by their lines, each line is in one of them at
\* most, and those in none come after the first definition and outside all, or after the
\* first method of a split class. In a Markdown file chunks are the sections, each up to
\* the next heading of its level or above (StructureAwareChunker, StructureAnalyzer).
ChunksFollowStructure ==
  /\ Done("python") =>
       LET top     == {n \in input.nodes : n.kind # "block"}
           first   == Min({n.from : n \in top})
           covered == UNION {Lines(c) : c \in output}
       IN  /\ top # {} =>
                \A f \in Functions(input.nodes, input.length), c \in output :
                  Lines(f) \subseteq Lines(c) \/ Lines(f) \intersect Lines(c) = {}
           /\ NamedApart(top) => Identified(output)
           /\ NamedApart(top) /\ top # {} =>
                /\ \A c, d \in output : c # d => Lines(c) \intersect Lines(d) = {}
                /\ \A line \in 1..input.length \ covered :
                     /\ line > first
                     /\ \A n \in top : line \in Lines(n) =>
                          /\ n.to - n.from >= MaxLines
                          /\ \E m \in n.body : m.kind # "block" /\ m.to < line
                          /\ \A m \in n.body : m.kind # "block" => line \notin Lines(m)
  /\ Done("markdown") =>
       LET headings == {i \in DOMAIN input : input[i] > 0}
           until(i) == Min({j - 1 : j \in {h \in headings : h > i /\ input[h] <= input[i]}}
                           \union {Len(input)})
       IN  /\ Identified(output)
           /\ headings # {} => output = {Chunk("section", i, until(i), NoParent) : i \in headings}
           /\ headings = {} => UNION {Lines(c) : c \in output} = DOMAIN input

-----------------------------------------------------------------------------
\* The lines of a version in the hunks of a change, and the rows that show one.
InHunks(change, side) ==
  {i \in DOMAIN change.script \ change.outside : change.script[i].sign # Lacking[side]}
Cells(rows, side) == {k \in DOMAIN rows : rows[k][side] # Blank}

\* Which table a file whose path is not quoted has: quoted ones have none.
TableOf(changes, f) == Cardinality({g \in 1..f : changes[g].opening = "diff"})

\* Whether none but a file's own lines are read as its: those of a file whose path is
\* quoted go to the one before.
OnItsOwn(changes, f) ==
  changes[f].opening = "diff" /\ (f = Len(changes) \/ changes[f + 1].opening = "diff")

\* Each file whose path git does not quote has its table, and no other file has one. If
\* the next file's path is not quoted either, on the left stand the lines of the current
\* version, on the right those of the modified one, each once, in order and with its
\* number; a line that was kept stands beside itself, and one that was changed never
\* beside a kept one (_parse, _render_split_rows).
DiffShowsBothVersions ==
  Done("diff") =>
    /\ Len(output) = TableOf(input, Len(input))
    /\ \A f \in {g \in DOMAIN input : OnItsOwn(input, g)} :
         LET rows   == output[TableOf(input, f)]
             script == input[f].script
         IN  /\ \A side \in {"old", "new"} :
                  /\ {<<rows[k][side][side], rows[k][side].text>> : k \in Cells(rows, side)}
                       = {<<Number(script, i, side), script[i].text>> : i \in InHunks(input[f], side)}
                  /\ \A j, k \in Cells(rows, side) :
                       j < k => rows[j][side][side] < rows[k][side][side]
             /\ \A k \in Cells(rows, "old") \intersect Cells(rows, "new") :
                  rows[k].old = rows[k].new \/ (rows[k].old.kind = "del" /\ rows[k].new.kind = "add")

-----------------------------------------------------------------------------
TokensIn(batch) ==
  LET sum[n \in 0..Len(batch)] == IF n = 0 THEN 0 ELSE sum[n - 1] + batch[n].tokens
  IN  sum[Len(batch)]

\* Every request is within what the provider takes, and each token of each text is
\* embedded in just one segment of that text, which holds no others: the segments'
\* weights are the tokens they stand for (OpenAIEmbedder.embed_batch).
EveryTokenIsPooledOnce ==
  Done("embed") =>
    /\ \A r \in DOMAIN output :
         /\ output[r] # <<>> /\ Len(output[r]) <= BatchSize
         /\ TokensIn(output[r]) <= BatchTokens
         /\ \A k \in DOMAIN output[r] : output[r][k].tokens \in 1..InputTokens
    /\ \A i \in DOMAIN input :
         LET pooled == PooledFrom(output, i)
             held(p) == output[p[1]][p[2]].from + 1
                          ..output[p[1]][p[2]].from + output[p[1]][p[2]].tokens
         IN  /\ \A t \in 1..TokensOf(input[i]) : \E p \in pooled : {q \in pooled : t \in held(q)} = {p}
             /\ \A p \in pooled : held(p) \subseteq 1..TokensOf(input[i])
=============================================================================
