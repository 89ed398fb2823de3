------------------------------ MODULE Chunking ------------------------------
(***************************************************************************)
(* StructureAnalyzer and StructureAwareChunker of processing/: how a file  *)
(* is cut into the chunks that are indexed.  A Python file is the set of   *)
(* the definitions and compound statements of its top level, each with its *)
(* name, its lines and what its body holds; a Markdown file is a sequence  *)
(* with the level of the heading on each line, 0 for a line that is none.  *)
(***************************************************************************)
EXTENDS Naturals, Integers, Sequences, FiniteSets, FiniteSetsExt, SequencesExt

CONSTANTS MaxLines, HardSlice, NoParent

ASSUME ChunkingAssumption == MaxLines \in Nat \ {0} /\ HardSlice \in Nat \ {0}

\* _walk_python: definitions, and those in the bodies of classes; not what is in a
\* function, nor in an if or try block.  A parent is the qualified name of a class, the
\* empty one at the top; two classes may have one name.  No more levels are nested than
\* there are lines.
TopLevel == <<>>
Qualified(s) == Append(s.parent, s.node.name)
Defined(nodes, parent) == {[node |-> n, parent |-> parent] : n \in {m \in nodes : m.kind # "block"}}
Symbols(nodes, length) ==
  LET level[d \in 0..length] ==
        IF d = 0 THEN Defined(nodes, TopLevel)
        ELSE UNION {Defined(s.node.body, Qualified(s)) : s \in {t \in level[d - 1] : t.node.kind = "class"}}
  IN  UNION {level[d] : d \in 0..length}

Chunk(kind, from, to, parent) == [kind |-> kind, from |-> from, to |-> to, parent |-> parent]

\* A file without structure: one chunk, or slices where it is very long. An empty file
\* has one line.
WholeFile(length) ==
  {Chunk("file", k * HardSlice + 1, Min({(k + 1) * HardSlice, length}), NoParent) :
     k \in 0..((length - 1) \div HardSlice)}

\* Mutant: the header of a class goes up to its first method's first line.
HeaderEndOffByOne(class, methods) == Max({Min({m.from : m \in methods}), class.from})

HeaderEnd(class, methods) == Max({Min({m.from : m \in methods}) - 1, class.from})

\* A definition is one chunk; a class longer than MaxLines is a header and a chunk for
\* each definition whose parent has its name.
SymbolChunks(symbol, symbols) ==
  LET node    == symbol.node
      methods == {s.node : s \in {t \in symbols : t.parent = Qualified(symbol)}}
      header  == Chunk("class_header", node.from, HeaderEnd(node, methods), NoParent)
  IN  IF node.kind = "class" /\ node.to - node.from + 1 > MaxLines /\ methods # {}
      THEN {header} \union {Chunk("method", m.from, m.to, <<header.from, header.to>>) : m \in methods}
      ELSE {Chunk("symbol", node.from, node.to, NoParent)}

PythonChunks(nodes, length) ==
  LET symbols == Symbols(nodes, length)
      top     == {s \in symbols : s.parent = TopLevel}
      first   == Min({s.node.from : s \in top})
  IN  IF top = {} THEN WholeFile(length)
      ELSE (IF first > 1 THEN {Chunk("module_prelude", 1, first - 1, NoParent)} ELSE {})
             \union UNION {SymbolChunks(s, symbols) : s \in top}

-----------------------------------------------------------------------------
\* The open headings of this level and below end at a line; the rest stay open.
Close(state, level, end) ==
  LET closing == {h \in state.open : h.level >= level}
  IN  [open |-> state.open \ closing,
       closed |-> state.closed \union {Chunk("section", h.line, end, NoParent) : h \in closing}]

\* A heading ends the open ones of its level and below, and is open itself.
ReadLine(state, level, line) ==
  IF level = 0 THEN state
  ELSE LET rest == Close(state, level, line - 1)
       IN  [open |-> rest.open \union {[level |-> level, line |-> line]}, closed |-> rest.closed]

\* _analyze_markdown, line by line.
MarkdownSections(levels) ==
  LET read[i \in 0..Len(levels)] ==
        IF i = 0 THEN [open |-> {}, closed |-> {}] ELSE ReadLine(read[i - 1], levels[i], i)
  IN  Close(read[Len(levels)], 1, Len(levels)).closed

MarkdownChunks(levels) ==
  IF MarkdownSections(levels) = {} THEN WholeFile(Len(levels)) ELSE MarkdownSections(levels)
=============================================================================
