---------------------------- MODULE MCAlgorithms ----------------------------
(* Lists of up to nine entries, three to a page, of which two pages are read; *)
(* files of five lines; patches of up to three files; up to four texts.       *)
EXTENDS AlgorithmsProperties

Upto(S, n) == UNION {[1..k -> S] : k \in 0..n}

MCIssueLists == Upto(BOOLEAN, 9)
MCMarkdownFiles == Upto(0..2, 5) \ {<<>>}
MCTexts == Upto(0..5, 4)

\* Up to two nodes, the one after the other.
Apart(nodes) ==
  {{}} \union {{n} : n \in nodes}
  \union {{m, n} : <<m, n>> \in {p \in nodes \X nodes : p[1].to < p[2].from}}

Node(kind, name, from, to, body) ==
  [kind |-> kind, name |-> name, from |-> from, to |-> to, body |-> body]
Spans(first, last) == {s \in (first..last) \X (first..last) : s[1] <= s[2]}

\* Definitions and statements without structure, and blocks with a function in them.
Simple(first, last) ==
  {Node(k, "a", s[1], s[2], {}) : k \in {"function", "class", "block"}, s \in Spans(first, last)}
  \union {Node("block", "a", s[1], s[2], {Node("function", "a", s[1] + 1, s[2], {})}) :
            s \in {t \in Spans(first, last) : t[1] < t[2]}}
\* Two classes may have one name or two.
Classes(first, last) ==
  UNION {{Node("class", name, s[1], s[2], body) :
            name \in {"a", "b"}, body \in Apart(Simple(s[1] + 1, s[2]))} :
           s \in Spans(first, last)}
MCPythonFiles ==
  {[nodes |-> nodes, length |-> 5] : nodes \in Apart(Simple(1, 5) \union Classes(1, 5))}

Scripts(texts, n) == Upto([sign : {"+", "-", " "}, text : texts], n)
Change(script, outside, opening) == [script |-> script, outside |-> outside, opening |-> opening]
Kept(script) == {i \in DOMAIN script : script[i].sign = " "}
MCChanges ==
  {<<Change(s, {}, "diff")>> : s \in Scripts({Plain, Dashes, Pluses}, 3)}
  \union UNION {{<<Change(s, outside, "diff")>> : outside \in SUBSET Kept(s)} :
                  s \in Scripts({Plain}, 5)}
  \union {<<Change(s, {}, p), Change(t, {}, q)>> :
            s, t \in Scripts({Plain, Dashes}, 2), p, q \in Openings}
  \union [1..3 -> {Change(s, {}, q) : s \in Scripts({Plain}, 1), q \in Openings}]
=============================================================================
