----------------------------- MODULE MCDrafting -----------------------------
(* Two runs on one clone of four files: one file of repeated lines, one with *)
(* carriage returns, an ignored name and a name that leads out.              *)
EXTENDS DraftingProperties, TLC

MCPaths == {"a", "crlf", "new", "ignored", "bin", "../x"}
LF(lines) == [eol |-> "lf", lines |-> lines]
MCBase == [p \in MCPaths |-> IF p = "a" THEN LF(<<"x", "y", "y">>)
                             ELSE IF p = "bin" THEN LF(<<"x">>)
                             ELSE IF p = "crlf" THEN [eol |-> "crlf", lines |-> <<"x">>]
                             ELSE Missing]

Edit(p, old, new) == [path |-> p, old |-> old, new |-> new]
Plan(edits) == [message |-> "plain", edits |-> edits]
MCPlans ==
  {Plan(<<Edit("a", "x", "z"), Edit("new", "", "x"), Edit("a", "z", "s")>>),
   Plan(<<Edit("a", "x", "z"), Edit("ignored", "", "x")>>),
   Plan(<<Edit("ignored", "", "x")>>),
   Plan(<<Edit("a", "x", ""), Edit("a", "y", "z")>>),
   Plan(<<Edit("new", "", "z"), Edit("../x", "", "x")>>),
   Plan(<<Edit("bin", "x", "z")>>),
   Plan(<<Edit("crlf", "x", "z")>>), Plan(<<Edit("a", "x", "nul")>>),
   [message |-> "pathlike", edits |-> <<Edit("a", "x", "z")>>],
   Plan(<<Edit("a", "x", "z"), Edit("new", "", "x")>>)}

\* The second run is a pipeline on a plan that fits.
MCPlansOf == [r \in Runs |-> IF r = "r1" THEN MCPlans
                             ELSE {Plan(<<Edit("a", "x", "z"), Edit("new", "", "x")>>)}]
MCModes == {[r \in Runs |-> IF r = "r1" THEN m ELSE "file"] : m \in {"multi", "file"}}
MCProvider == [r \in Runs |-> IF r = "r1" THEN "openai" ELSE "fake"]
MCAllowed == [r \in Runs |-> IF r = "r1" THEN {} ELSE {"a", "new"}]
MCEvidence == [r \in Runs |-> IF r = "r1" THEN {"a", "crlf", "ignored", "bin"} ELSE {}]
=============================================================================
