--------------------------- MODULE MCInvestigation ---------------------------
(* Instances of Investigation for TLC: reviewers are interchangeable, so the *)
(* runs that check invariants only may explore one order of their names.     *)
EXTENDS InvestigationProperties, TLC

ReviewerSymmetry == Permutations(Reviewers)
==============================================================================
