---------------------------- MODULE MCPublishing ----------------------------
(* Instances of Publishing for TLC: calls are interchangeable, and so are    *)
(* the runs of one kind.                                                     *)
EXTENDS PublishingProperties, TLC

CallSymmetry == Permutations(Requests)
=============================================================================
