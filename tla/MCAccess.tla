------------------------------ MODULE MCAccess ------------------------------
(* One account and its key, the shared key, and servers with and without one;*)
(* three requests from two hosts, of which two fit in a host's window.       *)
EXTENDS AccessProperties, TLC

MCSends ==
  {[host |-> "h1", token |-> t, body |-> "gatekeeper"] : t \in {"u1", "shared"}}
  \union {[host |-> "h2", token |-> "shared", body |-> "gatekeeper"]}
RequestSymmetry == Permutations(Requests)
=============================================================================
