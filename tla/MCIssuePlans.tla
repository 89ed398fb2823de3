---------------------------- MODULE MCIssuePlans ----------------------------
(* Instances of IssuePlans for TLC: nothing tells requests, users, issues or *)
(* keys apart, so runs that check safety only explore one naming of each.    *)
EXTENDS IssuePlansProperties, TLC

NameSymmetry == Permutations(Requests) \union Permutations(Users)
                  \union Permutations(Issues) \union Permutations(Keys)
=============================================================================
