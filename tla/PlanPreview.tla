---------------------------- MODULE PlanPreview ----------------------------
(***************************************************************************)
(* What every saved plan promises its reader: while it is being generated, *)
(* or after that failed or was cut short, the last complete preview stays  *)
(* as it was; only a generation that succeeds replaces it, all of it at    *)
(* once, and never by evidence from another commit.                        *)
(***************************************************************************)
CONSTANTS Ids, Editions,  \* the plans, and what tells one generation's text from another's
          Commits, None

VARIABLES
  phase,    \* of each plan: "absent", "working" or "settled"
  preview   \* of each plan: the complete preview shown, if any

Init == /\ phase = [p \in Ids |-> "absent"]
        /\ preview = [p \in Ids |-> None]

Stays(p) == preview'[p] = preview[p]

Request(p) == phase[p] \in {"absent", "settled"} /\ phase'[p] = "working" /\ Stays(p)

Publish(p) ==
  /\ phase[p] = "working" /\ phase'[p] = "settled"
  /\ \E edition \in Editions, c \in Commits :
       /\ preview'[p] = [result |-> edition, sources |-> edition, commit |-> c]
       /\ preview[p] # None => preview[p].commit = c /\ preview[p].result # edition

\* Failed, or interrupted by a restart.
GiveUp(p) == phase[p] = "working" /\ phase'[p] = "settled" /\ Stays(p)

\* Each plan for itself, but one restart gives up on many.
Next == \A p \in Ids :
  \/ Request(p) \/ Publish(p) \/ GiveUp(p)
  \/ phase'[p] = phase[p] /\ Stays(p)

Spec == Init /\ [][Next]_<<phase, preview>>
=============================================================================
