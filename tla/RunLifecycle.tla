---------------------------- MODULE RunLifecycle ----------------------------
(***************************************************************************)
(* What an investigation promises the people who start and review it: a    *)
(* run works, may pause for a review a bounded number of times, and then   *)
(* ends, once, in an outcome that follows from the last review.            *)
(***************************************************************************)
EXTENDS Naturals

CONSTANT MaxReviews   \* one more than the revisions a run may take

VARIABLES
  phase,     \* "absent", "working", "waiting" for a review, "ended" or "broken"
  verdict,   \* the last review's decision, "none" before the first
  reviews,   \* how many reviews the run has taken
  outcome    \* the terminal state, "none" until the run has ended

lifecycleVars == <<phase, verdict, reviews, outcome>>

\* The outcomes a last review allows.  A review that asks for a revision the
\* run can no longer deliver leaves the result to a human.
OutcomesAfter(v) ==
  CASE v = "none"    -> {"PATCH_REJECTED", "INVESTIGATION_INCONCLUSIVE"}
    [] v = "approve" -> {"PATCH_VALIDATED", "PATCH_REQUIRES_HUMAN_REVIEW"}
    [] v = "reject"  -> {"PATCH_REJECTED"}
    [] v = "revise"  -> {"PATCH_REQUIRES_HUMAN_REVIEW"}

Init == phase = "absent" /\ verdict = "none" /\ reviews = 0 /\ outcome = "none"

Begin ==
  /\ phase = "absent"
  /\ phase' = "working"
  /\ UNCHANGED <<verdict, reviews, outcome>>

\* Only an unreviewed run, or one asked to revise, may ask for a review.
Pause ==
  /\ phase = "working"
  /\ verdict \in {"none", "revise"}
  /\ phase' = "waiting"
  /\ UNCHANGED <<verdict, reviews, outcome>>

Review ==
  /\ phase = "waiting"
  /\ reviews < MaxReviews
  /\ verdict' \in {"approve", "reject", "revise"}
  /\ reviews' = reviews + 1
  /\ phase' = "working"
  /\ UNCHANGED outcome

End ==
  /\ phase = "working"
  /\ outcome' \in OutcomesAfter(verdict)
  /\ phase' = "ended"
  /\ UNCHANGED <<verdict, reviews>>

\* What a node calls may raise, and a server may die, while a run is worked on;
\* of such a run nothing more is promised.
Break ==
  /\ phase = "working"
  /\ phase' = "broken"
  /\ verdict' = "none" /\ reviews' = 0 /\ outcome' = "none"

Next == Begin \/ Pause \/ Review \/ End \/ Break

\* A working run always gets somewhere; a review may never come.
Spec == Init /\ [][Next]_lifecycleVars /\ WF_lifecycleVars(Pause \/ End)
=============================================================================
