------------------------ MODULE AuditChainProperties ------------------------
(***************************************************************************)
(* What the audit log promises: it does not cry wolf, it does not vouch    *)
(* for a row that was tampered with, and a trail explains the state of the *)
(* run it is about.                                                        *)
(***************************************************************************)
EXTENDS AuditChain

Stages == {"idle", "admitted", "updated", "gate", "deciding", "decided", "running",
           "finished", "logging", "logged", "done", "failed"}

AuditTypeOK ==
  /\ checkpoint \in Checkpoints /\ copy \in [Drivers -> Checkpoints]
  /\ table \in [Tables -> SUBSET Rows]
  /\ issued \in [Tables -> SUBSET Rows]
  /\ pc \in [Drivers -> Stages]
  /\ seen \in [Drivers -> Places]
  /\ ruling \in Rulings
  /\ trail \in [stage : {"none", "run", "listed", "verified", "done"},
                ruling : Rulings, decisions : SUBSET Deciders, valid : BOOLEAN]
  /\ edits \in 0..MaxEdits

\* "A broken chain later means someone edited history" (store.py): as long as
\* nobody did, every chain verifies, at every moment of every interleaving of
\* requests, and so does every audit trail.
NoFalseAlarm ==
  edits = 0 => (\A t \in Tables : Verify(table[t])) /\ trail.valid

\* A row of a chain that verifies was written by the program, with the decision,
\* the reviewer, the reason, the time and the place it has now: a change of any
\* hashed column, or a gap, does not go unnoticed.  A decision's authenticated is
\* in no hash (store.py:168), and nothing is said of it.
VerifiedMeansUntouched ==
  \A t \in Tables : Verify(table[t]) =>
    \A r \in table[t] : \E q \in issued[t] :
      q.seq = r.seq /\ q.entry = r.entry /\ q.prev = r.prev /\ q.hash = r.hash

\* A trail that says a decision settled the run shows the decision, provided that
\* the request that settled it came by the gate; although run and decisions are read
\* apart, other requests rewrite the decision in the checkpoint meanwhile, and any
\* of them may stop anywhere.
TrailShowsTheRuling ==
  edits = 0 /\ trail.stage \notin {"none", "run"} /\ trail.ruling.gated
    => trail.ruling.decision \in trail.decisions

-----------------------------------------------------------------------------
\* graph/nodes.py:465, persisting the decision at the gate "is what makes it show up
\* in the audit trail": a run that a decision settled has that decision in the log.
\* A run that is resumed elsewhere does not come by the gate.
RulingIsLogged ==
  edits = 0 /\ ruling.decision # Nobody
    => \E r \in table["human_decisions"] : r.entry.decision = ruling.decision

\* IMPLEMENTATION_PLAN.md:226, "audit log is tamper-evident (broken chain
\* detected)": a chain that verifies is all the program wrote.
VerifiedMeansComplete ==
  \A t \in Tables : Verify(table[t]) => issued[t] \subseteq table[t]
=============================================================================
