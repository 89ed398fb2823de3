----------------------------- MODULE AuditChain -----------------------------
(***************************************************************************)
(* The audit log of one run: two hash-chained tables, human_decisions and  *)
(* tool_calls, the requests that append to them and to the run row, and a  *)
(* reader that assembles audit trails.                                     *)
(*                                                                         *)
(* An append reads the last row and inserts the next one; (run_id, seq) is *)
(* unique, so of two inserts that saw the same last row the later one      *)
(* raises and ends its request.  A hash is represented by what was hashed: *)
(* the entries up to its row.                                              *)
(*                                                                         *)
(* Between a request and the run row lies the graph, of which two things   *)
(* matter here: whose decision its state holds, and whether the gate is    *)
(* what it is to run next.  Only the gate logs a decision.                 *)
(*                                                                         *)
(* Somebody with access to the database may change a row or delete one,    *)
(* without recomputing hashes.                                             *)
(***************************************************************************)
EXTENDS Naturals, Sequences

CONSTANTS
  Drivers,    \* the requests that resume the run with a decision
  Personal,   \* those that come from a user's own account
  Nobody,
  MaxEdits    \* bound on rows changed or deleted by hand

ASSUME AuditAssumption ==
  Nobody \notin Drivers /\ Personal \subseteq Drivers /\ MaxEdits \in Nat

VARIABLES
  checkpoint,  \* the decision in the graph's state, and what is to run next
  copy,        \* the checkpoint as each request found it when it invoked the graph
  table,       \* the rows of each table
  pc,          \* how far each request has come
  seen,        \* the seq and prev_hash each request took from the last row
  ruling,      \* whose decision the run row follows, and whether the request that
               \* wrote the row came by the gate
  trail,       \* the audit trail being assembled
  issued,      \* every row ever inserted; only observed
  edits        \* only bounds the model

graphVars == <<checkpoint, copy>>
requestVars == <<graphVars, pc, seen, ruling, issued>>
auditVars == <<table, requestVars, trail, edits>>

Tables == {"human_decisions", "tool_calls"}
Deciders == Drivers \union {Nobody}
Checkpoints == [decision : Deciders, next : {"gate", "graph", "END"}]
Rulings == [decision : Deciders, gated : BOOLEAN]

\* The hashed columns of a row but its seq: who wrote it and when, and the
\* decision it is about.
LogEntries == [writer : Drivers, decision : Deciders]
Hashes == Seq([seq : Nat, entry : LogEntries])
GENESIS == <<>>
Rows == [seq : Nat \ {0}, entry : LogEntries, authenticated : BOOLEAN,
         prev : Hashes, hash : Hashes]
Places == [seq : Nat \ {0}, prev : Hashes]

\* Mutant: a column left out of the hash.
RowHashOfSeq(prev, seq, entry) ==
  Append(prev, [seq |-> seq, entry |-> CHOOSE e \in LogEntries : TRUE])

\* authenticated is deliberately no part of it.
RowHash(prev, seq, entry) == Append(prev, [seq |-> seq, entry |-> entry])

IsLast(rows, r) == r \in rows /\ \A q \in rows : q.seq <= r.seq

Before(rows, r) == {q \in rows : q.seq < r.seq}

\* verify_chain and verify_decision_chain: down the rows in order of seq, each
\* prev_hash is the hash of the row before, each row_hash that of its columns.
\* Of two rows with one seq the second cannot follow the first.
Verify(rows) ==
  \A r \in rows :
    /\ r.hash = RowHash(r.prev, r.seq, r.entry)
    /\ Before(rows, r) = {} => r.prev = GENESIS
    /\ \A q \in Before(rows, r) : IsLast(Before(rows, r), q) => r.prev = q.hash
    /\ \A q \in rows : q.seq = r.seq => q = r

NotRuled == [decision |-> Nobody, gated |-> FALSE]
NoTrail == [stage |-> "none", ruling |-> NotRuled, decisions |-> {}, valid |-> TRUE]

\* The run pauses before the gate, or a node of it raised.
AuditInit ==
  /\ checkpoint \in [decision : {Nobody}, next : {"gate", "graph"}]
  /\ copy = [d \in Drivers |-> [decision |-> Nobody, next |-> "graph"]]
  /\ table = [t \in Tables |-> {}]
  /\ pc = [d \in Drivers |-> "idle"]
  /\ seen = [d \in Drivers |-> [seq |-> 1, prev |-> GENESIS]]
  /\ ruling = NotRuled
  /\ trail = NoTrail
  /\ issued = [t \in Tables |-> {}]
  /\ edits = 0

-----------------------------------------------------------------------------
(***************************************************************************)
(* The graph.                                                              *)
(***************************************************************************)
Goto(d, to) == pc' = [pc EXCEPT ![d] = to]

\* approve_run: awaiting_human is true of every run that has a node to go on
\* with, one that raised or that another request is driving among them.
Submit(d) ==
  /\ pc[d] = "idle" /\ checkpoint.next # "END"
  /\ Goto(d, "admitted")
  /\ UNCHANGED <<graphVars, table, seen, ruling, trail, issued, edits>>

UpdateState(d) ==
  /\ pc[d] = "admitted"
  /\ checkpoint' = [checkpoint EXCEPT !.decision = d]
  /\ Goto(d, "updated")
  /\ UNCHANGED <<copy, table, seen, ruling, trail, issued, edits>>

Invoke(d) ==
  /\ pc[d] = "updated"
  /\ copy' = [copy EXCEPT ![d] = checkpoint]
  /\ Goto(d, IF checkpoint.next = "END" THEN "done"
             ELSE IF checkpoint.next = "gate" THEN "gate" ELSE "running")
  /\ UNCHANGED <<checkpoint, table, seen, ruling, trail, issued, edits>>

\* Every node, the gate included, ends by writing the request's own copy back.
NodeDone(d) ==
  /\ pc[d] \in {"decided", "running"}
  /\ checkpoint' = [copy[d] EXCEPT !.next = "graph"]
  /\ Goto(d, "running")
  /\ UNCHANGED <<copy, table, seen, ruling, trail, issued, edits>>

\* A revision is due for review: the graph stops before the gate.
Pause(d) ==
  /\ pc[d] = "running"
  /\ checkpoint' = [copy[d] EXCEPT !.next = "gate"]
  /\ Goto(d, "done")
  /\ UNCHANGED <<copy, table, seen, ruling, trail, issued, edits>>

\* PersistRun is over; a run without a report has logged no tool call.
EndRun(d) ==
  /\ pc[d] \in {"finished", "logged"}
  /\ checkpoint' = [copy[d] EXCEPT !.next = "END"]
  /\ Goto(d, "done")
  /\ UNCHANGED <<copy, table, seen, ruling, trail, issued, edits>>

-----------------------------------------------------------------------------
(***************************************************************************)
(* record_human_decision and record_tool_call do the same, each on its own *)
(* table.                                                                  *)
(***************************************************************************)

ReadLast(d, t, from, to) ==
  /\ pc[d] = from
  /\ \/ /\ table[t] = {}
        /\ seen' = [seen EXCEPT ![d] = [seq |-> 1, prev |-> GENESIS]]
     \/ \E r \in table[t] :
          /\ IsLast(table[t], r)
          /\ seen' = [seen EXCEPT ![d] = [seq |-> r.seq + 1, prev |-> r.hash]]
  /\ Goto(d, to)
  /\ UNCHANGED <<graphVars, table, ruling, trail, issued, edits>>

EntryOf(d) == [writer |-> d, decision |-> copy[d].decision]
RowOf(d) == [seq |-> seen[d].seq, entry |-> EntryOf(d),
             authenticated |-> copy[d].decision \in Personal, prev |-> seen[d].prev,
             hash |-> RowHash(seen[d].prev, seen[d].seq, EntryOf(d))]

\* Mutant: no unique constraint.
InsertAnyway(d, t, from, to) ==
  /\ pc[d] = from
  /\ table' = [table EXCEPT ![t] = @ \union {RowOf(d)}]
  /\ issued' = [issued EXCEPT ![t] = @ \union {RowOf(d)}]
  /\ Goto(d, to)
  /\ UNCHANGED <<graphVars, seen, ruling, trail, edits>>

Insert(d, t, from, to) ==
  /\ pc[d] = from
  /\ IF \E r \in table[t] : r.seq = seen[d].seq
     THEN Goto(d, "failed") /\ UNCHANGED <<table, issued>>
     ELSE /\ table' = [table EXCEPT ![t] = @ \union {RowOf(d)}]
          /\ issued' = [issued EXCEPT ![t] = @ \union {RowOf(d)}]
          /\ Goto(d, to)
  /\ UNCHANGED <<graphVars, seen, ruling, trail, edits>>

\* request_human_validation.
ReadLastDecision(d) == ReadLast(d, "human_decisions", "gate", "deciding")
InsertDecision(d)   == Insert(d, "human_decisions", "deciding", "decided")

\* Mutant: the run is finished before the decision is in the log.
FinishUnrecorded(d) ==
  /\ pc[d] = "deciding"
  /\ ruling' = [decision |-> copy[d].decision, gated |-> copy[d].next = "gate"]
  /\ Goto(d, "finished")
  /\ UNCHANGED <<graphVars, table, seen, trail, issued, edits>>

\* persist_run: the run row first, then the validation in the tool calls.
FinishRun(d) ==
  /\ pc[d] = "running"
  /\ ruling' = [decision |-> copy[d].decision, gated |-> copy[d].next = "gate"]
  /\ Goto(d, "finished")
  /\ UNCHANGED <<graphVars, table, seen, trail, issued, edits>>

ReadLastToolCall(d) == ReadLast(d, "tool_calls", "finished", "logging")
InsertToolCall(d)   == Insert(d, "tool_calls", "logging", "logged")

\* The server dies or a node raises.
Abandon(d) ==
  /\ pc[d] \notin {"idle", "done", "failed"}
  /\ Goto(d, "failed")
  /\ UNCHANGED <<graphVars, table, seen, ruling, trail, issued, edits>>

-----------------------------------------------------------------------------
(***************************************************************************)
(* build_audit_trail: reads that are transactions of their own.            *)
(***************************************************************************)

ReadRun ==
  /\ trail.stage = "none"
  /\ trail' = [NoTrail EXCEPT !.stage = "run", !.ruling = ruling]
  /\ UNCHANGED <<table, requestVars, edits>>

ListDecisions ==
  /\ trail.stage = "run"
  /\ trail' = [trail EXCEPT !.stage = "listed",
                            !.decisions = {r.entry.decision : r \in table["human_decisions"]}]
  /\ UNCHANGED <<table, requestVars, edits>>

VerifyToolCalls ==
  /\ trail.stage = "listed"
  /\ trail' = [trail EXCEPT !.stage = "verified", !.valid = Verify(table["tool_calls"])]
  /\ UNCHANGED <<table, requestVars, edits>>

VerifyDecisions ==
  /\ trail.stage = "verified"
  /\ trail' = [trail EXCEPT !.stage = "done",
                            !.valid = @ /\ Verify(table["human_decisions"])]
  /\ UNCHANGED <<table, requestVars, edits>>

NextTrail ==
  /\ trail.stage = "done"
  /\ trail' = NoTrail
  /\ UNCHANGED <<table, requestVars, edits>>

-----------------------------------------------------------------------------
\* Only a decision has the column authenticated.
EditRow(t) ==
  /\ edits < MaxEdits
  /\ \E r \in table[t], e \in LogEntries, a \in BOOLEAN :
       /\ a = r.authenticated \/ t = "human_decisions"
       /\ table' = [table EXCEPT ![t] =
                      (@ \ {r}) \union {[r EXCEPT !.entry = e, !.authenticated = a]}]
  /\ edits' = edits + 1
  /\ UNCHANGED <<requestVars, trail>>

DeleteRow(t) ==
  /\ edits < MaxEdits
  /\ \E r \in table[t] : table' = [table EXCEPT ![t] = @ \ {r}]
  /\ edits' = edits + 1
  /\ UNCHANGED <<requestVars, trail>>

Request(d) ==
  \/ Submit(d) \/ UpdateState(d) \/ Invoke(d) \/ NodeDone(d) \/ Pause(d) \/ EndRun(d)
  \/ ReadLastDecision(d) \/ InsertDecision(d) \/ FinishRun(d)
  \/ ReadLastToolCall(d) \/ InsertToolCall(d) \/ Abandon(d)

Trail == ReadRun \/ ListDecisions \/ VerifyToolCalls \/ VerifyDecisions \/ NextTrail

AuditNext ==
  \/ \E d \in Drivers : Request(d)
  \/ Trail
  \/ \E t \in Tables : EditRow(t) \/ DeleteRow(t)

AuditSpec == AuditInit /\ [][AuditNext]_auditVars
=============================================================================
