-------------------------- MODULE AccessProperties --------------------------
(* What the accounts and the rate limit of the API promise. *)
EXTENDS Access

\* The variables keep to their shapes.
TypeOK ==
  /\ now \in Nat /\ keyed \in BOOLEAN /\ restarts \in Nat
  /\ accounts \in [Users -> Accounts \union {None}]
  /\ window \in [Hosts -> SUBSET Entries]
  /\ calls \in [Requests -> Calls \union {None}]
  /\ \A q \in Requests : calls[q] # None =>
       replies[q] = None /\ (calls[q].stage = "authenticating" \/ calls[q].user # None)
  /\ replies \in [Requests -> Replies \union {None}]
  /\ admitted \subseteq Entries

\* The list of a host, pruned only when the host calls and forgotten with the
\* process, is a rate limit: no more than Limit admitted in any Window, and nobody
\* turned away while there is room (rate_limit, api/deps.py; several requests pass
\* authentication before any of them is counted, and those refused are not).
Limiter == INSTANCE Admission WITH
  refused <- {q \in Requests : replies[q] # None /\ replies[q].status = 429}
ImplementsAdmission == Limiter!Spec

\* Whoever is served under an account's name holds its key, acts in its role and
\* not in one the request claims, and had not been disabled when the request came;
\* and a live account is never taken for the anonymous user, who may claim any role
\* (get_current_user, approve_run).
IdentityHolds ==
  \A q \in Requests : replies[q] # None /\ replies[q].status = 200 =>
    LET call == replies[q].call
    IN  IF call.user.authenticated
        THEN /\ call.token = call.user.username
             /\ call.standing # "revoked"
             /\ replies[q].role = accounts[call.token].role
        ELSE call.standing = "live" => call.token \in Revoked
=============================================================================
