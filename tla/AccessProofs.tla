---------------------------- MODULE AccessProofs ----------------------------
(***************************************************************************)
(* Proofs about what the service keeps of its callers: accounts, the rate  *)
(* limit and the audit log, for any number of users, hosts, requests and   *)
(* edits by hand, any limit and any window.                                *)
(*                                                                         *)
(* The list of a host holds fewer entries than were admitted: it is pruned *)
(* when the host calls.  What it has lost no longer counts, so what is left*)
(* after pruning is what Admission counts; the refinement follows without  *)
(* counting anything.  What Admission counts is bounded for every stretch  *)
(* of time.  Of identities, what a look-up found stays true of the account.*)
(***************************************************************************)
EXTENDS AccessProperties, AuditChainProperties, FiniteSetTheorems, TLAPS

\* The lists hold every admission that still counts, and nothing but admissions.
ListsInv ==
  /\ \A h \in Hosts : \A e \in window[h] : e \in admitted /\ e.host = h
  /\ \A e \in admitted : e.at <= now /\ (now < e.at + Window => e \in window[e.host])

RInv == TypeOK /\ ListsInv

USE DEF At, Answer

\* A new limiter has no lists.
LEMMA InitRInv == Init => RInv
  BY DEF Init, RInv, TypeOK, ListsInv

\* Steps that let nobody in, and do not move the clock, keep the lists right.
LEMMA SameLists ==
  ASSUME RInv, UNCHANGED <<now, window, admitted>>
  PROVE  ListsInv'
  BY DEF RInv, ListsInv

\* Every step keeps the variables in their shapes.
LEMMA NextTypeOK == TypeOK /\ [Next]_vars => TypeOK'
  <1> SUFFICES ASSUME TypeOK, [Next]_vars PROVE TypeOK'
    OBVIOUS
  <1> USE DEF TypeOK
  <1>1. ASSUME NEW u \in Users, NEW role \in Roles, CreateUser(u, role) PROVE TypeOK'
    BY <1>1 DEF CreateUser, NewAccount, Accounts
  <1>2. ASSUME NEW u \in Users, DisableUser(u) PROVE TypeOK'
    <2>1. accounts[u] \in Accounts /\ DisabledAccount(accounts[u]) \in Accounts
      BY <1>2 DEF DisableUser, DisabledAccount, Accounts
    <2>2. accounts' \in [Users -> Accounts \union {None}]
      BY <1>2, <2>1 DEF DisableUser
    <2> QED
      BY <1>2, <2>2 DEF DisableUser
  <1>3. ASSUME NEW q \in Requests, NEW sent \in Sends, Arrive(q, sent) PROVE TypeOK'
    <2>1. sent.host \in Hosts /\ sent.token \in Tokens /\ sent.body \in Roles
      BY SendsAssumption
    <2>2. [stage |-> "authenticating", host |-> sent.host, token |-> sent.token,
           body |-> sent.body, user |-> None, standing |-> Standing(sent.token)] \in Calls
      BY <2>1 DEF Calls, Standing
    <2> QED
      BY <1>3, <2>2 DEF Arrive
  <1>4. ASSUME NEW q \in Requests, Authenticate(q) PROVE TypeOK'
    <2>1. calls[q] \in Calls
      BY <1>4 DEF Authenticate
    <2>2. IdentityOf(calls[q].token) \in Identities \union {None}
      BY <2>1 DEF IdentityOf, AccountOf, Identities, Accounts, Calls, Tokens, Revoked
    <2>3. CASE IdentityOf(calls[q].token) = None
      <3>1. [status |-> 401, call |-> calls[q], role |-> None] \in Replies
        BY <2>1 DEF Replies
      <3> QED
        BY <1>4, <2>3, <3>1 DEF Authenticate
    <2>4. CASE IdentityOf(calls[q].token) # None
      <3>1. [calls[q] EXCEPT !.stage = "counting", !.user = IdentityOf(calls[q].token)] \in Calls
        BY <2>1, <2>2 DEF Calls
      <3>2. calls' \in [Requests -> Calls \union {None}]
        BY <1>4, <2>4, <3>1 DEF Authenticate
      <3>3. \A p \in Requests : calls'[p] # None =>
              replies'[p] = None /\ (calls'[p].stage = "authenticating" \/ calls'[p].user # None)
        BY <1>4, <2>1, <2>4 DEF Authenticate, Calls
      <3> QED
        BY <1>4, <2>4, <3>2, <3>3 DEF Authenticate
    <2> QED
      BY <2>3, <2>4
  <1>5. ASSUME NEW q \in Requests, Admit(q) PROVE TypeOK'
    <2>1. calls[q] \in Calls /\ calls[q].host \in Hosts
      BY <1>5 DEF Admit, Calls
    <2>2. [request |-> q, host |-> calls[q].host, at |-> now] \in Entries
      BY <2>1 DEF Entries
    <2>3. [calls[q] EXCEPT !.stage = "serving"] \in Calls
      BY <2>1 DEF Calls
    <2>4. Live(calls[q].host) \in SUBSET Entries
      BY <2>1 DEF Live
    <2>5. window' \in [Hosts -> SUBSET Entries] /\ admitted' \subseteq Entries
      BY <1>5, <2>1, <2>2, <2>4 DEF Admit
    <2>6. calls' \in [Requests -> Calls \union {None}]
      BY <1>5, <2>3 DEF Admit
    <2> QED
      BY <1>5, <2>5, <2>6 DEF Admit
  <1>6. ASSUME NEW q \in Requests, Refuse(q) PROVE TypeOK'
    <2>1. calls[q] \in Calls /\ calls[q].host \in Hosts
      BY <1>6 DEF Refuse, Calls
    <2>2. [status |-> 429, call |-> calls[q], role |-> None] \in Replies
      BY <2>1 DEF Replies
    <2>3. window' \in [Hosts -> SUBSET Entries]
      BY <1>6, <2>1 DEF Refuse, Live
    <2> QED
      BY <1>6, <2>2, <2>3 DEF Refuse
  <1>7. ASSUME NEW q \in Requests, Serve(q) PROVE TypeOK'
    <2>1. calls[q] \in Calls
      BY <1>7 DEF Serve
    <2>2. calls[q].user \in Identities /\ calls[q].body \in Roles
      BY <1>7, <2>1 DEF Serve, Calls
    <2> DEFINE role == IF calls[q].user.authenticated THEN calls[q].user.role ELSE calls[q].body
    <2>3. role \in Roles \union {"gatekeeper", None}
      BY <2>2 DEF Identities
    <2>4. [status |-> 200, call |-> calls[q], role |-> role] \in Replies
      BY <2>1, <2>3 DEF Replies
    <2> QED
      BY <1>7, <2>4 DEF Serve
  <1>8. ASSUME Restart PROVE TypeOK'
    <2>1. \A q \in Requests : calls[q] # None =>
            [status |-> 503, call |-> calls[q], role |-> None] \in Replies
      BY DEF Replies
    <2>2. replies' \in [Requests -> Replies \union {None}]
      BY <1>8, <2>1 DEF Restart
    <2> QED
      BY <1>8, <2>2 DEF Restart
  <1>9. CASE Tick \/ UNCHANGED vars
    BY <1>9 DEF Tick, vars
  <1> QED
    BY <1>1, <1>2, <1>3, <1>4, <1>5, <1>6, <1>7, <1>8, <1>9 DEF Next

\* Nothing but an admission and the clock touches what the lists say.
LEMMA NextLists == RInv /\ [Next]_vars => ListsInv'
  <1> SUFFICES ASSUME RInv, [Next]_vars PROVE ListsInv'
    OBVIOUS
  <1> USE DEF RInv, ListsInv
  <1>1. ASSUME NEW q \in Requests, Admit(q) PROVE ListsInv'
    <2> DEFINE h == calls[q].host
               entry == [request |-> q, host |-> h, at |-> now]
    <2>1. h \in Hosts /\ now \in Nat
      BY <1>1 DEF Admit, TypeOK, Calls
    <2>2. /\ window' = [window EXCEPT ![h] = Live(h) \union {entry}]
          /\ admitted' = admitted \union {entry} /\ now' = now
      BY <1>1 DEF Admit
    <2>3. entry.host = h /\ entry.at = now
      OBVIOUS
    <2>4. \A g \in Hosts : \A e \in window'[g] : e \in admitted' /\ e.host = g
      BY <2>1, <2>2, <2>3 DEF Live, TypeOK
    <2>5. ASSUME NEW e \in admitted', now' < e.at + Window PROVE e \in window'[e.host]
      BY <2>1, <2>2, <2>3, <2>5 DEF Live, TypeOK, Entries
    <2>6. \A e \in admitted' : e.at <= now'
      BY <2>1, <2>2, <2>3
    <2> QED
      BY <2>4, <2>5, <2>6
  <1>2. ASSUME NEW q \in Requests, Refuse(q) PROVE ListsInv'
    <2>1. calls[q].host \in Hosts
      BY <1>2 DEF Refuse, TypeOK, Calls
    <2>2. \A e \in admitted : e.host \in Hosts
      BY DEF TypeOK, Entries
    <2> QED
      BY <1>2, <2>1, <2>2 DEF Refuse, Live, TypeOK
  <1>3. CASE Tick
    <2>1. \A e \in admitted : e.at \in Nat
      BY DEF TypeOK, Entries
    <2> QED
      BY <1>3, <2>1, AccessAssumption DEF Tick, TypeOK
  <1>4. CASE Restart
    BY <1>4 DEF Restart
  <1>5. CASE UNCHANGED <<now, window, admitted>>
    BY <1>5, SameLists
  <1> QED
    BY <1>1, <1>2, <1>3, <1>4, <1>5
    DEF Next, CreateUser, DisableUser, Arrive, Authenticate, Serve, vars

\* The variables keep to their shapes, and the lists to what was admitted.
THEOREM AccessInvariant == Spec => []RInv
  <1>1. RInv /\ [Next]_vars => RInv'
    BY NextTypeOK, NextLists DEF RInv
  <1> QED
    BY InitRInv, <1>1, PTL DEF Spec

-----------------------------------------------------------------------------
(***************************************************************************)
(* Identities.  A request is looked up once and served later; an account   *)
(* is created once, keeps its role, and once disabled stays so.  So what a *)
(* look-up found is still true of the account when the request is served,  *)
(* except that the account may have been disabled meanwhile.               *)
(***************************************************************************)

\* What a call knows of the account its token belongs to.
CallOk(call) ==
  /\ call.standing = "revoked" => call.token \in Revoked
  /\ call.standing = "live" => call.token \in Users /\ accounts[call.token] # None
  /\ call.stage # "authenticating" =>
       IF call.user.authenticated
       THEN /\ call.user.username = call.token /\ call.token \in Users
            /\ accounts[call.token] # None /\ call.user.role = accounts[call.token].role
            /\ call.standing # "revoked"
       ELSE call.standing = "live" => call.token \in Revoked

\* What the answer to a call that was served was decided on.
ServedOk(reply) ==
  /\ CallOk(reply.call) /\ reply.call.stage = "serving"
  /\ reply.role = IF reply.call.user.authenticated THEN reply.call.user.role ELSE reply.call.body

IdentityInv ==
  /\ \A q \in Requests : calls[q] # None => CallOk(calls[q])
  /\ \A q \in Requests : replies[q] # None /\ replies[q].status = 200 => ServedOk(replies[q])

\* Accounts stay, in their role, and disabled ones disabled.
AccountsStand ==
  \A u \in Users : accounts[u] # None =>
    /\ accounts'[u] # None /\ accounts'[u].role = accounts[u].role
    /\ accounts[u].disabled => accounts'[u].disabled

\* Neither command of the command line takes an account away.
LEMMA AccountsKeep == RInv /\ [Next]_vars => AccountsStand
  <1> SUFFICES ASSUME RInv, [Next]_vars PROVE AccountsStand
    OBVIOUS
  <1>1. ASSUME NEW u \in Users, NEW role \in Roles, CreateUser(u, role) PROVE AccountsStand
    BY <1>1 DEF CreateUser, AccountsStand, RInv, TypeOK
  <1>2. ASSUME NEW u \in Users, DisableUser(u) PROVE AccountsStand
    <2>1. accounts[u] \in Accounts
      BY <1>2 DEF DisableUser, RInv, TypeOK
    <2>2. PICK d : d = DisabledAccount(accounts[u])
      OBVIOUS
    <2>3. d # None /\ d.role = accounts[u].role /\ d.disabled
      BY <2>1, <2>2, NoneAssumption DEF DisabledAccount, Accounts
    <2>4. accounts' = [accounts EXCEPT ![u] = d]
      BY <1>2, <2>2 DEF DisableUser
    <2> QED
      BY <2>3, <2>4 DEF AccountsStand, RInv, TypeOK
  <1>3. CASE UNCHANGED accounts
    BY <1>3 DEF AccountsStand
  <1> QED
    BY <1>1, <1>2, <1>3
    DEF Next, Arrive, Authenticate, Admit, Refuse, Serve, Tick, Restart, vars

\* So what a call knows stays true.
LEMMA CallStays ==
  ASSUME AccountsStand, NEW call, CallOk(call)
  PROVE  CallOk(call)'
  <1>1. \A u \in Revoked : u \in Revoked'
    BY DEF AccountsStand, Revoked
  <1>2. \A u \in Users : accounts[u] # None =>
          accounts'[u] # None /\ accounts'[u].role = accounts[u].role
    BY DEF AccountsStand
  <1> QED
    BY <1>1, <1>2 DEF CallOk

\* The look-up: whom it names holds the key, and it passes over no live account.
LEMMA AuthenticateKnows ==
  ASSUME RInv, NEW q \in Requests, At(q, "authenticating"), CallOk(calls[q]),
         IdentityOf(calls[q].token) # None
  PROVE  CallOk([calls[q] EXCEPT !.stage = "counting", !.user = IdentityOf(calls[q].token)])
  <1>1. PICK c, user : c = calls[q] /\ user = IdentityOf(calls[q].token)
    OBVIOUS
  <1>2. c \in Calls /\ CallOk(c) /\ user # None
    BY <1>1 DEF RInv, TypeOK
  <1>3. CASE AccountOf(c.token) # None
    <2>1. user = [username |-> c.token, role |-> AccountOf(c.token).role, authenticated |-> TRUE]
      BY <1>1, <1>3 DEF IdentityOf
    <2>2. c.token \in Users /\ c.token \notin Revoked /\ AccountOf(c.token) = accounts[c.token]
      BY <1>3 DEF AccountOf
    <2>3. user.authenticated /\ user.username = c.token /\ user.role = accounts[c.token].role
      BY <2>1, <2>2
    <2>4. PICK d : d = [c EXCEPT !.stage = "counting", !.user = user]
      OBVIOUS
    <2>5. d.token = c.token /\ d.standing = c.standing /\ d.user = user
      BY <1>2, <2>4 DEF Calls
    <2>6. CallOk(d)
      BY <1>2, <1>3, <2>2, <2>3, <2>5 DEF CallOk
    <2> QED
      BY <1>1, <2>4, <2>6
  <1>4. CASE AccountOf(c.token) = None
    <2>1. ~user.authenticated
      BY <1>1, <1>2, <1>4 DEF IdentityOf
    <2>2. c.token \in Users /\ accounts[c.token] # None => c.token \in Revoked
      BY <1>4 DEF AccountOf
    <2>3. PICK d : d = [c EXCEPT !.stage = "counting", !.user = user]
      OBVIOUS
    <2>4. d.token = c.token /\ d.standing = c.standing /\ d.user = user
      BY <1>2, <2>3 DEF Calls
    <2>5. CallOk(d)
      BY <1>2, <2>1, <2>2, <2>4 DEF CallOk
    <2> QED
      BY <1>1, <2>3, <2>5
  <1> QED
    BY <1>3, <1>4

\* A call of which a new one only differs in its stage, past the look-up, knows the same.
LEMMA StageKnows ==
  ASSUME RInv, NEW c \in Calls, CallOk(c), c.stage # "authenticating",
         NEW stage \in {"counting", "serving"}
  PROVE  CallOk([c EXCEPT !.stage = stage])
  <1>1. PICK d : d = [c EXCEPT !.stage = stage]
    OBVIOUS
  <1>2. d.token = c.token /\ d.standing = c.standing /\ d.user = c.user
    BY <1>1 DEF Calls
  <1>3. CallOk(d)
    BY <1>2 DEF CallOk
  <1> QED
    BY <1>1, <1>3

\* Every step leaves the calls in progress true to the accounts.
LEMMA NextCalls ==
  ASSUME RInv, IdentityInv, [Next]_vars, NEW q \in Requests, NEW c, c = calls'[q], c # None
  PROVE  CallOk(c)'
  <1>1. AccountsStand
    BY AccountsKeep
  <1>2. calls[q] # None => calls[q] \in Calls /\ CallOk(calls[q])
    BY DEF RInv, TypeOK, IdentityInv
  <1>3. CASE c = calls[q]
    BY <1>1, <1>2, <1>3, CallStays
  <1>4. ASSUME NEW sent \in Sends, Arrive(q, sent) PROVE CallOk(c)'
    <2>1. /\ c.token = sent.token /\ c.standing = Standing(sent.token)
          /\ c.stage = "authenticating" /\ accounts' = accounts
      BY <1>4 DEF Arrive, RInv, TypeOK
    <2>2. CallOk(c)
      BY <2>1 DEF CallOk, Standing
    <2> QED
      BY <1>1, <2>2, CallStays
  <1>5. CASE Authenticate(q)
    <2>1. c = [calls[q] EXCEPT !.stage = "counting", !.user = IdentityOf(calls[q].token)]
          /\ IdentityOf(calls[q].token) # None
      BY <1>5 DEF Authenticate, RInv, TypeOK
    <2>2. CallOk(c)
      BY <1>2, <1>5, <2>1, AuthenticateKnows DEF Authenticate
    <2> QED
      BY <1>1, <2>2, CallStays
  <1>6. CASE Admit(q)
    <2>1. c = [calls[q] EXCEPT !.stage = "serving"] /\ calls[q] # None /\ calls[q].stage = "counting"
      BY <1>6 DEF Admit, RInv, TypeOK
    <2>2. CallOk(c)
      BY <1>2, <2>1, StageKnows
    <2> QED
      BY <1>1, <2>2, CallStays
  <1>7. CASE Refuse(q) \/ Serve(q) \/ Restart
    BY <1>7 DEF Refuse, Serve, Restart, RInv, TypeOK
  <1>8. ASSUME NEW p \in Requests, p # q,
               \/ \E sent \in Sends : Arrive(p, sent)
               \/ Authenticate(p) \/ Admit(p) \/ Refuse(p) \/ Serve(p)
        PROVE  c = calls[q]
    BY <1>8 DEF Arrive, Authenticate, Admit, Refuse, Serve, RInv, TypeOK
  <1>9. CASE UNCHANGED calls
    BY <1>3, <1>9
  <1> QED
    BY <1>3, <1>4, <1>5, <1>6, <1>7, <1>8, <1>9 DEF Next, CreateUser, DisableUser, Tick, vars

\* What was served stays so, and what is served now was decided on what its call knows.
LEMMA NextReplies ==
  ASSUME RInv, IdentityInv, [Next]_vars, NEW q \in Requests,
         NEW reply, reply = replies'[q], reply # None, reply.status = 200
  PROVE  ServedOk(reply)'
  <1>1. AccountsStand
    BY AccountsKeep
  <1>2. CASE reply = replies[q]
    <2>1. ServedOk(reply) /\ CallOk(reply.call)
      BY <1>2 DEF IdentityInv, ServedOk
    <2>2. CallOk(reply.call)'
      BY <1>1, <2>1, CallStays
    <2> QED
      BY <2>1, <2>2 DEF ServedOk
  <1>3. CASE Serve(q)
    <2>1. PICK c : c = calls[q]
      OBVIOUS
    <2>2. /\ c # None /\ c.stage = "serving" /\ CallOk(c)
          /\ reply = [status |-> 200, call |-> c,
                      role |-> IF c.user.authenticated THEN c.user.role ELSE c.body]
      BY <1>3, <2>1 DEF Serve, RInv, TypeOK, IdentityInv
    <2>3. CallOk(c)'
      BY <1>1, <2>2, CallStays
    <2>4. /\ reply.call = c
          /\ reply.role = IF c.user.authenticated THEN c.user.role ELSE c.body
      BY <2>2
    <2> QED
      BY <2>2, <2>3, <2>4 DEF ServedOk
  <1>4. ASSUME NEW p \in Requests, p # q, Authenticate(p) \/ Refuse(p) \/ Serve(p)
        PROVE  reply = replies[q]
    BY <1>4 DEF Authenticate, Refuse, Serve, RInv, TypeOK
  <1>5. CASE Authenticate(q) \/ Refuse(q) \/ Restart
    BY <1>2, <1>5 DEF Authenticate, Refuse, Restart, RInv, TypeOK
  <1>6. CASE UNCHANGED replies
    BY <1>2, <1>6
  <1> QED
    BY <1>2, <1>3, <1>4, <1>5, <1>6 DEF Next, CreateUser, DisableUser, Arrive, Admit, Tick, vars

\* Whoever is served under a name holds its key and acts in its role; a live account is
\* never taken for the anonymous user (get_current_user, approve_run).
THEOREM IdentityHoldsAlways == Spec => []IdentityHolds
  <1>1. Init => IdentityInv
    BY DEF Init, IdentityInv
  <1>2. RInv /\ IdentityInv /\ [Next]_vars => IdentityInv'
    <2> SUFFICES ASSUME RInv, IdentityInv, [Next]_vars PROVE IdentityInv'
      OBVIOUS
    <2>1. ASSUME NEW q \in Requests, calls'[q] # None PROVE CallOk(calls[q])'
      <3>1. PICK c : c = calls'[q]
        OBVIOUS
      <3>2. CallOk(c)'
        BY <2>1, <3>1, NextCalls
      <3> QED
        BY <3>1, <3>2 DEF CallOk
    <2>2. ASSUME NEW q \in Requests, replies'[q] # None, replies'[q].status = 200
          PROVE  ServedOk(replies[q])'
      <3>1. PICK reply : reply = replies'[q]
        OBVIOUS
      <3>2. ServedOk(reply)'
        BY <2>2, <3>1, NextReplies
      <3> QED
        BY <3>1, <3>2 DEF ServedOk, CallOk
    <2> QED
      BY <2>1, <2>2 DEF IdentityInv
  <1>3. IdentityInv => IdentityHolds
    BY DEF IdentityInv, IdentityHolds, ServedOk, CallOk
  <1> QED
    BY <1>1, <1>2, <1>3, AccessInvariant, PTL DEF Spec

\* Both modules count alike.
LEMMA SameCardinality ==
  ASSUME NEW S PROVE Limiter!Cardinality(S) = Cardinality(S)
  BY Zenon DEF Cardinality, Limiter!Cardinality

\* What a list holds when it is pruned is what the limit counts.
LEMMA LiveIsCounting ==
  ASSUME RInv, NEW h \in Hosts PROVE Live(h) = Limiter!Counting(h, now)
  BY DEF RInv, ListsInv, TypeOK, Entries, Live, Limiter!Counting

\* Who has been turned away; what Limiter takes for refused.
Turned == {q \in Requests : replies[q] # None /\ replies[q].status = 429}

\* The lists of rate_limit are the rate limit Admission describes.
THEOREM AccessIsAdmission == Spec => ImplementsAdmission
  <1> USE DEF Turned
  <1>1. Init => Limiter!Init
    BY DEF Init, Limiter!Init
  <1>2. RInv /\ RInv' /\ [Next]_vars => [Limiter!Next]_<<now, admitted, Turned>>
    <2> SUFFICES ASSUME RInv, RInv', [Next]_vars PROVE [Limiter!Next]_<<now, admitted, Turned>>
      OBVIOUS
    <2>1. ASSUME NEW q \in Requests, Admit(q)
          PROVE  calls[q].host \in Hosts /\ Limiter!Admit(q, calls[q].host)
      <3>1. calls[q].host \in Hosts
        BY <2>1 DEF Admit, RInv, TypeOK, Calls
      <3>2. Live(calls[q].host) = Limiter!Counting(calls[q].host, now)
        BY <3>1, LiveIsCounting
      <3> QED
        BY <2>1, <3>1, <3>2, SameCardinality DEF Admit, Limiter!Admit
    <2>2. ASSUME NEW q \in Requests, Refuse(q)
          PROVE  calls[q].host \in Hosts /\ Limiter!Refuse(q, calls[q].host)
      <3>1. calls[q].host \in Hosts
        BY <2>2 DEF Refuse, RInv, TypeOK, Calls
      <3>2. Live(calls[q].host) = Limiter!Counting(calls[q].host, now)
        BY <3>1, LiveIsCounting
      <3>3. Turned' = Turned \union {q}
        <4>1. \A p \in Requests : p # q => replies'[p] = replies[p]
          BY <2>2 DEF Refuse, RInv, TypeOK
        <4>2. replies'[q] # None /\ replies'[q].status = 429
          BY <2>2, NoneAssumption, RInv' DEF Refuse, RInv, TypeOK, Replies
        <4> QED
          BY <4>1, <4>2
      <3> QED
        BY <2>2, <3>1, <3>2, <3>3, SameCardinality DEF Refuse, Limiter!Refuse
    <2>3. CASE Tick
      BY <2>3 DEF Tick, Limiter!Next, Limiter!Tick
    <2>4. CASE Restart
      <3>1. ASSUME NEW p \in Requests
            PROVE  (p \in Turned') <=> (p \in Turned)
        <4>1. CASE calls[p] = None
          BY <4>1, <2>4 DEF Restart
        <4>2. CASE calls[p] # None
          <5>1. replies[p] = None
            BY <4>2 DEF RInv, TypeOK
          <5>2. replies'[p].status = 503
            BY <4>2, <2>4 DEF Restart
          <5> QED
            BY <5>1, <5>2
        <4> QED
          BY <4>1, <4>2
      <3>2. Turned' = Turned
        BY <3>1
      <3> QED
        BY <2>4, <3>2 DEF Restart, Limiter!Next, Limiter!Restart
    <2>5. ASSUME NEW q \in Requests, Authenticate(q) \/ Serve(q)
          PROVE  UNCHANGED <<now, admitted, Turned>>
      <3>1. calls[q] # None /\ replies[q] = None
        BY <2>5 DEF Authenticate, Serve, RInv, TypeOK
      <3>2. \A p \in Requests : p # q => replies'[p] = replies[p]
        BY <2>5 DEF Authenticate, Serve, RInv, TypeOK
      <3>3. replies'[q] = None \/ replies'[q].status # 429
        BY <2>5, <3>1 DEF Authenticate, Serve, RInv, TypeOK
      <3>4. Turned' = Turned
        BY <3>1, <3>2, <3>3
      <3> QED
        BY <2>5, <3>4 DEF Authenticate, Serve
    <2>6. CASE UNCHANGED <<now, admitted, replies>>
      BY <2>6
    <2>7. CASE \E q \in Requests : Admit(q) \/ Refuse(q)
      <3>1. PICK q \in Requests : Admit(q) \/ Refuse(q)
        BY <2>7
      <3>2. calls[q].host \in Hosts
        BY <2>1, <2>2, <3>1
      <3>3. Limiter!Admit(q, calls[q].host) \/ Limiter!Refuse(q, calls[q].host)
        BY <2>1, <2>2, <3>1
      <3>4. Limiter!Next
        BY <3>2, <3>3 DEF Limiter!Next, Limiter!Admit, Limiter!Refuse
      <3> QED
        BY <3>4
    <2>8. CASE \E q \in Requests : Authenticate(q) \/ Serve(q)
      BY <2>5, <2>8
    <2>9. \/ Tick \/ Restart \/ UNCHANGED <<now, admitted, replies>>
          \/ \E q \in Requests : Admit(q) \/ Refuse(q)
          \/ \E q \in Requests : Authenticate(q) \/ Serve(q)
      BY DEF Next, CreateUser, DisableUser, Arrive, vars
    <2> QED
      BY <2>3, <2>4, <2>6, <2>7, <2>8, <2>9
  <1> QED
    BY <1>1, <1>2, AccessInvariant, PTL DEF Spec, ImplementsAdmission, Limiter!Spec

-----------------------------------------------------------------------------
(***************************************************************************)
(* The abstract limit bounds every stretch of time, not only the one that  *)
(* ends now: an admission at a moment can only be counted from that moment *)
(* on, and whatever is counted with it later is counted with it now.       *)
(***************************************************************************)

\* The clock never passes behind what was admitted.
Logged == now \in Nat /\ admitted \subseteq Limiter!Admissions /\ \A a \in admitted : a.at <= now

Bounded ==
  \A h \in Hosts, t \in Nat :
    IsFiniteSet(Limiter!Counting(h, t)) /\ Cardinality(Limiter!Counting(h, t)) <= Limit

\* One more, where there was room for it, keeps any window within the limit.
LEMMA RoomForOne ==
  ASSUME Limiter!LimitIsSet, NEW S, IsFiniteSet(S), Cardinality(S) < Limit, NEW x, NEW T, T \subseteq S \union {x}
  PROVE  IsFiniteSet(T) /\ Cardinality(T) <= Limit
  <1>1. /\ IsFiniteSet(S \union {x})
        /\ Cardinality(S \union {x}) = IF x \in S THEN Cardinality(S) ELSE Cardinality(S) + 1
    BY FS_AddElement
  <1>2. Cardinality(S) \in Nat
    BY FS_CardinalityType
  <1>3. IsFiniteSet(T) /\ Cardinality(T) <= Cardinality(S \union {x})
    BY <1>1, FS_Subset
  <1>4. Cardinality(T) \in Nat
    BY <1>3, FS_CardinalityType
  <1> QED
    BY <1>1, <1>2, <1>3, <1>4 DEF Limiter!LimitIsSet

\* Admitting a request keeps every window of every host within the limit.
LEMMA AdmitKeepsBounds ==
  ASSUME Limiter!LimitIsSet, Logged, Bounded, NEW q \in Requests, NEW h \in Hosts, Limiter!Admit(q, h)
  PROVE  Bounded'
  <1> DEFINE a == [request |-> q, host |-> h, at |-> now]
  <1> SUFFICES ASSUME NEW g \in Hosts, NEW t \in Nat
               PROVE  IsFiniteSet(Limiter!Counting(g, t)') /\ Cardinality(Limiter!Counting(g, t)') <= Limit
    BY DEF Bounded
  <1>1. admitted' = admitted \union {a} /\ now' = now
    BY DEF Limiter!Admit
  <1>2. IsFiniteSet(Limiter!Counting(g, t)) /\ Cardinality(Limiter!Counting(g, t)) <= Limit
    BY DEF Bounded
  <1>3. IsFiniteSet(Limiter!Counting(h, now)) /\ Cardinality(Limiter!Counting(h, now)) < Limit
    BY SameCardinality DEF Bounded, Logged, Limiter!Admit
  <1>4. a.host = h /\ a.at = now
    OBVIOUS
  <1>5. CASE g = h /\ now <= t
    <2>1. Limiter!Counting(g, t)' \subseteq Limiter!Counting(h, now) \union {a}
      <3> SUFFICES ASSUME NEW b \in Limiter!Counting(g, t)', b # a
                   PROVE  b \in Limiter!Counting(h, now)
        OBVIOUS
      <3>1. b \in admitted /\ b.host = h /\ t < b.at + Window
        BY <1>1, <1>5 DEF Limiter!Counting
      <3>2. b.at \in Nat /\ b.at <= now /\ now \in Nat
        BY <3>1 DEF Logged, Limiter!Admissions
      <3>3. now < b.at + Window
        BY <3>1, <3>2, <1>5 DEF Limiter!LimitIsSet
      <3> QED
        BY <3>1, <3>2, <3>3 DEF Limiter!Counting
    <2> QED
      BY <1>3, <2>1, RoomForOne
  <1>6. CASE ~(g = h /\ now <= t)
    <2>1. Limiter!Counting(g, t)' = Limiter!Counting(g, t)
      BY <1>1, <1>4, <1>6 DEF Limiter!Counting, Logged
    <2> QED
      BY <1>2, <2>1
  <1> QED
    BY <1>5, <1>6

\* No host is let in more than Limit times within any Window, whenever its
\* requests come, are refused, or the server restarts (rate_limit, api/deps.py).
THEOREM WithinLimit == Limiter!LimitIsSet /\ Limiter!Spec => []Limiter!AtMostLimit
  <1> SUFFICES ASSUME Limiter!LimitIsSet PROVE Limiter!Spec => []Limiter!AtMostLimit
    OBVIOUS
  <1> USE DEF Turned
  <1> DEFINE Inv == Logged /\ Bounded
  <1>1. Limiter!Init => Inv
    <2> SUFFICES ASSUME Limiter!Init PROVE Inv
      OBVIOUS
    <2>1. Logged
      BY DEF Limiter!Init, Logged
    <2>2. \A h \in Hosts, t \in Nat : Limiter!Counting(h, t) = {}
      BY DEF Limiter!Init, Limiter!Counting
    <2>3. Bounded
      BY <2>2, FS_EmptySet DEF Bounded, Limiter!LimitIsSet
    <2> QED
      BY <2>1, <2>3
  <1>2. Inv /\ [Limiter!Next]_<<now, admitted, Turned>> => Inv'
    <2> SUFFICES ASSUME Inv, [Limiter!Next]_<<now, admitted, Turned>> PROVE Inv'
      OBVIOUS
    <2>1. ASSUME NEW q \in Requests, NEW h \in Hosts, Limiter!Admit(q, h) PROVE Inv'
      <3>1. Logged'
        BY <2>1 DEF Limiter!Admit, Logged, Limiter!Admissions
      <3> QED
        BY <2>1, <3>1, AdmitKeepsBounds
    <2>2. ASSUME admitted' = admitted, now' \in {now, now + 1} PROVE Inv'
      <3>1. Logged'
        BY <2>2 DEF Logged, Limiter!Admissions
      <3>2. \A h \in Hosts, t \in Nat : Limiter!Counting(h, t)' = Limiter!Counting(h, t)
        BY <2>2 DEF Limiter!Counting
      <3>3. Bounded'
        BY <3>2 DEF Bounded
      <3> QED
        BY <3>1, <3>3
    <2>3. CASE Limiter!Restart
      <3>1. Logged'
        BY <2>3 DEF Limiter!Restart, Logged
      <3>2. \A h \in Hosts, t \in Nat : Limiter!Counting(h, t)' = {}
        BY <2>3 DEF Limiter!Restart, Limiter!Counting
      <3>3. IsFiniteSet({}) /\ Cardinality({}) <= Limit
        BY FS_EmptySet DEF Limiter!LimitIsSet
      <3>4. Bounded'
        BY <3>2, <3>3 DEF Bounded
      <3> QED
        BY <3>1, <3>4
    <2>4. CASE \E q \in Requests, h \in Hosts : Limiter!Refuse(q, h)
      BY <2>2, <2>4 DEF Limiter!Refuse
    <2>5. CASE Limiter!Tick \/ UNCHANGED <<now, admitted, Turned>>
      BY <2>2, <2>5 DEF Limiter!Tick
    <2> QED
      BY <2>1, <2>3, <2>4, <2>5 DEF Limiter!Next
  <1>3. Inv => Limiter!AtMostLimit
    BY SameCardinality DEF Bounded, Limiter!AtMostLimit
  <1> QED
    BY <1>1, <1>2, <1>3, PTL DEF Limiter!Spec, Turned

\* No host gets more than Limit requests past the limiter in any Window of a server's
\* life, whoever sends them (rate_limit, api/deps.py).
THEOREM AccessWithinLimit == Spec => []Limiter!AtMostLimit
  <1>1. Limiter!LimitIsSet
    BY AccessAssumption DEF Limiter!LimitIsSet
  <1> QED
    BY <1>1, WithinLimit, AccessIsAdmission, PTL DEF ImplementsAdmission

-----------------------------------------------------------------------------
(***************************************************************************)
(* The audit log keeps its promises.  The argument does not follow the     *)
(* order of the rows.  Untouched, a table is Linked: every row but a first *)
(* one has a row with the seq before its own, whose hash it holds; a       *)
(* request about to insert holds such a place.  That is preserved without  *)
(* counting rows, and Verify follows from it.                              *)
(***************************************************************************)
\* The place p continues the rows.
Continues(rows, p) ==
  \/ p.seq = 1 /\ p.prev = GENESIS
  \/ \E q \in rows : q.seq + 1 = p.seq /\ q.hash = p.prev

Linked(rows) ==
  /\ \A r \in rows : r.hash = RowHash(r.prev, r.seq, r.entry) /\ Continues(rows, r)
  /\ \A r, q \in rows : r.seq = q.seq => r = q

HasEntry(d) == \E r \in table["human_decisions"] : r.entry.decision = d

\* Past the gate: the decision the request acts on is in the log.
PastGate == {"decided", "running", "finished", "logging", "logged"}

ChainInv ==
  edits = 0 =>
    /\ \A t \in Tables : Linked(table[t])
    /\ \A d \in Drivers :
         /\ pc[d] = "deciding" => Continues(table["human_decisions"], seen[d])
         /\ pc[d] = "logging" => Continues(table["tool_calls"], seen[d])
    /\ trail.valid

RulingInv ==
  edits = 0 =>
    /\ \A d \in Drivers :
         copy[d].next = "gate" /\ pc[d] \in PastGate => HasEntry(copy[d].decision)
    /\ ruling.gated => HasEntry(ruling.decision)
    /\ trail.ruling.gated => HasEntry(trail.ruling.decision)
    /\ trail.stage \notin {"none", "run"} /\ trail.ruling.gated
         => trail.ruling.decision \in trail.decisions

\* Every row is one that was issued, up to its entry.
OriginInv ==
  \A t \in Tables :
    /\ \A q \in issued[t] : q.hash = RowHash(q.prev, q.seq, q.entry)
    /\ \A r \in table[t] :
         \E q \in issued[t] : q.seq = r.seq /\ q.prev = r.prev /\ q.hash = r.hash

IInv == AuditTypeOK /\ ChainInv /\ RulingInv /\ OriginInv

-----------------------------------------------------------------------------
\* A linked table verifies: the row before r can only be the one it links to.
LEMMA LinkedVerifies ==
  ASSUME NEW rows \in SUBSET Rows, Linked(rows)
  PROVE  Verify(rows)
<1> SUFFICES ASSUME NEW r \in rows
             PROVE  /\ r.hash = RowHash(r.prev, r.seq, r.entry)
                    /\ Before(rows, r) = {} => r.prev = GENESIS
                    /\ \A q \in Before(rows, r) : IsLast(Before(rows, r), q) => r.prev = q.hash
                    /\ \A q \in rows : q.seq = r.seq => q = r
  BY DEF Verify
<1>1. r.hash = RowHash(r.prev, r.seq, r.entry) /\ \A q \in rows : q.seq = r.seq => q = r
  BY DEF Linked
<1>2. CASE r.seq = 1 /\ r.prev = GENESIS
  <2>1. Before(rows, r) = {}
    BY <1>2 DEF Before, Rows
  <2> QED BY <1>1, <1>2, <2>1
<1>3. CASE \E p \in rows : p.seq + 1 = r.seq /\ p.hash = r.prev
  <2>1. PICK p \in rows : p.seq + 1 = r.seq /\ p.hash = r.prev
    BY <1>3
  <2>2. p \in Before(rows, r)
    BY <2>1 DEF Before, Rows
  <2>3. ASSUME NEW q \in Before(rows, r), IsLast(Before(rows, r), q)
        PROVE  r.prev = q.hash
    <3>1. q \in rows /\ q.seq < r.seq /\ p.seq <= q.seq
      BY <2>2, <2>3 DEF Before, IsLast
    <3>2. q.seq = p.seq
      BY <2>1, <3>1 DEF Rows
    <3> QED BY <2>1, <3>1, <3>2 DEF Linked
  <2> QED BY <1>1, <2>2, <2>3
<1> QED BY <1>2, <1>3 DEF Linked, Continues

\* A place that continues the rows still does when a row is added.
LEMMA ContinuesGrows ==
  ASSUME NEW rows, NEW row, NEW p, Continues(rows, p)
  PROVE  Continues(rows \union {row}, p)
BY DEF Continues

\* The seq and hash of the last row, or the genesis, continue the rows.
LEMMA ReadLastContinues ==
  ASSUME NEW d \in Drivers, NEW t \in Tables, NEW from, NEW to,
         ReadLast(d, t, from, to), AuditTypeOK
  PROVE  Continues(table[t], seen'[d]) /\ seen'[d] \in Places
<1>1. CASE seen' = [seen EXCEPT ![d] = [seq |-> 1, prev |-> GENESIS]]
  <2>1. seen'[d] = [seq |-> 1, prev |-> GENESIS]
    BY <1>1 DEF AuditTypeOK
  <2>2. GENESIS \in Hashes
    BY DEF GENESIS, Hashes
  <2> QED BY <2>1, <2>2 DEF Continues, Places
<1>2. CASE \E r \in table[t] : seen' = [seen EXCEPT ![d] = [seq |-> r.seq + 1, prev |-> r.hash]]
  <2>1. PICK r \in table[t] : seen'[d] = [seq |-> r.seq + 1, prev |-> r.hash]
    BY <1>2 DEF AuditTypeOK
  <2>2. r \in Rows
    BY DEF AuditTypeOK
  <2>3. r.seq + 1 \in Nat \ {0} /\ r.hash \in Hashes
    BY <2>2 DEF Rows
  <2> QED BY <2>1, <2>3 DEF Continues, Places
<1> QED BY <1>1, <1>2 DEF ReadLast

\* The row a request inserts is well formed.
LEMMA RowOfType ==
  ASSUME NEW d \in Drivers, AuditTypeOK
  PROVE  RowOf(d) \in Rows
<1>1. seen[d].seq \in Nat \ {0} /\ seen[d].prev \in Hashes
  BY DEF AuditTypeOK, Places
<1>2. EntryOf(d) \in LogEntries
  BY DEF AuditTypeOK, Checkpoints, EntryOf, LogEntries
<1>3. [seq |-> seen[d].seq, entry |-> EntryOf(d)] \in [seq : Nat, entry : LogEntries]
  BY <1>1, <1>2
<1>4. RowHash(seen[d].prev, seen[d].seq, EntryOf(d)) \in Hashes
  BY <1>1, <1>3 DEF RowHash, Hashes
<1>5. (copy[d].decision \in Personal) \in BOOLEAN
  OBVIOUS
<1> QED BY <1>1, <1>2, <1>4, <1>5 DEF RowOf, Rows

\* Inserting a row at a place that continues a linked table keeps it linked.
LEMMA InsertLinks ==
  ASSUME NEW d \in Drivers, NEW rows \in SUBSET Rows, AuditTypeOK, Linked(rows),
         Continues(rows, seen[d]), ~\E r \in rows : r.seq = seen[d].seq
  PROVE  Linked(rows \union {RowOf(d)})
<1>1. /\ RowOf(d).seq = seen[d].seq /\ RowOf(d).prev = seen[d].prev
      /\ RowOf(d).hash = RowHash(RowOf(d).prev, RowOf(d).seq, RowOf(d).entry)
  BY DEF RowOf
<1>2. Continues(rows, RowOf(d))
  BY <1>1 DEF Continues
<1>3. ASSUME NEW r \in rows \union {RowOf(d)}
      PROVE  r.hash = RowHash(r.prev, r.seq, r.entry) /\ Continues(rows \union {RowOf(d)}, r)
  BY <1>1, <1>2, <1>3, ContinuesGrows DEF Linked
<1>4. ASSUME NEW r \in rows \union {RowOf(d)}, NEW q \in rows \union {RowOf(d)}, r.seq = q.seq
      PROVE  r = q
  BY <1>1, <1>4 DEF Linked
<1> QED BY <1>3, <1>4 DEF Linked

-----------------------------------------------------------------------------
\* Both appends, one lemma per part of the invariant.

\* Inserting a row keeps the types.
LEMMA InsertType ==
  ASSUME NEW d \in Drivers, NEW t \in Tables, NEW from, NEW to \in Stages,
         Insert(d, t, from, to), AuditTypeOK
  PROVE  AuditTypeOK'
<1>1. RowOf(d) \in Rows
  BY RowOfType
<1>2. table' \in [Tables -> SUBSET Rows] /\ issued' \in [Tables -> SUBSET Rows]
  BY <1>1 DEF Insert, AuditTypeOK
<1>3. pc' \in [Drivers -> Stages]
  BY DEF Insert, Goto, AuditTypeOK, Stages
<1> QED BY <1>2, <1>3 DEF Insert, graphVars, AuditTypeOK

\* Reading the last record keeps the types.
LEMMA ReadLastType ==
  ASSUME NEW d \in Drivers, NEW t \in Tables, NEW from, NEW to \in Stages,
         ReadLast(d, t, from, to), AuditTypeOK
  PROVE  AuditTypeOK'
<1>1. seen'[d] \in Places
  BY ReadLastContinues
<1>2. seen' \in [Drivers -> Places]
  BY <1>1 DEF ReadLast, AuditTypeOK
<1> QED BY <1>2 DEF ReadLast, Goto, graphVars, AuditTypeOK

\* An insert either raises, and leaves the tables alone, or adds its row.
LEMMA InsertChain ==
  ASSUME NEW d \in Drivers, NEW t \in Tables, NEW from, NEW to,
         Insert(d, t, from, to), AuditTypeOK, ChainInv,
         from = IF t = "human_decisions" THEN "deciding" ELSE "logging",
         to \notin {"deciding", "logging"}, pc' \in [Drivers -> Stages]
  PROVE  ChainInv'
<1> SUFFICES ASSUME edits = 0
             PROVE  /\ \A u \in Tables : Linked(table'[u])
                    /\ \A e \in Drivers :
                         /\ pc'[e] = "deciding" => Continues(table'["human_decisions"], seen'[e])
                         /\ pc'[e] = "logging" => Continues(table'["tool_calls"], seen'[e])
                    /\ trail'.valid
  BY DEF ChainInv, Insert
<1>1. /\ pc[d] = from /\ seen' = seen /\ trail.valid /\ trail' = trail
      /\ \A u \in Tables : Linked(table[u])
  BY DEF Insert, ChainInv
<1>2. \A e \in Drivers : e # d => pc'[e] = pc[e]
  BY DEF Insert, Goto, AuditTypeOK
<1>3. pc'[d] \notin {"deciding", "logging"}
  BY DEF Insert, Goto, AuditTypeOK
<1>4. CASE \E r \in table[t] : r.seq = seen[d].seq
  <2>1. table' = table
    BY <1>4 DEF Insert
  <2> QED BY <1>1, <1>2, <1>3, <2>1 DEF ChainInv
<1>5. CASE ~\E r \in table[t] : r.seq = seen[d].seq
  <2>1. table' = [table EXCEPT ![t] = table[t] \union {RowOf(d)}]
    BY <1>5 DEF Insert
  <2>2. \A u \in Tables : table'[u] = IF u = t THEN table[t] \union {RowOf(d)} ELSE table[u]
    BY <2>1 DEF AuditTypeOK
  <2>3. Continues(table[t], seen[d])
    BY <1>1 DEF ChainInv, Tables
  <2>4. table[t] \in SUBSET Rows
    BY DEF AuditTypeOK
  <2>5. Linked(table[t] \union {RowOf(d)})
    BY <1>1, <1>5, <2>3, <2>4, InsertLinks
  <2>6. \A u \in Tables : Linked(table'[u])
    BY <1>1, <2>2, <2>5
  <2>7. \A u \in Tables : \A p : Continues(table[u], p) => Continues(table'[u], p)
    BY <2>2 DEF Continues
  <2> QED BY <1>1, <1>2, <1>3, <2>6, <2>7 DEF ChainInv, Tables
<1> QED BY <1>4, <1>5

\* Reading the last record keeps the chain.
LEMMA ReadLastChain ==
  ASSUME NEW d \in Drivers, NEW t \in Tables, NEW from, NEW to,
         ReadLast(d, t, from, to), AuditTypeOK, ChainInv,
         to = IF t = "human_decisions" THEN "deciding" ELSE "logging"
  PROVE  ChainInv'
<1>1. Continues(table[t], seen'[d])
  BY ReadLastContinues
<1>2. /\ table' = table /\ trail' = trail /\ edits' = edits
      /\ pc'[d] = to
      /\ \A e \in Drivers : e # d => pc'[e] = pc[e] /\ seen'[e] = seen[e]
  BY DEF ReadLast, Goto, AuditTypeOK
<1> QED BY <1>1, <1>2 DEF ChainInv, Tables

\* Inserting a row keeps the decisions it or its request stands for.
LEMMA InsertRuling ==
  ASSUME NEW d \in Drivers, NEW t \in Tables, NEW from, NEW to,
         Insert(d, t, from, to), AuditTypeOK, RulingInv,
         t = "human_decisions" \/ from = "logging"
  PROVE  RulingInv'
<1>1. \A e : HasEntry(e) => HasEntry(e)'
  BY DEF Insert, AuditTypeOK, HasEntry, Tables
<1>0. trail' = trail /\ ruling' = ruling /\ edits' = edits /\ copy' = copy
  BY DEF Insert, graphVars
<1>2. copy[d].next = "gate" /\ pc'[d] \in PastGate => HasEntry(copy[d].decision)' \/ edits # 0
  <2>1. CASE \E r \in table[t] : r.seq = seen[d].seq
    BY <2>1 DEF Insert, Goto, AuditTypeOK, PastGate
  <2>2. CASE t = "human_decisions" /\ ~\E r \in table[t] : r.seq = seen[d].seq
    <3>1. RowOf(d) \in table'["human_decisions"]
      BY <2>2 DEF Insert, AuditTypeOK, Tables
    <3>2. RowOf(d).entry.decision = copy[d].decision
      BY DEF RowOf, EntryOf
    <3> QED BY <1>0, <3>1, <3>2 DEF HasEntry
  <2>3. CASE from = "logging"
    <3>1. pc[d] \in PastGate
      BY <2>3 DEF Insert, PastGate
    <3>2. copy[d].next = "gate" /\ edits = 0 => HasEntry(copy[d].decision)
      BY <3>1 DEF RulingInv
    <3>3. HasEntry(copy[d].decision) => HasEntry(copy[d].decision)'
      BY <1>0, <1>1
    <3> QED BY <3>2, <3>3
  <2> QED BY <2>1, <2>2, <2>3
<1>3. \A e \in Drivers : e # d => pc'[e] = pc[e]
  BY DEF Insert, Goto, AuditTypeOK
<1> QED BY <1>0, <1>1, <1>2, <1>3 DEF RulingInv

\* Inserting a row keeps what is known of the rows issued.
LEMMA InsertOrigin ==
  ASSUME NEW d \in Drivers, NEW t \in Tables, NEW from, NEW to,
         Insert(d, t, from, to), AuditTypeOK, OriginInv
  PROVE  OriginInv'
<1>1. CASE \E r \in table[t] : r.seq = seen[d].seq
  BY <1>1 DEF Insert, OriginInv
<1>2. CASE ~\E r \in table[t] : r.seq = seen[d].seq
  <2>1. RowOf(d).hash = RowHash(RowOf(d).prev, RowOf(d).seq, RowOf(d).entry)
    BY DEF RowOf
  <2>2. \A u \in Tables :
          /\ table'[u] = IF u = t THEN table[t] \union {RowOf(d)} ELSE table[u]
          /\ issued'[u] = IF u = t THEN issued[t] \union {RowOf(d)} ELSE issued[u]
    BY <1>2 DEF Insert, AuditTypeOK
  <2> QED BY <2>1, <2>2 DEF OriginInv
<1> QED BY <1>1, <1>2

-----------------------------------------------------------------------------
\* The empty log has it all.
LEMMA InitInv == AuditInit => IInv
<1> SUFFICES ASSUME AuditInit PROVE IInv
  OBVIOUS
<1>1. GENESIS \in Hashes
  BY DEF GENESIS, Hashes
<1>2. AuditTypeOK
  BY <1>1, AuditAssumption
  DEF AuditInit, AuditTypeOK, Checkpoints, Deciders, Rulings, Stages, Places, NoTrail, NotRuled
<1>3. ChainInv
  BY DEF AuditInit, ChainInv, Linked, NoTrail
<1>4. RulingInv
  BY DEF AuditInit, RulingInv, PastGate, NoTrail, NotRuled
<1>5. OriginInv
  BY DEF AuditInit, OriginInv
<1> QED BY <1>2, <1>3, <1>4, <1>5 DEF IInv

\* A reader changes nothing but its trail.
LEMMA TrailInv == IInv /\ Trail => IInv'
<1> SUFFICES ASSUME IInv, Trail PROVE IInv'
  OBVIOUS
<1>1. /\ table' = table /\ pc' = pc /\ seen' = seen /\ ruling' = ruling
      /\ issued' = issued /\ edits' = edits /\ checkpoint' = checkpoint /\ copy' = copy
  BY DEF Trail, ReadRun, ListDecisions, VerifyToolCalls, VerifyDecisions, NextTrail,
         requestVars, graphVars
<1>2. OriginInv'
  BY <1>1 DEF IInv, OriginInv
<1>3. edits = 0 => \A t \in Tables : Verify(table[t])
  BY LinkedVerifies DEF IInv, ChainInv, AuditTypeOK
<1>4. /\ \A d : HasEntry(d)' <=> HasEntry(d)
      /\ \A t \in Tables : Linked(table[t])' <=> Linked(table[t])
  BY <1>1 DEF HasEntry
<1>5. CASE ReadRun
  <2>1. trail' = [stage |-> "run", ruling |-> ruling, decisions |-> {}, valid |-> TRUE]
    BY <1>5 DEF ReadRun, NoTrail
  <2>2. AuditTypeOK'
    BY <1>1, <2>1 DEF IInv, AuditTypeOK
  <2>3. ChainInv'
    BY <1>1, <1>4, <2>1 DEF IInv, ChainInv
  <2>4. RulingInv'
    BY <1>1, <1>4, <2>1 DEF IInv, RulingInv
  <2> QED BY <1>2, <2>2, <2>3, <2>4 DEF IInv
<1>6. CASE ListDecisions
  <2> DEFINE shown == {r.entry.decision : r \in table["human_decisions"]}
  <2>1. /\ trail'.stage = "listed" /\ trail'.ruling = trail.ruling
        /\ trail'.decisions = shown /\ trail'.valid = trail.valid
    BY <1>6 DEF ListDecisions, IInv, AuditTypeOK
  <2>2. shown \subseteq Deciders
    BY DEF IInv, AuditTypeOK, Tables, Rows, LogEntries
  <2>3. AuditTypeOK'
    BY <1>1, <1>6, <2>2 DEF IInv, AuditTypeOK, ListDecisions
  <2>4. ChainInv'
    BY <1>1, <1>4, <2>1 DEF IInv, ChainInv
  <2>5. \A d : HasEntry(d) => d \in shown
    BY DEF HasEntry
  <2>6. RulingInv'
    BY <1>1, <1>4, <2>1, <2>5 DEF IInv, RulingInv
  <2> QED BY <1>2, <2>3, <2>4, <2>6 DEF IInv
<1>7. CASE VerifyToolCalls \/ VerifyDecisions
  <2>1. /\ trail.stage \in {"listed", "verified"} /\ trail'.stage \in {"verified", "done"}
        /\ trail'.ruling = trail.ruling /\ trail'.decisions = trail.decisions
    BY <1>7 DEF VerifyToolCalls, VerifyDecisions, IInv, AuditTypeOK
  <2>2. /\ trail'.valid \in BOOLEAN
        /\ edits = 0 => trail'.valid
    BY <1>3, <1>7 DEF VerifyToolCalls, VerifyDecisions, IInv, AuditTypeOK, ChainInv, Tables, Verify
  <2>3. AuditTypeOK'
    BY <1>1, <1>7, <2>2 DEF IInv, AuditTypeOK, VerifyToolCalls, VerifyDecisions
  <2>4. ChainInv'
    BY <1>1, <1>4, <2>2 DEF IInv, ChainInv
  <2>5. RulingInv'
    BY <1>1, <1>4, <2>1 DEF IInv, RulingInv
  <2> QED BY <1>2, <2>3, <2>4, <2>5 DEF IInv
<1>8. CASE NextTrail
  <2>1. trail' = [stage |-> "none", ruling |-> NotRuled, decisions |-> {}, valid |-> TRUE]
    BY <1>8 DEF NextTrail, NoTrail
  <2>2. AuditTypeOK'
    BY <1>1, <2>1 DEF IInv, AuditTypeOK, NotRuled, Rulings, Deciders
  <2>3. ChainInv'
    BY <1>1, <1>4, <2>1 DEF IInv, ChainInv
  <2>4. RulingInv'
    BY <1>1, <1>4, <2>1 DEF IInv, RulingInv, NotRuled
  <2> QED BY <1>2, <2>2, <2>3, <2>4 DEF IInv
<1> QED BY <1>5, <1>6, <1>7, <1>8 DEF Trail

\* After an edit only types and origins are left to keep.
LEMMA EditInv ==
  ASSUME NEW t \in Tables, EditRow(t) \/ DeleteRow(t), IInv
  PROVE  IInv'
<1>1. /\ edits' = edits + 1 /\ edits \in 0..MaxEdits /\ edits < MaxEdits
      /\ pc' = pc /\ seen' = seen /\ ruling' = ruling /\ issued' = issued /\ trail' = trail
      /\ checkpoint' = checkpoint /\ copy' = copy
  BY DEF EditRow, DeleteRow, requestVars, graphVars, IInv, AuditTypeOK
<1>2. edits' # 0 /\ edits' \in 0..MaxEdits
  BY <1>1, AuditAssumption
<1>3. table' \in [Tables -> SUBSET Rows] /\
      \A u \in Tables : \A r \in table'[u] :
        \E q \in table[u] : q.seq = r.seq /\ q.prev = r.prev /\ q.hash = r.hash
  <2>1. CASE DeleteRow(t)
    BY <2>1 DEF DeleteRow, IInv, AuditTypeOK
  <2>2. CASE EditRow(t)
    <3>1. PICK r \in table[t], e \in LogEntries, a \in BOOLEAN :
            table' = [table EXCEPT ![t] = (table[t] \ {r}) \union
                        {[r EXCEPT !.entry = e, !.authenticated = a]}]
      BY <2>2 DEF EditRow
    <3> DEFINE row == [r EXCEPT !.entry = e, !.authenticated = a]
    <3>2. r \in Rows
      BY DEF IInv, AuditTypeOK
    <3>3. row \in Rows /\ row.seq = r.seq /\ row.prev = r.prev /\ row.hash = r.hash
      BY <3>2 DEF Rows
    <3> HIDE DEF row
    <3>4. \A u \in Tables : table'[u] = IF u = t THEN (table[t] \ {r}) \union {row} ELSE table[u]
      BY <3>1 DEF IInv, AuditTypeOK, row
    <3>5. table' \in [Tables -> SUBSET Rows]
      BY <3>1, <3>3 DEF IInv, AuditTypeOK, row
    <3> QED BY <3>3, <3>4, <3>5
  <2> QED BY <2>1, <2>2
<1>4. AuditTypeOK'
  BY <1>1, <1>2, <1>3 DEF IInv, AuditTypeOK
<1>5. OriginInv'
  BY <1>1, <1>3 DEF IInv, OriginInv
<1> QED BY <1>2, <1>4, <1>5 DEF IInv, ChainInv, RulingInv

\* Every step of a request keeps the invariant.
LEMMA RequestInv ==
  ASSUME NEW d \in Drivers, Request(d), IInv
  PROVE  IInv'
<1>1. CASE ReadLastDecision(d) \/ ReadLastToolCall(d)
  <2>1. PICK t \in Tables, from \in {"gate", "finished"}, to \in {"deciding", "logging"} :
          /\ ReadLast(d, t, from, to)
          /\ to = IF t = "human_decisions" THEN "deciding" ELSE "logging"
          /\ to = "logging" => from = "finished"
    BY <1>1 DEF ReadLastDecision, ReadLastToolCall, Tables
  <2>2. AuditTypeOK'
    BY <2>1, ReadLastType DEF IInv, Stages
  <2>3. ChainInv'
    BY <2>1, ReadLastChain DEF IInv
  <2>4. /\ table' = table /\ ruling' = ruling /\ trail' = trail /\ issued' = issued
        /\ edits' = edits /\ pc' = [pc EXCEPT ![d] = to] /\ pc[d] = from /\ copy' = copy
    BY <2>1 DEF ReadLast, Goto, graphVars
  <2>5. RulingInv'
    BY <2>1, <2>4 DEF IInv, AuditTypeOK, RulingInv, HasEntry, PastGate
  <2>6. OriginInv'
    BY <2>4 DEF IInv, OriginInv
  <2> QED BY <2>2, <2>3, <2>5, <2>6 DEF IInv
<1>2. CASE InsertDecision(d) \/ InsertToolCall(d)
  <2>1. PICK t \in Tables, from \in {"deciding", "logging"}, to \in {"decided", "logged"} :
          /\ Insert(d, t, from, to)
          /\ from = IF t = "human_decisions" THEN "deciding" ELSE "logging"
    BY <1>2 DEF InsertDecision, InsertToolCall, Tables
  <2>2. AuditTypeOK'
    BY <2>1, InsertType DEF IInv, Stages
  <2>3. ChainInv'
    BY <2>1, <2>2, InsertChain DEF IInv, AuditTypeOK
  <2>4. RulingInv'
    BY <2>1, InsertRuling DEF IInv
  <2>5. OriginInv'
    BY <2>1, InsertOrigin DEF IInv
  <2> QED BY <2>2, <2>3, <2>4, <2>5 DEF IInv
<1>3. CASE Invoke(d)
  <2>1. /\ table' = table /\ seen' = seen /\ trail' = trail /\ issued' = issued
        /\ edits' = edits /\ ruling' = ruling /\ checkpoint' = checkpoint
        /\ copy' = [copy EXCEPT ![d] = checkpoint]
    BY <1>3 DEF Invoke
  <2>2. PICK to \in {"done", "gate", "running"} :
          /\ pc' = [pc EXCEPT ![d] = to]
          /\ to = "running" => checkpoint.next # "gate"
    BY <1>3 DEF Invoke, Goto
  <2>3. AuditTypeOK'
    BY <2>1, <2>2 DEF IInv, AuditTypeOK, Stages
  <2>4. ChainInv'
    BY <2>1, <2>2 DEF IInv, AuditTypeOK, ChainInv
  <2>5. RulingInv'
    BY <2>1, <2>2 DEF IInv, AuditTypeOK, RulingInv, HasEntry, PastGate
  <2>6. OriginInv'
    BY <2>1 DEF IInv, OriginInv
  <2> QED BY <2>3, <2>4, <2>5, <2>6 DEF IInv
<1>4. CASE \/ Submit(d) \/ UpdateState(d) \/ NodeDone(d) \/ Pause(d) \/ EndRun(d)
           \/ FinishRun(d) \/ Abandon(d)
  <2>1. /\ table' = table /\ seen' = seen /\ trail' = trail /\ issued' = issued
        /\ edits' = edits /\ copy' = copy
    BY <1>4 DEF Submit, UpdateState, NodeDone, Pause, EndRun, FinishRun, Abandon, graphVars
  <2>2. PICK to \in {"admitted", "updated", "running", "done", "finished", "failed"} :
          /\ pc' = [pc EXCEPT ![d] = to]
          /\ to \in {"running", "finished"} => pc[d] \in PastGate
    BY <1>4 DEF Submit, UpdateState, NodeDone, Pause, EndRun, FinishRun, Abandon, Goto, PastGate
  <2>3. /\ \/ ruling' = ruling
           \/ /\ pc[d] = "running"
              /\ ruling' = [decision |-> copy[d].decision, gated |-> copy[d].next = "gate"]
        /\ checkpoint' \in Checkpoints
    <3>1. copy[d] \in Checkpoints /\ checkpoint \in Checkpoints /\ d \in Deciders
      BY DEF IInv, AuditTypeOK, Deciders
    <3> QED BY <1>4, <3>1 DEF Submit, UpdateState, NodeDone, Pause, EndRun, FinishRun, Abandon,
                            graphVars, Checkpoints
  <2>4. ruling' \in Rulings
    <3>1. copy[d].decision \in Deciders /\ (copy[d].next = "gate") \in BOOLEAN
      BY DEF IInv, AuditTypeOK, Checkpoints
    <3>2. [decision |-> copy[d].decision, gated |-> copy[d].next = "gate"] \in Rulings
      BY <3>1 DEF Rulings
    <3> QED BY <2>3, <3>2 DEF IInv, AuditTypeOK
  <2>5. AuditTypeOK'
    BY <2>1, <2>2, <2>3, <2>4 DEF IInv, AuditTypeOK, Stages
  <2>6. ChainInv'
    BY <2>1, <2>2 DEF IInv, AuditTypeOK, ChainInv
  <2>7. RulingInv'
    <3> SUFFICES ASSUME edits = 0 PROVE RulingInv'
      BY <2>1 DEF RulingInv
    <3>1. \A e : HasEntry(e)' <=> HasEntry(e)
      BY <2>1 DEF HasEntry
    <3>2. \A e \in Drivers : copy[e].next = "gate" /\ pc[e] \in PastGate
                             => HasEntry(copy[e].decision)
      BY DEF IInv, RulingInv
    <3>3. \A e \in Drivers : pc'[e] \in PastGate => pc[e] \in PastGate
      BY <2>2 DEF IInv, AuditTypeOK, PastGate
    <3>4. ruling'.gated => HasEntry(ruling'.decision)
      <4>1. CASE ruling' = ruling
        BY <4>1 DEF IInv, RulingInv
      <4>2. CASE /\ pc[d] = "running"
                 /\ ruling' = [decision |-> copy[d].decision, gated |-> copy[d].next = "gate"]
        BY <3>2, <4>2 DEF PastGate
      <4> QED BY <2>3, <4>1, <4>2
    <3> QED BY <2>1, <3>1, <3>2, <3>3, <3>4 DEF IInv, RulingInv
  <2>8. OriginInv'
    BY <2>1 DEF IInv, OriginInv
  <2> QED BY <2>5, <2>6, <2>7, <2>8 DEF IInv
<1> QED BY <1>1, <1>2, <1>3, <1>4 DEF Request

\* Every step keeps the invariant.
LEMMA NextInv == IInv /\ [AuditNext]_auditVars => IInv'
<1>1. ASSUME IInv, UNCHANGED auditVars PROVE IInv'
  BY <1>1 DEF auditVars, requestVars, graphVars, IInv, AuditTypeOK, ChainInv, RulingInv,
              HasEntry, OriginInv
<1> QED BY <1>1, RequestInv, TrailInv, EditInv DEF AuditNext

\* In every state the tables are typed and linked, and their rows are those that were issued.
THEOREM IInvHolds == AuditSpec => []IInv
BY InitInv, NextInv, PTL DEF AuditSpec

-----------------------------------------------------------------------------
\* The tables hold well-formed rows and every request is at one of its stages.
THEOREM TypeCorrect == AuditSpec => []AuditTypeOK
<1>1. IInv => AuditTypeOK
  BY DEF IInv
<1> QED BY <1>1, IInvHolds, PTL

\* However many requests append to both chains at once and wherever they stop,
\* both verify as long as nobody edits the tables, and no trail says otherwise.
THEOREM ChainsVerify == AuditSpec => []NoFalseAlarm
<1>1. IInv => NoFalseAlarm
  BY LinkedVerifies DEF IInv, AuditTypeOK, ChainInv, NoFalseAlarm
<1> QED BY <1>1, IInvHolds, PTL

\* An audit trail that was read while requests went on, and that reports a run as
\* settled by a request that came by the gate, lists the decision it was settled by:
\* its row is inserted before the node after the gate begins, and nobody removes it.
THEOREM TrailsExplain == AuditSpec => []TrailShowsTheRuling
<1>1. IInv => TrailShowsTheRuling
  BY DEF IInv, RulingInv, TrailShowsTheRuling
<1> QED BY <1>1, IInvHolds, PTL

\* Whatever was edited, however often, the hashed columns of a row in a chain that
\* still verifies are those of a row the program wrote: two rows with one hash have
\* one entry.
THEOREM ChainsVouch == AuditSpec => []VerifiedMeansUntouched
<1>1. ASSUME IInv, NEW t \in Tables, Verify(table[t]), NEW r \in table[t]
      PROVE  \E q \in issued[t] :
               q.seq = r.seq /\ q.entry = r.entry /\ q.prev = r.prev /\ q.hash = r.hash
  <2>1. PICK q \in issued[t] : q.seq = r.seq /\ q.prev = r.prev /\ q.hash = r.hash
    BY <1>1 DEF IInv, OriginInv
  <2>2. r \in Rows /\ q \in Rows
    BY <1>1 DEF IInv, AuditTypeOK
  <2>3. /\ r.hash = Append(r.prev, [seq |-> r.seq, entry |-> r.entry])
        /\ q.hash = Append(q.prev, [seq |-> q.seq, entry |-> q.entry])
    BY <1>1 DEF IInv, OriginInv, Verify, RowHash
  <2>4. /\ r.hash[Len(r.prev) + 1] = [seq |-> r.seq, entry |-> r.entry]
        /\ q.hash[Len(q.prev) + 1] = [seq |-> q.seq, entry |-> q.entry]
    BY <2>2, <2>3 DEF Rows, Hashes
  <2>5. r.entry = q.entry
    BY <2>1, <2>4
  <2> QED BY <2>1, <2>5
<1>2. IInv => VerifiedMeansUntouched
  BY <1>1 DEF VerifiedMeansUntouched
<1> QED BY <1>2, IInvHolds, PTL
=============================================================================
