------------------------------- MODULE Access -------------------------------
(***************************************************************************)
(* Who may call the API, and how often: get_current_user and rate_limit of *)
(* api/deps.py, which every route depends on in that order, the accounts   *)
(* the command line keeps in the database, and the use approve_run makes   *)
(* of the identity.  Reading the account, counting the request and serving *)
(* it are three steps: other requests and the command line come in between.*)
(***************************************************************************)
EXTENDS Naturals, FiniteSets

CONSTANTS
  Users,      \* usernames; an account's API key is known by its user
  Roles,
  Hosts,      \* client addresses
  Requests,
  Sends,      \* what a request may come with: a host, a token, a role it claims
  Limit,      \* settings.api_rate_limit_per_minute
  Window,     \* the 60 seconds of rate_limit, in ticks of the clock
  None,
  MaxTime, MaxRestarts   \* bounds

ASSUME AccessAssumption ==
  /\ Limit \in Nat /\ Window \in Nat \ {0}
  /\ MaxTime \in Nat /\ MaxRestarts \in Nat

VARIABLES
  now,        \* time.monotonic()
  keyed,      \* an ITP_API_KEY is configured
  accounts,   \* the users table
  window,     \* _rate_windows: the admissions each host's list holds
  calls,      \* the requests being served
  replies,    \* what each was answered
  admitted,   \* the requests let through since the server started; observed
  restarts    \* only bounds the model

vars == <<now, keyed, accounts, window, calls, replies, admitted, restarts>>

Accounts == [role : Roles, disabled : BOOLEAN]
Entries == [request : Requests, host : Hosts, at : Nat]
Tokens == Users \union {"shared", "other", "none"}
Identities == [username : Users \union {"local", "shared-key"}, role : Roles \union {"gatekeeper"},
               authenticated : BOOLEAN]
Calls == [stage : {"authenticating", "counting", "serving"}, host : Hosts, token : Tokens,
          body : Roles, user : Identities \union {None},
          standing : {"absent", "live", "revoked"}]
Replies == [status : {200, 401, 429, 503}, call : Calls, role : Roles \union {"gatekeeper", None}]

ASSUME SendsAssumption == Sends \subseteq [host : Hosts, token : Tokens, body : Roles]

ASSUME NoneAssumption ==
  /\ None \notin Accounts \union Calls \union Replies \union Identities \union Roles
  /\ "shared" \notin Users /\ "other" \notin Users /\ "none" \notin Users

Init ==
  /\ now = 0
  /\ keyed \in BOOLEAN
  /\ accounts = [u \in Users |-> None]
  /\ window = [h \in Hosts |-> {}]
  /\ calls = [q \in Requests |-> None]
  /\ replies = [q \in Requests |-> None]
  /\ admitted = {}
  /\ restarts = 0

-----------------------------------------------------------------------------
(***************************************************************************)
(* The command line.                                                       *)
(***************************************************************************)

\* The row both commands come to: a username is taken for good, by a disabled
\* account too, and a row is never deleted.
NewAccount(role) == [role |-> role, disabled |-> FALSE]
DisabledAccount(account) == [account EXCEPT !.disabled = TRUE]

CreateUser(u, role) ==
  /\ accounts[u] = None
  /\ accounts' = [accounts EXCEPT ![u] = NewAccount(role)]
  /\ UNCHANGED <<now, keyed, window, calls, replies, admitted, restarts>>

DisableUser(u) ==
  /\ accounts[u] # None
  /\ accounts' = [accounts EXCEPT ![u] = DisabledAccount(@)]
  /\ UNCHANGED <<now, keyed, window, calls, replies, admitted, restarts>>

-----------------------------------------------------------------------------
(***************************************************************************)
(* The server.                                                             *)
(***************************************************************************)
Revoked == {u \in Users : accounts[u] # None /\ accounts[u].disabled}

\* How the account of a token stands; a call remembers it, only to be observed.
Standing(token) ==
  IF token \notin Users \/ accounts[token] = None THEN "absent"
  ELSE IF token \in Revoked THEN "revoked" ELSE "live"

Arrive(q, sent) ==
  /\ calls[q] = None /\ replies[q] = None
  /\ calls' = [calls EXCEPT ![q] =
       [stage |-> "authenticating", host |-> sent.host, token |-> sent.token,
        body |-> sent.body, user |-> None, standing |-> Standing(sent.token)]]
  /\ UNCHANGED <<now, keyed, accounts, window, replies, admitted, restarts>>

At(q, stage) == calls[q] # None /\ calls[q].stage = stage

Answer(q, status, role) ==
  /\ replies' = [replies EXCEPT ![q] = [status |-> status, call |-> calls[q], role |-> role]]
  /\ calls' = [calls EXCEPT ![q] = None]

\* Mutant: the account is looked up, its disabled_at is not.
AccountOfAny(token) == IF token \in Users THEN accounts[token] ELSE None

\* get_user_by_api_key: nobody, for a key that is unknown or was disabled.
AccountOf(token) ==
  IF token \in Users THEN (IF token \in Revoked THEN None ELSE accounts[token]) ELSE None

\* An account of its own, else anyone where no key is set, else the shared key.
IdentityOf(token) ==
  IF AccountOf(token) # None
  THEN [username |-> token, role |-> AccountOf(token).role, authenticated |-> TRUE]
  ELSE IF ~keyed
  THEN [username |-> "local", role |-> "gatekeeper", authenticated |-> FALSE]
  ELSE IF token = "shared"
  THEN [username |-> "shared-key", role |-> "gatekeeper", authenticated |-> FALSE]
  ELSE None

\* A request that is not let in is not counted either.
Authenticate(q) ==
  /\ At(q, "authenticating")
  /\ IF IdentityOf(calls[q].token) = None
     THEN Answer(q, 401, None)
     ELSE /\ calls' = [calls EXCEPT ![q].stage = "counting",
                                    ![q].user = IdentityOf(calls[q].token)]
          /\ UNCHANGED replies
  /\ UNCHANGED <<now, keyed, accounts, window, admitted, restarts>>

\* Mutant: the list is pruned of what is older than the window, not as old.
LiveOffByOne(h) == {e \in window[h] : now - e.at <= Window}

\* What the list holds once the entries that fell out of the window are dropped.
Live(h) == {e \in window[h] : now < e.at + Window}

Admit(q) ==
  LET h     == calls[q].host
      entry == [request |-> q, host |-> h, at |-> now]
  IN  /\ At(q, "counting")
      /\ Cardinality(Live(h)) < Limit
      /\ window' = [window EXCEPT ![h] = Live(h) \union {entry}]
      /\ admitted' = admitted \union {entry}
      /\ calls' = [calls EXCEPT ![q].stage = "serving"]
      /\ UNCHANGED <<now, keyed, accounts, replies, restarts>>

Refuse(q) ==
  LET h == calls[q].host
  IN  /\ At(q, "counting")
      /\ Cardinality(Live(h)) >= Limit
      /\ window' = [window EXCEPT ![h] = Live(h)]
      /\ Answer(q, 429, None)
      /\ UNCHANGED <<now, keyed, accounts, admitted, restarts>>

\* approve_run: an account's role counts, the role in the body only where there is
\* no account to ask.
Serve(q) ==
  LET call == calls[q]
  IN  /\ At(q, "serving")
      /\ Answer(q, 200, IF call.user.authenticated THEN call.user.role ELSE call.body)
      /\ UNCHANGED <<now, keyed, accounts, window, admitted, restarts>>

Tick ==
  /\ now < MaxTime
  /\ now' = now + 1
  /\ UNCHANGED <<keyed, accounts, window, calls, replies, admitted, restarts>>

\* The lists are in memory, the accounts are not; the settings are read again.
Restart ==
  /\ restarts < MaxRestarts
  /\ restarts' = restarts + 1
  /\ window' = [h \in Hosts |-> {}]
  /\ admitted' = {}
  /\ keyed' \in BOOLEAN
  /\ replies' = [q \in Requests |->
       IF calls[q] = None THEN replies[q]
       ELSE [status |-> 503, call |-> calls[q], role |-> None]]
  /\ calls' = [q \in Requests |-> None]
  /\ UNCHANGED <<now, accounts>>

Next ==
  \/ \E u \in Users : (\E role \in Roles : CreateUser(u, role)) \/ DisableUser(u)
  \/ \E q \in Requests :
       \/ \E sent \in Sends : Arrive(q, sent)
       \/ Authenticate(q) \/ Admit(q) \/ Refuse(q) \/ Serve(q)
  \/ Tick \/ Restart

Spec == Init /\ [][Next]_vars
=============================================================================
