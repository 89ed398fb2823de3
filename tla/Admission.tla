----------------------------- MODULE Admission ------------------------------
(***************************************************************************)
(* What a rate limit promises: of the requests of one host, Limit at most  *)
(* are admitted in any stretch of Window ticks, and one is turned away only*)
(* when that many were.  A server that restarts forgets whom it admitted.  *)
(***************************************************************************)
EXTENDS Naturals, FiniteSets

CONSTANTS Hosts, Requests, Limit, Window

\* What a limit can be; module Access assumes it of its own.
LimitIsSet == Limit \in Nat /\ Window \in Nat \ {0}

VARIABLES
  now,        \* the clock
  admitted,   \* what was admitted since the server started
  refused     \* the requests that were turned away

Admissions == [request : Requests, host : Hosts, at : Nat]

Init == now = 0 /\ admitted = {} /\ refused = {}

\* The admissions of a host that still count at time t.
Counting(h, t) == {a \in admitted : a.host = h /\ a.at <= t /\ t < a.at + Window}

Admit(q, h) ==
  /\ Cardinality(Counting(h, now)) < Limit
  /\ admitted' = admitted \union {[request |-> q, host |-> h, at |-> now]}
  /\ UNCHANGED <<now, refused>>

Refuse(q, h) ==
  /\ Cardinality(Counting(h, now)) >= Limit
  /\ refused' = refused \union {q}
  /\ UNCHANGED <<now, admitted>>

Tick == now' = now + 1 /\ UNCHANGED <<admitted, refused>>

Restart == admitted' = {} /\ UNCHANGED <<now, refused>>

Next ==
  \/ \E q \in Requests, h \in Hosts : Admit(q, h) \/ Refuse(q, h)
  \/ Tick \/ Restart

Spec == Init /\ [][Next]_<<now, admitted, refused>>

\* Of one host's requests no more than Limit are admitted within any Window.
AtMostLimit == \A h \in Hosts, t \in Nat : Cardinality(Counting(h, t)) <= Limit
=============================================================================
