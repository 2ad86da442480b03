------------------------------- MODULE MCHub -------------------------------
(* Values for Hub's constants.                                             *)
EXTENDS Hub

CONSTANTS u1, u2, t1, t2, x1, x2, c1, c2

Login(u, admin, fleet) == [user |-> u, admin |-> admin, fleet |-> fleet, topic |-> Nobody]
Public(t) == [user |-> Nobody, admin |-> FALSE, fleet |-> Nobody, topic |-> t]
Targeted(users, x) == [kind |-> "targeted", users |-> users, veh |-> x]

\* An admin who watches all vehicles, one who watches x1, an owner, a screen.
MCProfiles ==
  {Login(u1, TRUE, Nobody), Login(u1, TRUE, {x1}), Login(u2, FALSE, Nobody), Public(t1)}

\* A global message, positions of two vehicles, a notification to the admin's
\* user itself, and the events of two topics.
MCMessages ==
  {[kind |-> "global"], Targeted({u2}, x1), Targeted({}, x2), Targeted({u1}, Nobody)}
  \cup {[kind |-> "topic", topic |-> t] : t \in {t1, t2}}
=============================================================================
