----------------------------- MODULE Mailboxes -----------------------------
(***************************************************************************)
(* What the WebSocket hub promises: a message reaches every member it is   *)
(* meant for, once and in the order of publication, and nobody else; only  *)
(* a member whose mailbox is full misses it, and that member is expelled.  *)
(***************************************************************************)
EXTENDS Naturals, Sequences, FiniteSets

CONSTANTS
  Conns, Profiles, Nobody,
  Limit,          \* members a user may have
  Capacity,       \* messages a mailbox holds
  Published,      \* what may be published
  MeantFor(_, _)  \* MeantFor(profile, message)

VARIABLES
  member,   \* the profile of each member, Nobody for the rest
  mailbox,  \* what each has been sent and has not read yet
  count     \* messages published

Init ==
  /\ member = [c \in Conns |-> Nobody]
  /\ mailbox = [c \in Conns |-> <<>>]
  /\ count = 0

Members == {c \in Conns : member[c] # Nobody}

\* A connection comes up with an empty mailbox.
Connect(c) ==
  /\ member[c] = Nobody
  /\ mailbox' = [mailbox EXCEPT ![c] = <<>>]
  /\ UNCHANGED <<member, count>>

\* A public connection always joins, one of a user while the user has room.
Join(c, p) ==
  /\ member[c] = Nobody
  /\ \/ p.topic # Nobody
     \/ Cardinality({d \in Members : member[d].user = p.user}) < Limit
  /\ member' = [member EXCEPT ![c] = p]
  /\ UNCHANGED <<mailbox, count>>

Leave(c) ==
  /\ member[c] # Nobody
  /\ member' = [member EXCEPT ![c] = Nobody]
  /\ UNCHANGED <<mailbox, count>>

Read(c) ==
  /\ mailbox[c] # <<>>
  /\ mailbox' = [mailbox EXCEPT ![c] = Tail(@)]
  /\ UNCHANGED <<member, count>>

Publish(m) ==
  LET audience == {c \in Members : MeantFor(member[c], m)}
      late == {c \in audience : Len(mailbox[c]) >= Capacity}
  IN  /\ count' = count + 1
      /\ mailbox' = [c \in Conns |->
                       IF c \in audience \ late
                       THEN Append(mailbox[c], [n |-> count', msg |-> m])
                       ELSE mailbox[c]]
      /\ member' = [c \in Conns |-> IF c \in late THEN Nobody ELSE member[c]]

Next ==
  \/ \E c \in Conns : \/ Connect(c) \/ Leave(c) \/ Read(c)
                      \/ \E p \in Profiles : Join(c, p)
  \/ \E m \in Published : Publish(m)

Spec == Init /\ [][Next]_<<member, mailbox, count>>
=============================================================================
