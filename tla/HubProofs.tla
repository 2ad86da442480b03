----------------------------- MODULE HubProofs -----------------------------
(***************************************************************************)
(* Proofs about Hub for any connections, users, topics, filters, messages, *)
(* limits and buffer sizes: the maps stay consistent, no channel is used   *)
(* after it is closed, and the hub implements Mailboxes.                   *)
(***************************************************************************)
EXTENDS Hub, FiniteSetTheorems, SequenceTheorems, TLAPS

-----------------------------------------------------------------------------
(* The maps.                                                               *)

LEMMA WithMembers ==
  ASSUME NEW map, NEW k, NEW c
  PROVE  Members(With(map, k, c)) = Members(map) \cup {c}
<1>1. DOMAIN With(map, k, c) = DOMAIN map \cup {k}
  BY DEF With
<1>2. /\ With(map, k, c)[k] = Entry(map, k) \cup {c}
      /\ \A j \in DOMAIN map : j # k => With(map, k, c)[j] = map[j]
  BY DEF With
<1>3. ASSUME NEW x \in Members(With(map, k, c))
      PROVE  x \in Members(map) \cup {c}
  BY <1>1, <1>2 DEF Members, Entry
<1>4. ASSUME NEW x \in Members(map)
      PROVE  x \in Members(With(map, k, c))
  BY <1>1, <1>2 DEF Members, Entry
<1>5. c \in Members(With(map, k, c))
  BY <1>1, <1>2 DEF Members
<1>6. QED
  BY <1>3, <1>4, <1>5

LEMMA WithoutIs ==
  ASSUME NEW map, NEW S
  PROVE  /\ DOMAIN Without(map, S) = {j \in DOMAIN map : map[j] \ S # {}}
         /\ \A j \in DOMAIN Without(map, S) :
              /\ Without(map, S)[j] = map[j] \ S
              /\ Without(map, S)[j] # {}
         /\ Members(Without(map, S)) = Members(map) \ S
<1>1. DOMAIN Without(map, S) = {j \in DOMAIN map : map[j] \ S # {}}
  BY DEF Without
<1>2. \A j \in DOMAIN Without(map, S) :
        Without(map, S)[j] = map[j] \ S /\ Without(map, S)[j] # {}
  BY DEF Without
<1>3. Members(Without(map, S)) = Members(map) \ S
  BY <1>1, <1>2 DEF Members
<1>4. QED
  BY <1>1, <1>2, <1>3

\* What With adds, and that it leaves no key empty.
LEMMA WithAdds ==
  ASSUME NEW map, NEW k, NEW c, \A j \in DOMAIN map : map[j] # {}
  PROVE  \A j \in DOMAIN With(map, k, c) :
           /\ With(map, k, c)[j] # {}
           /\ \A d \in With(map, k, c)[j] : (d = c /\ j = k) \/ (j \in DOMAIN map /\ d \in map[j])
<1>1. ASSUME NEW j \in DOMAIN With(map, k, c)
      PROVE  /\ With(map, k, c)[j] # {}
             /\ \A d \in With(map, k, c)[j] :
                  (d = c /\ j = k) \/ (j \in DOMAIN map /\ d \in map[j])
  <2>1. j \in DOMAIN map \cup {k}
    BY DEF With
  <2>2. With(map, k, c)[j] = IF j = k THEN Entry(map, k) \cup {c} ELSE map[j]
    BY <2>1 DEF With
  <2>3. QED
    BY <2>1, <2>2 DEF Entry
<1>2. QED
  BY <1>1

\* What Without leaves.
LEMMA WithoutLeaves ==
  ASSUME NEW map, NEW S
  PROVE  \A j \in DOMAIN Without(map, S) :
           /\ Without(map, S)[j] # {} /\ j \in DOMAIN map
           /\ Without(map, S)[j] \subseteq map[j]
<1>1. ASSUME NEW j \in DOMAIN Without(map, S)
      PROVE  /\ Without(map, S)[j] # {} /\ j \in DOMAIN map
             /\ Without(map, S)[j] \subseteq map[j]
  BY DEF Without
<1>2. QED
  BY <1>1

LEMMA MapOfIs ==
  ASSUME NEW K, NEW map
  PROVE  map \in MapOf(K)
           <=> /\ map = [k \in DOMAIN map |-> map[k]]
               /\ DOMAIN map \subseteq K
               /\ \A k \in DOMAIN map : map[k] \subseteq Conns
  BY DEF MapOf

LEMMA MapTypes ==
  ASSUME NEW K, NEW map \in MapOf(K), NEW k \in K, NEW c \in Conns, NEW S
  PROVE  /\ With(map, k, c) \in MapOf(K)
         /\ Without(map, S) \in MapOf(K)
<1>1. /\ DOMAIN map \subseteq K
      /\ \A j \in DOMAIN map : map[j] \subseteq Conns
  BY MapOfIs
<1>2. Entry(map, k) \subseteq Conns
  BY <1>1 DEF Entry
<1>3. With(map, k, c) \in [DOMAIN map \cup {k} -> SUBSET Conns]
  BY <1>1, <1>2 DEF With
<1>4. Without(map, S) \in [{j \in DOMAIN map : map[j] \ S # {}} -> SUBSET Conns]
  BY <1>1 DEF Without
<1>5. QED
  BY <1>1, <1>3, <1>4 DEF MapOf

-----------------------------------------------------------------------------
(* What the maps say of a connection.                                      *)

LEMMA ProfileIs ==
  ASSUME NEW p \in Profiles
  PROVE  /\ p \in Profile /\ p # Nobody
         /\ p.topic = Nobody => p.user \in Users /\ p.admin \in BOOLEAN
         /\ p.topic # Nobody => p.topic \in Topics /\ p.user = Nobody /\ ~p.admin
         /\ p.user \in Users => p.topic = Nobody
  BY ConstantsOK DEF Profile

LEMMA ClientsAre ==
  ASSUME TypeOK, MapsAgree, NEW c
  PROVE  /\ c \in Members(clients) =>
              /\ c \in Conns /\ who[c] \in Profiles
              /\ who[c].topic = Nobody /\ who[c].user \in Users
              /\ who[c].user \in DOMAIN clients /\ c \in clients[who[c].user]
         /\ \A u : c \in Entry(clients, u)
                     <=> c \in Members(clients) /\ who[c].user = u
<1>1. /\ DOMAIN clients \subseteq Users
      /\ \A u \in DOMAIN clients : clients[u] \subseteq Conns
  BY MapOfIs DEF TypeOK
<1>2. \A u \in DOMAIN clients : \A d \in clients[u] :
        d \in Conns /\ who[d] \in Profiles /\ who[d].user = u
  BY <1>1 DEF TypeOK, MapsAgree
<1>3. \A u \in DOMAIN clients : \A d \in clients[u] : who[d].topic = Nobody
  BY <1>1, <1>2, ProfileIs
<1>4. QED
  BY <1>1, <1>2, <1>3 DEF Members, Entry

LEMMA SubscribersAre ==
  ASSUME TypeOK, MapsAgree, NEW c
  PROVE  /\ c \in Members(topics) =>
              /\ c \in Conns /\ who[c] \in Profiles
              /\ who[c].topic \in Topics /\ who[c].topic # Nobody
              /\ who[c].user = Nobody /\ ~who[c].admin
              /\ who[c].topic \in DOMAIN topics /\ c \in topics[who[c].topic]
         /\ \A t : c \in Entry(topics, t)
                     <=> c \in Members(topics) /\ who[c].topic = t
<1>1. /\ DOMAIN topics \subseteq Topics
      /\ \A t \in DOMAIN topics : topics[t] \subseteq Conns
  BY MapOfIs DEF TypeOK
<1>2. \A t \in DOMAIN topics : \A d \in topics[t] :
        /\ d \in Conns /\ who[d] \in Profiles /\ who[d].topic = t
        /\ t \in Topics /\ t # Nobody
  BY <1>1, ConstantsOK DEF TypeOK, MapsAgree
<1>3. \A t \in DOMAIN topics : \A d \in topics[t] :
        who[d].user = Nobody /\ ~who[d].admin
  BY <1>1, <1>2, ProfileIs
<1>4. QED
  BY <1>1, <1>2, <1>3 DEF Members, Entry

LEMMA NobodyIsNoKey ==
  ASSUME TypeOK
  PROVE  Entry(clients, Nobody) = {} /\ Entry(topics, Nobody) = {}
  BY ConstantsOK, MapOfIs DEF TypeOK, Entry

-----------------------------------------------------------------------------
(* Broadcasts.                                                             *)

Notes == [n: Nat, msg: Messages]

LEMMA DeliverTypes ==
  ASSUME NEW boxes \in [Conns -> Seq(Notes)],
         \A c \in Conns : Len(boxes[c]) <= Buffer,
         NEW S, NEW note \in Notes
  PROVE  /\ Deliver(boxes, S, note) \in [Conns -> Seq(Notes)]
         /\ \A c \in Conns : Len(Deliver(boxes, S, note)[c]) <= Buffer
<1> DEFINE after == Deliver(boxes, S, note)
<1>1. ASSUME NEW c \in Conns
      PROVE  after[c] \in Seq(Notes) /\ Len(after[c]) <= Buffer
  <2>1. boxes[c] \in Seq(Notes) /\ Len(boxes[c]) \in Nat /\ Len(boxes[c]) <= Buffer
    BY LenProperties
  <2>2. CASE c \in S \ Full(boxes, S)
    <3>1. after[c] = Append(boxes[c], note)
      BY <2>2 DEF Deliver
    <3>2. ~(Len(boxes[c]) >= Buffer)
      BY <2>2 DEF Full
    <3>3. Append(boxes[c], note) \in Seq(Notes) /\ Len(Append(boxes[c], note)) = Len(boxes[c]) + 1
      BY <2>1, AppendProperties
    <3>4. QED
      BY <2>1, <3>1, <3>2, <3>3, ConstantsOK
  <2>3. CASE c \notin S \ Full(boxes, S)
    BY <2>1, <2>3 DEF Deliver
  <2>4. QED
    BY <2>2, <2>3
<1>2. after = [c \in Conns |-> after[c]]
  BY DEF Deliver
<1>3. QED
  BY <1>1, <1>2

\* Two loops over disjoint sets are one loop over both.
LEMMA TwoLoops ==
  ASSUME NEW boxes, NEW T, NEW W, NEW note, T \cap W = {}, W \subseteq Conns
  PROVE  /\ Deliver(Deliver(boxes, T, note), W, note) = Deliver(boxes, T \cup W, note)
         /\ Full(boxes, T) \cup Full(Deliver(boxes, T, note), W) = Full(boxes, T \cup W)
<1>1. \A c \in W : Deliver(boxes, T, note)[c] = boxes[c]
  BY DEF Deliver
<1>2. Full(Deliver(boxes, T, note), W) = Full(boxes, W)
  BY <1>1 DEF Full
<1>3. Full(boxes, T) \cup Full(boxes, W) = Full(boxes, T \cup W)
  BY DEF Full
<1>4. ASSUME NEW c \in Conns
      PROVE  Deliver(Deliver(boxes, T, note), W, note)[c] = Deliver(boxes, T \cup W, note)[c]
  <2>1. CASE c \in W
    BY <1>1, <1>2, <2>1 DEF Deliver, Full
  <2>2. CASE c \notin W
    BY <2>2 DEF Deliver, Full
  <2>3. QED
    BY <2>1, <2>2
<1>5. QED
  BY <1>2, <1>3, <1>4 DEF Deliver

Audience(m) == {c \in Registered : MeantFor(who[c], m)}

\* Each broadcast serves exactly the audience and drops exactly its slow part.
LEMMA BroadcastServes ==
  ASSUME TypeOK, MapsAgree, NEW m \in Messages, HandleBroadcast(m)
  PROVE  LET slow == Full(send, Audience(m))
         IN  /\ send' = Deliver(send, Audience(m), Note(m))
             /\ Close(slow)
             /\ \/ DropClients(slow) /\ \A c \in slow : c \in Members(clients)
                \/ /\ topics' = Without(topics, slow) /\ UNCHANGED <<clients, admins>>
                   /\ \A c \in slow : c \in Members(topics)
<1> DEFINE slow == Full(send, Audience(m))
<1>1. CASE BroadcastGlobal(m)
  <2>1. Audience(m) = Members(clients)
    <3>1. m.kind = "global"
      BY <1>1 DEF BroadcastGlobal
    <3>2. \A c \in Registered : MeantFor(who[c], m) <=> who[c].topic = Nobody
      BY <3>1 DEF MeantFor
    <3>3. QED
      BY <3>2, ClientsAre, SubscribersAre DEF Audience, Registered
  <2>2. QED
    BY <1>1, <2>1 DEF BroadcastGlobal, DropClients, Full
<1>2. CASE BroadcastTargeted(m)
  <2> DEFINE targets == UNION {Entry(clients, u) : u \in m.users}
             watchers == Watchers(m, targets)
  <2>1. m.kind = "targeted" /\ m.users \subseteq Users
    BY <1>2, ConstantsOK DEF BroadcastTargeted, Message
  <2>2. \A c : c \in targets <=> c \in Members(clients) /\ who[c].user \in m.users
    BY ClientsAre
  <2>3. \A c : c \in watchers <=>
          /\ c \in Members(clients) /\ who[c].admin /\ c \notin targets
          /\ m.veh = Nobody \/ who[c].fleet = Nobody \/ m.veh \in who[c].fleet
    BY DEF Watchers, MapsAgree
  <2>4. \A c \in Registered :
          MeantFor(who[c], m) <=>
            \/ who[c].user \in m.users
            \/ /\ who[c].admin
               /\ m.veh = Nobody \/ who[c].fleet = Nobody \/ m.veh \in who[c].fleet
    <3>1. m.kind # "global" /\ m.kind # "topic"
      BY <2>1
    <3>2. QED
      BY <2>1, <3>1, Zenon DEF MeantFor
  <2>5. \A c \in Members(topics) : who[c].user \notin m.users /\ ~who[c].admin
    BY <2>1, SubscribersAre, ConstantsOK
  <2>6. Audience(m) = targets \cup watchers
    <3> HIDE DEF targets, watchers
    <3> QED
      BY <2>2, <2>3, <2>4, <2>5 DEF Audience, Registered
  <2>7. targets \cap watchers = {} /\ watchers \subseteq Conns /\ targets \subseteq Members(clients)
    BY <2>2, <2>3, ClientsAre
  <2>8. watchers \subseteq Members(clients)
    BY <2>3
  <2>9. /\ send' = Deliver(Deliver(send, targets, Note(m)), watchers, Note(m))
        /\ DropClients(Full(send, targets) \cup Full(Deliver(send, targets, Note(m)), watchers))
    BY <1>2 DEF BroadcastTargeted
  <2> HIDE DEF targets, watchers
  <2>10. send' = Deliver(send, Audience(m), Note(m)) /\ DropClients(slow)
    <3>1. /\ Deliver(Deliver(send, targets, Note(m)), watchers, Note(m))
               = Deliver(send, targets \cup watchers, Note(m))
          /\ Full(send, targets) \cup Full(Deliver(send, targets, Note(m)), watchers)
               = Full(send, targets \cup watchers)
      BY <2>7, TwoLoops
    <3>2. DropClients(Full(send, targets \cup watchers))
      BY <2>9, <3>1
    <3>3. QED
      BY <2>6, <2>9, <3>1, <3>2
  <2>11. QED
    BY <2>6, <2>7, <2>8, <2>10 DEF DropClients, Full
<1>3. CASE HandleTopicBroadcast(m)
  <2>1. m.kind = "topic" /\ m.topic \in Topics
    BY <1>3, ConstantsOK DEF HandleTopicBroadcast, Message
  <2>2. \A c \in Registered : MeantFor(who[c], m) <=> who[c].topic = m.topic
    BY <2>1 DEF MeantFor
  <2>3. Audience(m) = Entry(topics, m.topic)
    BY <2>1, <2>2, ClientsAre, SubscribersAre, ConstantsOK DEF Audience, Registered
  <2>4. Entry(topics, m.topic) \subseteq Members(topics)
    BY SubscribersAre
  <2>5. QED
    BY <1>3, <2>3, <2>4 DEF HandleTopicBroadcast, Full
<1>4. QED
  BY <1>1, <1>2, <1>3 DEF HandleBroadcast

-----------------------------------------------------------------------------
(* Each action keeps the invariant.                                        *)

MapTypesOK ==
  /\ clients \in MapOf(Users) /\ topics \in MapOf(Topics) /\ admins \subseteq Conns
  /\ closes \in [Conns -> Nat]

LEMMA CloseIs ==
  ASSUME TypeOK, NEW S, Close(S)
  PROVE  /\ closes' \in [Conns -> Nat]
         /\ \A c \in Conns : closes'[c] = IF c \in S THEN closes[c] + 1 ELSE closes[c]
  BY DEF TypeOK, Close

\* Removing connections from a map, as every drop and every unregister does.
LEMMA RemoveKeeps ==
  ASSUME HubInv, NEW S, Close(S), UNCHANGED who,
         \/ /\ S \subseteq Members(clients)
            /\ clients' = Without(clients, S)
            /\ admins' = admins \ {c \in S : who[c].admin}
            /\ UNCHANGED topics
         \/ /\ S \subseteq Members(topics)
            /\ topics' = Without(topics, S)
            /\ UNCHANGED <<clients, admins>>
  PROVE  MapTypesOK' /\ MapsAgree' /\ OpenWhileRegistered' /\ Registered' = Registered \ S
<1> TypeOK /\ MapsAgree /\ OpenWhileRegistered
  BY DEF HubInv
<1>1. closes' \in [Conns -> Nat] /\ \A c \in Conns :
        closes'[c] = IF c \in S THEN closes[c] + 1 ELSE closes[c]
  BY CloseIs
<1>2. \A c \in Members(clients) : c \notin Members(topics)
  BY ClientsAre, SubscribersAre
<1>3. /\ clients' \in MapOf(Users) /\ topics' \in MapOf(Topics)
      /\ Members(clients') = Members(clients) \ S
      /\ Members(topics') = Members(topics) \ S
      /\ \A u \in DOMAIN clients' :
           /\ clients'[u] # {} /\ u \in DOMAIN clients
           /\ clients'[u] \subseteq clients[u]
      /\ \A t \in DOMAIN topics' :
           /\ topics'[t] # {} /\ t \in DOMAIN topics
           /\ topics'[t] \subseteq topics[t]
  <2>1. Without(clients, S) \in MapOf(Users) /\ Without(topics, S) \in MapOf(Topics)
    <3>1. ASSUME NEW K, NEW map \in MapOf(K)
          PROVE  Without(map, S) \in MapOf(K)
      <4>1. Without(map, S) \in [{j \in DOMAIN map : map[j] \ S # {}} -> SUBSET Conns]
        BY MapOfIs DEF Without
      <4>2. DOMAIN map \subseteq K
        BY MapOfIs
      <4>3. QED
        BY <4>1, <4>2 DEF MapOf
    <3>2. QED
      BY <3>1 DEF TypeOK
  <2>2. CASE /\ S \subseteq Members(clients) /\ clients' = Without(clients, S)
             /\ UNCHANGED topics
    <3>1. Members(topics) \ S = Members(topics)
      BY <1>2, <2>2
    <3>2. /\ clients' \in MapOf(Users) /\ topics' \in MapOf(Topics)
          /\ Members(clients') = Members(clients) \ S
      BY <2>1, <2>2, WithoutIs DEF TypeOK
    <3>3. \A t \in DOMAIN topics : topics[t] # {}
      BY DEF MapsAgree
    <3>4. QED
      BY <2>2, <3>1, <3>2, <3>3, WithoutLeaves
  <2>3. CASE /\ S \subseteq Members(topics) /\ topics' = Without(topics, S)
             /\ UNCHANGED clients
    <3>1. Members(clients) \ S = Members(clients)
      BY <1>2, <2>3
    <3>2. /\ clients' \in MapOf(Users) /\ topics' \in MapOf(Topics)
          /\ Members(topics') = Members(topics) \ S
      BY <2>1, <2>3, WithoutIs DEF TypeOK
    <3>3. \A u \in DOMAIN clients : clients[u] # {}
      BY DEF MapsAgree
    <3>4. QED
      BY <2>3, <3>1, <3>2, <3>3, WithoutLeaves
  <2>4. QED
    BY <2>2, <2>3
<1>4. admins' = {c \in Members(clients') : who[c].admin}
  <2>1. admins = {c \in Members(clients) : who[c].admin}
    BY DEF MapsAgree
  <2>2. \A c \in S : c \in Members(topics) => ~who[c].admin
    BY SubscribersAre
  <2>3. QED
    BY <1>2, <1>3, <2>1, <2>2
<1>5. Registered' = Registered \ S
  BY <1>3 DEF Registered
<1>6. MapsAgree'
  BY <1>3, <1>4 DEF MapsAgree
<1>7. MapTypesOK'
  BY <1>1, <1>3, <1>4 DEF MapTypesOK, TypeOK, MapsAgree
<1>8. \A c \in S : c \in Registered
  BY DEF Registered
<1>9. \A c \in admins : c \in Registered
  BY DEF MapsAgree, Registered
<1>10. \A c \in admins' : c \in Registered'
  BY <1>4, <1>5, <1>3 DEF Registered
<1>11. OpenWhileRegistered'
  BY <1>1, <1>5, <1>8, <1>10 DEF OpenWhileRegistered, TypeOK
<1>12. QED
  BY <1>5, <1>6, <1>7, <1>11

\* Steps that leave the maps and the channels' ends alone.
LEMMA PumpKeeps ==
  ASSUME HubInv, UNCHANGED <<clients, admins, topics, who, closes, handled>>,
         send' \in [Conns -> Seq(Notes)], \A c \in Conns : Len(send'[c]) <= Buffer,
         reader' \in [Conns -> {"registering", "reading", "leaving", "done"}],
         writer' \in [Conns -> {"writing", "done"}],
         socket' \in [Conns -> {"up", "down"}],
         \A c \in Conns :
           \/ reader'[c] = reader[c]
           \/ reader[c] = "reading" /\ reader'[c] = "leaving"
           \/ reader'[c] = "done" /\ c \notin Registered
  PROVE  HubInv'
<1>1. TypeOK'
  BY DEF HubInv, TypeOK, Notes
<1>2. MapsAgree' /\ OpenWhileRegistered' /\ Registered' = Registered
  BY DEF HubInv, MapsAgree, OpenWhileRegistered, Registered
<1>3. RegisteredWhileRead'
  BY <1>2 DEF HubInv, RegisteredWhileRead
<1>4. QED
  BY <1>1, <1>2, <1>3 DEF HubInv

LEMMA ConnectKeeps ==
  ASSUME HubInv, NEW c \in Conns, NEW p \in Profiles, Connect(c, p)
  PROVE  HubInv'
<1>1. c \notin Registered /\ c \notin Members(clients) /\ c \notin Members(topics)
  BY DEF Connect, HubInv, RegisteredWhileRead, Registered
<1>2. UNCHANGED <<clients, admins, topics>> /\ Registered' = Registered
  BY DEF Connect, maps, Registered
<1>3. \A d : d # c => who'[d] = who[d]
  BY DEF Connect, HubInv, TypeOK
<1>4. MapsAgree'
  <2>1. \A u \in DOMAIN clients : \A d \in clients[u] : d # c
    BY <1>1 DEF Members
  <2>2. \A t \in DOMAIN topics : \A d \in topics[t] : d # c
    BY <1>1 DEF Members
  <2>3. \A d \in Members(clients) : who'[d] = who[d]
    BY <1>1, <1>3
  <2>4. QED
    BY <1>2, <1>3, <2>1, <2>2, <2>3 DEF HubInv, MapsAgree
<1>5. TypeOK'
  <2>1. p # Nobody
    BY ProfileIs
  <2>2. send' \in [Conns -> Seq(Notes)]
    <3>1. <<>> \in Seq(Notes)
      BY EmptySeq
    <3>2. QED
      BY <3>1 DEF Connect, HubInv, TypeOK, Notes
  <2>3. \A d \in Conns : Len(send'[d]) <= Buffer
    BY ConstantsOK, EmptySeq DEF Connect, HubInv, TypeOK
  <2>4. \A d \in Conns : reader'[d] # "done" => who'[d] # Nobody
    BY <2>1 DEF Connect, HubInv, TypeOK
  <2>5. QED
    BY <1>2, <2>2, <2>3, <2>4 DEF Connect, HubInv, TypeOK, Notes
<1>6. OpenWhileRegistered' /\ RegisteredWhileRead'
  BY <1>1, <1>2 DEF Connect, HubInv, TypeOK, OpenWhileRegistered, RegisteredWhileRead
<1>7. QED
  BY <1>4, <1>5, <1>6 DEF HubInv

LEMMA HandleRegisterKeeps ==
  ASSUME HubInv, NEW c \in Conns, HandleRegister(c)
  PROVE  HubInv'
<1>1. /\ reader[c] = "registering" /\ UNCHANGED <<who, send, socket, handled>>
      /\ reader' = [reader EXCEPT ![c] = "reading"]
      /\ writer' = [writer EXCEPT ![c] = "writing"]
  BY DEF HandleRegister
<1>2. c \notin Registered /\ closes[c] = 0 /\ who[c] \in Profiles /\ who[c] # Nobody
  BY <1>1 DEF HubInv, RegisteredWhileRead, TypeOK
<1>3. MapTypesOK' => TypeOK'
  BY <1>1, <1>2 DEF MapTypesOK, HubInv, TypeOK
<1>4. Registered' \subseteq Registered \cup {c} => RegisteredWhileRead'
  <2>1. \A d \in Conns : reader'[d] = IF d = c THEN "reading" ELSE reader[d]
    BY <1>1 DEF HubInv, TypeOK
  <2>2. \A d \in Conns : d # c /\ reader[d] = "registering" => closes'[d] = closes[d]
    BY CloseIs DEF HandleRegister, HubInv
  <2>3. QED
    BY <2>1, <2>2 DEF HubInv, RegisteredWhileRead
<1>5. CASE who[c].topic # Nobody /\ topics' = With(topics, who[c].topic, c)
           /\ UNCHANGED <<clients, admins, closes>>
  <2>1. who[c].topic \in Topics /\ ~who[c].admin
    BY <1>2, <1>5, ProfileIs
  <2>2. topics' \in MapOf(Topics)
    BY <1>5, <2>1, MapTypes DEF HubInv, TypeOK
  <2>3. /\ Members(topics') = Members(topics) \cup {c}
        /\ \A t \in DOMAIN topics' : \A d \in topics'[t] :
             \/ d = c /\ t = who[c].topic
             \/ t \in DOMAIN topics /\ d \in topics[t]
        /\ \A t \in DOMAIN topics' : topics'[t] # {}
    <3>1. \A t \in DOMAIN topics : topics[t] # {}
      BY DEF HubInv, MapsAgree
    <3>2. Members(With(topics, who[c].topic, c)) = Members(topics) \cup {c}
      BY WithMembers
    <3>3. \A t \in DOMAIN With(topics, who[c].topic, c) :
            /\ With(topics, who[c].topic, c)[t] # {}
            /\ \A d \in With(topics, who[c].topic, c)[t] :
                 (d = c /\ t = who[c].topic) \/ (t \in DOMAIN topics /\ d \in topics[t])
      BY <3>1, WithAdds
    <3>4. QED
      BY <1>5, <3>2, <3>3
  <2>4. MapsAgree'
    BY <1>1, <1>2, <1>5, <2>3 DEF HubInv, MapsAgree
  <2>5. Registered' = Registered \cup {c}
    BY <1>5, <2>3 DEF Registered
  <2>6. OpenWhileRegistered'
    BY <1>2, <1>5, <2>5 DEF HubInv, OpenWhileRegistered
  <2>7. MapTypesOK'
    BY <1>5, <2>2 DEF MapTypesOK, HubInv, TypeOK
  <2>8. QED
    BY <1>3, <1>4, <2>4, <2>5, <2>6, <2>7 DEF HubInv
<1>6. CASE Close({c}) /\ UNCHANGED maps
  <2>1. MapsAgree' /\ Registered' = Registered /\ UNCHANGED <<clients, admins, topics>>
    BY <1>1, <1>6 DEF maps, HubInv, MapsAgree, Registered
  <2>2. c \notin admins
    BY <1>2 DEF HubInv, MapsAgree, Registered
  <2>3. closes' \in [Conns -> Nat] /\ closes'[c] = 1
        /\ \A d \in Conns : d # c => closes'[d] = closes[d]
    BY <1>2, <1>6, CloseIs DEF HubInv
  <2>4. OpenWhileRegistered'
    BY <1>2, <2>1, <2>2, <2>3 DEF HubInv, OpenWhileRegistered
  <2>5. MapTypesOK'
    BY <2>1, <2>3 DEF MapTypesOK, HubInv, TypeOK
  <2>6. QED
    BY <1>3, <1>4, <2>1, <2>4, <2>5 DEF HubInv
<1>7. CASE /\ who[c].topic = Nobody /\ clients' = With(clients, who[c].user, c)
           /\ admins' = (IF who[c].admin THEN admins \cup {c} ELSE admins)
           /\ UNCHANGED <<topics, closes>>
  <2>1. who[c].user \in Users
    BY <1>2, <1>7, ProfileIs
  <2>2. clients' \in MapOf(Users)
    BY <1>7, <2>1, MapTypes DEF HubInv, TypeOK
  <2>3. /\ Members(clients') = Members(clients) \cup {c}
        /\ \A u \in DOMAIN clients' : \A d \in clients'[u] :
             \/ d = c /\ u = who[c].user
             \/ u \in DOMAIN clients /\ d \in clients[u]
        /\ \A u \in DOMAIN clients' : clients'[u] # {}
    <3>1. \A u \in DOMAIN clients : clients[u] # {}
      BY DEF HubInv, MapsAgree
    <3>2. Members(With(clients, who[c].user, c)) = Members(clients) \cup {c}
      BY WithMembers
    <3>3. \A u \in DOMAIN With(clients, who[c].user, c) :
            /\ With(clients, who[c].user, c)[u] # {}
            /\ \A d \in With(clients, who[c].user, c)[u] :
                 (d = c /\ u = who[c].user) \/ (u \in DOMAIN clients /\ d \in clients[u])
      BY <3>1, WithAdds
    <3>4. QED
      BY <1>7, <3>2, <3>3
  <2>4. admins' = {d \in Members(clients') : who[d].admin}
    BY <1>2, <1>7, <2>3 DEF HubInv, MapsAgree, Registered
  <2>5. MapsAgree'
    BY <1>1, <1>2, <1>7, <2>3, <2>4 DEF HubInv, MapsAgree
  <2>6. Registered' = Registered \cup {c} /\ admins' \subseteq admins \cup {c}
    BY <1>7, <2>3 DEF Registered
  <2>7. OpenWhileRegistered'
    BY <1>2, <1>7, <2>6 DEF HubInv, OpenWhileRegistered
  <2>8. MapTypesOK'
    BY <1>7, <2>2, <2>6 DEF MapTypesOK, HubInv, TypeOK
  <2>9. QED
    BY <1>3, <1>4, <2>5, <2>6, <2>7, <2>8 DEF HubInv
<1>8. QED
  BY <1>5, <1>6, <1>7 DEF HandleRegister

LEMMA PumpsKeep ==
  ASSUME HubInv, NEW c \in Conns,
         ReadFails(c) \/ WriterTakes(c) \/ WriterFails(c) \/ WriterStops(c) \/ PeerFails(c)
  PROVE  HubInv'
<1>1. UNCHANGED <<clients, admins, topics, who, closes, handled>>
  BY DEF ReadFails, WriterTakes, WriterFails, WriterStops, PeerFails, maps
<1>2. send' \in [Conns -> Seq(Notes)] /\ \A d \in Conns : Len(send'[d]) <= Buffer
  <2>1. send \in [Conns -> Seq(Notes)] /\ \A d \in Conns : Len(send[d]) <= Buffer
    BY DEF HubInv, TypeOK, Notes
  <2>2. CASE WriterTakes(c)
    <3>1. send[c] \in Seq(Notes) /\ send[c] # <<>>
      BY <2>1, <2>2 DEF WriterTakes
    <3>2. /\ Tail(send[c]) \in Seq(Notes) /\ Len(send[c]) \in Nat
          /\ Len(Tail(send[c])) = Len(send[c]) - 1
      BY <3>1, HeadTailProperties, LenProperties
    <3>3. Len(Tail(send[c])) <= Buffer
      BY <2>1, <3>2, ConstantsOK
    <3>4. send' = [send EXCEPT ![c] = Tail(send[c])]
      BY <2>2 DEF WriterTakes
    <3> HIDE DEF Notes
    <3>5. QED
      BY <2>1, <3>2, <3>3, <3>4
  <2>3. CASE UNCHANGED send
    BY <2>1, <2>3
  <2>4. QED
    BY <2>2, <2>3 DEF ReadFails, WriterFails, WriterStops, PeerFails
<1>3. /\ reader' \in [Conns -> {"registering", "reading", "leaving", "done"}]
      /\ writer' \in [Conns -> {"writing", "done"}]
      /\ socket' \in [Conns -> {"up", "down"}]
  BY DEF ReadFails, WriterTakes, WriterFails, WriterStops, PeerFails, HubInv, TypeOK
<1>4. \A d \in Conns : reader'[d] = reader[d]
                         \/ (reader[d] = "reading" /\ reader'[d] = "leaving")
  BY DEF ReadFails, WriterTakes, WriterFails, WriterStops, PeerFails, HubInv, TypeOK
<1>5. QED
  BY <1>1, <1>2, <1>3, <1>4, PumpKeeps

\* What is left of the types once the maps have theirs.
LEMMA TypesFollow ==
  ASSUME HubInv, MapTypesOK', UNCHANGED who, handled' \in Nat,
         send' \in [Conns -> Seq(Notes)], \A c \in Conns : Len(send'[c]) <= Buffer,
         reader' \in [Conns -> {"registering", "reading", "leaving", "done"}],
         writer' \in [Conns -> {"writing", "done"}],
         socket' \in [Conns -> {"up", "down"}],
         \A c \in Conns : reader'[c] # "done" => reader[c] # "done"
  PROVE  TypeOK'
  BY DEF HubInv, TypeOK, MapTypesOK, Notes

LEMMA HandleUnregisterKeeps ==
  ASSUME HubInv, NEW c \in Conns, HandleUnregister(c)
  PROVE  HubInv'
<1> TypeOK /\ MapsAgree
  BY DEF HubInv
<1>1. /\ reader[c] = "leaving" /\ UNCHANGED <<who, send, writer, handled>>
      /\ reader' = [reader EXCEPT ![c] = "done"]
      /\ socket' = [socket EXCEPT ![c] = "down"]
  BY DEF HandleUnregister
<1>2. /\ send \in [Conns -> Seq(Notes)] /\ \A d \in Conns : Len(send[d]) <= Buffer
      /\ reader' \in [Conns -> {"registering", "reading", "leaving", "done"}]
      /\ socket' \in [Conns -> {"up", "down"}]
      /\ \A d \in Conns : reader'[d] = IF d = c THEN "done" ELSE reader[d]
  BY <1>1 DEF TypeOK, Notes
<1>3. CASE c \in Registered /\ MapTypesOK' /\ MapsAgree' /\ OpenWhileRegistered'
           /\ Registered' = Registered \ {c} /\ Close({c})
  <2>1. TypeOK'
    BY <1>1, <1>2, <1>3, TypesFollow DEF TypeOK
  <2>2. RegisteredWhileRead'
    <3>1. \A d \in Conns : d # c => closes'[d] = closes[d]
      BY <1>3, CloseIs
    <3>2. QED
      BY <1>2, <1>3, <3>1 DEF HubInv, RegisteredWhileRead
  <2>3. QED
    BY <1>3, <2>1, <2>2 DEF HubInv
<1>4. CASE /\ c \in Entry(topics, who[c].topic) /\ Close({c})
           /\ topics' = Without(topics, {c}) /\ UNCHANGED <<clients, admins>>
  <2>1. c \in Members(topics)
    BY <1>4, SubscribersAre
  <2>2. c \in Registered
    BY <2>1 DEF Registered
  <2>3. MapTypesOK' /\ MapsAgree' /\ OpenWhileRegistered' /\ Registered' = Registered \ {c}
    BY <1>1, <1>4, <2>1, RemoveKeeps
  <2>4. QED
    BY <1>3, <1>4, <2>2, <2>3
<1>5. CASE /\ c \in Entry(clients, who[c].user) /\ Close({c})
           /\ clients' = Without(clients, {c})
           /\ admins' = (IF who[c].admin THEN admins \ {c} ELSE admins)
           /\ UNCHANGED topics
  <2>1. c \in Members(clients)
    BY <1>5, ClientsAre
  <2>2. c \in Registered
    BY <2>1 DEF Registered
  <2>3. admins' = admins \ {d \in {c} : who[d].admin}
    BY <1>5
  <2>4. MapTypesOK' /\ MapsAgree' /\ OpenWhileRegistered' /\ Registered' = Registered \ {c}
    BY <1>1, <1>5, <2>1, <2>3, RemoveKeeps
  <2>5. QED
    BY <1>3, <1>5, <2>2, <2>4
<1>6. CASE /\ c \notin Entry(topics, who[c].topic) \cup Entry(clients, who[c].user)
           /\ UNCHANGED <<maps, closes>>
  <2>1. c \notin Registered
    BY <1>6, ClientsAre, SubscribersAre DEF Registered
  <2>2. UNCHANGED <<clients, admins, topics, who, closes, handled>> /\ UNCHANGED <<send, writer>>
    BY <1>1, <1>6 DEF maps
  <2>3. /\ send' \in [Conns -> Seq(Notes)] /\ \A d \in Conns : Len(send'[d]) <= Buffer
        /\ writer' \in [Conns -> {"writing", "done"}]
    BY <1>2, <2>2 DEF TypeOK
  <2>4. \A d \in Conns : reader'[d] = reader[d] \/ (reader'[d] = "done" /\ d \notin Registered)
    BY <1>2, <2>1
  <2>5. QED
    BY <1>2, <2>2, <2>3, <2>4, PumpKeeps
<1>7. QED
  BY <1>4, <1>5, <1>6 DEF HandleUnregister

LEMMA HandleBroadcastKeeps ==
  ASSUME HubInv, NEW m \in Messages, HandleBroadcast(m)
  PROVE  /\ HubInv'
         /\ Registered' = Registered \ Full(send, Audience(m))
<1> TypeOK /\ MapsAgree
  BY DEF HubInv
<1> DEFINE slow == Full(send, Audience(m))
<1>1. /\ send' = Deliver(send, Audience(m), Note(m))
      /\ Close(slow)
      /\ \/ DropClients(slow) /\ \A c \in slow : c \in Members(clients)
         \/ /\ topics' = Without(topics, slow) /\ UNCHANGED <<clients, admins>>
            /\ \A c \in slow : c \in Members(topics)
  BY BroadcastServes
<1>2. UNCHANGED <<who, reader, writer, socket>> /\ handled' = handled + 1
  BY DEF HandleBroadcast
<1> HIDE DEF slow
<1>3. MapTypesOK' /\ MapsAgree' /\ OpenWhileRegistered' /\ Registered' = Registered \ slow
  <2>1. \/ /\ slow \subseteq Members(clients)
           /\ clients' = Without(clients, slow)
           /\ admins' = admins \ {c \in slow : who[c].admin}
           /\ UNCHANGED topics
        \/ /\ slow \subseteq Members(topics)
           /\ topics' = Without(topics, slow)
           /\ UNCHANGED <<clients, admins>>
    BY <1>1 DEF DropClients
  <2>2. QED
    BY <1>1, <1>2, <2>1, RemoveKeeps
<1>4. send' \in [Conns -> Seq(Notes)] /\ \A c \in Conns : Len(send'[c]) <= Buffer
  <2>1. send \in [Conns -> Seq(Notes)] /\ \A c \in Conns : Len(send[c]) <= Buffer
    BY DEF TypeOK, Notes
  <2>2. Note(m) \in Notes
    BY DEF Note, Notes, TypeOK
  <2>3. QED
    BY <1>1, <2>1, <2>2, DeliverTypes
<1>5. TypeOK'
  <2>1. /\ handled' \in Nat /\ UNCHANGED who
        /\ reader' \in [Conns -> {"registering", "reading", "leaving", "done"}]
        /\ writer' \in [Conns -> {"writing", "done"}]
        /\ socket' \in [Conns -> {"up", "down"}]
        /\ \A c \in Conns : reader'[c] # "done" => reader[c] # "done"
    BY <1>2 DEF TypeOK
  <2>2. QED
    BY <1>3, <1>4, <2>1, TypesFollow
<1>6. RegisteredWhileRead'
  <2>1. \A c \in Conns : reader[c] = "registering" => c \notin slow
    BY DEF slow, Full, Audience, HubInv, RegisteredWhileRead
  <2>2. \A c \in Conns : c \notin slow => closes'[c] = closes[c]
    BY <1>1, CloseIs
  <2>3. QED
    BY <1>2, <1>3, <2>1, <2>2 DEF HubInv, RegisteredWhileRead
<1>7. QED
  BY <1>3, <1>5, <1>6 DEF HubInv, slow

LEMMA InitHasHubInv == Init => HubInv
<1> SUFFICES ASSUME Init PROVE HubInv
  OBVIOUS
<1>1. DOMAIN clients = {} /\ DOMAIN topics = {} /\ Registered = {}
  BY DEF Init, Registered, Members
<1>2. \A K : <<>> \in MapOf(K)
  <2>1. <<>> \in [{} -> SUBSET Conns]
    OBVIOUS
  <2>2. QED
    BY <2>1 DEF MapOf
<1>3. <<>> \in Seq(Notes) /\ Len(<<>>) = 0
  BY EmptySeq
<1>4. TypeOK
  BY <1>2, <1>3, ConstantsOK DEF Init, TypeOK, Notes
<1>5. MapsAgree /\ OpenWhileRegistered /\ RegisteredWhileRead
  BY <1>1 DEF Init, MapsAgree, OpenWhileRegistered, RegisteredWhileRead, Members
<1>6. QED
  BY <1>4, <1>5 DEF HubInv

LEMMA NextKeepsHubInv == HubInv /\ [Next]_vars => HubInv'
<1> SUFFICES ASSUME HubInv, [Next]_vars PROVE HubInv'
  OBVIOUS
<1>1. CASE UNCHANGED vars
  <2>1. TypeOK'
    BY <1>1 DEF vars, HubInv, TypeOK
  <2>2. MapsAgree' /\ Registered' = Registered
    BY <1>1 DEF vars, HubInv, MapsAgree, Registered
  <2>3. OpenWhileRegistered' /\ RegisteredWhileRead'
    BY <1>1, <2>2 DEF vars, HubInv, OpenWhileRegistered, RegisteredWhileRead
  <2>4. QED
    BY <2>1, <2>2, <2>3 DEF HubInv
<1>2. ASSUME NEW c \in Conns, Pump(c) \/ PeerFails(c)
      PROVE  HubInv'
  BY <1>2, HandleRegisterKeeps, PumpsKeep, HandleUnregisterKeeps DEF Pump
<1>3. ASSUME NEW c \in Conns, NEW p \in Profiles, Connect(c, p)
      PROVE  HubInv'
  BY <1>3, ConnectKeeps
<1>4. ASSUME NEW m \in Messages, HandleBroadcast(m)
      PROVE  HubInv'
  BY <1>4, HandleBroadcastKeeps
<1>5. QED
  BY <1>1, <1>2, <1>3, <1>4 DEF Next

-----------------------------------------------------------------------------
(* The invariants.                                                         *)

LEMMA HubInvHolds == Spec => []HubInv
  BY InitHasHubInv, NextKeepsHubInv, PTL DEF Spec

\* The hub's state has the shape its code relies on, Send's capacity included.
THEOREM TypeCorrect == Spec => []TypeOK
<1>1. HubInv => TypeOK
  BY DEF HubInv
<1>2. QED
  BY <1>1, HubInvHolds, PTL

\* handleUnregister, the broadcasts and a refused register close each channel
\* once and only when no map holds it, so no send or close of the hub panics.
THEOREM NeverSendsOnClosed == Spec => []OpenWhileRegistered
<1>1. HubInv => OpenWhileRegistered
  BY DEF HubInv
<1>2. QED
  BY <1>1, HubInvHolds, PTL

\* hub.clients, hub.admins and hub.topics agree with each other and with the
\* clients behind the connections, and hold no empty entries.
THEOREM MapsStayConsistent == Spec => []MapsAgree
<1>1. HubInv => MapsAgree
  BY DEF HubInv
<1>2. QED
  BY <1>1, HubInvHolds, PTL

-----------------------------------------------------------------------------
(* Order: no queue holds a message the hub has not handled yet.            *)

Queue(q, last) ==
  /\ \A i \in DOMAIN q : q[i].n <= last
  /\ \A i, j \in DOMAIN q : i < j => q[i].n < q[j].n

QueueInv == \A c \in Conns : Queue(send[c], handled)

LEMMA Numbered ==
  ASSUME NEW q \in Seq(Notes)
  PROVE  \A i \in DOMAIN q : q[i].n \in Nat
<1>1. DOMAIN q = 1..Len(q)
  BY LenProperties
<1>2. ASSUME NEW i \in 1..Len(q)
      PROVE  q[i].n \in Nat
  <2>1. q[i] \in Notes
    BY ElementOfSeq
  <2>2. QED
    BY <2>1 DEF Notes
<1>3. QED
  BY <1>1, <1>2

LEMMA TailInOrder ==
  ASSUME NEW q \in Seq(Notes), q # <<>>, NEW last, Queue(q, last)
  PROVE  Queue(Tail(q), last)
<1>1. /\ Len(q) \in Nat /\ DOMAIN q = 1..Len(q) /\ DOMAIN Tail(q) = 1..(Len(q) - 1)
      /\ \A i \in 1..(Len(q) - 1) : Tail(q)[i] = q[i + 1]
  BY LenProperties, HeadTailProperties
<1>2. \A i \in DOMAIN Tail(q) : i + 1 \in DOMAIN q /\ i \in Nat
  BY <1>1
<1>3. QED
  BY <1>1, <1>2 DEF Queue

LEMMA AppendInOrder ==
  ASSUME NEW q \in Seq(Notes), NEW last \in Nat, Queue(q, last),
         NEW note \in Notes, note.n = last + 1
  PROVE  Queue(Append(q, note), last + 1)
<1> DEFINE r == Append(q, note)
<1>1. /\ Len(q) \in Nat /\ DOMAIN q = 1..Len(q) /\ DOMAIN r = 1..(Len(q) + 1)
      /\ \A i \in DOMAIN q : r[i] = q[i]
      /\ r[Len(q) + 1] = note
  BY LenProperties, AppendProperties
<1>2. \A i \in DOMAIN q : q[i].n \in Nat
  BY Numbered
<1>3. ASSUME NEW i \in DOMAIN r
      PROVE  r[i].n <= last + 1
  <2>1. i \in DOMAIN q \/ i = Len(q) + 1
    BY <1>1
  <2>2. QED
    BY <1>1, <1>2, <2>1 DEF Queue
<1>4. ASSUME NEW i \in DOMAIN r, NEW j \in DOMAIN r, i < j
      PROVE  r[i].n < r[j].n
  <2>1. i \in DOMAIN q /\ (j \in DOMAIN q \/ j = Len(q) + 1)
    BY <1>1, <1>4
  <2>2. QED
    BY <1>1, <1>2, <1>4, <2>1 DEF Queue
<1>5. QED
  BY <1>3, <1>4 DEF Queue

LEMMA LaterInOrder ==
  ASSUME NEW q \in Seq(Notes), NEW last \in Nat, Queue(q, last)
  PROVE  Queue(q, last + 1)
<1>1. \A i \in DOMAIN q : q[i].n \in Nat
  BY Numbered
<1>2. QED
  BY <1>1 DEF Queue

LEMMA NextKeepsQueueInv == HubInv /\ QueueInv /\ [Next]_vars => QueueInv'
<1> SUFFICES ASSUME HubInv, QueueInv, [Next]_vars PROVE QueueInv'
  OBVIOUS
<1>1. send \in [Conns -> Seq(Notes)] /\ handled \in Nat
  BY DEF HubInv, TypeOK, Notes
<1> HIDE DEF Notes
<1>2. CASE UNCHANGED <<send, handled>>
  BY <1>2 DEF QueueInv
<1>3. ASSUME NEW c \in Conns, NEW p \in Profiles, Connect(c, p)
      PROVE  QueueInv'
  <2>1. send' = [send EXCEPT ![c] = <<>>] /\ UNCHANGED handled
    BY <1>3 DEF Connect
  <2>2. Queue(<<>>, handled)
    BY EmptySeq DEF Queue
  <2>3. QED
    BY <1>1, <2>1, <2>2 DEF QueueInv
<1>4. ASSUME NEW c \in Conns, WriterTakes(c)
      PROVE  QueueInv'
  <2>1. /\ send' = [send EXCEPT ![c] = Tail(send[c])]
        /\ send[c] # <<>> /\ UNCHANGED handled
    BY <1>4 DEF WriterTakes
  <2>2. send[c] \in Seq(Notes) /\ Queue(send[c], handled)
    BY <1>1 DEF QueueInv
  <2>3. Queue(Tail(send[c]), handled)
    BY <2>1, <2>2, TailInOrder
  <2>4. QED
    BY <1>1, <2>1, <2>3 DEF QueueInv
<1>5. ASSUME NEW m \in Messages, HandleBroadcast(m)
      PROVE  QueueInv'
  <2>1. send' = Deliver(send, Audience(m), Note(m)) /\ handled' = handled + 1
    BY <1>5, BroadcastServes DEF HandleBroadcast, HubInv
  <2>2. Note(m) \in Notes /\ Note(m).n = handled + 1
    BY <1>1 DEF Note, Notes
  <2>3. ASSUME NEW c \in Conns
        PROVE  Queue(send'[c], handled')
    <3>1. send[c] \in Seq(Notes) /\ Queue(send[c], handled)
      BY <1>1 DEF QueueInv
    <3>2. Queue(send[c], handled + 1) /\ Queue(Append(send[c], Note(m)), handled + 1)
      BY <1>1, <2>2, <3>1, LaterInOrder, AppendInOrder
    <3>3. send'[c] = send[c] \/ send'[c] = Append(send[c], Note(m))
      BY <2>1 DEF Deliver
    <3>4. QED
      BY <2>1, <3>2, <3>3
  <2>4. QED
    BY <2>3 DEF QueueInv
<1>6. QED
  BY <1>2, <1>3, <1>4, <1>5 DEF Next, Pump, HandleRegister, ReadFails, HandleUnregister,
     WriterFails, WriterStops, PeerFails, vars

\* broadcastTargeted serves an admin who is also a target once, and no queue
\* ever holds two messages against the order the hub took them in.
THEOREM OrderedDelivery == Spec => []DeliveredInOrder
<1>1. Init => QueueInv
  BY EmptySeq DEF Init, QueueInv, Queue
<1>2. QueueInv => DeliveredInOrder
  BY DEF QueueInv, Queue, DeliveredInOrder
<1>3. QED
  BY <1>1, <1>2, HubInvHolds, NextKeepsQueueInv, PTL DEF Spec

-----------------------------------------------------------------------------
(* The hub implements Mailboxes.                                           *)

LEMMA RosterIs ==
  ASSUME HubInv
  PROVE  /\ Roster \in [Conns -> Profiles \cup {Nobody}]
         /\ Promise!Members = Registered
         /\ \A c \in Registered : c \in Conns /\ Roster[c] = who[c] /\ who[c] \in Profiles
         /\ \A c \in Conns \ Registered : Roster[c] = Nobody
<1>1. \A c \in Registered : c \in Conns /\ who[c] \in Profiles
  BY ClientsAre, SubscribersAre DEF HubInv, Registered
<1>2. \A c \in Registered : who[c] # Nobody
  BY <1>1, ProfileIs
<1>3. QED
  BY <1>1, <1>2 DEF Roster, Promise!Members

\* The steps that concern only the goroutines.
LEMMA SilentSteps ==
  ASSUME HubInv, NEW c \in Conns,
         ReadFails(c) \/ WriterFails(c) \/ WriterStops(c) \/ PeerFails(c)
  PROVE  UNCHANGED <<Roster, send, handled>>
<1>1. UNCHANGED <<clients, topics, who, send, handled>>
  BY DEF ReadFails, WriterFails, WriterStops, PeerFails, maps
<1>2. Registered' = Registered
  BY <1>1 DEF Registered
<1>3. QED
  BY <1>1, <1>2 DEF Roster

LEMMA ConnectImplements ==
  ASSUME HubInv, NEW c \in Conns, NEW p \in Profiles, Connect(c, p)
  PROVE  Promise!Connect(c)
<1>1. c \notin Registered
  BY DEF Connect, HubInv, RegisteredWhileRead
<1>2. Registered' = Registered
  BY DEF Connect, maps, Registered
<1>3. \A d \in Conns : d # c => who'[d] = who[d]
  BY DEF Connect, HubInv, TypeOK
<1>4. UNCHANGED Roster
  BY <1>1, <1>2, <1>3 DEF Roster
<1>5. Roster[c] = Nobody
  BY <1>1 DEF Roster
<1>6. QED
  BY <1>4, <1>5 DEF Connect, Promise!Connect

LEMMA RegisterImplements ==
  ASSUME HubInv, NEW c \in Conns, HandleRegister(c)
  PROVE  Promise!Join(c, who[c]) \/ UNCHANGED <<Roster, send, handled>>
<1> DEFINE p == who[c]
<1>1. /\ c \notin Registered /\ p \in Profiles /\ UNCHANGED <<who, send, handled>>
  BY DEF HandleRegister, HubInv, RegisteredWhileRead, TypeOK
<1>2. Roster[c] = Nobody /\ Roster \in [Conns -> Profiles \cup {Nobody}]
  BY <1>1, RosterIs
<1>3. Registered' = Registered \cup {c} => Roster' = [Roster EXCEPT ![c] = p]
  BY <1>1 DEF Roster
<1>4. CASE p.topic # Nobody /\ topics' = With(topics, p.topic, c) /\ UNCHANGED clients
  <2>1. Members(With(topics, p.topic, c)) = Members(topics) \cup {c}
    BY WithMembers
  <2>2. Registered' = Registered \cup {c}
    BY <1>4, <2>1 DEF Registered
  <2>3. QED
    BY <1>1, <1>2, <1>3, <1>4, <2>2 DEF Promise!Join
<1>5. CASE UNCHANGED maps
  <2>1. Registered' = Registered
    BY <1>5 DEF maps, Registered
  <2>2. QED
    BY <1>1, <2>1 DEF Roster
<1>6. CASE p.topic = Nobody /\ ~AtLimit(p) /\ clients' = With(clients, p.user, c)
           /\ UNCHANGED topics
  <2>1. Members(With(clients, p.user, c)) = Members(clients) \cup {c}
    BY WithMembers
  <2>2. Registered' = Registered \cup {c}
    BY <1>6, <2>1 DEF Registered
  <2>3. p.user \in Users /\ p.user # Nobody
    BY <1>1, <1>6, ProfileIs, ConstantsOK
  <2>4. Entry(clients, p.user) = {d \in Promise!Members : Roster[d].user = p.user}
    <3>1. \A d \in Registered : Roster[d] = who[d]
      BY RosterIs
    <3>2. \A d : d \in Entry(clients, p.user) <=> d \in Members(clients) /\ who[d].user = p.user
      BY ClientsAre DEF HubInv
    <3>3. \A d \in Members(topics) : who[d].user = Nobody
      BY SubscribersAre DEF HubInv
    <3>4. Promise!Members = Members(clients) \cup Members(topics)
      BY RosterIs DEF Registered
    <3>5. QED
      BY <2>3, <3>1, <3>2, <3>3, <3>4 DEF Registered
  <2>5. Cardinality(Entry(clients, p.user)) \in Nat
    <3>1. Entry(clients, p.user) \subseteq Conns
      BY ClientsAre DEF HubInv
    <3>2. QED
      BY <3>1, FS_Subset, FS_CardinalityType, ConstantsOK
  <2>6. Cardinality(Entry(clients, p.user)) < MaxConnections
    BY <1>6, <2>5, ConstantsOK DEF AtLimit
  <2>7. Promise!Cardinality(Entry(clients, p.user)) = Cardinality(Entry(clients, p.user))
    BY DEF Promise!Cardinality, Cardinality
  <2>8. QED
    BY <1>1, <1>2, <1>3, <2>2, <2>4, <2>6, <2>7 DEF Promise!Join
<1>7. QED
  BY <1>4, <1>5, <1>6 DEF HandleRegister

LEMMA UnregisterImplements ==
  ASSUME HubInv, NEW c \in Conns, HandleUnregister(c)
  PROVE  Promise!Leave(c) \/ UNCHANGED <<Roster, send, handled>>
<1> TypeOK /\ MapsAgree
  BY DEF HubInv
<1>1. UNCHANGED <<who, send, handled>>
  BY DEF HandleUnregister
<1>2. CASE UNCHANGED maps
  <2>1. Registered' = Registered
    BY <1>2 DEF maps, Registered
  <2>2. QED
    BY <1>1, <2>1 DEF Roster
<1>3. CASE c \in Registered /\ Registered' = Registered \ {c}
  <2>1. Roster' = [Roster EXCEPT ![c] = Nobody]
    BY <1>1, <1>3 DEF Roster
  <2>2. Roster[c] # Nobody
    <3>1. Roster[c] \in Profiles
      BY <1>3, RosterIs
    <3>2. QED
      BY <3>1, ProfileIs
  <2>3. QED
    BY <1>1, <2>1, <2>2 DEF Promise!Leave
<1>4. CASE /\ c \in Entry(topics, who[c].topic)
           /\ topics' = Without(topics, {c}) /\ UNCHANGED clients
  <2>1. c \in Members(topics) /\ c \notin Members(clients)
    BY <1>4, SubscribersAre, ClientsAre
  <2>2. Members(Without(topics, {c})) = Members(topics) \ {c}
    BY WithoutIs
  <2>3. QED
    BY <1>3, <1>4, <2>1, <2>2 DEF Registered
<1>5. CASE /\ c \in Entry(clients, who[c].user)
           /\ clients' = Without(clients, {c}) /\ UNCHANGED topics
  <2>1. c \in Members(clients) /\ c \notin Members(topics)
    BY <1>5, SubscribersAre, ClientsAre
  <2>2. Members(Without(clients, {c})) = Members(clients) \ {c}
    BY WithoutIs
  <2>3. QED
    BY <1>3, <1>5, <2>1, <2>2 DEF Registered
<1>6. QED
  BY <1>2, <1>4, <1>5 DEF HandleUnregister

LEMMA BroadcastImplements ==
  ASSUME HubInv, NEW m \in Messages, HandleBroadcast(m)
  PROVE  Promise!Publish(m)
<1> DEFINE slow == Full(send, Audience(m))
<1>1. /\ send' = Deliver(send, Audience(m), Note(m))
      /\ Registered' = Registered \ slow
      /\ UNCHANGED who /\ handled' = handled + 1
  BY BroadcastServes, HandleBroadcastKeeps DEF HubInv, HandleBroadcast
<1>2. Audience(m) = {c \in Promise!Members : MeantFor(Roster[c], m)}
  BY RosterIs DEF Audience
<1>3. slow = {c \in Audience(m) : Len(send[c]) >= Buffer}
  BY DEF Full
<1>4. send' = [c \in Conns |-> IF c \in Audience(m) \ slow
                               THEN Append(send[c], [n |-> handled', msg |-> m])
                               ELSE send[c]]
  BY <1>1 DEF Deliver, Note
<1>5. Roster' = [c \in Conns |-> IF c \in slow THEN Nobody ELSE Roster[c]]
  BY <1>1 DEF Roster
<1>6. QED
  BY <1>1, <1>2, <1>3, <1>4, <1>5 DEF Promise!Publish

\* Every step of the hub and of the goroutines of its connections is a step of
\* Mailboxes or leaves its state alone: a message reaches its whole audience but
\* the full mailboxes, each once and in order, whatever the maps and loops do.
THEOREM HubKeepsPromise == Spec => KeepsPromise
<1>1. Init => Promise!Init
  BY DEF Init, Promise!Init, Roster, Registered, Members
<1>2. ASSUME HubInv, [Next]_vars
      PROVE  [Promise!Next]_<<Roster, send, handled>>
  <2>1. CASE UNCHANGED vars
    BY <2>1 DEF vars, Roster, Registered
  <2>2. ASSUME NEW c \in Conns, Pump(c) \/ PeerFails(c)
        PROVE  [Promise!Next]_<<Roster, send, handled>>
    <3>1. CASE HandleRegister(c)
      <4>1. reader[c] # "done" /\ who[c] \in Profiles
        BY <1>2, <3>1 DEF HandleRegister, HubInv, TypeOK
      <4>2. QED
        BY <1>2, <3>1, <4>1, RegisterImplements DEF Promise!Next
    <3>2. CASE HandleUnregister(c)
      BY <1>2, <3>2, UnregisterImplements DEF Promise!Next
    <3>3. CASE WriterTakes(c)
      <4>1. UNCHANGED Roster
        BY <3>3 DEF WriterTakes, maps, Roster, Registered
      <4>2. Promise!Read(c)
        BY <3>3, <4>1 DEF WriterTakes, Promise!Read
      <4>3. QED
        BY <4>2 DEF Promise!Next
    <3>4. QED
      BY <1>2, <2>2, <3>1, <3>2, <3>3, SilentSteps DEF Pump
  <2>3. ASSUME NEW c \in Conns, NEW p \in Profiles, Connect(c, p)
        PROVE  [Promise!Next]_<<Roster, send, handled>>
    BY <1>2, <2>3, ConnectImplements DEF Promise!Next
  <2>4. ASSUME NEW m \in Messages, HandleBroadcast(m)
        PROVE  [Promise!Next]_<<Roster, send, handled>>
    BY <1>2, <2>4, BroadcastImplements DEF Promise!Next
  <2>5. QED
    BY <1>2, <2>1, <2>2, <2>3, <2>4 DEF Next
<1>3. QED
  BY <1>1, <1>2, HubInvHolds, PTL DEF Spec, KeepsPromise, Promise!Spec
=============================================================================
