-------------------------------- MODULE Hub --------------------------------
(***************************************************************************)
(* The WebSocket hub of providers/websocket: one goroutine that owns the   *)
(* maps of connections and serves four unbuffered channels, and for every  *)
(* connection a ReadPump and a WritePump.                                  *)
(*                                                                         *)
(* The hub handles one request at a time under its mutex and never waits   *)
(* for a connection, so a handler is one step, taken when the hub receives *)
(* the request; whoever sends one waits until then.  The pumps of a new    *)
(* connection may start while the hub still handles its Register, but the  *)
(* hub hears of them only later.                                           *)
(***************************************************************************)
EXTENDS Naturals, Sequences, FiniteSets

CONSTANTS
  Conns,           \* connections that may exist at once
  Users, Topics, Vehicles,
  Profiles,        \* the clients ServeWS and ServePublicWS may create
  Messages,        \* what the services broadcast, see Message
  Nobody,          \* no user, no topic, no vehicle, no filter, no client
  MaxConnections,  \* maxConnectionsPerUser
  Buffer,          \* capacity of Send
  MaxMessages      \* bound: messages handled by the hub

\* A Client: of a user, with the fleet an admin filters by, or of a topic.
Profile ==
  [user: Users, admin: BOOLEAN, fleet: {Nobody} \cup SUBSET Vehicles, topic: {Nobody}]
  \cup
  [user: {Nobody}, admin: {FALSE}, fleet: {Nobody}, topic: Topics]

\* A Message, global or targeted, or a TopicMessage.
Message ==
  [kind: {"global"}]
  \cup [kind: {"targeted"}, users: SUBSET Users, veh: Vehicles \cup {Nobody}]
  \cup [kind: {"topic"}, topic: Topics]

ASSUME ConstantsOK ==
  /\ Nobody \notin Users \cup Topics \cup Vehicles
  /\ \A F \in SUBSET Vehicles : Nobody # F
  /\ \A p \in Profile : Nobody # p
  /\ Profiles \subseteq Profile
  /\ Messages \subseteq Message
  /\ IsFiniteSet(Conns)
  /\ MaxConnections \in Nat /\ Buffer \in Nat /\ MaxMessages \in Nat

VARIABLES
  clients,  \* hub.clients, a map with the users present as keys
  admins,   \* hub.admins
  topics,   \* hub.topics
  who,      \* the Client behind each connection
  send,     \* its Send channel
  closes,   \* how often Send has been closed
  reader,   \* its ReadPump, or the handler that registers it
  writer,   \* its WritePump
  socket,   \* whether the peer can still be reached through it
  handled   \* messages handled

vars == <<clients, admins, topics, who, send, closes, reader, writer, socket, handled>>
maps == <<clients, admins, topics>>

Init ==
  /\ clients = <<>> /\ admins = {} /\ topics = <<>>
  /\ who = [c \in Conns |-> Nobody]
  /\ send = [c \in Conns |-> <<>>]
  /\ closes = [c \in Conns |-> 0]
  /\ reader = [c \in Conns |-> "done"]
  /\ writer = [c \in Conns |-> "done"]
  /\ socket = [c \in Conns |-> "down"]
  /\ handled = 0

-----------------------------------------------------------------------------
(* The maps from keys to sets of connections.                              *)

Entry(map, k) == IF k \in DOMAIN map THEN map[k] ELSE {}

With(map, k, c) ==
  [j \in DOMAIN map \cup {k} |-> IF j = k THEN Entry(map, k) \cup {c} ELSE map[j]]

\* Mutant: the keys left without connections stay.
WithoutKeepingKeys(map, S) == [k \in DOMAIN map |-> map[k] \ S]

\* A key left without connections is deleted.
Without(map, S) == [k \in {j \in DOMAIN map : map[j] \ S # {}} |-> map[k] \ S]

Members(map) == UNION {map[k] : k \in DOMAIN map}

Registered == Members(clients) \cup Members(topics)

Close(S) == closes' = [c \in Conns |-> IF c \in S THEN closes[c] + 1 ELSE closes[c]]

-----------------------------------------------------------------------------
(* ServeWS and ServePublicWS.                                              *)

\* The upgrade succeeds and the handler waits to register the new client.
Connect(c, p) ==
  /\ reader[c] = "done" /\ writer[c] = "done"
  /\ who' = [who EXCEPT ![c] = p]
  /\ send' = [send EXCEPT ![c] = <<>>]
  /\ closes' = [closes EXCEPT ![c] = 0]
  /\ reader' = [reader EXCEPT ![c] = "registering"]
  /\ socket' = [socket EXCEPT ![c] = "up"]
  /\ UNCHANGED <<maps, writer, handled>>

\* Mutant: the limit is tested with ">".
BeyondLimit(p) == p.topic = Nobody /\ Cardinality(Entry(clients, p.user)) > MaxConnections

AtLimit(p) == p.topic = Nobody /\ Cardinality(Entry(clients, p.user)) >= MaxConnections

\* A client over the limit is told by closing its Send; its pumps start anyway.
HandleRegister(c) ==
  LET p == who[c]
  IN  /\ reader[c] = "registering"
      /\ reader' = [reader EXCEPT ![c] = "reading"]
      /\ writer' = [writer EXCEPT ![c] = "writing"]
      /\ \/ /\ p.topic # Nobody
            /\ topics' = With(topics, p.topic, c)
            /\ UNCHANGED <<clients, admins, closes>>
         \/ /\ AtLimit(p)
            /\ Close({c})
            /\ UNCHANGED maps
         \/ /\ p.topic = Nobody /\ ~AtLimit(p)
            /\ clients' = With(clients, p.user, c)
            /\ admins' = IF p.admin THEN admins \cup {c} ELSE admins
            /\ UNCHANGED <<topics, closes>>
      /\ UNCHANGED <<who, send, socket, handled>>

-----------------------------------------------------------------------------
(* The pumps.                                                              *)

\* The peer closes, vanishes or stalls past pongWait or writeWait.
PeerFails(c) ==
  /\ socket[c] = "up"
  /\ socket' = [socket EXCEPT ![c] = "down"]
  /\ UNCHANGED <<maps, who, send, closes, reader, writer, handled>>

\* Mutant: ReadPump ends without unregistering.
ReadEnds(c) ==
  /\ reader[c] = "reading" /\ socket[c] = "down"
  /\ reader' = [reader EXCEPT ![c] = "done"]
  /\ UNCHANGED <<maps, who, send, closes, writer, socket, handled>>

\* ReadPump: the read fails and the pump waits to unregister.
ReadFails(c) ==
  /\ reader[c] = "reading" /\ socket[c] = "down"
  /\ reader' = [reader EXCEPT ![c] = "leaving"]
  /\ UNCHANGED <<maps, who, send, closes, writer, socket, handled>>

\* The hub forgets the client if it still knows it; then ReadPump closes Conn.
HandleUnregister(c) ==
  /\ reader[c] = "leaving"
  /\ reader' = [reader EXCEPT ![c] = "done"]
  /\ socket' = [socket EXCEPT ![c] = "down"]
  /\ \/ /\ c \in Entry(topics, who[c].topic)
        /\ Close({c})
        /\ topics' = Without(topics, {c})
        /\ UNCHANGED <<clients, admins>>
     \/ /\ c \in Entry(clients, who[c].user)
        /\ Close({c})
        /\ clients' = Without(clients, {c})
        /\ admins' = IF who[c].admin THEN admins \ {c} ELSE admins
        /\ UNCHANGED topics
     \/ /\ c \notin Entry(topics, who[c].topic) \cup Entry(clients, who[c].user)
        /\ UNCHANGED <<maps, closes>>
  /\ UNCHANGED <<who, send, writer, handled>>

\* WritePump receives a message; that its write failed may show only later.
WriterTakes(c) ==
  /\ writer[c] = "writing"
  /\ send[c] # <<>>
  /\ send' = [send EXCEPT ![c] = Tail(@)]
  /\ UNCHANGED <<maps, who, closes, reader, writer, socket, handled>>

\* A write or a ping fails.
WriterFails(c) ==
  /\ writer[c] = "writing" /\ socket[c] = "down"
  /\ writer' = [writer EXCEPT ![c] = "done"]
  /\ UNCHANGED <<maps, who, send, closes, reader, socket, handled>>

\* Mutant: WritePump returns without closing Conn.
WriterLeaves(c) ==
  /\ writer[c] = "writing" /\ send[c] = <<>> /\ closes[c] > 0
  /\ writer' = [writer EXCEPT ![c] = "done"]
  /\ UNCHANGED <<maps, who, send, closes, reader, socket, handled>>

\* Send is closed and drained: WritePump says goodbye and closes Conn.
WriterStops(c) ==
  /\ writer[c] = "writing" /\ send[c] = <<>> /\ closes[c] > 0
  /\ writer' = [writer EXCEPT ![c] = "done"]
  /\ socket' = [socket EXCEPT ![c] = "down"]
  /\ UNCHANGED <<maps, who, send, closes, reader, handled>>

-----------------------------------------------------------------------------
(* Broadcasts.  Nothing waits for a connection: one whose Send is full is  *)
(* dropped.  A send to, or a close of, a closed channel would panic and    *)
(* leave the loop half-way; OpenWhileRegistered says it never comes up.    *)

\* Mutant: room for one more message than Send has.
Overfull(boxes, S) == {c \in S : Len(boxes[c]) > Buffer}

Full(boxes, S) == {c \in S : Len(boxes[c]) >= Buffer}

Deliver(boxes, S, note) ==
  [c \in Conns |-> IF c \in S \ Full(boxes, S) THEN Append(boxes[c], note) ELSE boxes[c]]

Note(m) == [n |-> handled + 1, msg |-> m]

\* Mutant: a dropped admin stays in hub.admins.
DropFromClients(S) ==
  /\ clients' = Without(clients, S)
  /\ Close(S)
  /\ UNCHANGED <<admins, topics>>

DropClients(S) ==
  /\ clients' = Without(clients, S)
  /\ admins' = admins \ {c \in S : who[c].admin}
  /\ Close(S)
  /\ UNCHANGED topics

\* broadcastGlobal: every connection of a user, no topic's.
BroadcastGlobal(m) ==
  LET everyone == Members(clients)
  IN  /\ m.kind = "global"
      /\ send' = Deliver(send, everyone, Note(m))
      /\ DropClients(Full(send, everyone))

\* Mutant: sentTo is not consulted.
WatchersAgain(m, sentTo) ==
  {a \in admins : m.veh # Nobody /\ who[a].fleet # Nobody => m.veh \in who[a].fleet}

\* The second loop: the admins not served yet whose fleet has the vehicle.
Watchers(m, sentTo) ==
  {a \in admins \ sentTo :
     m.veh # Nobody /\ who[a].fleet # Nobody => m.veh \in who[a].fleet}

\* broadcastTargeted: the users named, then the admins.
BroadcastTargeted(m) ==
  LET targets == UNION {Entry(clients, u) : u \in m.users}
      served == Deliver(send, targets, Note(m))
      watchers == Watchers(m, targets)
  IN  /\ m.kind = "targeted"
      /\ send' = Deliver(served, watchers, Note(m))
      /\ DropClients(Full(send, targets) \cup Full(served, watchers))

HandleTopicBroadcast(m) ==
  LET subscribers == Entry(topics, m.topic)
      slow == Full(send, subscribers)
  IN  /\ m.kind = "topic"
      /\ send' = Deliver(send, subscribers, Note(m))
      /\ topics' = Without(topics, slow)
      /\ Close(slow)
      /\ UNCHANGED <<clients, admins>>

HandleBroadcast(m) ==
  /\ handled < MaxMessages
  /\ handled' = handled + 1
  /\ BroadcastGlobal(m) \/ BroadcastTargeted(m) \/ HandleTopicBroadcast(m)
  /\ UNCHANGED <<who, reader, writer, socket>>

\* What the goroutines of a connection do, with the hub's help.
Pump(c) ==
  \/ HandleRegister(c) \/ ReadFails(c) \/ HandleUnregister(c)
  \/ WriterTakes(c) \/ WriterFails(c) \/ WriterStops(c)

Next ==
  \/ \E c \in Conns : \/ Pump(c) \/ PeerFails(c)
                      \/ \E p \in Profiles : Connect(c, p)
  \/ \E m \in Messages : HandleBroadcast(m)

Spec == Init /\ [][Next]_vars

\* The scheduler runs every goroutine that can go on; deadlines end the waits
\* for a peer; and select, which picks among the ready channels at random and
\* serves the senders of each in turn, gets round to everyone.
FairSpec ==
  Spec /\ \A c \in Conns : /\ WF_vars(HandleRegister(c)) /\ WF_vars(ReadFails(c))
                           /\ WF_vars(HandleUnregister(c)) /\ WF_vars(WriterTakes(c))
                           /\ WF_vars(WriterFails(c)) /\ WF_vars(WriterStops(c))

-----------------------------------------------------------------------------
(* Properties.                                                             *)

MapOf(K) == UNION {[D -> SUBSET Conns] : D \in SUBSET K}

\* The maps hold connections under users and topics, every connection has a
\* client once it has pumps, and Send never exceeds its capacity.
TypeOK ==
  /\ clients \in MapOf(Users) /\ topics \in MapOf(Topics) /\ admins \subseteq Conns
  /\ who \in [Conns -> Profiles \cup {Nobody}]
  /\ send \in [Conns -> Seq([n: Nat, msg: Messages])]
  /\ \A c \in Conns : Len(send[c]) <= Buffer
  /\ closes \in [Conns -> Nat]
  /\ reader \in [Conns -> {"registering", "reading", "leaving", "done"}]
  /\ writer \in [Conns -> {"writing", "done"}]
  /\ socket \in [Conns -> {"up", "down"}]
  /\ \A c \in Conns : reader[c] # "done" => who[c] # Nobody
  /\ handled \in Nat

\* hub.go's "bug original: send on closed channel": a channel is closed once,
\* and never while the hub may still send on it, whichever of the hub's
\* broadcasts, the connection limit and the pumps ends the connection.
OpenWhileRegistered ==
  \A c \in Conns : closes[c] <= 1 /\ (c \in Registered \cup admins => closes[c] = 0)

\* The maps agree: each connection is under its own key, admins are the
\* admins among the clients, and no key is left without connections, so that
\* Stats counts users and topics rightly and memory comes back.
MapsAgree ==
  /\ \A u \in DOMAIN clients :
       clients[u] # {} /\ \A c \in clients[u] : who[c] # Nobody /\ who[c].user = u
  /\ \A t \in DOMAIN topics :
       topics[t] # {} /\ \A c \in topics[t] : who[c] # Nobody /\ who[c].topic = t
  /\ admins = {c \in Members(clients) : who[c].admin}

\* No message is queued twice for a connection, nor before an earlier one, also
\* when an admin is a target of it.
DeliveredInOrder ==
  \A c \in Conns : \A i, j \in DOMAIN send[c] :
    i < j => send[c][i].n < send[c][j].n

\* Whom a message is for: everyone with a login, the users it names and the
\* admins who watch the vehicle, or the subscribers of its topic.
MeantFor(p, m) ==
  \/ m.kind = "global" /\ p.topic = Nobody
  \/ /\ m.kind = "targeted"
     /\ \/ p.user \in m.users
        \/ p.admin /\ (m.veh = Nobody \/ p.fleet = Nobody \/ m.veh \in p.fleet)
  \/ m.kind = "topic" /\ p.topic = m.topic

\* The members of Mailboxes: the connections in the hub's maps.
Roster == [c \in Conns |-> IF c \in Registered THEN who[c] ELSE Nobody]

Promise == INSTANCE Mailboxes WITH
  Limit <- MaxConnections,
  Capacity <- Buffer,
  Published <- Messages,
  member <- Roster,
  mailbox <- send,
  count <- handled

\* The hub keeps the promise of Mailboxes: its maps, loops and drops amount to
\* delivery to the audience, all of it and nobody else, in order and once.
KeepsPromise == Promise!Spec

\* A connection whose peer is gone leaves the maps: its slot and its share of
\* every broadcast come back, even if nobody broadcasts to it.
DeadLeave == \A c \in Conns : socket[c] = "down" ~> c \notin Registered

\* A connection the hub refused or dropped ends: both its goroutines return.
DroppedEnd ==
  \A c \in Conns : closes[c] > 0 ~> reader[c] = "done" /\ writer[c] = "done"

-----------------------------------------------------------------------------
(* The inductive invariant behind OpenWhileRegistered and KeepsPromise.    *)

\* A client is registered once, after it was created and before its ReadPump
\* is through with it.
RegisteredWhileRead ==
  \A c \in Conns :
    /\ reader[c] = "registering" => c \notin Registered /\ closes[c] = 0
    /\ c \in Registered => reader[c] \in {"reading", "leaving"}

HubInv == TypeOK /\ MapsAgree /\ OpenWhileRegistered /\ RegisteredWhileRead
=============================================================================
