---------------------------- MODULE FleetProofs ----------------------------
(***************************************************************************)
(* Proofs about Fleet for any trackers, vehicles, users, requests, and     *)
(* numbers of installations, requests and failures: the types, the         *)
(* registrations on two servers, the installations and groups, and the     *)
(* reports of imports.                                                     *)
(***************************************************************************)
EXTENDS Fleet, FiniteSetTheorems, TLAPS

Row == [imei: devices[Here], veh: Vehicles, live: BOOLEAN]
Entry == [veh: Vehicles \cup {NoVehicle}, user: Users \cup {NoUser}, age: 0..(TTL - 1)]
Registered == [Servers -> SUBSET Imeis]

\* What a request knows at each of its steps, for the devices there are.
Good(q, devs) ==
  /\ q.pc \in Installing => q.veh \in Vehicles /\ \E i \in devs[Here] : q.items = {i}
  /\ q.pc \in {"member", "assign", "query", "fill"} => \E i \in Imeis : q.items = {i}
  /\ q.pc = "write" => q.veh \in Vehicles /\ q.user \in Users
  /\ q.pc \in {"local", "peer"} => q.put = {}
  /\ q.pc = "insert" =>
       /\ q.count = Cardinality(q.put) + Cardinality(q.items \ (q.found \cup q.put))
       /\ q.put \subseteq devs[q.at]

TypeInv == TypeOK /\ \A r \in Requests : Good(req[r], devices)

\* r may still register i.
Registers(q, i) == q.pc \in Registering /\ i \in q.items \ q.put

\* Who registers an IMEI is alone in that, or it is blind; and what a request
\* has yet to insert is not on the other server.
PeerInv ==
  /\ PeersDisjoint
  /\ \A r, s \in Requests : \A i \in Imeis \ blind :
       Registers(req[r], i) /\ Registers(req[s], i) => r = s
  /\ \A r \in Requests : req[r].pc = "insert" =>
       \A i \in Todo(r) \ blind : i \notin devices[Peer(req[r].at)]

AtMostOne(S) == \A k, l \in S : k = l

\* Live, in any table of installations.
Rows(t, i, v) == {k \in DOMAIN t : t[k].live /\ t[k].imei \in i /\ t[k].veh \in v}

Installs(q, x) == q.pc \in Installing /\ x \in q.items \cup {q.veh}

\* Likewise for installing: who has found no live row is alone in adding one.
InstallInv ==
  /\ \A i \in Imeis \ twice : AtMostOne(Rows(installs, {i}, Vehicles))
  /\ \A v \in Vehicles \ twice : AtMostOne(Rows(installs, Imeis, {v}))
  /\ \A r, s \in Requests : \A x \in (Imeis \cup Vehicles) \ twice :
       Installs(req[r], x) /\ Installs(req[s], x) => r = s
  /\ \A r \in Requests : req[r].pc \in {"vehicle", "install"} =>
       \A i \in req[r].items \ twice : Rows(installs, {i}, Vehicles) = {}
  /\ \A r \in Requests : req[r].pc = "install" /\ req[r].veh \notin twice =>
       Rows(installs, Imeis, {req[r].veh}) = {}

Joins(q, i) == q.pc \in {"member", "assign"} /\ i \in q.items

\* And for assigning to the group.
GroupInv ==
  /\ \A i \in Imeis \ regroup : members[i] <= 1
  /\ \A r, s \in Requests : \A i \in Imeis \ regroup :
       Joins(req[r], i) /\ Joins(req[s], i) => r = s
  /\ \A r \in Requests : req[r].pc = "assign" =>
       \A i \in req[r].items \ regroup : members[i] = 0

IInv == TypeInv /\ PeerInv /\ InstallInv /\ GroupInv

-----------------------------------------------------------------------------
(* Types.                                                                  *)

InstallsTyped == \E n \in 0..MaxInstalls : installs \in [1..n -> Row]

LEMMA Typed ==
  ASSUME TypeOK
  PROVE  /\ devices \in Registered /\ InstallsTyped
         /\ members \in [Imeis -> Nat] /\ owner \in [Vehicles -> Users]
         /\ cache \in [Imeis -> Entry] /\ req \in [Requests -> Request]
         /\ starts \in 0..MaxStarts /\ faults \in 0..MaxFaults
         /\ blind \subseteq Imeis /\ twice \subseteq Imeis \cup Vehicles
         /\ regroup \subseteq Imeis
BY DEF TypeOK, InstallsTyped, Row, Entry, Registered

LEMMA FinitelyMany ==
  ASSUME NEW S \in SUBSET Imeis
  PROVE  IsFiniteSet(S) /\ Cardinality(S) \in Nat
BY ConstantsOK, FS_Subset, FS_CardinalityType

LEMMA IdleTyped ==
  /\ Idle \in Request /\ Idle.pc = "idle"
  /\ \A devs : Good(Idle, devs)
<1>1. Idle \in Request /\ Idle.pc = "idle"
  BY ConstantsOK DEF Idle, Request, Servers, Registering, Installing
<1>2. QED
  BY <1>1 DEF Good, Registering, Installing

\* More devices make no request know less.
LEMMA GoodGrows ==
  ASSUME NEW q \in Request, NEW devs, NEW more, Good(q, devs),
         \A s \in Servers : devs[s] \subseteq more[s]
  PROVE  Good(q, more)
<1>1. q.at \in Servers /\ Here \in Servers
  BY DEF Request, Servers
<1>2. QED
  BY <1>1 DEF Good

\* One request goes on with another record; the others keep theirs.
LEMMA RequestMoves ==
  ASSUME TypeOK, NEW r \in Requests, NEW q \in Request, req' = [req EXCEPT ![r] = q]
  PROVE  /\ req' \in [Requests -> Request] /\ req'[r] = q
         /\ \A s \in Requests \ {r} : req'[s] = req[s]
BY Typed

LEMMA RequestKeepsTypes ==
  ASSUME TypeInv, NEW r \in Requests, NEW q \in Request, req' = [req EXCEPT ![r] = q],
         Good(q, devices'), devices' \in Registered,
         \A s \in Servers : devices[s] \subseteq devices'[s],
         InstallsTyped', members' \in [Imeis -> Nat], owner' \in [Vehicles -> Users],
         cache' \in [Imeis -> Entry], starts' \in 0..MaxStarts, faults' \in 0..MaxFaults,
         blind' \subseteq Imeis, twice' \subseteq Imeis \cup Vehicles, regroup' \subseteq Imeis
  PROVE  TypeInv'
<1>1. /\ req' \in [Requests -> Request] /\ req'[r] = q
      /\ \A s \in Requests \ {r} : req'[s] = req[s]
  BY RequestMoves DEF TypeInv
<1>2. ASSUME NEW s \in Requests PROVE Good(req'[s], devices')
  <2>1. CASE s = r
    BY <1>1, <2>1
  <2>2. CASE s # r
    <3>1. req'[s] = req[s] /\ req[s] \in Request /\ Good(req[s], devices)
      BY <1>1, <2>2, Typed DEF TypeInv
    <3>2. QED
      BY <3>1, GoodGrows
  <2>3. QED
    BY <2>1, <2>2
<1>3. TypeOK'
  BY <1>1 DEF TypeOK, InstallsTyped, Row, Entry, Registered
<1>4. QED
  BY <1>2, <1>3 DEF TypeInv

\* The tables that a step of one request leaves alone keep their types.
LEMMA TablesKept ==
  ASSUME TypeInv
  PROVE  /\ devices \in Registered /\ members \in [Imeis -> Nat]
         /\ devices' = devices => \A s \in Servers : devices[s] \subseteq devices'[s]
         /\ installs' = installs /\ devices' = devices => InstallsTyped'
         /\ owner \in [Vehicles -> Users] /\ cache \in [Imeis -> Entry]
         /\ starts \in 0..MaxStarts /\ faults \in 0..MaxFaults
         /\ blind \subseteq Imeis /\ twice \subseteq Imeis \cup Vehicles
         /\ regroup \subseteq Imeis
<1>1. installs' = installs /\ devices' = devices => InstallsTyped'
  BY Typed DEF TypeInv, InstallsTyped, Row
<1>2. QED
  BY <1>1, Typed DEF TypeInv

LEMMA Counters ==
  ASSUME TypeInv
  PROVE  /\ Fault => faults' \in 0..MaxFaults
         /\ \A r \in Requests : \A new : Start(r, new) =>
              /\ starts' \in 0..MaxStarts /\ req[r].pc = "idle"
              /\ req' = [req EXCEPT ![r] = new]
BY ConstantsOK, TablesKept DEF Fault, Start, At

LEMMA Known ==
  ASSUME TypeInv, NEW r \in Requests
  PROVE  /\ req[r] \in Request /\ Good(req[r], devices)
         /\ req[r].items \subseteq Imeis /\ req[r].found \subseteq Imeis
         /\ req[r].put \subseteq Imeis /\ req[r].at \in Servers /\ req[r].count \in Nat
         /\ req[r].pc \in Installing => /\ ImeiOf(r) \in devices[Here] /\ ImeiOf(r) \in Imeis
                                        /\ req[r].items = {ImeiOf(r)}
         /\ req[r].pc \in {"member", "assign", "query", "fill"} =>
              ImeiOf(r) \in Imeis /\ req[r].items = {ImeiOf(r)}
<1>1. req[r] \in Request /\ Good(req[r], devices)
  BY Typed DEF TypeInv
<1>2. \A i : req[r].items = {i} => ImeiOf(r) = i
  BY DEF ImeiOf
<1>3. devices[Here] \subseteq Imeis
  BY Typed DEF TypeInv, Registered, Servers
<1>4. QED
  BY <1>1, <1>2, <1>3 DEF Request, Good

-----------------------------------------------------------------------------
(* What the steps of a request do.                                         *)

\* The step leaves r at one of these steps, with what it must know there.
Turns(r, pcs) ==
  \E q \in Request : /\ req' = [req EXCEPT ![r] = q]
                     /\ q.pc \in pcs /\ Good(q, devices')

LEMMA FinishTurns ==
  ASSUME NEW r \in Requests, Finish(r), NEW pcs, "idle" \in pcs
  PROVE  Turns(r, pcs)
BY IdleTyped DEF Finish, Turns

\* A request that goes on as it is to a step that needs no more than it knows.
LEMMA GotoTurns ==
  ASSUME TypeInv, NEW r \in Requests, NEW pc, Goto(r, pc), devices' = devices, NEW pcs, pc \in pcs,
         \/ pc \in Installing /\ req[r].pc \in Installing
         \/ pc = "assign" /\ req[r].pc = "member"
         \/ pc = "peer" /\ req[r].pc = "local"
  PROVE  Turns(r, pcs)
<1> DEFINE q == [req[r] EXCEPT !.pc = pc]
<1>1. /\ q \in Request /\ q.pc = pc /\ q.items = req[r].items /\ q.veh = req[r].veh
      /\ q.put = req[r].put
  BY Known DEF Request, Registering
<1>2. Good(q, devices)
  BY <1>1, Known DEF Good, Installing
<1>3. req' = [req EXCEPT ![r] = q]
  BY DEF Goto
<1> HIDE DEF q
<1>4. QED
  BY <1>1, <1>2, <1>3 DEF Turns

\* Registering: the item that is tried leaves what is to be tried.
LEMMA Tried ==
  ASSUME NEW q \in Request, NEW i \in Imeis, i \in q.items \ (q.found \cup q.put)
  PROVE  /\ Cardinality(q.items \ ((q.found \cup {i}) \cup q.put)) =
              Cardinality(q.items \ (q.found \cup q.put)) - 1
         /\ Cardinality(q.items \ (q.found \cup (q.put \cup {i}))) =
              Cardinality(q.items \ (q.found \cup q.put)) - 1
         /\ Cardinality(q.items \ (q.found \cup q.put)) \in Nat \ {0}
         /\ Cardinality(q.put \cup {i}) = Cardinality(q.put) + 1
         /\ Cardinality(q.put) \in Nat
<1> DEFINE rest == q.items \ (q.found \cup q.put)
<1>1. /\ q.items \ ((q.found \cup {i}) \cup q.put) = rest \ {i}
      /\ q.items \ (q.found \cup (q.put \cup {i})) = rest \ {i}
  OBVIOUS
<1>2. rest \in SUBSET Imeis /\ i \in rest /\ i \notin q.put /\ rest # {} /\ q.put \in SUBSET Imeis
  BY DEF Request
<1> HIDE DEF rest
<1>3. /\ IsFiniteSet(rest) /\ Cardinality(rest) \in Nat
      /\ IsFiniteSet(q.put) /\ Cardinality(q.put) \in Nat
  BY <1>2, FinitelyMany
<1>4. Cardinality(rest \ {i}) = Cardinality(rest) - 1
  BY <1>2, <1>3, FS_RemoveElement
<1>5. Cardinality(rest) # 0
  BY <1>2, <1>3, FS_EmptySet
<1>6. Cardinality(q.put \cup {i}) = Cardinality(q.put) + 1
  BY <1>2, <1>3, FS_AddElement
<1>7. QED
  BY <1>1, <1>3, <1>4, <1>5, <1>6 DEF rest

\* The steps of a registration, up to the record that the request goes on with.
LEMMA RegisterTurns ==
  ASSUME TypeInv, NEW r \in Requests, NEW s \in Servers, NEW items \in SUBSET Imeis,
         Register(r, s, items)
  PROVE  Turns(r, Registering)
<1> DEFINE q == [Idle EXCEPT !.pc = "local", !.at = s, !.items = items]
<1>1. q \in Request /\ q.pc = "local" /\ q.put = {}
  BY IdleTyped DEF Idle, Request, Registering
<1>2. q.pc \in Registering /\ Good(q, devices)
  BY <1>1 DEF Good, Registering, Installing
<1>3. req' = [req EXCEPT ![r] = q] /\ devices' = devices
  BY DEF Register, Start
<1> HIDE DEF q
<1>4. QED
  BY <1>1, <1>2, <1>3 DEF Turns

LEMMA FindLocalTurns ==
  ASSUME TypeInv, NEW r \in Requests, FindLocal(r)
  PROVE  Turns(r, Registering)
<1> DEFINE q == [req[r] EXCEPT !.pc = "peer", !.found = req[r].items \cap devices[req[r].at]]
<1>1. req[r].put = {}
  BY Known DEF FindLocal, At, Good
<1>2. q \in Request /\ q.pc = "peer" /\ q.put = {}
  BY <1>1, Known DEF Request, Registering
<1>3. q.pc \in Registering /\ Good(q, devices)
  BY <1>2 DEF Good, Registering, Installing
<1>4. req' = [req EXCEPT ![r] = q] /\ devices' = devices
  BY DEF FindLocal
<1> HIDE DEF q
<1>5. QED
  BY <1>2, <1>3, <1>4 DEF Turns

\* With an answer of the other server or without, the rest is counted.
LEMMA CountedTurns ==
  ASSUME TypeInv, NEW r \in Requests, At(r, "peer"), NEW known \in SUBSET Imeis,
         req' = [req EXCEPT ![r].pc = "insert", ![r].found = known,
                            ![r].count = Cardinality(req[r].items \ known)],
         devices' = devices
  PROVE  Turns(r, Registering)
<1> DEFINE q == [req[r] EXCEPT !.pc = "insert", !.found = known,
                               !.count = Cardinality(req[r].items \ known)]
<1>1. req[r].put = {}
  BY Known DEF At, Good
<1>2. Cardinality(req[r].items \ known) \in Nat /\ Cardinality({}) = 0
  <2>1. req[r].items \ known \in SUBSET Imeis
    BY Known
  <2>2. QED
    BY <2>1, FinitelyMany, FS_EmptySet
<1>3. /\ q \in Request /\ q.pc = "insert" /\ q.put = {} /\ q.found = known
      /\ q.items = req[r].items /\ q.count = Cardinality(req[r].items \ known)
  BY <1>1, <1>2, Known DEF Request, Registering
<1>4. q.pc \in Registering /\ Good(q, devices)
  <2>1. q.items \ (q.found \cup q.put) = req[r].items \ known
    BY <1>3
  <2> HIDE DEF q
  <2>2. QED
    BY <1>2, <1>3, <2>1 DEF Good, Registering, Installing
<1>5. req' = [req EXCEPT ![r] = q]
  OBVIOUS
<1> HIDE DEF q
<1>6. QED
  BY <1>3, <1>4, <1>5 DEF Turns

\* What may come of the question to the other server.
Answered(r) == AskPeer(r) \/ PeerMisses(r) \/ PeerFails(r) \/ PeerUnset(r)

LEMMA AnsweredMisses ==
  ASSUME TypeInv, NEW r \in Requests, Answered(r)
  PROVE  /\ \E lost \in SUBSET Theirs(r) : Missing(r, lost)
         /\ Fault \/ faults' = faults
<1>1. {} \in SUBSET Theirs(r) /\ Theirs(r) \in SUBSET Theirs(r)
  OBVIOUS
<1>2. QED
  BY <1>1 DEF Answered, AskPeer, PeerMisses, PeerFails, PeerUnset

LEMMA MissingTurns ==
  ASSUME TypeInv, NEW r \in Requests, NEW lost, Missing(r, lost)
  PROVE  Turns(r, Registering)
<1> DEFINE known == req[r].found \cup (Theirs(r) \ lost)
<1>1. At(r, "peer") /\ devices' = devices
  BY DEF Missing
<1>2. known \in SUBSET Imeis
  BY Known DEF Theirs
<1>3. req' = [req EXCEPT ![r].pc = "insert", ![r].found = known,
                         ![r].count = Cardinality(req[r].items \ known)]
  BY DEF Missing
<1> HIDE DEF known
<1>4. QED
  BY <1>1, <1>2, <1>3, CountedTurns

\* An item that is not stored, and one that is.
LEMMA RefusedTurns ==
  ASSUME TypeInv, NEW r \in Requests, At(r, "insert"), NEW i \in Imeis, i \in Todo(r),
         req' = [req EXCEPT ![r].found = @ \cup {i}, ![r].count = @ - 1], devices' = devices
  PROVE  Turns(r, Registering)
<1> DEFINE q == [req[r] EXCEPT !.found = @ \cup {i}, !.count = @ - 1]
           old == req[r]
<1>1. /\ old.count = Cardinality(old.put) + Cardinality(old.items \ (old.found \cup old.put))
      /\ old.put \subseteq devices[old.at]
  BY Known DEF At, Good
<1>2. /\ Cardinality(old.items \ ((old.found \cup {i}) \cup old.put)) =
           Cardinality(old.items \ (old.found \cup old.put)) - 1
      /\ Cardinality(old.items \ (old.found \cup old.put)) \in Nat \ {0}
      /\ Cardinality(old.put) \in Nat
  <2>1. old \in Request /\ i \in old.items \ (old.found \cup old.put)
    BY Known DEF Todo
  <2> HIDE DEF old
  <2>2. QED
    BY <2>1, Tried
<1>3. old.count - 1 \in Nat
      /\ old.count - 1 = Cardinality(old.put) + Cardinality(old.items \ ((old.found \cup {i}) \cup old.put))
  BY <1>1, <1>2
<1>4. /\ q \in Request /\ q.pc = "insert" /\ q.put = old.put /\ q.items = old.items
      /\ q.found = old.found \cup {i} /\ q.count = old.count - 1 /\ q.at = old.at
  BY <1>3, Known DEF Request, Registering, At
<1>5. req' = [req EXCEPT ![r] = q]
  OBVIOUS
<1> HIDE DEF q, old
<1>6. q.pc \in Registering /\ Good(q, devices)
  BY <1>1, <1>3, <1>4 DEF Good, Registering, Installing
<1>7. QED
  BY <1>4, <1>5, <1>6 DEF Turns

LEMMA StoredTurns ==
  ASSUME TypeInv, NEW r \in Requests, At(r, "insert"), NEW i \in Imeis, i \in Todo(r),
         req' = [req EXCEPT ![r].put = @ \cup {i}],
         devices' = [devices EXCEPT ![req[r].at] = @ \cup {i}]
  PROVE  /\ Turns(r, Registering) /\ devices' \in Registered
         /\ \A s \in Servers : devices[s] \subseteq devices'[s]
<1> DEFINE q == [req[r] EXCEPT !.put = @ \cup {i}]
           old == req[r]
<1>1. /\ old.count = Cardinality(old.put) + Cardinality(old.items \ (old.found \cup old.put))
      /\ old.put \subseteq devices[old.at]
  BY Known DEF At, Good
<1>2. /\ Cardinality(old.items \ (old.found \cup (old.put \cup {i}))) =
           Cardinality(old.items \ (old.found \cup old.put)) - 1
      /\ Cardinality(old.items \ (old.found \cup old.put)) \in Nat \ {0}
      /\ Cardinality(old.put \cup {i}) = Cardinality(old.put) + 1
      /\ Cardinality(old.put) \in Nat
  <2>1. old \in Request /\ i \in old.items \ (old.found \cup old.put)
    BY Known DEF Todo
  <2> HIDE DEF old
  <2>2. QED
    BY <2>1, Tried
<1>3. old.count = Cardinality(old.put \cup {i})
                    + Cardinality(old.items \ (old.found \cup (old.put \cup {i})))
  BY <1>1, <1>2
<1>4. /\ devices' \in Registered /\ devices'[old.at] = devices[old.at] \cup {i}
      /\ \A s \in Servers : devices[s] \subseteq devices'[s]
  BY Known, TablesKept DEF Registered
<1>5. /\ q \in Request /\ q.pc = "insert" /\ q.put = old.put \cup {i} /\ q.items = old.items
      /\ q.found = old.found /\ q.count = old.count /\ q.at = old.at
  BY Known DEF Request, At
<1>6. req' = [req EXCEPT ![r] = q]
  OBVIOUS
<1> HIDE DEF q, old
<1>7. q.pc \in Registering /\ Good(q, devices')
  BY <1>1, <1>3, <1>4, <1>5 DEF Good, Registering, Installing
<1>8. QED
  BY <1>4, <1>5, <1>6, <1>7 DEF Turns

-----------------------------------------------------------------------------
(* The steps of each kind of request: where they take it, the tables that  *)
(* they leave alone, and the types of those that they write.               *)

TablesTyped ==
  /\ devices \in Registered /\ InstallsTyped
  /\ members \in [Imeis -> Nat] /\ owner \in [Vehicles -> Users]
  /\ cache \in [Imeis -> Entry] /\ starts \in 0..MaxStarts /\ faults \in 0..MaxFaults
  /\ blind \subseteq Imeis /\ twice \subseteq Imeis \cup Vehicles /\ regroup \subseteq Imeis

Grows == \A s \in Servers : devices[s] \subseteq devices'[s]

LEMMA TurnKeepsTypes ==
  ASSUME TypeInv, NEW r \in Requests, NEW pcs, Turns(r, pcs), TablesTyped', Grows
  PROVE  TypeInv'
<1>1. PICK q \in Request : req' = [req EXCEPT ![r] = q] /\ Good(q, devices')
  BY DEF Turns
<1>2. QED
  BY <1>1, RequestKeepsTypes DEF TablesTyped, Grows

LEMMA WiderTurns ==
  ASSUME NEW r, NEW few, NEW many, few \subseteq many, Turns(r, few)
  PROVE  Turns(r, many)
BY DEF Turns

LEMMA RegisterLeaves ==
  ASSUME TypeInv, NEW r \in Requests, RegisterStep(r)
  PROVE  /\ Turns(r, {"idle"} \cup Registering) /\ TablesTyped' /\ Grows
         /\ UNCHANGED <<installs, members, owner, cache, twice, regroup>>
<1> DEFINE pcs == {"idle"} \cup Registering
<1>1. Registering \subseteq pcs /\ "idle" \in pcs
  OBVIOUS
<1> HIDE DEF pcs
<1>2. ASSUME NEW s \in Servers, NEW items \in SUBSET Imeis, Register(r, s, items)
      PROVE  /\ Turns(r, pcs) /\ TablesTyped' /\ Grows
             /\ UNCHANGED <<installs, members, owner, cache, twice, regroup>>
  <2>1. starts' \in 0..MaxStarts /\ blind' \subseteq Imeis /\ devices' = devices /\ faults' = faults
        /\ UNCHANGED <<installs, members, owner, cache, twice, regroup>>
    BY <1>2, Counters, TablesKept DEF Register
  <2>2. Turns(r, pcs)
    BY <1>1, <1>2, RegisterTurns, WiderTurns
  <2>3. QED
    BY <2>1, <2>2, TablesKept, Typed DEF TablesTyped, Grows, TypeInv, InstallsTyped, Row
<1>3. CASE FindLocal(r)
  <2>1. devices' = devices
        /\ UNCHANGED <<starts, faults, blind, installs, members, owner, cache, twice, regroup>>
    BY <1>3 DEF FindLocal, ghosts
  <2>2. Turns(r, pcs)
    BY <1>1, <1>3, FindLocalTurns, WiderTurns
  <2>3. QED
    BY <2>1, <2>2, TablesKept, Typed DEF TablesTyped, Grows, TypeInv, InstallsTyped, Row, pcs
<1>4. CASE Answered(r)
  <2>1. PICK lost \in SUBSET Theirs(r) : Missing(r, lost)
    BY <1>4, AnsweredMisses
  <2>2. devices' = devices /\ starts' = starts /\ faults' \in 0..MaxFaults /\ blind' \subseteq Imeis
        /\ UNCHANGED <<installs, members, owner, cache, twice, regroup>>
    BY <1>4, <2>1, AnsweredMisses, Counters, TablesKept, Known DEF Missing, Theirs
  <2>3. Turns(r, pcs)
    BY <1>1, <2>1, MissingTurns, WiderTurns
  <2>4. QED
    BY <2>2, <2>3, TablesKept, Typed DEF TablesTyped, Grows, TypeInv, InstallsTyped, Row, pcs
<1>5. CASE Report(r)
  <2>1. devices' = devices
        /\ UNCHANGED <<starts, faults, blind, installs, members, owner, cache, twice, regroup>>
    BY <1>5 DEF Report, ghosts
  <2>2. Turns(r, pcs)
    BY <1>1, <1>5, FinishTurns DEF Report
  <2>3. QED
    BY <2>1, <2>2, TablesKept, Typed DEF TablesTyped, Grows, TypeInv, InstallsTyped, Row, pcs
<1>6. ASSUME NEW i \in Imeis, Insert(r, i)
      PROVE  /\ Turns(r, pcs) /\ TablesTyped' /\ Grows
             /\ UNCHANGED <<installs, members, owner, cache, twice, regroup>>
  <2>1. UNCHANGED <<starts, faults, blind, installs, members, owner, cache, twice, regroup>>
        /\ At(r, "insert") /\ i \in Todo(r)
    BY <1>6 DEF Insert, ghosts
  <2>2. Turns(r, Registering) /\ devices' \in Registered /\ Grows
    <3>1. CASE i \in devices[req[r].at]
      BY <1>6, <2>1, <3>1, RefusedTurns, TablesKept DEF Insert, Grows
    <3>2. CASE i \notin devices[req[r].at]
      BY <1>6, <2>1, <3>2, StoredTurns DEF Insert, Grows
    <3>3. QED
      BY <3>1, <3>2
  <2>3. InstallsTyped'
    <3>1. PICK n \in 0..MaxInstalls : installs \in [1..n -> Row]
      BY Typed DEF TypeInv, InstallsTyped
    <3>2. Row \subseteq [imei: devices'[Here], veh: Vehicles, live: BOOLEAN]
      BY <2>2 DEF Row, Grows, Servers
    <3>3. installs' \in [1..n -> [imei: devices'[Here], veh: Vehicles, live: BOOLEAN]]
      BY <2>1, <3>1, <3>2
    <3>4. QED
      BY <3>3 DEF InstallsTyped, Row
  <2>4. Turns(r, pcs)
    BY <1>1, <2>2, WiderTurns
  <2>5. QED
    BY <2>1, <2>2, <2>3, <2>4, TablesKept DEF TablesTyped
<1>7. ASSUME NEW i \in Imeis, InsertFails(r, i)
      PROVE  /\ Turns(r, pcs) /\ TablesTyped' /\ Grows
             /\ UNCHANGED <<installs, members, owner, cache, twice, regroup>>
  <2>1. devices' = devices /\ faults' \in 0..MaxFaults
        /\ UNCHANGED <<starts, blind, installs, members, owner, cache, twice, regroup>>
        /\ At(r, "insert") /\ i \in Todo(r)
    BY <1>7, Counters DEF InsertFails, ghosts
  <2>2. Turns(r, Registering)
    BY <1>7, <2>1, RefusedTurns DEF InsertFails
  <2>3. Turns(r, pcs)
    BY <1>1, <2>2, WiderTurns
  <2>4. QED
    BY <2>1, <2>3, TablesKept, Typed DEF TablesTyped, Grows, TypeInv, InstallsTyped, Row
<1>8. CASE LookupFails(r)
  <2>1. devices' = devices /\ faults' \in 0..MaxFaults
        /\ UNCHANGED <<starts, blind, installs, members, owner, cache, twice, regroup>>
    BY <1>8, Counters DEF LookupFails, ghosts
  <2>2. Goto(r, "peer") /\ req[r].pc = "local" /\ "peer" \in pcs
    BY <1>8 DEF LookupFails, At, Registering, pcs
  <2>3. Turns(r, pcs)
    BY <2>1, <2>2, GotoTurns
  <2>4. QED
    BY <2>1, <2>3, TablesKept, Typed DEF TablesTyped, Grows, TypeInv, InstallsTyped, Row, pcs
<1>9. QED
  BY <1>2, <1>3, <1>4, <1>5, <1>6, <1>7, <1>8 DEF RegisterStep, Answered, pcs

LEMMA InstallLeaves ==
  ASSUME TypeInv, NEW r \in Requests, InstallStep(r)
  PROVE  /\ Turns(r, {"idle", "remove"} \cup Installing) /\ TablesTyped'
         /\ UNCHANGED <<devices, members, owner, cache, blind, regroup>>
<1> DEFINE pcs == {"idle", "remove"} \cup Installing
           kept == UNCHANGED <<devices, members, owner, cache, blind, regroup>>
<1>1. Installing \subseteq pcs /\ "idle" \in pcs /\ "remove" \in pcs
      /\ \A pc \in Installing : pc \in pcs
  OBVIOUS
<1> HIDE DEF pcs
<1>2. ASSUME NEW i \in Imeis, NEW v \in Vehicles, Install(r, i, v)
      PROVE  Turns(r, pcs) /\ TablesTyped' /\ kept
  <2> DEFINE q == [Idle EXCEPT !.pc = "device", !.items = {i}, !.veh = v]
  <2>1. starts' \in 0..MaxStarts /\ twice' \subseteq Imeis \cup Vehicles
        /\ faults' = faults /\ installs' = installs /\ kept
        /\ i \in devices[Here] /\ req' = [req EXCEPT ![r] = q]
    BY <1>2, Counters, TablesKept DEF Install
  <2>2. q \in Request /\ q.pc = "device" /\ q.items = {i} /\ q.veh = v
    BY IdleTyped DEF Idle, Request, Installing
  <2> HIDE DEF q
  <2>3. q.pc \in pcs /\ Good(q, devices')
    BY <1>1, <2>1, <2>2 DEF Good, Installing
  <2>4. Turns(r, pcs)
    BY <2>1, <2>2, <2>3 DEF Turns
  <2>5. QED
    BY <2>1, <2>4, TablesKept DEF TablesTyped
<1>3. ASSUME CheckDevice(r) \/ CheckVehicle(r)
      PROVE  Turns(r, pcs) /\ TablesTyped' /\ kept
  <2>1. UNCHANGED <<installs, starts, faults, twice>> /\ kept
    BY <1>3 DEF CheckDevice, CheckVehicle, ghosts
  <2>2. TablesTyped'
    BY <2>1, TablesKept DEF TablesTyped
  <2>3. /\ req[r].pc \in Installing
        /\ Finish(r) \/ Goto(r, "vehicle") \/ Goto(r, "install")
    BY <1>3 DEF CheckDevice, CheckVehicle, At, Installing
  <2>4. "vehicle" \in Installing /\ "install" \in Installing
    BY DEF Installing
  <2>5. Turns(r, pcs)
    BY <1>1, <2>1, <2>3, <2>4, FinishTurns, GotoTurns
  <2>6. QED
    BY <2>1, <2>2, <2>5
<1>4. ASSUME InsertInstall(r)
      PROVE  Turns(r, pcs) /\ TablesTyped' /\ kept
  <2> DEFINE k == Cardinality(DOMAIN installs) + 1
             row == [imei |-> ImeiOf(r), veh |-> req[r].veh, live |-> TRUE]
  <2>1. UNCHANGED <<starts, faults, twice>> /\ kept /\ Finish(r)
        /\ installs' = [n \in DOMAIN installs \cup {k} |-> IF n = k THEN row ELSE installs[n]]
        /\ Cardinality(DOMAIN installs) < MaxInstalls /\ req[r].pc \in Installing
    BY <1>4 DEF InsertInstall, ghosts, At, Installing
  <2>2. row \in Row
    BY <2>1, Known DEF Row, Good
  <2>3. PICK n \in 0..MaxInstalls : installs \in [1..n -> Row]
    BY Typed DEF TypeInv, InstallsTyped
  <2>4. Cardinality(DOMAIN installs) = n
    <3>1. n \in Nat /\ n >= 0 /\ 0 + 1 = 1 /\ DOMAIN installs = 1..n
      BY <2>3, ConstantsOK
    <3>2. Cardinality(1..n) = IF 1 > n THEN 0 ELSE n - 1 + 1
      BY <3>1, FS_Interval
    <3>3. QED
      BY <3>1, <3>2
  <2> HIDE DEF row
  <2>5. installs' \in [1..(n + 1) -> Row] /\ n + 1 \in 0..MaxInstalls
    <3>1. k = n + 1 /\ n < MaxInstalls
      BY <2>1, <2>4
    <3>2. n \in Nat /\ DOMAIN installs \cup {k} = 1..(n + 1)
      BY <2>3, <3>1, ConstantsOK
    <3>3. installs' = [m \in 1..(n + 1) |-> IF m = n + 1 THEN row ELSE installs[m]]
      BY <2>1, <3>1, <3>2
    <3>4. \A m \in 1..(n + 1) : m # n + 1 => m \in 1..n
      BY <3>2
    <3>5. QED
      BY <2>2, <2>3, <3>1, <3>2, <3>3, <3>4, ConstantsOK
  <2>6. InstallsTyped'
    BY <2>1, <2>5 DEF InstallsTyped, Row
  <2>7. QED
    BY <1>1, <2>1, <2>6, FinishTurns, TablesKept DEF TablesTyped
<1>5. ASSUME SaveRemoved(r)
      PROVE  Turns(r, pcs) /\ TablesTyped' /\ kept
  <2>1. UNCHANGED <<starts, faults, twice>> /\ kept /\ Finish(r)
        /\ installs' = [installs EXCEPT ![req[r].id].live = FALSE]
    BY <1>5 DEF SaveRemoved, ghosts
  <2>2. PICK n \in 0..MaxInstalls : installs \in [1..n -> Row]
    BY Typed DEF TypeInv, InstallsTyped
  <2>3. installs' \in [1..n -> Row]
    BY <2>1, <2>2 DEF Row
  <2>4. InstallsTyped'
    BY <2>1, <2>3 DEF InstallsTyped, Row
  <2>5. QED
    BY <1>1, <2>1, <2>4, FinishTurns, TablesKept DEF TablesTyped
<1>6. ASSUME NEW k \in 1..MaxInstalls, ReadInstall(r, k)
      PROVE  Turns(r, pcs) /\ TablesTyped' /\ kept
  <2> DEFINE q == [Idle EXCEPT !.pc = "remove", !.id = k]
  <2>1. starts' \in 0..MaxStarts /\ faults' = faults /\ installs' = installs /\ kept
        /\ twice' = twice /\ req' = [req EXCEPT ![r] = q]
    BY <1>6, Counters DEF ReadInstall, ghosts
  <2>2. q \in Request /\ q.pc = "remove"
    <3>1. k \in 0..MaxInstalls
      BY ConstantsOK
    <3>2. QED
      BY <3>1, IdleTyped DEF Idle, Request
  <2> HIDE DEF q
  <2>3. q.pc \in pcs /\ Good(q, devices')
    BY <1>1, <2>2 DEF Good, Installing
  <2>4. Turns(r, pcs)
    BY <2>1, <2>2, <2>3 DEF Turns
  <2>5. QED
    BY <2>1, <2>4, TablesKept DEF TablesTyped
<1>7. QED
  BY <1>2, <1>3, <1>4, <1>5, <1>6 DEF InstallStep, pcs

LEMMA GroupLeaves ==
  ASSUME TypeInv, NEW r \in Requests, GroupStep(r)
  PROVE  /\ Turns(r, {"idle", "member", "assign"}) /\ TablesTyped'
         /\ UNCHANGED <<devices, installs, owner, cache, blind, twice>>
<1> DEFINE pcs == {"idle", "member", "assign"}
           kept == UNCHANGED <<devices, installs, owner, cache, blind, twice>>
<1>1. "idle" \in pcs /\ "member" \in pcs /\ "assign" \in pcs
  OBVIOUS
<1> HIDE DEF pcs
<1>2. ASSUME NEW i \in Imeis, Assign(r, i)
      PROVE  Turns(r, pcs) /\ TablesTyped' /\ kept
  <2> DEFINE q == [Idle EXCEPT !.pc = "member", !.items = {i}]
  <2>1. starts' \in 0..MaxStarts /\ regroup' \subseteq Imeis
        /\ UNCHANGED <<faults, members>> /\ kept /\ req' = [req EXCEPT ![r] = q]
    BY <1>2, Counters, TablesKept DEF Assign
  <2>2. q \in Request /\ q.pc = "member" /\ q.items = {i}
    BY IdleTyped DEF Idle, Request
  <2> HIDE DEF q
  <2>3. q.pc \in pcs /\ Good(q, devices')
    BY <1>1, <2>2 DEF Good, Installing
  <2>4. Turns(r, pcs)
    BY <2>1, <2>2, <2>3 DEF Turns
  <2>5. QED
    BY <2>1, <2>4, TablesKept DEF TablesTyped
<1>3. ASSUME CheckMember(r)
      PROVE  Turns(r, pcs) /\ TablesTyped' /\ kept
  <2>1. UNCHANGED <<members, starts, faults, regroup>> /\ kept /\ req[r].pc = "member"
        /\ (Finish(r) \/ Goto(r, "assign"))
    BY <1>3 DEF CheckMember, ghosts, At
  <2>2. Turns(r, pcs)
    BY <1>1, <2>1, FinishTurns, GotoTurns
  <2>3. QED
    BY <2>1, <2>2, TablesKept DEF TablesTyped
<1>4. ASSUME InsertMember(r)
      PROVE  Turns(r, pcs) /\ TablesTyped' /\ kept
  <2>1. UNCHANGED <<starts, faults, regroup>> /\ kept /\ Finish(r) /\ req[r].pc = "assign"
        /\ members' = [members EXCEPT ![ImeiOf(r)] = members[ImeiOf(r)] + 1]
    BY <1>4 DEF InsertMember, ghosts, At
  <2>2. members' \in [Imeis -> Nat]
    <3>1. ImeiOf(r) \in Imeis /\ members \in [Imeis -> Nat]
      BY <2>1, Known, TablesKept
    <3>2. members[ImeiOf(r)] + 1 \in Nat
      BY <3>1
    <3>3. QED
      BY <2>1, <3>1, <3>2
  <2>3. QED
    BY <1>1, <2>1, <2>2, FinishTurns, TablesKept DEF TablesTyped
<1>5. QED
  BY <1>2, <1>3, <1>4 DEF GroupStep, pcs

\* With the requests that end half-way.
LEMMA OwnerLeaves ==
  ASSUME TypeInv, NEW r \in Requests, OwnerStep(r) \/ Abandon(r)
  PROVE  /\ Turns(r, {"idle", "write", "query", "fill"}) /\ TablesTyped'
         /\ UNCHANGED <<devices, installs, members, ghosts>>
<1> DEFINE pcs == {"idle", "write", "query", "fill"}
           kept == UNCHANGED <<devices, installs, members, ghosts>>
<1>1. "idle" \in pcs /\ "write" \in pcs /\ "query" \in pcs /\ "fill" \in pcs
  OBVIOUS
<1> HIDE DEF pcs
<1>2. ASSUME NEW v \in Vehicles, NEW u \in Users, ReadVehicle(r, v, u)
      PROVE  Turns(r, pcs) /\ TablesTyped' /\ kept
  <2> DEFINE q == [Idle EXCEPT !.pc = "write", !.veh = v, !.user = u]
  <2>1. starts' \in 0..MaxStarts /\ UNCHANGED <<faults, owner, cache>> /\ kept
        /\ req' = [req EXCEPT ![r] = q]
    BY <1>2, Counters DEF ReadVehicle
  <2>2. q \in Request /\ q.pc = "write" /\ q.veh = v /\ q.user = u
    BY IdleTyped DEF Idle, Request
  <2> HIDE DEF q
  <2>3. q.pc \in pcs /\ Good(q, devices')
    BY <1>1, <2>2 DEF Good, Installing
  <2>4. Turns(r, pcs)
    BY <2>1, <2>2, <2>3 DEF Turns
  <2>5. QED
    BY <2>1, <2>4, TablesKept DEF TablesTyped, ghosts
<1>3. ASSUME WriteVehicle(r)
      PROVE  Turns(r, pcs) /\ TablesTyped' /\ kept
  <2>1. UNCHANGED <<starts, faults, cache>> /\ kept /\ Finish(r) /\ req[r].pc = "write"
        /\ owner' = [owner EXCEPT ![req[r].veh] = req[r].user]
    BY <1>3 DEF WriteVehicle, At
  <2>2. owner' \in [Vehicles -> Users]
    BY <2>1, Known, TablesKept DEF Good
  <2>3. QED
    BY <1>1, <2>1, <2>2, FinishTurns, TablesKept DEF TablesTyped, ghosts
<1>4. ASSUME NEW i \in Imeis, Resolve(r, i)
      PROVE  Turns(r, pcs) /\ TablesTyped' /\ kept
  <2> DEFINE q == [Idle EXCEPT !.pc = "query", !.items = {i}]
  <2>1. starts' \in 0..MaxStarts /\ faults' \in 0..MaxFaults /\ UNCHANGED <<owner, cache>> /\ kept
        /\ req' = [req EXCEPT ![r] = q]
    BY <1>4, Counters, TablesKept DEF Resolve
  <2>2. q \in Request /\ q.pc = "query" /\ q.items = {i}
    BY IdleTyped DEF Idle, Request
  <2> HIDE DEF q
  <2>3. q.pc \in pcs /\ Good(q, devices')
    BY <1>1, <2>2 DEF Good, Installing
  <2>4. Turns(r, pcs)
    BY <2>1, <2>2, <2>3 DEF Turns
  <2>5. QED
    BY <2>1, <2>4, TablesKept DEF TablesTyped, ghosts
<1>5. ASSUME QueryOwner(r)
      PROVE  Turns(r, pcs) /\ TablesTyped' /\ kept
  <2>1. UNCHANGED <<starts, faults, owner, cache>> /\ kept /\ req[r].pc = "query"
    BY <1>5 DEF QueryOwner, At
  <2>2. ASSUME NEW k \in Live(req[r].items, Vehicles),
               req' = [req EXCEPT ![r].pc = "fill", ![r].veh = installs[k].veh,
                                  ![r].user = owner[installs[k].veh]]
        PROVE  Turns(r, pcs)
    <3> DEFINE q == [req[r] EXCEPT !.pc = "fill", !.veh = installs[k].veh,
                                   !.user = owner[installs[k].veh]]
    <3>1. installs[k].veh \in Vehicles /\ owner[installs[k].veh] \in Users
      BY TablesKept DEF Live
    <3>2. q \in Request /\ q.pc = "fill" /\ q.items = req[r].items
      BY <3>1, Known DEF Request
    <3>3. req' = [req EXCEPT ![r] = q]
      BY <2>2
    <3>4. ImeiOf(r) \in Imeis /\ req[r].items = {ImeiOf(r)}
      BY <2>1, Known
    <3> HIDE DEF q
    <3>5. q.pc \in pcs /\ Good(q, devices')
      BY <1>1, <3>2, <3>4 DEF Good, Installing
    <3>6. QED
      BY <3>2, <3>3, <3>5 DEF Turns
  <2>3. Turns(r, pcs)
    BY <1>1, <1>5, <2>2, FinishTurns DEF QueryOwner
  <2>4. QED
    BY <2>1, <2>3, TablesKept DEF TablesTyped, ghosts
<1>6. ASSUME FillOwner(r)
      PROVE  Turns(r, pcs) /\ TablesTyped' /\ kept
  <2>1. UNCHANGED <<starts, faults, owner>> /\ kept /\ Finish(r) /\ req[r].pc = "fill"
        /\ cache' = [cache EXCEPT ![ImeiOf(r)] = [veh |-> req[r].veh, user |-> req[r].user, age |-> 0]]
    BY <1>6 DEF FillOwner, At
  <2>2. [veh |-> req[r].veh, user |-> req[r].user, age |-> 0] \in Entry
    BY Known, ConstantsOK DEF Request, Entry
  <2>3. cache' \in [Imeis -> Entry]
    BY <2>1, <2>2, TablesKept
  <2>4. QED
    BY <1>1, <2>1, <2>3, FinishTurns, TablesKept DEF TablesTyped, ghosts
<1>7. ASSUME Abandon(r)
      PROVE  Turns(r, pcs) /\ TablesTyped' /\ kept
  <2>1. UNCHANGED <<starts, owner, cache>> /\ faults' \in 0..MaxFaults /\ kept /\ Finish(r)
    BY <1>7, Counters DEF Abandon
  <2>2. QED
    BY <1>1, <2>1, FinishTurns, TablesKept DEF TablesTyped, ghosts
<1>8. QED
  BY <1>2, <1>3, <1>4, <1>5, <1>6, <1>7 DEF OwnerStep, pcs

\* The steps that are no request's: each of them keeps its record or ends.
LEMMA OthersKeepTypes ==
  ASSUME TypeInv, \/ Tick
                  \/ \E i \in Imeis : RemoveMember(i)
                  \/ \E s \in Servers : Crash(s)
  PROVE  /\ TypeInv' /\ \A r \in Requests : req'[r] \in {req[r], Idle}
         /\ UNCHANGED <<devices, installs, ghosts>>
         /\ \A i \in Imeis : members'[i] \in {0, members[i]}
<1>1. /\ UNCHANGED <<devices, installs, owner, starts, ghosts>>
      /\ \A i \in Imeis : members'[i] \in {0, members[i]}
      /\ members' \in [Imeis -> Nat] /\ faults' \in 0..MaxFaults
  BY TablesKept, Counters DEF Tick, RemoveMember, Crash
<1>2. /\ req' \in [Requests -> Request]
      /\ \A r \in Requests : req'[r] \in {req[r], Idle}
  <2>1. req \in [Requests -> Request]
    BY Typed DEF TypeInv
  <2>2. CASE req' = req
    BY <2>1, <2>2
  <2>3. ASSUME NEW s \in Servers, Crash(s)
        PROVE  /\ req' \in [Requests -> Request]
               /\ \A r \in Requests : req'[r] \in {req[r], Idle}
    BY <2>1, <2>3, IdleTyped DEF Crash
  <2>4. QED
    BY <2>2, <2>3 DEF Tick, RemoveMember
<1>3. cache' \in [Imeis -> Entry]
  <2>1. CASE Tick
    <3>1. NoOwner \in Entry
      BY ConstantsOK DEF NoOwner, Entry
    <3>2. ASSUME NEW i \in Imeis, ~(cache[i] = NoOwner \/ cache[i].age + 1 = TTL)
          PROVE  [cache[i] EXCEPT !.age = cache[i].age + 1] \in Entry
      <4>1. cache[i] \in Entry
        BY TablesKept
      <4>2. cache[i].age + 1 \in 0..(TTL - 1)
        BY <4>1, <3>2, ConstantsOK DEF Entry
      <4>3. QED
        BY <4>1, <4>2 DEF Entry
    <3>3. cache' = [i \in Imeis |->
                      IF cache[i] = NoOwner \/ cache[i].age + 1 = TTL THEN NoOwner
                      ELSE [cache[i] EXCEPT !.age = cache[i].age + 1]]
      BY <2>1 DEF Tick
    <3>4. QED
      BY <3>1, <3>2, <3>3
  <2>2. CASE cache' = cache
    BY <2>2, TablesKept
  <2>3. QED
    BY <2>1, <2>2 DEF RemoveMember, Crash
<1>4. /\ TypeOK'
      /\ \A r \in Requests : Good(req'[r], devices')
  <2>1. InstallsTyped'
    BY <1>1, TablesKept
  <2>2. TypeOK'
    BY <1>1, <1>2, <1>3, <2>1, Typed
       DEF TypeOK, InstallsTyped, Row, Entry, Registered, TypeInv, ghosts
  <2>3. QED
    BY <1>1, <1>2, <2>2, IdleTyped DEF TypeInv
<1>5. QED
  BY <1>1, <1>2, <1>4 DEF TypeInv

LEMMA StepKeepsTypes ==
  ASSUME TypeInv, [Next]_vars
  PROVE  TypeInv'
<1>1. CASE Next
  <2>1. ASSUME NEW r \in Requests, RegisterStep(r)
        PROVE  TypeInv'
    BY <2>1, RegisterLeaves, TurnKeepsTypes
  <2>2. ASSUME NEW r \in Requests, InstallStep(r)
        PROVE  TypeInv'
    <3>1. Turns(r, {"idle", "remove"} \cup Installing) /\ TablesTyped' /\ Grows
      BY <2>2, InstallLeaves DEF Grows
    <3>2. QED
      BY <3>1, TurnKeepsTypes
  <2>3. ASSUME NEW r \in Requests, GroupStep(r)
        PROVE  TypeInv'
    <3>1. Turns(r, {"idle", "member", "assign"}) /\ TablesTyped' /\ Grows
      BY <2>3, GroupLeaves DEF Grows
    <3>2. QED
      BY <3>1, TurnKeepsTypes
  <2>4. ASSUME NEW r \in Requests, OwnerStep(r) \/ Abandon(r)
        PROVE  TypeInv'
    <3>1. Turns(r, {"idle", "write", "query", "fill"}) /\ TablesTyped' /\ Grows
      BY <2>4, OwnerLeaves DEF Grows
    <3>2. QED
      BY <3>1, TurnKeepsTypes
  <2>5. QED
    BY <1>1, <2>1, <2>2, <2>3, <2>4, OthersKeepTypes DEF Next
<1>2. CASE UNCHANGED vars
  BY <1>2 DEF vars, TypeInv, TypeOK, Good
<1>3. QED
  BY <1>1, <1>2

LEMMA InitIsTyped ==
  ASSUME Init
  PROVE  TypeInv
<1>1. devices \in Registered /\ members \in [Imeis -> Nat] /\ owner \in [Vehicles -> Users]
      /\ starts \in 0..MaxStarts /\ faults \in 0..MaxFaults
      /\ blind = {} /\ twice = {} /\ regroup = {}
  BY ConstantsOK DEF Init, Registered
<1>2. installs \in [1..0 -> Row] /\ 0 \in 0..MaxInstalls
  BY ConstantsOK DEF Init
<1>3. cache \in [Imeis -> Entry]
  BY ConstantsOK DEF Init, NoOwner, Entry
<1>4. req \in [Requests -> Request] /\ \A r \in Requests : Good(req[r], devices)
  BY IdleTyped DEF Init
<1>5. QED
  BY <1>1, <1>2, <1>3, <1>4 DEF TypeInv, TypeOK, Row, Entry, Registered

\* Every variable keeps its type, and the rows of installations are of
\* devices registered on this server, whatever requests run and fail.
THEOREM TypeCorrect == Spec => []TypeOK
<1>1. Init => TypeInv
  BY InitIsTyped
<1>2. TypeInv /\ [Next]_vars => TypeInv'
  BY StepKeepsTypes
<1>3. TypeInv => TypeOK
  BY DEF TypeInv
<1>4. QED
  BY <1>1, <1>2, <1>3, PTL DEF Spec

-----------------------------------------------------------------------------
(* Registration on two servers.                                            *)

\* Where a step of r leaves r and the other requests.
Moves(r, pcs) ==
  /\ req'[r] \in Request /\ req'[r].pc \in pcs
  /\ \A s \in Requests \ {r} : req'[s] = req[s]

LEMMA TurnMoves ==
  ASSUME TypeInv, NEW r \in Requests, NEW pcs, Turns(r, pcs)
  PROVE  Moves(r, pcs)
<1>1. PICK q \in Request : req' = [req EXCEPT ![r] = q] /\ q.pc \in pcs
  BY DEF Turns
<1>2. QED
  BY <1>1, RequestMoves DEF TypeInv, Moves

\* What a step of r must show for the registrations to stay apart.
LEMMA PeerByStep ==
  ASSUME TypeInv, PeerInv, NEW r \in Requests, NEW pcs, Moves(r, pcs),
         blind \subseteq blind', PeersDisjoint',
         \A i \in Imeis \ blind' : Registers(req'[r], i) =>
           \A s \in Requests \ {r} : ~Registers(req[s], i),
         req'[r].pc = "insert" => \A i \in Todo(r)' \ blind' : i \notin devices'[Peer(req'[r].at)],
         \A s \in Requests \ {r} : req[s].pc = "insert" =>
           \A i \in Todo(s) \ blind' : i \notin devices'[Peer(req[s].at)]
  PROVE  PeerInv'
<1>1. ASSUME NEW a \in Requests, NEW b \in Requests, NEW i \in Imeis \ blind',
             Registers(req'[a], i), Registers(req'[b], i)
      PROVE  a = b
  <2>1. CASE a = r \/ b = r
    BY <1>1, <2>1 DEF Moves
  <2>2. CASE a # r /\ b # r
    BY <1>1, <2>2 DEF Moves, PeerInv
  <2>3. QED
    BY <2>1, <2>2
<1>2. ASSUME NEW s \in Requests, req'[s].pc = "insert", NEW i \in Todo(s)' \ blind'
      PROVE  i \notin devices'[Peer(req'[s].at)]
  <2>1. CASE s = r
    BY <1>2, <2>1
  <2>2. CASE s # r
    <3>1. req'[s] = req[s] /\ i \in Todo(s)
      BY <1>2, <2>2 DEF Moves, Todo
    <3>2. QED
      BY <1>2, <2>2, <3>1
  <2>3. QED
    BY <2>1, <2>2
<1>3. QED
  BY <1>1, <1>2 DEF PeerInv

\* A step that leaves registration alone.
LEMMA PeerKept ==
  ASSUME TypeInv, PeerInv, NEW r \in Requests, NEW pcs, Moves(r, pcs),
         pcs \cap Registering = {}, UNCHANGED <<devices, blind>>
  PROVE  PeerInv'
<1>1. req'[r].pc \notin Registering /\ req'[r].pc # "insert"
  BY DEF Moves, Registering
<1>2. PeersDisjoint'
  BY DEF PeerInv, PeersDisjoint
<1>3. \A i \in Imeis \ blind' : Registers(req'[r], i) =>
        \A s \in Requests \ {r} : ~Registers(req[s], i)
  BY <1>1 DEF Registers
<1>4. \A s \in Requests \ {r} : req[s].pc = "insert" =>
        \A i \in Todo(s) \ blind' : i \notin devices'[Peer(req[s].at)]
  BY DEF PeerInv
<1>5. QED
  BY <1>1, <1>2, <1>3, <1>4, PeerByStep

\* A step of a registration that stores nothing: it keeps off what the others
\* are registering, or has marked it.
LEMMA PeerLooked ==
  ASSUME TypeInv, PeerInv, NEW r \in Requests, NEW pcs, Moves(r, pcs),
         devices' = devices, blind \subseteq blind',
         \A i \in Imeis \ blind' : Registers(req'[r], i) =>
           \/ Registers(req[r], i)
           \/ \A s \in Requests \ {r} : ~Registers(req[s], i),
         req'[r].pc = "insert" => \A i \in Todo(r)' \ blind' : i \notin devices[Peer(req'[r].at)]
  PROVE  PeerInv'
<1>1. PeersDisjoint'
  BY DEF PeerInv, PeersDisjoint
<1>2. \A i \in Imeis \ blind' : Registers(req'[r], i) =>
        \A s \in Requests \ {r} : ~Registers(req[s], i)
  BY DEF PeerInv
<1>3. \A s \in Requests \ {r} : req[s].pc = "insert" =>
        \A i \in Todo(s) \ blind' : i \notin devices'[Peer(req[s].at)]
  BY DEF PeerInv
<1>4. QED
  BY <1>1, <1>2, <1>3, PeerByStep

LEMMA RegisterKeepsPeers ==
  ASSUME TypeInv, PeerInv, NEW r \in Requests, NEW s \in Servers, NEW items \in SUBSET Imeis,
         Register(r, s, items), NEW pcs, Moves(r, pcs)
  PROVE  PeerInv'
<1> DEFINE q == [Idle EXCEPT !.pc = "local", !.at = s, !.items = items]
<1>1. q.pc = "local" /\ q.items = items
  BY DEF Idle
<1>2. req'[r] = q
  BY Typed DEF Register, Start, TypeInv
<1> HIDE DEF q
<1>3. ASSUME NEW i \in Imeis \ blind', Registers(req'[r], i), NEW t \in Requests \ {r}
      PROVE  ~Registers(req[t], i)
  BY <1>1, <1>2, <1>3 DEF Register, Registers, Others
<1>4. devices' = devices /\ blind \subseteq blind' /\ req'[r].pc # "insert"
  BY <1>1, <1>2 DEF Register
<1>5. QED
  BY <1>3, <1>4, PeerLooked

LEMMA FindKeepsPeers ==
  ASSUME TypeInv, PeerInv, NEW r \in Requests, FindLocal(r) \/ LookupFails(r),
         NEW pcs, Moves(r, pcs)
  PROVE  PeerInv'
<1>1. /\ req'[r].pc = "peer" /\ req'[r].items = req[r].items /\ req'[r].put = req[r].put
      /\ req[r].pc = "local" /\ UNCHANGED <<devices, blind>>
  BY Typed, Known DEF FindLocal, LookupFails, Goto, TypeInv, ghosts, Request, At
<1>2. \A i : Registers(req'[r], i) => Registers(req[r], i)
  BY <1>1 DEF Registers, Registering
<1>3. QED
  BY <1>1, <1>2, PeerLooked

\* What the other server has is found, or marked as missed.
LEMMA AskKeepsPeers ==
  ASSUME TypeInv, PeerInv, NEW r \in Requests, Answered(r), NEW pcs, Moves(r, pcs)
  PROVE  PeerInv'
<1>1. PICK lost \in SUBSET Theirs(r) : Missing(r, lost)
  BY AnsweredMisses
<1>2. /\ req'[r].pc = "insert" /\ req'[r].items = req[r].items /\ req'[r].put = req[r].put
      /\ req'[r].at = req[r].at /\ req[r].pc = "peer" /\ devices' = devices
      /\ req'[r].found = req[r].found \cup (Theirs(r) \ lost) /\ blind' = blind \cup lost
  BY <1>1, Typed, Known DEF Missing, TypeInv, Request, At
<1>3. \A i : Registers(req'[r], i) => Registers(req[r], i)
  BY <1>2 DEF Registers, Registering
<1>4. ASSUME NEW i \in Todo(r)' \ blind'
      PROVE  i \notin devices[Peer(req'[r].at)]
  BY <1>2, <1>4 DEF Todo, Theirs
<1>5. QED
  BY <1>2, <1>3, <1>4, PeerLooked

\* The item that is tried fails, or is stored: the other server does not have
\* it, and nobody else is registering it.
LEMMA InsertKeepsPeers ==
  ASSUME TypeInv, PeerInv, NEW r \in Requests, NEW i \in Imeis, Insert(r, i) \/ InsertFails(r, i),
         NEW pcs, Moves(r, pcs)
  PROVE  PeerInv'
<1>1. /\ req[r].pc = "insert" /\ i \in Todo(r) /\ blind' = blind /\ req[r].at \in Servers
      /\ req'[r].pc = "insert" /\ req'[r].items = req[r].items /\ req'[r].at = req[r].at
      /\ req[r].put \subseteq req'[r].put /\ req[r].found \subseteq req'[r].found
  BY Typed, Known DEF Insert, InsertFails, TypeInv, ghosts, Request, At
<1>2. /\ \A j : Registers(req'[r], j) => Registers(req[r], j)
      /\ Todo(r)' \subseteq Todo(r)
      /\ Registers(req[r], i)
  BY <1>1 DEF Registers, Registering, Todo
<1>3. CASE devices' = devices
  <2>1. \A j \in Todo(r)' \ blind' : j \notin devices[Peer(req'[r].at)]
    BY <1>1, <1>2 DEF PeerInv
  <2>2. QED
    BY <1>1, <1>2, <1>3, <2>1, PeerLooked
<1>4. CASE devices' = [devices EXCEPT ![req[r].at] = @ \cup {i}]
  <2>1. devices'[req[r].at] = devices[req[r].at] \cup {i}
        /\ devices'[Peer(req[r].at)] = devices[Peer(req[r].at)]
    BY <1>1, <1>4, Typed, ConstantsOK DEF TypeInv, Registered, Peer, Servers
  <2>2. PeersDisjoint'
    <3>1. i \notin blind => i \notin devices[Peer(req[r].at)]
      BY <1>1 DEF PeerInv
    <3>2. QED
      BY <1>1, <2>1, <3>1 DEF PeerInv, PeersDisjoint, Peer, Servers
  <2>3. \A j \in Imeis \ blind' : Registers(req'[r], j) =>
          \A s \in Requests \ {r} : ~Registers(req[s], j)
    BY <1>1, <1>2 DEF PeerInv
  <2>4. \A j \in Todo(r)' \ blind' : j \notin devices'[Peer(req'[r].at)]
    BY <1>1, <1>2, <2>1 DEF PeerInv
  <2>5. ASSUME NEW s \in Requests \ {r}, req[s].pc = "insert", NEW j \in Todo(s) \ blind'
        PROVE  j \notin devices'[Peer(req[s].at)]
    <3>1. j \notin devices[Peer(req[s].at)] /\ j \in Imeis /\ Registers(req[s], j)
      BY <1>1, <2>5, Known DEF PeerInv, Todo, Registers, Registering
    <3>2. j # i
      BY <1>1, <1>2, <2>5, <3>1 DEF PeerInv
    <3>3. req[s].at \in Servers
      BY Known
    <3>4. devices'[Peer(req[s].at)] \subseteq devices[Peer(req[s].at)] \cup {i}
      BY <1>1, <2>1, <3>3 DEF Peer, Servers
    <3>5. QED
      BY <3>1, <3>2, <3>4
  <2>6. QED
    BY <1>1, <2>2, <2>3, <2>4, <2>5, PeerByStep
<1>5. QED
  BY <1>3, <1>4 DEF Insert, InsertFails

LEMMA StepKeepsPeers ==
  ASSUME TypeInv, PeerInv, [Next]_vars
  PROVE  PeerInv'
<1>1. ASSUME NEW r \in Requests, RegisterStep(r)
      PROVE  PeerInv'
  <2>1. Moves(r, {"idle"} \cup Registering)
    BY <1>1, RegisterLeaves, TurnMoves
  <2>2. ASSUME NEW s \in Servers, NEW items \in SUBSET Imeis, Register(r, s, items)
        PROVE  PeerInv'
    BY <2>1, <2>2, RegisterKeepsPeers
  <2>3. CASE Report(r)
    <3>1. req'[r] = Idle /\ UNCHANGED <<devices, blind>>
      BY <2>3, Typed DEF Report, Finish, TypeInv, ghosts
    <3>2. Moves(r, {"idle"})
      BY <2>1, <3>1, IdleTyped DEF Moves
    <3>3. {"idle"} \cap Registering = {}
      BY DEF Registering
    <3>4. QED
      BY <3>1, <3>2, <3>3, PeerKept
  <2>4. ASSUME FindLocal(r) \/ LookupFails(r) \/ Answered(r)
        PROVE  PeerInv'
    BY <2>1, <2>4, FindKeepsPeers, AskKeepsPeers
  <2>5. ASSUME NEW i \in Imeis, Insert(r, i) \/ InsertFails(r, i)
        PROVE  PeerInv'
    BY <2>1, <2>5, InsertKeepsPeers
  <2>6. QED
    BY <1>1, <2>2, <2>3, <2>4, <2>5 DEF RegisterStep, Answered
<1>2. ASSUME NEW r \in Requests, InstallStep(r)
      PROVE  PeerInv'
  <2>1. Moves(r, {"idle", "remove"} \cup Installing) /\ UNCHANGED <<devices, blind>>
    BY <1>2, InstallLeaves, TurnMoves
  <2>2. ({"idle", "remove"} \cup Installing) \cap Registering = {}
    BY DEF Installing, Registering
  <2>3. QED
    BY <2>1, <2>2, PeerKept
<1>3. ASSUME NEW r \in Requests, GroupStep(r)
      PROVE  PeerInv'
  <2>1. Moves(r, {"idle", "member", "assign"}) /\ UNCHANGED <<devices, blind>>
    BY <1>3, GroupLeaves, TurnMoves
  <2>2. {"idle", "member", "assign"} \cap Registering = {}
    BY DEF Registering
  <2>3. QED
    BY <2>1, <2>2, PeerKept
<1>4. ASSUME NEW r \in Requests, OwnerStep(r) \/ Abandon(r)
      PROVE  PeerInv'
  <2>1. Moves(r, {"idle", "write", "query", "fill"}) /\ UNCHANGED <<devices, blind>>
    BY <1>4, OwnerLeaves, TurnMoves DEF ghosts
  <2>2. {"idle", "write", "query", "fill"} \cap Registering = {}
    BY DEF Registering
  <2>3. QED
    BY <2>1, <2>2, PeerKept
<1>5. ASSUME \A r \in Requests : req'[r] \in {req[r], Idle}, UNCHANGED <<devices, blind>>
      PROVE  PeerInv'
  <2>1. \A i : ~Registers(Idle, i)
    BY IdleTyped DEF Registers, Registering
  <2>2. \A r \in Requests : req'[r].pc = "insert" => req'[r] = req[r]
    BY <1>5, IdleTyped
  <2>3. \A r, s \in Requests : \A i \in Imeis \ blind' :
          Registers(req'[r], i) /\ Registers(req'[s], i) => r = s
    BY <1>5, <2>1 DEF PeerInv
  <2>4. \A r \in Requests : req'[r].pc = "insert" =>
          \A i \in Todo(r)' \ blind' : i \notin devices'[Peer(req'[r].at)]
    BY <1>5, <2>2 DEF PeerInv, Todo
  <2>5. QED
    BY <1>5, <2>3, <2>4 DEF PeerInv, PeersDisjoint
<1>6. CASE Next
  BY <1>1, <1>2, <1>3, <1>4, <1>5, <1>6, OthersKeepTypes DEF Next, ghosts
<1>7. CASE UNCHANGED vars
  BY <1>5, <1>7 DEF vars
<1>8. QED
  BY <1>6, <1>7

-----------------------------------------------------------------------------
(* Installing.                                                             *)

\* What a step of r must show for the live rows to stay single.
LEMMA InstallByStep ==
  ASSUME TypeInv, InstallInv, NEW r \in Requests, NEW pcs, Moves(r, pcs), twice \subseteq twice',
         \A i \in Imeis \ twice' : AtMostOne(Rows(installs', {i}, Vehicles)),
         \A v \in Vehicles \ twice' : AtMostOne(Rows(installs', Imeis, {v})),
         \A x \in (Imeis \cup Vehicles) \ twice' : Installs(req'[r], x) =>
           \A s \in Requests \ {r} : ~Installs(req[s], x),
         req'[r].pc \in {"vehicle", "install"} =>
           \A i \in req'[r].items \ twice' : Rows(installs', {i}, Vehicles) = {},
         req'[r].pc = "install" /\ req'[r].veh \notin twice' => Rows(installs', Imeis, {req'[r].veh}) = {},
         \A s \in Requests \ {r} :
           /\ req[s].pc \in {"vehicle", "install"} =>
                \A i \in req[s].items \ twice' : Rows(installs', {i}, Vehicles) = {}
           /\ req[s].pc = "install" /\ req[s].veh \notin twice' => Rows(installs', Imeis, {req[s].veh}) = {}
  PROVE  InstallInv'
<1>1. ASSUME NEW a \in Requests, NEW b \in Requests, NEW x \in (Imeis \cup Vehicles) \ twice',
             Installs(req'[a], x), Installs(req'[b], x)
      PROVE  a = b
  <2>1. CASE a = r \/ b = r
    BY <1>1, <2>1 DEF Moves
  <2>2. CASE a # r /\ b # r
    BY <1>1, <2>2 DEF Moves, InstallInv
  <2>3. QED
    BY <2>1, <2>2
<1>2. ASSUME NEW s \in Requests
      PROVE  /\ req'[s].pc \in {"vehicle", "install"} =>
                  \A i \in req'[s].items \ twice' : Rows(installs', {i}, Vehicles) = {}
             /\ req'[s].pc = "install" /\ req'[s].veh \notin twice' =>
                  Rows(installs', Imeis, {req'[s].veh}) = {}
  <2>1. CASE s = r
    BY <2>1
  <2>2. CASE s # r
    BY <2>2 DEF Moves
  <2>3. QED
    BY <2>1, <2>2
<1>3. QED
  BY <1>1, <1>2 DEF InstallInv

\* A step of r that makes no row live, and whose request keeps off what the
\* others are installing or has marked it.
LEMMA InstallLooked ==
  ASSUME TypeInv, InstallInv, NEW r \in Requests, NEW pcs, Moves(r, pcs), twice \subseteq twice',
         \A i, v : Rows(installs', i, v) \subseteq Rows(installs, i, v),
         \A x \in (Imeis \cup Vehicles) \ twice' : Installs(req'[r], x) =>
           \/ Installs(req[r], x)
           \/ \A s \in Requests \ {r} : ~Installs(req[s], x),
         req'[r].pc \in {"vehicle", "install"} =>
           \A i \in req'[r].items \ twice : Rows(installs, {i}, Vehicles) = {},
         req'[r].pc = "install" /\ req'[r].veh \notin twice => Rows(installs, Imeis, {req'[r].veh}) = {}
  PROVE  InstallInv'
<1>1. \A i, v : /\ AtMostOne(Rows(installs, i, v)) => AtMostOne(Rows(installs', i, v))
                /\ Rows(installs, i, v) = {} => Rows(installs', i, v) = {}
  BY DEF AtMostOne
<1>2. /\ \A i \in Imeis \ twice' : AtMostOne(Rows(installs', {i}, Vehicles))
      /\ \A v \in Vehicles \ twice' : AtMostOne(Rows(installs', Imeis, {v}))
  BY <1>1 DEF InstallInv
<1>3. \A x \in (Imeis \cup Vehicles) \ twice' : Installs(req'[r], x) =>
        \A s \in Requests \ {r} : ~Installs(req[s], x)
  BY DEF InstallInv
<1>4. /\ req'[r].pc \in {"vehicle", "install"} =>
           \A i \in req'[r].items \ twice' : Rows(installs', {i}, Vehicles) = {}
      /\ req'[r].pc = "install" /\ req'[r].veh \notin twice' => Rows(installs', Imeis, {req'[r].veh}) = {}
  BY <1>1
<1>5. \A s \in Requests \ {r} :
        /\ req[s].pc \in {"vehicle", "install"} =>
             \A i \in req[s].items \ twice' : Rows(installs', {i}, Vehicles) = {}
        /\ req[s].pc = "install" /\ req[s].veh \notin twice' => Rows(installs', Imeis, {req[s].veh}) = {}
  BY <1>1 DEF InstallInv
<1>6. QED
  BY <1>2, <1>3, <1>4, <1>5, InstallByStep

\* A step that installs nothing.
LEMMA InstallKept ==
  ASSUME TypeInv, InstallInv, NEW r \in Requests, NEW pcs, Moves(r, pcs),
         pcs \cap Installing = {}, twice' = twice, \A i, v : Rows(installs', i, v) \subseteq Rows(installs, i, v)
  PROVE  InstallInv'
<1>1. req'[r].pc \notin Installing /\ req'[r].pc \notin {"vehicle", "install"}
  BY DEF Moves, Installing
<1>2. \A x : ~Installs(req'[r], x)
  BY <1>1 DEF Installs
<1>3. QED
  BY <1>1, <1>2, InstallLooked

LEMMA BeginKeepsInstalls ==
  ASSUME TypeInv, InstallInv, NEW r \in Requests, NEW i \in Imeis, NEW v \in Vehicles,
         Install(r, i, v), NEW pcs, Moves(r, pcs)
  PROVE  InstallInv'
<1> DEFINE q == [Idle EXCEPT !.pc = "device", !.items = {i}, !.veh = v]
<1>1. q.pc = "device" /\ q.items = {i} /\ q.veh = v
  BY DEF Idle
<1>2. req'[r] = q
  BY Typed DEF Install, Start, TypeInv
<1> HIDE DEF q
<1>3. ASSUME NEW x \in (Imeis \cup Vehicles) \ twice', Installs(req'[r], x), NEW s \in Requests \ {r}
      PROVE  ~Installs(req[s], x)
  BY <1>1, <1>2, <1>3 DEF Install, Installs, Others
<1>4. twice \subseteq twice' /\ installs' = installs /\ req'[r].pc \notin {"vehicle", "install"}
  BY <1>1, <1>2 DEF Install
<1>5. \A j, w : Rows(installs', j, w) \subseteq Rows(installs, j, w)
  BY <1>4
<1>6. QED
  BY <1>3, <1>4, <1>5, InstallLooked

LEMMA CheckKeepsInstalls ==
  ASSUME TypeInv, InstallInv, NEW r \in Requests, CheckDevice(r) \/ CheckVehicle(r),
         NEW pcs, Moves(r, pcs)
  PROVE  InstallInv'
<1>1. installs' = installs /\ twice' = twice /\ req[r].pc \in Installing
  BY DEF CheckDevice, CheckVehicle, ghosts, At, Installing
<1>2. \A j, w : Rows(installs', j, w) \subseteq Rows(installs, j, w)
  BY <1>1
<1>3. CASE Finish(r)
  <2>1. req'[r].pc = "idle"
    BY <1>3, Typed, IdleTyped DEF Finish, TypeInv
  <2>2. Moves(r, {"idle"}) /\ {"idle"} \cap Installing = {}
    BY <2>1 DEF Moves, Installing
  <2>3. QED
    BY <1>1, <1>2, <2>2, InstallKept
<1>4. CASE ~Finish(r)
  <2>1. /\ req'[r].items = req[r].items /\ req'[r].veh = req[r].veh
        /\ \/ /\ req'[r].pc = "vehicle"
              /\ Rows(installs, req[r].items, Vehicles) = {}
           \/ /\ req'[r].pc = "install" /\ req[r].pc = "vehicle"
              /\ Rows(installs, Imeis, {req[r].veh}) = {}
    <3>1. req[r] \in Request /\ req \in [Requests -> Request]
      BY Typed DEF TypeInv
    <3>2. CASE CheckDevice(r)
      BY <1>4, <3>1, <3>2 DEF CheckDevice, Goto, Request, Live, Rows
    <3>3. CASE CheckVehicle(r)
      BY <1>4, <3>1, <3>3 DEF CheckVehicle, Goto, Request, At, Live, Rows
    <3>4. QED
      BY <3>2, <3>3
  <2>2. \A x : Installs(req'[r], x) => Installs(req[r], x)
    BY <1>1, <2>1 DEF Installs
  <2>3. ASSUME NEW i \in req'[r].items \ twice
        PROVE  Rows(installs, {i}, Vehicles) = {}
    <3>1. Rows(installs, {i}, Vehicles) \subseteq Rows(installs, req[r].items, Vehicles)
      BY <2>1 DEF Rows
    <3>2. QED
      BY <2>1, <2>3, <3>1 DEF InstallInv
  <2>4. req'[r].pc = "install" => Rows(installs, Imeis, {req'[r].veh}) = {}
    BY <2>1
  <2>5. QED
    BY <1>1, <1>2, <2>2, <2>3, <2>4, InstallLooked
<1>5. QED
  BY <1>3, <1>4

\* The new row is the only live one of its device and of its vehicle, or they
\* are marked, and nobody else has found that there is none.
LEMMA InsertKeepsInstalls ==
  ASSUME TypeInv, InstallInv, NEW r \in Requests, InsertInstall(r), NEW pcs, Moves(r, pcs)
  PROVE  InstallInv'
<1> DEFINE k == Cardinality(DOMAIN installs) + 1
           dev == ImeiOf(r)
           veh == req[r].veh
<1>1. /\ installs' = [n \in DOMAIN installs \cup {k} |->
                        IF n = k THEN [imei |-> dev, veh |-> veh, live |-> TRUE] ELSE installs[n]]
      /\ twice' = twice /\ req[r].pc = "install"
  BY DEF InsertInstall, ghosts, At
<1>2. dev \in Imeis /\ req[r].items = {dev} /\ veh \in Vehicles
      /\ Installs(req[r], dev) /\ Installs(req[r], veh)
  BY <1>1, Known DEF Good, Installs, Installing
<1> HIDE DEF k, dev, veh
<1>3. \A i, v : Rows(installs', i, v) \subseteq Rows(installs, i, v) \cup {n \in {k} : dev \in i /\ veh \in v}
  BY <1>1 DEF Rows
<1>4. /\ dev \notin twice => Rows(installs, {dev}, Vehicles) = {}
      /\ veh \notin twice => Rows(installs, Imeis, {veh}) = {}
  BY <1>1, <1>2 DEF InstallInv, veh
<1>5. ASSUME NEW i \in Imeis \ twice'
      PROVE  AtMostOne(Rows(installs', {i}, Vehicles))
  <2>1. AtMostOne(Rows(installs, {i}, Vehicles))
    BY <1>1, <1>5 DEF InstallInv
  <2>2. Rows(installs', {i}, Vehicles) \subseteq Rows(installs, {i}, Vehicles) \cup {n \in {k} : dev = i}
    BY <1>3
  <2>3. QED
    BY <1>1, <1>4, <1>5, <2>1, <2>2 DEF AtMostOne
<1>6. ASSUME NEW v \in Vehicles \ twice'
      PROVE  AtMostOne(Rows(installs', Imeis, {v}))
  <2>1. AtMostOne(Rows(installs, Imeis, {v}))
    BY <1>1, <1>6 DEF InstallInv
  <2>2. Rows(installs', Imeis, {v}) \subseteq Rows(installs, Imeis, {v}) \cup {n \in {k} : veh = v}
    BY <1>3
  <2>3. QED
    BY <1>1, <1>4, <1>6, <2>1, <2>2 DEF AtMostOne
<1>7. req'[r].pc = "idle"
  BY Typed, IdleTyped DEF InsertInstall, Finish, TypeInv
<1>8. \A x : ~Installs(req'[r], x)
  BY <1>7 DEF Installs, Installing
<1>9. ASSUME NEW s \in Requests \ {r}
      PROVE  /\ req[s].pc \in {"vehicle", "install"} =>
                  \A i \in req[s].items \ twice' : Rows(installs', {i}, Vehicles) = {}
             /\ req[s].pc = "install" /\ req[s].veh \notin twice' => Rows(installs', Imeis, {req[s].veh}) = {}
  <2>1. ASSUME req[s].pc \in {"vehicle", "install"}, NEW i \in req[s].items \ twice'
        PROVE  Rows(installs', {i}, Vehicles) = {}
    <3>1. i \in Imeis /\ Installs(req[s], i) /\ Rows(installs, {i}, Vehicles) = {}
      BY <1>1, <2>1, Known DEF Installs, Installing, InstallInv
    <3>2. i # dev
      BY <1>1, <1>2, <2>1, <3>1 DEF InstallInv
    <3>3. Rows(installs', {i}, Vehicles) \subseteq Rows(installs, {i}, Vehicles) \cup {n \in {k} : dev = i}
      BY <1>3
    <3>4. QED
      BY <3>1, <3>2, <3>3
  <2>2. ASSUME req[s].pc = "install", req[s].veh \notin twice'
        PROVE  Rows(installs', Imeis, {req[s].veh}) = {}
    <3>1. req[s].veh \in Vehicles /\ Installs(req[s], req[s].veh) /\ Rows(installs, Imeis, {req[s].veh}) = {}
      BY <1>1, <2>2, Known DEF Installs, Installing, InstallInv, Good
    <3>2. req[s].veh # veh
      BY <1>1, <1>2, <2>2, <3>1 DEF InstallInv
    <3>3. Rows(installs', Imeis, {req[s].veh}) \subseteq
            Rows(installs, Imeis, {req[s].veh}) \cup {n \in {k} : veh = req[s].veh}
      BY <1>3
    <3>4. QED
      BY <3>1, <3>2, <3>3
  <2>3. QED
    BY <2>1, <2>2
<1>10. QED
  BY <1>1, <1>5, <1>6, <1>7, <1>8, <1>9, InstallByStep

LEMMA StepKeepsInstalls ==
  ASSUME TypeInv, InstallInv, [Next]_vars
  PROVE  InstallInv'
<1>1. ASSUME NEW r \in Requests, InstallStep(r)
      PROVE  InstallInv'
  <2>1. Moves(r, {"idle", "remove"} \cup Installing)
    BY <1>1, InstallLeaves, TurnMoves
  <2>2. ASSUME NEW i \in Imeis, NEW v \in Vehicles, Install(r, i, v)
        PROVE  InstallInv'
    BY <2>1, <2>2, BeginKeepsInstalls
  <2>3. ASSUME CheckDevice(r) \/ CheckVehicle(r)
        PROVE  InstallInv'
    BY <2>1, <2>3, CheckKeepsInstalls
  <2>4. ASSUME InsertInstall(r)
        PROVE  InstallInv'
    BY <2>1, <2>4, InsertKeepsInstalls
  <2>5. CASE SaveRemoved(r)
    <3>1. installs' = [installs EXCEPT ![req[r].id].live = FALSE] /\ twice' = twice /\ Finish(r)
      BY <2>5 DEF SaveRemoved, ghosts
    <3>2. PICK n \in 0..MaxInstalls : installs \in [1..n -> Row]
      BY Typed DEF TypeInv, InstallsTyped
    <3>3. \A i, v : Rows(installs', i, v) \subseteq Rows(installs, i, v)
      BY <3>1, <3>2 DEF Rows, Row
    <3>4. Moves(r, {"idle"}) /\ {"idle"} \cap Installing = {}
      BY <2>1, <3>1, Typed, IdleTyped DEF Moves, Finish, TypeInv, Installing
    <3>5. QED
      BY <3>1, <3>3, <3>4, InstallKept
  <2>6. ASSUME NEW k \in 1..MaxInstalls, ReadInstall(r, k)
        PROVE  InstallInv'
    <3>1. installs' = installs /\ twice' = twice /\ req'[r].pc = "remove"
      BY <2>6, Typed DEF ReadInstall, Start, ghosts, TypeInv, Idle
    <3>2. Moves(r, {"remove"}) /\ {"remove"} \cap Installing = {}
      BY <2>1, <3>1 DEF Moves, Installing
    <3>3. \A i, v : Rows(installs', i, v) \subseteq Rows(installs, i, v)
      BY <3>1
    <3>4. QED
      BY <3>1, <3>2, <3>3, InstallKept
  <2>7. QED
    BY <1>1, <2>2, <2>3, <2>4, <2>5, <2>6 DEF InstallStep
<1>2. ASSUME NEW r \in Requests, NEW pcs, Moves(r, pcs), pcs \cap Installing = {},
             UNCHANGED <<installs, twice>>
      PROVE  InstallInv'
  <2>1. \A i, v : Rows(installs', i, v) \subseteq Rows(installs, i, v)
    BY <1>2
  <2>2. QED
    BY <1>2, <2>1, InstallKept
<1>3. ASSUME NEW r \in Requests, RegisterStep(r)
      PROVE  InstallInv'
  <2>1. Moves(r, {"idle"} \cup Registering) /\ UNCHANGED <<installs, twice>>
    BY <1>3, RegisterLeaves, TurnMoves
  <2>2. ({"idle"} \cup Registering) \cap Installing = {}
    BY DEF Installing, Registering
  <2>3. QED
    BY <1>2, <2>1, <2>2
<1>4. ASSUME NEW r \in Requests, GroupStep(r)
      PROVE  InstallInv'
  <2>1. Moves(r, {"idle", "member", "assign"}) /\ UNCHANGED <<installs, twice>>
    BY <1>4, GroupLeaves, TurnMoves
  <2>2. {"idle", "member", "assign"} \cap Installing = {}
    BY DEF Installing
  <2>3. QED
    BY <1>2, <2>1, <2>2
<1>5. ASSUME NEW r \in Requests, OwnerStep(r) \/ Abandon(r)
      PROVE  InstallInv'
  <2>1. Moves(r, {"idle", "write", "query", "fill"}) /\ UNCHANGED <<installs, twice>>
    BY <1>5, OwnerLeaves, TurnMoves DEF ghosts
  <2>2. {"idle", "write", "query", "fill"} \cap Installing = {}
    BY DEF Installing
  <2>3. QED
    BY <1>2, <2>1, <2>2
<1>6. ASSUME \A r \in Requests : req'[r] \in {req[r], Idle}, UNCHANGED <<installs, twice>>
      PROVE  InstallInv'
  <2>1. \A x : ~Installs(Idle, x)
    BY IdleTyped DEF Installs, Installing
  <2>2. \A r \in Requests : req'[r].pc \in {"vehicle", "install"} => req'[r] = req[r]
    BY <1>6, IdleTyped
  <2>3. \A r, s \in Requests : \A x \in (Imeis \cup Vehicles) \ twice' :
          Installs(req'[r], x) /\ Installs(req'[s], x) => r = s
    BY <1>6, <2>1 DEF InstallInv
  <2>4. QED
    BY <1>6, <2>2, <2>3 DEF InstallInv
<1>7. CASE Next
  BY <1>1, <1>3, <1>4, <1>5, <1>6, <1>7, OthersKeepTypes DEF Next, ghosts
<1>8. CASE UNCHANGED vars
  BY <1>6, <1>8 DEF vars
<1>9. QED
  BY <1>7, <1>8

-----------------------------------------------------------------------------
(* Assigning to the group.                                                 *)

LEMMA GroupByStep ==
  ASSUME TypeInv, GroupInv, NEW r \in Requests, NEW pcs, Moves(r, pcs), regroup \subseteq regroup',
         \A i \in Imeis \ regroup' : members'[i] <= 1,
         \A i \in Imeis \ regroup' : Joins(req'[r], i) =>
           \A s \in Requests \ {r} : ~Joins(req[s], i),
         req'[r].pc = "assign" => \A i \in req'[r].items \ regroup' : members'[i] = 0,
         \A s \in Requests \ {r} : req[s].pc = "assign" =>
           \A i \in req[s].items \ regroup' : members'[i] = 0
  PROVE  GroupInv'
<1>1. ASSUME NEW a \in Requests, NEW b \in Requests, NEW i \in Imeis \ regroup',
             Joins(req'[a], i), Joins(req'[b], i)
      PROVE  a = b
  <2>1. CASE a = r \/ b = r
    BY <1>1, <2>1 DEF Moves
  <2>2. CASE a # r /\ b # r
    BY <1>1, <2>2 DEF Moves, GroupInv
  <2>3. QED
    BY <2>1, <2>2
<1>2. ASSUME NEW s \in Requests, req'[s].pc = "assign", NEW i \in req'[s].items \ regroup'
      PROVE  members'[i] = 0
  <2>1. CASE s = r
    BY <1>2, <2>1
  <2>2. CASE s # r
    BY <1>2, <2>2 DEF Moves
  <2>3. QED
    BY <2>1, <2>2
<1>3. QED
  BY <1>1, <1>2 DEF GroupInv

\* A step that leaves the group alone.
LEMMA GroupKept ==
  ASSUME TypeInv, GroupInv, NEW r \in Requests, NEW pcs, Moves(r, pcs),
         pcs \cap {"member", "assign"} = {}, UNCHANGED <<members, regroup>>
  PROVE  GroupInv'
<1>1. req'[r].pc \notin {"member", "assign"} /\ req'[r].pc # "assign"
  BY DEF Moves
<1>2. \A i : ~Joins(req'[r], i)
  BY <1>1 DEF Joins
<1>3. \A i \in Imeis \ regroup' : members'[i] <= 1
  BY DEF GroupInv
<1>4. \A s \in Requests \ {r} : req[s].pc = "assign" =>
        \A i \in req[s].items \ regroup' : members'[i] = 0
  BY DEF GroupInv
<1>5. QED
  BY <1>1, <1>2, <1>3, <1>4, GroupByStep

LEMMA AssignKeepsGroup ==
  ASSUME TypeInv, GroupInv, NEW r \in Requests, NEW i \in Imeis, Assign(r, i),
         NEW pcs, Moves(r, pcs)
  PROVE  GroupInv'
<1>1. req'[r].pc = "member" /\ req'[r].items = {i} /\ members' = members
  BY Typed DEF Assign, Start, TypeInv, Idle
<1>2. ASSUME NEW j \in Imeis \ regroup', Joins(req'[r], j), NEW s \in Requests \ {r}
      PROVE  ~Joins(req[s], j)
  BY <1>1, <1>2 DEF Assign, Joins, Others
<1>3. regroup \subseteq regroup'
  BY DEF Assign
<1>4. \A j \in Imeis \ regroup' : members'[j] <= 1
  BY <1>1, <1>3 DEF GroupInv
<1>5. \A s \in Requests \ {r} : req[s].pc = "assign" =>
        \A j \in req[s].items \ regroup' : members'[j] = 0
  BY <1>1, <1>3 DEF GroupInv
<1>6. QED
  BY <1>1, <1>2, <1>3, <1>4, <1>5, GroupByStep

LEMMA CheckKeepsGroup ==
  ASSUME TypeInv, GroupInv, NEW r \in Requests, CheckMember(r), NEW pcs, Moves(r, pcs)
  PROVE  GroupInv'
<1>1. UNCHANGED <<members, regroup>> /\ req[r].pc = "member"
  BY DEF CheckMember, ghosts, At
<1>2. ImeiOf(r) \in Imeis /\ req[r].items = {ImeiOf(r)}
  BY <1>1, Known
<1>3. CASE Finish(r)
  <2>1. Moves(r, {"idle"}) /\ {"idle"} \cap {"member", "assign"} = {}
    BY <1>3, Typed, IdleTyped DEF Finish, TypeInv, Moves
  <2>2. QED
    BY <1>1, <2>1, GroupKept
<1>4. CASE ~Finish(r)
  <2>1. /\ req'[r].pc = "assign" /\ req'[r].items = req[r].items
        /\ members[ImeiOf(r)] = 0
    BY <1>4, Known, Typed DEF CheckMember, Goto, TypeInv, Request
  <2>2. \A i : Joins(req'[r], i) => Joins(req[r], i)
    BY <1>1, <2>1 DEF Joins
  <2>3. \A i \in Imeis \ regroup' : Joins(req'[r], i) =>
          \A s \in Requests \ {r} : ~Joins(req[s], i)
    BY <1>1, <2>2 DEF GroupInv
  <2>4. /\ \A i \in Imeis \ regroup' : members'[i] <= 1
        /\ \A s \in Requests \ {r} : req[s].pc = "assign" =>
             \A i \in req[s].items \ regroup' : members'[i] = 0
    BY <1>1 DEF GroupInv
  <2>5. \A i \in req'[r].items \ regroup' : members'[i] = 0
    BY <1>1, <1>2, <2>1
  <2>6. QED
    BY <1>1, <2>3, <2>4, <2>5, GroupByStep
<1>5. QED
  BY <1>3, <1>4

LEMMA InsertKeepsGroup ==
  ASSUME TypeInv, GroupInv, NEW r \in Requests, InsertMember(r), NEW pcs, Moves(r, pcs)
  PROVE  GroupInv'
<1> DEFINE dev == ImeiOf(r)
<1>1. /\ members' = [members EXCEPT ![dev] = members[dev] + 1] /\ regroup' = regroup
      /\ req[r].pc = "assign" /\ members \in [Imeis -> Nat]
  BY Typed DEF InsertMember, ghosts, At, TypeInv
<1>2. dev \in Imeis /\ req[r].items = {dev} /\ Joins(req[r], dev)
  BY <1>1, Known DEF Joins
<1> HIDE DEF dev
<1>3. dev \notin regroup => members[dev] = 0
  BY <1>1, <1>2 DEF GroupInv
<1>4. \A i \in Imeis \ regroup' : members'[i] <= 1
  BY <1>1, <1>2, <1>3 DEF GroupInv
<1>5. req'[r].pc = "idle"
  BY Typed, IdleTyped DEF InsertMember, Finish, TypeInv
<1>6. \A i : ~Joins(req'[r], i)
  BY <1>5 DEF Joins
<1>7. ASSUME NEW s \in Requests \ {r}, req[s].pc = "assign", NEW i \in req[s].items \ regroup'
      PROVE  members'[i] = 0
  <2>1. i \in Imeis /\ Joins(req[s], i) /\ members[i] = 0
    BY <1>1, <1>7, Known DEF Joins, GroupInv
  <2>2. i # dev
    BY <1>1, <1>2, <1>7, <2>1 DEF GroupInv
  <2>3. QED
    BY <1>1, <2>1, <2>2
<1>8. QED
  BY <1>1, <1>4, <1>5, <1>6, <1>7, GroupByStep

LEMMA StepKeepsGroup ==
  ASSUME TypeInv, GroupInv, [Next]_vars
  PROVE  GroupInv'
<1>1. ASSUME NEW r \in Requests, GroupStep(r)
      PROVE  GroupInv'
  <2>1. Moves(r, {"idle", "member", "assign"})
    BY <1>1, GroupLeaves, TurnMoves
  <2>2. QED
    BY <1>1, <2>1, AssignKeepsGroup, CheckKeepsGroup, InsertKeepsGroup DEF GroupStep
<1>2. ASSUME NEW r \in Requests, RegisterStep(r)
      PROVE  GroupInv'
  <2>1. Moves(r, {"idle"} \cup Registering) /\ UNCHANGED <<members, regroup>>
    BY <1>2, RegisterLeaves, TurnMoves
  <2>2. ({"idle"} \cup Registering) \cap {"member", "assign"} = {}
    BY DEF Registering
  <2>3. QED
    BY <2>1, <2>2, GroupKept
<1>3. ASSUME NEW r \in Requests, InstallStep(r)
      PROVE  GroupInv'
  <2>1. Moves(r, {"idle", "remove"} \cup Installing) /\ UNCHANGED <<members, regroup>>
    BY <1>3, InstallLeaves, TurnMoves
  <2>2. ({"idle", "remove"} \cup Installing) \cap {"member", "assign"} = {}
    BY DEF Installing
  <2>3. QED
    BY <2>1, <2>2, GroupKept
<1>4. ASSUME NEW r \in Requests, OwnerStep(r) \/ Abandon(r)
      PROVE  GroupInv'
  <2>1. Moves(r, {"idle", "write", "query", "fill"}) /\ UNCHANGED <<members, regroup>>
    BY <1>4, OwnerLeaves, TurnMoves DEF ghosts
  <2>2. {"idle", "write", "query", "fill"} \cap {"member", "assign"} = {}
    OBVIOUS
  <2>3. QED
    BY <2>1, <2>2, GroupKept
<1>5. ASSUME \A r \in Requests : req'[r] \in {req[r], Idle}, regroup' = regroup,
             \A i \in Imeis : members'[i] \in {0, members[i]}
      PROVE  GroupInv'
  <2>1. ASSUME NEW s \in Requests, req[s].pc = "assign", NEW i \in req[s].items \ regroup
        PROVE  members'[i] = 0
    BY <1>5, <2>1, Known DEF GroupInv
  <2>2. \A i \in Imeis \ regroup : members'[i] <= 1
    BY <1>5 DEF GroupInv
  <2>3. \A r \in Requests : req'[r].pc = "assign" => req'[r] = req[r]
    BY <1>5, IdleTyped
  <2>4. \A i : ~Joins(Idle, i)
    BY IdleTyped DEF Joins
  <2>5. \A r, s \in Requests : \A i \in Imeis \ regroup' :
          Joins(req'[r], i) /\ Joins(req'[s], i) => r = s
    BY <1>5, <2>4 DEF GroupInv
  <2>6. QED
    BY <1>5, <2>1, <2>2, <2>3, <2>5 DEF GroupInv
<1>6. CASE Next
  BY <1>1, <1>2, <1>3, <1>4, <1>5, <1>6, OthersKeepTypes DEF Next, ghosts
<1>7. CASE UNCHANGED vars
  BY <1>5, <1>7 DEF vars
<1>8. QED
  BY <1>6, <1>7

-----------------------------------------------------------------------------
(* The invariant, and what it gives.                                       *)

LEMMA InitHasAll ==
  ASSUME Init
  PROVE  IInv
<1>1. /\ installs = <<>> /\ req = [r \in Requests |-> Idle] /\ members = [i \in Imeis |-> 0]
      /\ devices[Here] \cap devices[There] = {}
  BY DEF Init
<1>2. \A r \in Requests : req[r].pc = "idle"
  BY <1>1, IdleTyped
<1>3. \A i, v : Rows(installs, i, v) = {}
  BY <1>1 DEF Rows
<1>4. PeerInv
  BY <1>1, <1>2 DEF PeerInv, PeersDisjoint, Registers, Registering
<1>5. InstallInv
  BY <1>2, <1>3 DEF InstallInv, AtMostOne, Installs, Installing
<1>6. GroupInv
  BY <1>1, <1>2 DEF GroupInv, Joins
<1>7. QED
  BY <1>4, <1>5, <1>6, InitIsTyped DEF IInv

LEMMA StepKeepsAll ==
  ASSUME IInv, [Next]_vars
  PROVE  IInv'
BY StepKeepsTypes, StepKeepsPeers, StepKeepsInstalls, StepKeepsGroup DEF IInv

LEMMA Holds == Spec => []IInv
<1>1. Init => IInv
  BY InitHasAll
<1>2. IInv /\ [Next]_vars => IInv'
  BY StepKeepsAll
<1>3. QED
  BY <1>1, <1>2, PTL DEF Spec

\* A tracker gets on both servers only by requests that overlapped, or by one
\* that was not told that the other server had it: nobody was asked, there was
\* no answer, or the answer came of a failed lookup.  Whatever else fails, and
\* wherever a server goes down, a request that was told rightly doubles none.
THEOREM RegisteredOnce == Spec => []PeersDisjoint
<1>1. IInv => PeersDisjoint
  BY DEF IInv, PeerInv
<1>2. QED
  BY <1>1, Holds, PTL

LEMMA Single ==
  ASSUME NEW i, NEW v, AtMostOne(Rows(installs, i, v))
  PROVE  Cardinality(Live(i, v)) <= 1
<1>1. Live(i, v) = Rows(installs, i, v)
  BY DEF Live, Rows
<1>2. CASE Live(i, v) = {}
  BY <1>2, FS_EmptySet
<1>3. CASE Live(i, v) # {}
  <2>1. PICK k : Live(i, v) = {k}
    BY <1>1, <1>3 DEF AtMostOne
  <2>2. QED
    BY <2>1, FS_Singleton
<1>4. QED
  BY <1>2, <1>3

\* A tracker is in one vehicle, a vehicle has one tracker and a group shows a
\* tracker once, unless requests for the same one overlapped; a request that
\* ends half-way, an uninstall and a removal from the group never double one.
THEOREM OnlyRacesDouble == Spec => []DoublesOverlap
<1>1. ASSUME IInv
      PROVE  DoublesOverlap
  <2>1. ASSUME NEW i \in Imeis \ twice
        PROVE  Cardinality(Live({i}, Vehicles)) <= 1
    BY <1>1, Single DEF IInv, InstallInv
  <2>2. ASSUME NEW v \in Vehicles \ twice
        PROVE  Cardinality(Live(Imeis, {v})) <= 1
    BY <1>1, Single DEF IInv, InstallInv
  <2>3. QED
    BY <1>1, <2>1, <2>2 DEF IInv, GroupInv, DoublesOverlap
<1>2. QED
  BY <1>1, Holds, PTL

\* The number of successes an import will report is what it has stored and
\* still has to try, and what it counts as stored is in the table.
THEOREM ImportsTellTheTruth == Spec => []ReportsAreTrue
<1>1. ASSUME IInv
      PROVE  ReportsAreTrue
  BY <1>1 DEF IInv, TypeInv, Good, ReportsAreTrue, At, Todo
<1>2. QED
  BY <1>1, Holds, PTL
=============================================================================
