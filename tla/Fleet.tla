------------------------------- MODULE Fleet -------------------------------
(***************************************************************************)
(* The fleet: which server a tracker is registered on, which vehicle it is *)
(* installed in, which group it is shown in, whose the vehicle is, and the *)
(* copy of that owner which the handling of positions keeps in Redis.      *)
(*                                                                         *)
(* Each call to Postgres, to Redis or to the other server is a step and    *)
(* requests interleave between them.  Registering checks both servers, as  *)
(* far as they can tell, and then inserts; installing, grouping and editing*)
(* check and then write, with no unique index behind them.                 *)
(***************************************************************************)
EXTENDS Naturals, FiniteSets

CONSTANTS
  Imeis, Vehicles, Users,
  Here, There,  \* the two servers; installations are those of Here
  Peered,       \* the servers with PEER_GRPC_URL set
  Requests,     \* requests that may run at once
  NoVehicle, NoUser,
  MaxInstalls,  \* bound: rows of device_installations
  MaxStarts,    \* bound: requests in all
  MaxFaults,    \* bound: calls that fail and crashes
  TTL           \* ticks a cached owner lives (15 minutes)

ASSUME ConstantsOK ==
  /\ Here # There /\ NoVehicle \notin Vehicles /\ NoUser \notin Users
  /\ Peered \subseteq {Here, There} /\ IsFiniteSet(Imeis)
  /\ MaxInstalls \in Nat /\ MaxStarts \in Nat /\ MaxFaults \in Nat
  /\ TTL \in Nat \ {0}

VARIABLES
  devices,  \* table devices of each server, by IMEI
  installs, \* table device_installations; live: removed_at IS NULL
  members,  \* active rows of group_devices, by IMEI, for one group
  owner,    \* vehicles.user_id
  cache,    \* device:owner:<imei>
  req,      \* the requests
  starts, faults,
  blind,    \* IMEIs that overlapping requests registered, or one that was not told
            \* that the other server had them
  twice,    \* IMEIs and vehicles that overlapping requests were installing
  regroup   \* IMEIs that overlapping requests were assigning to the group

vars == <<devices, installs, members, owner, cache, req, starts, faults, blind, twice, regroup>>
ghosts == <<blind, twice, regroup>>
Servers == {Here, There}
Peer(s) == IF s = Here THEN There ELSE Here

NoOwner == [veh |-> NoVehicle, user |-> NoUser, age |-> 0]
Idle == [pc |-> "idle", at |-> Here, items |-> {}, found |-> {}, put |-> {}, count |-> 0,
         id |-> 0, veh |-> NoVehicle, user |-> NoUser]

\* Any devices may have been registered before, on one of the servers each.
Init ==
  /\ devices \in {d \in [Servers -> SUBSET Imeis] : d[Here] \cap d[There] = {}}
  /\ installs = <<>>
  /\ members = [i \in Imeis |-> 0]
  /\ owner \in [Vehicles -> Users]
  /\ cache = [i \in Imeis |-> NoOwner]
  /\ req = [r \in Requests |-> Idle]
  /\ starts = 0 /\ faults = 0 /\ blind = {} /\ twice = {} /\ regroup = {}

At(r, pc) == req[r].pc = pc
Goto(r, pc) == req' = [req EXCEPT ![r].pc = pc]
Finish(r) == req' = [req EXCEPT ![r] = Idle]
Start(r, new) ==
  /\ At(r, "idle") /\ starts < MaxStarts
  /\ starts' = starts + 1
  /\ req' = [req EXCEPT ![r] = new]
Fault == faults < MaxFaults /\ faults' = faults + 1

\* The requests other than r at one of these steps.
Others(r, pcs) == {q \in Requests \ {r} : req[q].pc \in pcs}

-----------------------------------------------------------------------------
Registering == {"local", "peer", "insert"}

\* Create has one item, BulkImport several; the items that are malformed or
\* repeat one of the same payload have been set aside.
Register(r, s, items) ==
  /\ Start(r, [Idle EXCEPT !.pc = "local", !.at = s, !.items = items])
  /\ blind' = blind \cup {i \in items : \E q \in Others(r, Registering) :
                                          i \in req[q].items \ req[q].put}
  /\ UNCHANGED <<devices, installs, members, owner, cache, faults, twice, regroup>>

\* FindByIMEI, FindByIMEIs.
FindLocal(r) ==
  /\ At(r, "local")
  /\ req' = [req EXCEPT ![r].pc = "peer", ![r].found = req[r].items \cap devices[req[r].at]]
  /\ UNCHANGED <<devices, installs, members, owner, cache, starts, faults, ghosts>>

\* A lookup that fails is taken for one that finds nothing.
LookupFails(r) ==
  /\ At(r, "local") /\ Fault
  /\ Goto(r, "peer")
  /\ UNCHANGED <<devices, installs, members, owner, cache, starts, ghosts>>

\* The items that the other server has and the request has not found here.
Theirs(r) == (req[r].items \ req[r].found) \cap devices[Peer(req[r].at)]

\* The request goes on without having been told of some of them.  What it is
\* going to insert is counted beforehand.
Missing(r, lost) ==
  LET known == req[r].found \cup (Theirs(r) \ lost) IN
  /\ At(r, "peer")
  /\ blind' = blind \cup lost
  /\ req' = [req EXCEPT ![r].pc = "insert", ![r].found = known,
                        ![r].count = Cardinality(req[r].items \ known)]
  /\ UNCHANGED <<devices, installs, members, owner, cache, starts, twice, regroup>>

\* Mutant: the answer of the other server is not added to what was found here.
AskPeerLocally(r) ==
  /\ At(r, "peer") /\ req[r].at \in Peered
  /\ req' = [req EXCEPT ![r].pc = "insert",
                        ![r].count = Cardinality(req[r].items \ req[r].found)]
  /\ UNCHANGED <<devices, installs, members, owner, cache, starts, faults, ghosts>>

\* CheckIMEIExists, BatchCheckIMEIs on the other server.
AskPeer(r) == req[r].at \in Peered /\ Missing(r, {}) /\ UNCHANGED faults

\* The other server answers, but some of its lookups failed, and it answers
\* that it does not have those items.
PeerMisses(r) ==
  /\ req[r].at \in Peered /\ Fault
  /\ \E lost \in SUBSET Theirs(r) \ {{}} : Missing(r, lost)

\* The other server does not answer in 5 or 10 seconds: the check is skipped.
PeerFails(r) == req[r].at \in Peered /\ Fault /\ Missing(r, Theirs(r))

\* nopPeerChecker: without PEER_GRPC_URL nobody is asked.
PeerUnset(r) == req[r].at \notin Peered /\ Missing(r, Theirs(r)) /\ UNCHANGED faults

Todo(r) == req[r].items \ (req[r].found \cup req[r].put)

\* Mutant: an item that could not be stored stays counted as a success.
InsertUncounted(r, i) ==
  /\ At(r, "insert") /\ i \in Todo(r)
  /\ IF i \in devices[req[r].at]
     THEN req' = [req EXCEPT ![r].found = @ \cup {i}] /\ UNCHANGED devices
     ELSE /\ devices' = [devices EXCEPT ![req[r].at] = @ \cup {i}]
          /\ req' = [req EXCEPT ![r].put = @ \cup {i}]
  /\ UNCHANGED <<installs, members, owner, cache, starts, faults, ghosts>>

\* The IMEI is the primary key; an INSERT it refuses fails this item alone.
Insert(r, i) ==
  /\ At(r, "insert") /\ i \in Todo(r)
  /\ IF i \in devices[req[r].at]
     THEN /\ req' = [req EXCEPT ![r].found = @ \cup {i}, ![r].count = @ - 1]
          /\ UNCHANGED devices
     ELSE /\ devices' = [devices EXCEPT ![req[r].at] = @ \cup {i}]
          /\ req' = [req EXCEPT ![r].put = @ \cup {i}]
  /\ UNCHANGED <<installs, members, owner, cache, starts, faults, ghosts>>

InsertFails(r, i) ==
  /\ At(r, "insert") /\ i \in Todo(r) /\ Fault
  /\ req' = [req EXCEPT ![r].found = @ \cup {i}, ![r].count = @ - 1]
  /\ UNCHANGED <<devices, installs, members, owner, cache, starts, ghosts>>

\* The response, with count as TotalSuccess.
Report(r) ==
  /\ At(r, "insert") /\ Todo(r) = {}
  /\ Finish(r)
  /\ UNCHANGED <<devices, installs, members, owner, cache, starts, faults, ghosts>>

-----------------------------------------------------------------------------
Live(i, v) == {k \in DOMAIN installs :
                 installs[k].live /\ installs[k].imei \in i /\ installs[k].veh \in v}
Installing == {"device", "vehicle", "install"}
ImeiOf(r) == CHOOSE i \in req[r].items : TRUE

\* Mutant: the device is not looked up.
InstallAny(r, i, v) ==
  /\ Start(r, [Idle EXCEPT !.pc = "device", !.items = {i}, !.veh = v])
  /\ UNCHANGED <<devices, installs, members, owner, cache, faults, ghosts>>

\* Create and QuickCreate, for a device that is registered.
Install(r, i, v) ==
  /\ i \in devices[Here]
  /\ Start(r, [Idle EXCEPT !.pc = "device", !.items = {i}, !.veh = v])
  /\ twice' = twice \cup {x \in {i, v} : \E q \in Others(r, Installing) :
                                           x \in req[q].items \cup {req[q].veh}}
  /\ UNCHANGED <<devices, installs, members, owner, cache, faults, blind, regroup>>

\* FindActiveByIMEI.
CheckDevice(r) ==
  /\ At(r, "device")
  /\ IF Live(req[r].items, Vehicles) = {} THEN Goto(r, "vehicle") ELSE Finish(r)
  /\ UNCHANGED <<devices, installs, members, owner, cache, starts, faults, ghosts>>

\* Mutant: the vehicle is not looked up.
CheckNoVehicle(r) ==
  /\ At(r, "vehicle")
  /\ Goto(r, "install")
  /\ UNCHANGED <<devices, installs, members, owner, cache, starts, faults, ghosts>>

\* FindActiveByVehicleID.
CheckVehicle(r) ==
  /\ At(r, "vehicle")
  /\ IF Live(Imeis, {req[r].veh}) = {} THEN Goto(r, "install") ELSE Finish(r)
  /\ UNCHANGED <<devices, installs, members, owner, cache, starts, faults, ghosts>>

InsertInstall(r) ==
  /\ At(r, "install") /\ Cardinality(DOMAIN installs) < MaxInstalls
  /\ LET k == Cardinality(DOMAIN installs) + 1 IN
     installs' = [n \in DOMAIN installs \cup {k} |->
                    IF n = k THEN [imei |-> ImeiOf(r), veh |-> req[r].veh, live |-> TRUE]
                             ELSE installs[n]]
  /\ Finish(r)
  /\ UNCHANGED <<devices, members, owner, cache, starts, faults, ghosts>>

\* Uninstall reads the row, which must not be removed yet, and saves it.
ReadInstall(r, k) ==
  /\ k \in DOMAIN installs /\ installs[k].live
  /\ Start(r, [Idle EXCEPT !.pc = "remove", !.id = k])
  /\ UNCHANGED <<devices, installs, members, owner, cache, faults, ghosts>>

SaveRemoved(r) ==
  /\ At(r, "remove")
  /\ installs' = [installs EXCEPT ![req[r].id].live = FALSE]
  /\ Finish(r)
  /\ UNCHANGED <<devices, members, owner, cache, starts, faults, ghosts>>

-----------------------------------------------------------------------------
\* AssignDevice: the device has an active installation.
Assign(r, i) ==
  /\ Live({i}, Vehicles) # {}
  /\ Start(r, [Idle EXCEPT !.pc = "member", !.items = {i}])
  /\ regroup' = regroup \cup {x \in {i} : \E q \in Others(r, {"member", "assign"}) :
                                            x \in req[q].items}
  /\ UNCHANGED <<devices, installs, members, owner, cache, faults, blind, twice>>

\* IsDeviceAssignedToGroup.
CheckMember(r) ==
  /\ At(r, "member")
  /\ IF members[ImeiOf(r)] = 0 THEN Goto(r, "assign") ELSE Finish(r)
  /\ UNCHANGED <<devices, installs, members, owner, cache, starts, faults, ghosts>>

InsertMember(r) ==
  /\ At(r, "assign")
  /\ members' = [members EXCEPT ![ImeiOf(r)] = @ + 1]
  /\ Finish(r)
  /\ UNCHANGED <<devices, installs, owner, cache, starts, faults, ghosts>>

\* RemoveDevice clears the status of all the rows at once.
RemoveMember(i) ==
  /\ members[i] > 0
  /\ members' = [members EXCEPT ![i] = 0]
  /\ UNCHANGED <<devices, installs, owner, cache, req, starts, faults, ghosts>>

\* The vehicles' Update reads the row, owner included, and writes it back.
ReadVehicle(r, v, u) ==
  /\ Start(r, [Idle EXCEPT !.pc = "write", !.veh = v, !.user = u])
  /\ UNCHANGED <<devices, installs, members, owner, cache, faults, ghosts>>

WriteVehicle(r) ==
  /\ At(r, "write")
  /\ owner' = [owner EXCEPT ![req[r].veh] = req[r].user]
  /\ Finish(r)
  /\ UNCHANGED <<devices, installs, members, cache, starts, faults, ghosts>>

-----------------------------------------------------------------------------
\* Mutant: a report served from the cache renews the TTL.
ResolveRenewing(r, i) ==
  IF cache[i] = NoOwner
  THEN /\ Start(r, [Idle EXCEPT !.pc = "query", !.items = {i}])
       /\ UNCHANGED <<devices, installs, members, owner, cache, faults, ghosts>>
  ELSE /\ cache' = [cache EXCEPT ![i].age = 0]
       /\ UNCHANGED <<devices, installs, members, owner, req, starts, faults, ghosts>>

\* Resolve: a report whose device is not in the cache, or Redis fails to say.
Resolve(r, i) ==
  /\ \/ cache[i] = NoOwner /\ UNCHANGED faults
     \/ cache[i] # NoOwner /\ Fault
  /\ Start(r, [Idle EXCEPT !.pc = "query", !.items = {i}])
  /\ UNCHANGED <<devices, installs, members, owner, cache, ghosts>>

\* One of the active installations, joined with its vehicle.
QueryOwner(r) ==
  /\ At(r, "query")
  /\ \/ Live(req[r].items, Vehicles) = {} /\ Finish(r)
     \/ \E k \in Live(req[r].items, Vehicles) :
          req' = [req EXCEPT ![r].pc = "fill", ![r].veh = installs[k].veh,
                             ![r].user = owner[installs[k].veh]]
  /\ UNCHANGED <<devices, installs, members, owner, cache, starts, faults, ghosts>>

FillOwner(r) ==
  /\ At(r, "fill")
  /\ cache' = [cache EXCEPT ![ImeiOf(r)] = [veh |-> req[r].veh, user |-> req[r].user, age |-> 0]]
  /\ Finish(r)
  /\ UNCHANGED <<devices, installs, members, owner, starts, faults, ghosts>>

\* A minute or so: Redis drops what has lived its TTL.  Nothing else does:
\* Invalidate has no caller.
Tick ==
  /\ \E i \in Imeis : cache[i] # NoOwner
  /\ cache' = [i \in Imeis |->
                 IF cache[i] = NoOwner \/ cache[i].age + 1 = TTL THEN NoOwner
                 ELSE [cache[i] EXCEPT !.age = @ + 1]]
  /\ UNCHANGED <<devices, installs, members, owner, req, starts, faults, ghosts>>

\* A call to Postgres or Redis fails, or the client hangs up: the request ends.
\* Registering goes on without the call instead.
Abandon(r) ==
  /\ req[r].pc \notin Registering \cup {"idle"} /\ Fault
  /\ Finish(r)
  /\ UNCHANGED <<devices, installs, members, owner, cache, starts, ghosts>>

\* A server goes down with the requests it was serving.
Crash(s) ==
  /\ \E r \in Requests : ~At(r, "idle") /\ req[r].at = s
  /\ Fault
  /\ req' = [r \in Requests |-> IF req[r].at = s THEN Idle ELSE req[r]]
  /\ UNCHANGED <<devices, installs, members, owner, cache, starts, ghosts>>

-----------------------------------------------------------------------------
RegisterStep(r) ==
  \/ \E s \in Servers, items \in SUBSET Imeis \ {{}} : Register(r, s, items)
  \/ FindLocal(r) \/ LookupFails(r) \/ Report(r)
  \/ AskPeer(r) \/ PeerMisses(r) \/ PeerFails(r) \/ PeerUnset(r)
  \/ \E i \in Imeis : Insert(r, i) \/ InsertFails(r, i)

InstallStep(r) ==
  \/ \E i \in Imeis, v \in Vehicles : Install(r, i, v)
  \/ CheckDevice(r) \/ CheckVehicle(r) \/ InsertInstall(r) \/ SaveRemoved(r)
  \/ \E k \in 1..MaxInstalls : ReadInstall(r, k)

GroupStep(r) ==
  CheckMember(r) \/ InsertMember(r) \/ \E i \in Imeis : Assign(r, i)

OwnerStep(r) ==
  \/ \E v \in Vehicles : \E u \in Users : ReadVehicle(r, v, u)
  \/ WriteVehicle(r) \/ QueryOwner(r) \/ FillOwner(r)
  \/ \E i \in Imeis : Resolve(r, i)

Next ==
  \/ \E r \in Requests :
       RegisterStep(r) \/ InstallStep(r) \/ GroupStep(r) \/ OwnerStep(r) \/ Abandon(r)
  \/ \E i \in Imeis : RemoveMember(i)
  \/ \E s \in Servers : Crash(s)
  \/ Tick

Spec == Init /\ [][Next]_vars

\* Time passes.
FairSpec == Spec /\ WF_vars(Tick)

-----------------------------------------------------------------------------
Request ==
  [pc: {"idle", "remove", "member", "assign", "write", "query", "fill"}
         \cup Registering \cup Installing,
   at: Servers, items: SUBSET Imeis, found: SUBSET Imeis, put: SUBSET Imeis,
   count: Nat, id: 0..MaxInstalls,
   veh: Vehicles \cup {NoVehicle}, user: Users \cup {NoUser}]

\* Types; the rows of installations are of devices registered here.
TypeOK ==
  /\ devices \in [Servers -> SUBSET Imeis]
  /\ \E n \in 0..MaxInstalls :
       installs \in [1..n -> [imei: devices[Here], veh: Vehicles, live: BOOLEAN]]
  /\ members \in [Imeis -> Nat]
  /\ owner \in [Vehicles -> Users]
  /\ cache \in [Imeis -> [veh: Vehicles \cup {NoVehicle}, user: Users \cup {NoUser},
                          age: 0..(TTL - 1)]]
  /\ req \in [Requests -> Request]
  /\ starts \in 0..MaxStarts /\ faults \in 0..MaxFaults
  /\ blind \subseteq Imeis /\ twice \subseteq Imeis \cup Vehicles /\ regroup \subseteq Imeis

\* A tracker gets on both servers only by requests that overlapped, or by one
\* that was let through while the other server had it: because nobody was
\* asked, there was no answer, or it answered after a failed lookup.  What a
\* request was told rightly still holds when it inserts, and a lookup that
\* fails here, or a server that goes down half-way, doubles nothing.
PeersDisjoint == devices[Here] \cap devices[There] \subseteq blind

\* A tracker is in one vehicle, a vehicle has one tracker and a group shows a
\* tracker once, unless requests for the same one overlapped: it takes a
\* race, not a sequence of requests, however some of them end, to double them.
DoublesOverlap ==
  /\ \A i \in Imeis \ twice : Cardinality(Live({i}, Vehicles)) <= 1
  /\ \A v \in Vehicles \ twice : Cardinality(Live(Imeis, {v})) <= 1
  /\ \A i \in Imeis \ regroup : members[i] <= 1

\* The number of successes an import will report is the number of rows it has
\* stored or still has to try, whatever fails and whoever registers the same
\* IMEIs meanwhile: what it reports at the end is stored.
ReportsAreTrue ==
  \A r \in Requests : At(r, "insert") =>
    /\ req[r].count = Cardinality(req[r].put) + Cardinality(Todo(r))
    /\ req[r].put \subseteq devices[req[r].at]

\* The cached owner is not the owner of a vehicle the tracker is installed in.
Outdated(i) ==
  /\ cache[i] # NoOwner
  /\ ~ \E k \in Live({i}, Vehicles) :
         installs[k].veh = cache[i].veh /\ owner[installs[k].veh] = cache[i].user

\* After a transfer or an uninstall, which tell the cache nothing, positions go
\* to the former owner only until the copy expires, however often the tracker
\* reports meanwhile.
OutdatedOwnerEnds == \A i \in Imeis : Outdated(i) ~> ~Outdated(i)
=============================================================================
