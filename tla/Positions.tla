----------------------------- MODULE Positions -----------------------------
(***************************************************************************)
(* The last position of each tracker: its copy in Redis, the set that      *)
(* indexes the copies, the table device_last_positions behind them, the    *)
(* warm-up that fills Redis when the server starts, and the throttle of    *)
(* the live updates.                                                       *)
(*                                                                         *)
(* Reports are handled side by side; each call to Redis or Postgres is a   *)
(* step.  A position is abstracted to its device time.                     *)
(***************************************************************************)
EXTENDS Naturals

CONSTANTS
  Devices,     \* trackers that may have a row
  Trackers,    \* those that are on and report
  Handlers,    \* reports that may be handled at once
  Nobody,      \* the device of no report
  MaxTime,     \* bound: device times
  Window,      \* ticks between two live updates of a tracker (3 s)
  MaxFaults,   \* bound: calls that fail and losses of Redis
  MaxRestarts  \* bound: restarts of the server

ASSUME ConstantsOK ==
  /\ Trackers \subseteq Devices /\ Nobody \notin Devices
  /\ MaxTime \in Nat \ {0} /\ Window \in Nat \ {0}
  /\ MaxFaults \in Nat /\ MaxRestarts \in Nat

VARIABLES
  cache,    \* device:pos:<imei>, None when absent
  index,    \* device:pos:index
  last,     \* device_last_positions, None when there is no row
  since,    \* ticks since lastBroadcastByID[imei], at most Window
  req,      \* the reports being handled
  warm,     \* the warm-up
  split,    \* devices whose copies a fault or overlapping reports may have split
  hidden,   \* devices that a fault may have taken off the index
  faults, restarts

vars == <<cache, index, last, since, req, warm, split, hidden, faults, restarts>>

None == 0
Times == 1..MaxTime
Idle == [pc |-> "idle", dev |-> Nobody, time |-> None]
Cold == [pc |-> "read", rows |-> [d \in Devices |-> None], todo |-> {}, at |-> Nobody]

\* The server starts; Redis is empty and some devices have reported before.
Init ==
  /\ cache = [d \in Devices |-> None] /\ index = {}
  /\ last \in [Devices -> {None, 1}]
  /\ since = [d \in Devices |-> Window]
  /\ req = [h \in Handlers |-> Idle]
  /\ warm = Cold
  /\ split = {} /\ hidden = {} /\ faults = 0 /\ restarts = 0

At(h, pc) == req[h].pc = pc
Goto(h, pc) == req' = [req EXCEPT ![h].pc = pc]
Dev(h) == req[h].dev
Fault == faults < MaxFaults /\ faults' = faults + 1

Storing == {"set", "index", "upsert"}
Busy(d) == \E h \in Handlers : Dev(h) = d /\ req[h].pc \in Storing

-----------------------------------------------------------------------------
\* Create: the position is in table positions, its copies come next.
Report(h, d, t) ==
  /\ At(h, "idle")
  /\ req' = [req EXCEPT ![h] = [pc |-> "set", dev |-> d, time |-> t]]
  /\ split' = IF Busy(d) THEN split \cup {d} ELSE split \ {d}
  /\ UNCHANGED <<cache, index, last, since, warm, hidden, faults, restarts>>

SetKey(h) ==
  /\ At(h, "set")
  /\ cache' = [cache EXCEPT ![Dev(h)] = req[h].time]
  /\ Goto(h, "index")
  /\ UNCHANGED <<index, last, since, warm, split, hidden, faults, restarts>>

Indexed(d) ==
  /\ index' = index \cup {d}
  /\ hidden' = IF cache[d] = None THEN hidden ELSE hidden \ {d}

AddIndex(h) ==
  /\ At(h, "index")
  /\ Indexed(Dev(h))
  /\ Goto(h, "upsert")
  /\ UNCHANGED <<cache, last, since, warm, split, faults, restarts>>

\* The upsert looks at no time: the last to write is the last position.
Upsert(h) ==
  /\ At(h, "upsert")
  /\ last' = [last EXCEPT ![Dev(h)] = req[h].time]
  /\ req' = [req EXCEPT ![h].pc = "notify", ![h].time = None]
  /\ UNCHANGED <<cache, index, since, warm, split, hidden, faults, restarts>>

\* Each of the three calls may fail; that is only logged.  Without the SET
\* there is no SADD.
StoreFails(h) ==
  /\ Fault
  /\ \/ At(h, "set") /\ Goto(h, "upsert")
        /\ split' = split \cup {Dev(h)} /\ hidden' = hidden \cup {Dev(h)}
     \/ At(h, "index") /\ Goto(h, "upsert")
        /\ hidden' = hidden \cup {Dev(h)} /\ UNCHANGED split
     \/ At(h, "upsert") /\ req' = [req EXCEPT ![h].pc = "notify", ![h].time = None]
        /\ split' = split \cup {Dev(h)} /\ UNCHANGED hidden
  /\ UNCHANGED <<cache, index, last, since, warm, restarts>>

\* allowBroadcast lets the update through and remembers the time.
Send(h) ==
  /\ At(h, "notify") /\ since[Dev(h)] = Window
  /\ since' = [since EXCEPT ![Dev(h)] = 0]
  /\ req' = [req EXCEPT ![h] = Idle]
  /\ UNCHANGED <<cache, index, last, warm, split, hidden, faults, restarts>>

\* Mutant: an update that is held back moves the window as well.
DropRenewing(h) ==
  /\ At(h, "notify") /\ since[Dev(h)] < Window
  /\ since' = [since EXCEPT ![Dev(h)] = 0]
  /\ req' = [req EXCEPT ![h] = Idle]
  /\ UNCHANGED <<cache, index, last, warm, split, hidden, faults, restarts>>

Drop(h) ==
  /\ At(h, "notify") /\ since[Dev(h)] < Window
  /\ req' = [req EXCEPT ![h] = Idle]
  /\ UNCHANGED <<cache, index, last, since, warm, split, hidden, faults, restarts>>

Tick ==
  /\ \E d \in Devices : since[d] < Window
  /\ since' = [d \in Devices |-> IF since[d] < Window THEN since[d] + 1 ELSE Window]
  /\ UNCHANGED <<cache, index, last, req, warm, split, hidden, faults, restarts>>

-----------------------------------------------------------------------------
\* Mutant: the warm-up goes over all the devices, those without a row too.
ReadDevices ==
  /\ warm.pc = "read"
  /\ warm' = [pc |-> "copy", rows |-> last, at |-> Nobody, todo |-> Devices]
  /\ UNCHANGED <<cache, index, last, since, req, split, hidden, faults, restarts>>

\* The warm-up reads all the rows and then copies them one by one.
ReadRows ==
  /\ warm.pc = "read"
  /\ warm' = [pc |-> "copy", rows |-> last, at |-> Nobody,
              todo |-> {d \in Devices : last[d] # None}]
  /\ UNCHANGED <<cache, index, last, since, req, split, hidden, faults, restarts>>

\* Mutant: SET instead of SETNX, as it was before it was corrected.
CopyRowOver(d) ==
  /\ warm.pc = "copy" /\ d \in warm.todo
  /\ cache' = [cache EXCEPT ![d] = warm.rows[d]]
  /\ warm' = [warm EXCEPT !.pc = "index", !.at = d]
  /\ UNCHANGED <<index, last, since, req, split, hidden, faults, restarts>>

\* Mutant: the copies of the warm-up are not put on the index.
CopyRowUnindexed(d) ==
  /\ warm.pc = "copy" /\ d \in warm.todo
  /\ cache' = IF cache[d] = None THEN [cache EXCEPT ![d] = warm.rows[d]] ELSE cache
  /\ warm' = [warm EXCEPT !.todo = @ \ {d}, !.rows[d] = None]
  /\ UNCHANGED <<index, last, since, req, split, hidden, faults, restarts>>

\* SETNX: a key that is there already is left alone, and not indexed either.
CopyRow(d) ==
  /\ warm.pc = "copy" /\ d \in warm.todo
  /\ IF cache[d] = None
     THEN /\ cache' = [cache EXCEPT ![d] = warm.rows[d]]
          /\ warm' = [warm EXCEPT !.pc = "index", !.at = d]
     ELSE warm' = [warm EXCEPT !.todo = @ \ {d}, !.rows[d] = None] /\ UNCHANGED cache
  /\ UNCHANGED <<index, last, since, req, split, hidden, faults, restarts>>

Copied(d) ==
  warm' = [pc |-> "copy", rows |-> [warm.rows EXCEPT ![d] = None], at |-> Nobody,
           todo |-> warm.todo \ {d}]

CopyIndex ==
  /\ warm.pc = "index"
  /\ Indexed(warm.at) /\ Copied(warm.at)
  /\ UNCHANGED <<cache, last, since, req, split, faults, restarts>>

\* A failed read ends the warm-up, a failed copy is ignored.
WarmFails ==
  /\ Fault
  /\ \/ /\ warm.pc = "read"
        /\ warm' = [Cold EXCEPT !.pc = "copy"]
        /\ hidden' = Devices
     \/ \E d \in warm.todo :
          /\ warm.pc = "copy" \/ warm.at = d
          /\ Copied(d) /\ hidden' = hidden \cup {d}
  /\ UNCHANGED <<cache, index, last, since, req, split, restarts>>

-----------------------------------------------------------------------------
\* Redis starts again without its data; the server does not notice.
LoseRedis ==
  /\ Fault
  /\ cache' = [d \in Devices |-> None] /\ index' = {}
  /\ hidden' = Devices /\ split' = split \cup warm.todo \cup {d \in Devices : Busy(d)}
  /\ UNCHANGED <<last, since, req, warm, restarts>>

\* The server is restarted and leaves off in the middle of everything.
Restart ==
  LET half == {d \in Devices : Busy(d)} IN
  /\ restarts < MaxRestarts /\ restarts' = restarts + 1
  /\ req' = [h \in Handlers |-> Idle]
  /\ since' = [d \in Devices |-> Window]
  /\ warm' = Cold
  /\ split' = split \cup half
  /\ hidden' = hidden \cup half \cup ({warm.at} \ {Nobody})
  /\ UNCHANGED <<cache, index, last, faults>>

StoreStep(h) == SetKey(h) \/ AddIndex(h) \/ Upsert(h)
NotifyStep(h) == Send(h) \/ Drop(h)
WarmStep == ReadRows \/ CopyIndex \/ \E d \in Devices : CopyRow(d)

Next ==
  \/ \E h \in Handlers :
       \/ \E d \in Trackers, t \in Times : Report(h, d, t)
       \/ StoreStep(h) \/ NotifyStep(h) \/ StoreFails(h)
  \/ WarmStep \/ WarmFails \/ Tick \/ LoseRedis \/ Restart

Spec == Init /\ [][Next]_vars

\* Time passes, and the goroutines of the reports and of the warm-up run.
FairSpec ==
  /\ Spec /\ WF_vars(Tick) /\ WF_vars(WarmStep)
  /\ \A h \in Handlers : WF_vars(StoreStep(h) \/ NotifyStep(h))

-----------------------------------------------------------------------------
\* Types; what the warm-up has left to copy are rows that it has read.
TypeOK ==
  /\ cache \in [Devices -> Times \cup {None}]
  /\ last \in [Devices -> Times \cup {None}]
  /\ index \subseteq Devices /\ split \subseteq Devices /\ hidden \subseteq Devices
  /\ since \in [Devices -> 0..Window]
  /\ req \in [Handlers -> [pc: {"idle", "notify"} \cup Storing,
                           dev: Devices \cup {Nobody}, time: Times \cup {None}]]
  /\ warm \in [pc: {"read", "copy", "index"}, rows: [Devices -> Times \cup {None}],
               todo: SUBSET Devices, at: Devices \cup {Nobody}]
  /\ \A d \in warm.todo : warm.rows[d] # None
  /\ warm.pc = "index" <=> warm.at # Nobody
  /\ faults \in 0..MaxFaults /\ restarts \in 0..MaxRestarts

\* Redis and the table hold the same last position once its reports have been
\* handled: only a failed call or reports of a tracker handled at the same time
\* can part them, never the warm-up, and the next report joins them again.
CopiesAgree ==
  \A d \in Devices \ split :
    ~Busy(d) /\ cache[d] # None => cache[d] = last[d]

\* What FindLastPositions answers: the copies on the index if there are any,
\* or else the rows.
Cached == {d \in index : cache[d] # None}
Shown(d) == IF Cached # {} THEN d \in Cached ELSE last[d] # None

\* A tracker with a stored position gets on the map, though the first report
\* after a start hides all the others until the warm-up has reached them:
\* only a fault keeps one off it.
ShownAgain == \A d \in Devices : (last[d] # None) ~> (Shown(d) \/ d \in hidden)

\* A tracker that keeps reporting keeps moving on the map: the throttle holds
\* updates back but never all of them, however often they come.
UpdatesKeepComing ==
  \A d \in Trackers :
    []<><<\E h \in Handlers : Dev(h) = d /\ Drop(h)>>_vars
      => []<><<\E h \in Handlers : Dev(h) = d /\ Send(h)>>_vars
=============================================================================
