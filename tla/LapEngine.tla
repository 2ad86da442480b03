----------------------------- MODULE LapEngine -----------------------------
(***************************************************************************)
(* The lap engine of modules/lap: every GPS report starts a goroutine that *)
(* runs EvaluatePosition, reading and writing the laps, fines and charges  *)
(* tables with one statement per step, without a transaction or a lock.    *)
(*                                                                         *)
(* A worker stands for one such goroutine.  Each action below ends at the  *)
(* next database access, so what lies between two accesses is one step,    *)
(* and everything a worker remembers from an access is a copy that others  *)
(* may already have made stale.                                            *)
(***************************************************************************)
EXTENDS Integers, Sequences, FiniteSets

CONSTANTS
  Vehicles, Routes,
  NoRoute,       \* a vehicle without an active assignment to an active route
  InitialLaps,   \* the laps tables the process may find when it starts
  Workers,       \* evaluation goroutines that may be alive at once
  Reports,       \* the reports a device may send, see Report
  Fares,         \* the route_fares table, see Fare
  AllowedLap,    \* allowed_lap_duration_seconds by route, 0: none
  MaxStop,       \* max_stop_duration_seconds by route, 0: none
  MaxSpeed,      \* max_speed_kmh by route, Null: none
  MinLap,        \* minLapDurationSeconds
  DefaultStop,   \* defaultMaxStopDurationSeconds
  SpeedCooldown, \* speedFineCooldown
  MovingSpeed,   \* movingSpeedThresholdKmh
  Tolerance,     \* overtakingProximityToleranceMeters
  \* The environment: what the ingestion of reports guarantees.
  Overlap,       \* two reports of one vehicle may be evaluated at once
  InOrder,       \* the reports of a vehicle arrive in device-time order
  \* Bounds.
  MaxReports,    \* reports received
  MaxFaults,     \* failed statements and process crashes
  MaxReassign    \* changes of a vehicle's assignment

\* A nil pointer to a time, an index or a limit.
Null == -1

Time == Nat
OptTime == Time \cup {Null}

\* A position as the engine sees it: the checkpoint geofences that contain it
\* and its projection on the geometry of the route, line = Null when it is more
\* than maxDistanceToRouteMeters away.
Report ==
  [veh: Vehicles, at: Time, speed: Nat, inside: SUBSET Routes,
   line: Nat \cup {Null}, prog: Nat]

Fare == [route: Routes, amount: Nat, from: Time]

FineType == {"PROLONGED_STOP", "SPEEDING", "OVERTAKING", "LAP_TIME"}
Finished == {"ON_TIME", "LATE", "TOO_FAST"}
LapStatus == {"IN_PROGRESS"} \cup Finished

\* A row of micros.laps; toured is a ghost: a report away from the checkpoint
\* has been evaluated against this lap.
Lap ==
  [veh: Vehicles, route: Routes, num: Nat, start: Time, ended: OptTime,
   status: LapStatus, allowed: Nat, lastMove: OptTime, stopFine: OptTime,
   speedFine: OptTime, line: Nat \cup {Null}, prog: Nat, overtaken: BOOLEAN,
   toured: BOOLEAN]

NoLap == [status |-> "NONE"]

ASSUME ConstantsOK ==
  /\ NoRoute \notin Routes
  /\ \A table \in InitialLaps :
       /\ table \in Seq(Lap)
       /\ \A i, j \in DOMAIN table :
            /\ table[i].status = "IN_PROGRESS" /\ table[j].status = "IN_PROGRESS"
            /\ table[i].veh = table[j].veh
            => i = j
  /\ Reports \subseteq Report
  /\ Fares \subseteq Fare
  /\ AllowedLap \in [Routes -> Nat]
  /\ MaxStop \in [Routes -> Nat]
  /\ MaxSpeed \in [Routes -> Nat \cup {Null}]
  /\ MinLap \in Nat /\ DefaultStop \in Nat /\ SpeedCooldown \in Nat
  /\ MovingSpeed \in Nat /\ Tolerance \in Nat
  /\ Overlap \in BOOLEAN /\ InOrder \in BOOLEAN
  /\ MaxReports \in Nat /\ MaxFaults \in Nat /\ MaxReassign \in Nat

VARIABLES
  laps,       \* micros.laps, a lap's id is its position
  fines,      \* micros.fines; by and since are ghosts: the evaluation that
              \* wrote the row and the last movement it measured the stop from
  charges,    \* micros.lap_charges; by, route: ghosts likewise
  routeOf,    \* the active vehicle_routes row of each vehicle
  ev,         \* the evaluation each worker runs
  newest,     \* the latest device time received per vehicle (InOrder only)
  received, faults, reassigned

vars == <<laps, fines, charges, routeOf, ev, newest, received, faults, reassigned>>
tables == <<laps, fines, charges>>
environment == <<routeOf, newest, received, reassigned>>

\* What a goroutine holds: its report, the assignment and the open lap it read,
\* whether the tracking columns changed, and the laps found to have overtaken.
Idle == [pc |-> "idle"]

Label == {"lap", "stop", "speed", "overtake", "rival", "mark", "track", "gate",
          "close", "late", "charge", "open"}

Rival == [id: Nat, row: Lap]

Evaluation ==
  [pc: Label, rep: Reports, by: Nat, route: Routes, id: Nat,
   lap: Lap \cup {NoLap}, dirty: BOOLEAN, rivals: SUBSET Rival]

Init ==
  /\ laps \in InitialLaps
  /\ fines = {}
  /\ charges = {}
  /\ routeOf \in [Vehicles -> Routes]
  /\ ev = [w \in Workers |-> Idle]
  /\ newest = [v \in Vehicles |-> Null]
  /\ received = 0 /\ faults = 0 /\ reassigned = 0

-----------------------------------------------------------------------------
(* Helpers.                                                                *)

(* Definitions marked "Mutant" are faulty variants that no action uses.    *)

\* Mutant: FindOpenLap without its condition on the status.
AnyLaps(v) == {i \in DOMAIN laps : laps[i].veh = v}

OpenLaps(v) ==
  {i \in DOMAIN laps : laps[i].veh = v /\ laps[i].status = "IN_PROGRESS"}

\* ORDER BY started_at DESC, first row; equal times come in any order.
LatestStarted(S) == {i \in S : \A j \in S : laps[j].start <= laps[i].start}

OpenLapsByRoute(r, v) ==
  {i \in DOMAIN laps : /\ laps[i].route = r
                       /\ laps[i].status = "IN_PROGRESS"
                       /\ laps[i].veh # v}

ActiveFares(r, at) ==
  LET known == {f \in Fares : f.route = r /\ f.from <= at}
  IN  {f \in known : \A g \in known : g.from <= f.from}

\* Mutant: a lap that takes exactly the allowed time is late.
LateAtTheLimit(duration, allowed) ==
  IF allowed = 0 THEN "ON_TIME"
  ELSE IF duration >= allowed THEN "LATE"
  ELSE IF duration < allowed \div 2 THEN "TOO_FAST"
  ELSE "ON_TIME"

ComputeLapStatus(duration, allowed) ==
  IF allowed = 0 THEN "ON_TIME"
  ELSE IF duration > allowed THEN "LATE"
  ELSE IF duration < allowed \div 2 THEN "TOO_FAST"
  ELSE "ON_TIME"

StopThreshold(r) == IF MaxStop[r] > 0 THEN MaxStop[r] ELSE DefaultStop

\* Mutant: the whole row is saved, not the tracking columns.
Saved(row, copy) == [copy EXCEPT !.toured = row.toured]

\* UpdateTracking writes every tracking column of the row from the copy.
Tracked(row, copy) ==
  [row EXCEPT !.lastMove = copy.lastMove, !.stopFine = copy.stopFine,
              !.speedFine = copy.speedFine, !.line = copy.line,
              !.prog = copy.prog, !.overtaken = copy.overtaken]

\* GenerateFine(FindByCode, Create): one row per call.
NewFine(e, type, id, since) ==
  [type |-> type, lap |-> id, at |-> e.rep.at, by |-> e.by, since |-> since]

Continue(w, e) == ev' = [ev EXCEPT ![w] = e]
Goto(w, label) == ev' = [ev EXCEPT ![w].pc = label]
Return(w) == ev' = [ev EXCEPT ![w] = Idle]

\* A statement fails, or the process dies, while the bound allows it.
Fault == faults < MaxFaults /\ faults' = faults + 1

-----------------------------------------------------------------------------
(* EvaluatePosition, from the goroutine's start to the open lap.           *)

MayStart(p) ==
  /\ Overlap \/ \A u \in Workers : ev[u] # Idle => ev[u].rep.veh # p.veh
  /\ InOrder => p.at >= newest[p.veh]

\* broadcastAndEvaluate's goroutine up to FindActiveVehicleRoute and
\* FindRouteByID: without an active assignment the report has no effect.
Receive(w, p) ==
  /\ ev[w] = Idle
  /\ received < MaxReports
  /\ MayStart(p)
  /\ received' = received + 1
  /\ newest' = IF InOrder THEN [newest EXCEPT ![p.veh] = p.at] ELSE newest
  /\ IF routeOf[p.veh] = NoRoute
       THEN UNCHANGED ev
       ELSE Continue(w, [pc |-> "lap", rep |-> p, by |-> received + 1,
                         route |-> routeOf[p.veh], id |-> 0, lap |-> NoLap,
                         dirty |-> FALSE, rivals |-> {}])
  /\ UNCHANGED <<tables, routeOf, faults, reassigned>>

\* FindOpenLap: by vehicle only, whatever route the lap was opened on.
ReadOpenLap(w) ==
  /\ ev[w].pc = "lap"
  /\ LET open == OpenLaps(ev[w].rep.veh)
     IN  \/ open = {} /\ Goto(w, "gate")
         \/ \E i \in LatestStarted(open) :
              Continue(w, [ev[w] EXCEPT !.pc = "stop", !.id = i, !.lap = laps[i]])
  /\ UNCHANGED <<tables, environment, faults>>

\* A read fails: EvaluatePosition returns the error, the goroutine logs it.
ReadFails(w) ==
  /\ ev[w].pc \in {"lap", "gate"}
  /\ Fault
  /\ Return(w)
  /\ UNCHANGED <<tables, environment>>

-----------------------------------------------------------------------------
(* evaluateInfractions.                                                    *)

\* Mutant: without the check that the stop is not fined yet.
StopDue(e) ==
  /\ e.rep.speed <= MovingSpeed
  /\ e.lap.lastMove # Null
  /\ e.rep.at - e.lap.lastMove > StopThreshold(e.route)

StopFineDue(e) ==
  /\ e.rep.speed <= MovingSpeed
  /\ e.lap.lastMove # Null
  /\ e.rep.at - e.lap.lastMove > StopThreshold(e.route)
  /\ e.lap.stopFine = Null

\* The movement a report above the threshold leaves in the copy of the lap.
Moved(lap, at) ==
  [lap EXCEPT !.stopFine = Null,
              !.lastMove = IF @ = Null \/ at > @ THEN at ELSE @]

EvaluateProlongedStop(w) ==
  LET e == ev[w]
  IN  /\ e.pc = "stop"
      /\ \/ /\ e.rep.speed > MovingSpeed
            /\ LET moved == Moved(e.lap, e.rep.at)
               IN  Continue(w, [e EXCEPT !.pc = "speed", !.lap = moved,
                                         !.dirty = moved # e.lap])
            /\ UNCHANGED <<fines, faults>>
         \/ /\ e.rep.speed <= MovingSpeed /\ ~StopFineDue(e)
            /\ Goto(w, "speed")
            /\ UNCHANGED <<fines, faults>>
         \/ /\ StopFineDue(e)
            /\ fines' = fines \cup {NewFine(e, "PROLONGED_STOP", e.id, e.lap.lastMove)}
            /\ Continue(w, [e EXCEPT !.pc = "speed", !.dirty = TRUE,
                                     !.lap.stopFine = e.rep.at])
            /\ UNCHANGED faults
         \/ /\ StopFineDue(e) /\ Fault
            /\ Goto(w, "speed")
            /\ UNCHANGED fines
      /\ UNCHANGED <<laps, charges, environment>>

\* Mutant: without the cooldown.
OverTheLimit(e) == MaxSpeed[e.route] # Null /\ e.rep.speed > MaxSpeed[e.route]

SpeedFineDue(e) ==
  /\ MaxSpeed[e.route] # Null
  /\ e.rep.speed > MaxSpeed[e.route]
  /\ e.lap.speedFine # Null => e.rep.at - e.lap.speedFine >= SpeedCooldown

EvaluateSpeeding(w) ==
  LET e == ev[w]
  IN  /\ e.pc = "speed"
      /\ \/ /\ ~SpeedFineDue(e)
            /\ Goto(w, "overtake")
            /\ UNCHANGED <<fines, faults>>
         \/ /\ SpeedFineDue(e)
            /\ fines' = fines \cup {NewFine(e, "SPEEDING", e.id, Null)}
            /\ Continue(w, [e EXCEPT !.pc = "overtake", !.dirty = TRUE,
                                     !.lap.speedFine = e.rep.at])
            /\ UNCHANGED faults
         \/ /\ SpeedFineDue(e) /\ Fault
            /\ Goto(w, "overtake")
            /\ UNCHANGED fines
      /\ UNCHANGED <<laps, charges, environment>>

AfterInfractions(dirty) == IF dirty THEN "track" ELSE "gate"

\* Mutant: laps already fined for overtaking are not left out.
AllOvertakers(e) ==
  {[id |-> i, row |-> laps[i]] :
    i \in {j \in OpenLapsByRoute(e.route, e.lap.veh) :
             /\ laps[j].line = e.rep.line
             /\ e.lap.start < laps[j].start
             /\ laps[j].prog > e.rep.prog + Tolerance}}

\* The laps FindOpenLapsByRoute returns that are ahead though they started later.
Overtakers(e) ==
  {[id |-> i, row |-> laps[i]] :
    i \in {j \in OpenLapsByRoute(e.route, e.lap.veh) :
             /\ laps[j].line = e.rep.line
             /\ ~laps[j].overtaken
             /\ e.lap.start < laps[j].start
             /\ laps[j].prog > e.rep.prog + Tolerance}}

EvaluateOvertaking(w) ==
  LET e == ev[w]
      placed == [e EXCEPT !.lap.line = e.rep.line, !.lap.prog = e.rep.prog,
                          !.dirty = TRUE]
      found == Overtakers(e)
  IN  /\ e.pc = "overtake"
      /\ \/ /\ e.rep.line = Null
            /\ Goto(w, AfterInfractions(e.dirty))
            /\ UNCHANGED faults
         \/ /\ e.rep.line # Null /\ (e.lap.line # e.rep.line \/ found = {})
            /\ Continue(w, [placed EXCEPT !.pc = "track"])
            /\ UNCHANGED faults
         \/ /\ e.rep.line # Null /\ e.lap.line = e.rep.line /\ found # {}
            /\ Continue(w, [placed EXCEPT !.pc = "rival", !.rivals = found])
            /\ UNCHANGED faults
         \/ /\ e.rep.line # Null /\ e.lap.line = e.rep.line /\ found # {} /\ Fault
            /\ Continue(w, [placed EXCEPT !.pc = "track"])
      /\ UNCHANGED <<tables, environment>>

\* The loop over the overtakers, in the order of the query, which names none.
NextRival(e) == IF e.rivals = {} THEN "track" ELSE "rival"

FineRival(w) ==
  LET e == ev[w]
  IN  /\ e.pc = "rival"
      /\ \E r \in e.rivals :
           LET rest == [e EXCEPT !.rivals = @ \ {r}]
           IN  \/ /\ fines' = fines \cup {NewFine(e, "OVERTAKING", r.id, Null)}
                  /\ Continue(w, [rest EXCEPT !.pc = "mark",
                               !.rivals = @ \cup {[r EXCEPT !.row.overtaken = TRUE]}])
                  /\ UNCHANGED faults
               \/ /\ Fault
                  /\ Continue(w, [rest EXCEPT !.pc = NextRival(rest)])
                  /\ UNCHANGED fines
      /\ UNCHANGED <<laps, charges, environment>>

\* UpdateTracking(other): the whole copy is written back, not the flag alone.
MarkRival(w) ==
  LET e == ev[w]
  IN  /\ e.pc = "mark"
      /\ \E r \in e.rivals :
           /\ r.row.overtaken
           /\ LET rest == [e EXCEPT !.rivals = @ \ {r}]
              IN  Continue(w, [rest EXCEPT !.pc = NextRival(rest)])
           /\ \/ laps' = [laps EXCEPT ![r.id] = Tracked(@, r.row)] /\ UNCHANGED faults
              \/ Fault /\ UNCHANGED laps
      /\ UNCHANGED <<fines, charges, environment>>

\* UpdateTracking(lap); its error is only logged.
UpdateTracking(w) ==
  LET e == ev[w]
  IN  /\ e.pc = "track"
      /\ Goto(w, "gate")
      /\ \/ laps' = [laps EXCEPT ![e.id] = Tracked(@, e.lap)] /\ UNCHANGED faults
         \/ Fault /\ UNCHANGED laps
      /\ UNCHANGED <<fines, charges, environment>>

-----------------------------------------------------------------------------
(* The checkpoint: close the lap, settle it, open the next one.            *)

TooSoon(e) == e.id # 0 /\ e.rep.at - e.lap.start < MinLap

\* Mutant: the lap in progress is not closed before the next one opens.
CrossWithoutClosing(w) ==
  LET e == ev[w]
  IN  /\ e.pc = "gate"
      /\ IF e.route \in e.rep.inside /\ ~TooSoon(e) THEN Goto(w, "open") ELSE Return(w)
      /\ UNCHANGED <<tables, environment, faults>>

\* FindGeofenceByID, isInsideGeofence and the early returns after them.
CrossCheckpoint(w) ==
  LET e == ev[w]
  IN  /\ e.pc = "gate"
      /\ \/ /\ e.route \notin e.rep.inside
            /\ Return(w)
            /\ laps' = IF e.id = 0 THEN laps ELSE [laps EXCEPT ![e.id].toured = TRUE]
         \/ /\ e.route \in e.rep.inside /\ TooSoon(e)
            /\ Return(w)
            /\ UNCHANGED laps
         \/ /\ e.route \in e.rep.inside /\ ~TooSoon(e)
            /\ Goto(w, IF e.id = 0 THEN "open" ELSE "close")
            /\ UNCHANGED laps
      /\ UNCHANGED <<fines, charges, environment, faults>>

\* Mutant: the error of the UPDATE is only logged.
CloseLapLogged(w) ==
  LET e == ev[w]
      status == ComputeLapStatus(e.rep.at - e.lap.start, e.lap.allowed)
  IN  /\ e.pc = "close"
      /\ Goto(w, IF status = "LATE" THEN "late" ELSE "charge")
      /\ \/ laps' = [laps EXCEPT ![e.id].status = status, ![e.id].ended = e.rep.at]
            /\ UNCHANGED faults
         \/ Fault /\ UNCHANGED laps
      /\ UNCHANGED <<fines, charges, environment>>

\* Mutant: the late lap is fined before it is closed.
CloseLapFined(w) ==
  LET e == ev[w]
      status == ComputeLapStatus(e.rep.at - e.lap.start, e.lap.allowed)
  IN  /\ e.pc = "close"
      /\ fines' = IF status = "LATE"
                  THEN fines \cup {NewFine(e, "LAP_TIME", e.id, Null)} ELSE fines
      /\ \/ laps' = [laps EXCEPT ![e.id].status = status, ![e.id].ended = e.rep.at]
            /\ Goto(w, "charge")
            /\ UNCHANGED faults
         \/ Fault /\ Return(w) /\ UNCHANGED laps
      /\ UNCHANGED <<charges, environment>>

\* repo.CloseLap: UPDATE ... WHERE id, whatever the row's status is by then.
CloseLap(w) ==
  LET e == ev[w]
      status == ComputeLapStatus(e.rep.at - e.lap.start, e.lap.allowed)
  IN  /\ e.pc = "close"
      /\ \/ /\ laps' = [laps EXCEPT ![e.id].status = status, ![e.id].ended = e.rep.at]
            /\ Goto(w, IF status = "LATE" THEN "late" ELSE "charge")
            /\ UNCHANGED faults
         \/ Fault /\ Return(w) /\ UNCHANGED laps
      /\ UNCHANGED <<fines, charges, environment>>

FineLateLap(w) ==
  LET e == ev[w]
  IN  /\ e.pc = "late"
      /\ Goto(w, "charge")
      /\ \/ fines' = fines \cup {NewFine(e, "LAP_TIME", e.id, Null)} /\ UNCHANGED faults
         \/ Fault /\ UNCHANGED fines
      /\ UNCHANGED <<laps, charges, environment>>

\* Mutant: the charge names the lap about to open.
ChargeNextLap(w) ==
  LET e == ev[w]
  IN  /\ e.pc = "charge"
      /\ Goto(w, "open")
      /\ \E f \in ActiveFares(e.route, e.rep.at) :
           charges' = charges \cup {[lap |-> Len(laps) + 1, amount |-> f.amount,
                                     route |-> e.route, by |-> e.by]}
      /\ UNCHANGED <<laps, fines, environment, faults>>

\* Mutant: without a fare in force the handler returns.
ChargeOrReturn(w) ==
  LET e == ev[w]
      found == ActiveFares(e.route, e.rep.at)
  IN  /\ e.pc = "charge"
      /\ \/ found = {} /\ Return(w) /\ UNCHANGED charges
         \/ \E f \in found :
              /\ Goto(w, "open")
              /\ charges' = charges \cup {[lap |-> e.id, amount |-> f.amount,
                                           route |-> e.route, by |-> e.by]}
      /\ UNCHANGED <<laps, fines, environment, faults>>

\* FindActiveFare for the route of the report's assignment, then CreateCharge.
ChargeLap(w) ==
  LET e == ev[w]
      found == ActiveFares(e.route, e.rep.at)
  IN  /\ e.pc = "charge"
      /\ Goto(w, "open")
      /\ \/ found = {} /\ UNCHANGED <<charges, faults>>
         \/ \E f \in found :
              /\ charges' = charges \cup {[lap |-> e.id, amount |-> f.amount,
                                           route |-> e.route, by |-> e.by]}
              /\ UNCHANGED faults
         \/ found # {} /\ Fault /\ UNCHANGED charges
      /\ UNCHANGED <<laps, fines, environment>>

NewLap(e) ==
  [veh |-> e.rep.veh, route |-> e.route,
   num |-> IF e.id = 0 THEN 1 ELSE e.lap.num + 1,
   start |-> e.rep.at, ended |-> Null, status |-> "IN_PROGRESS",
   allowed |-> AllowedLap[e.route], lastMove |-> e.rep.at, stopFine |-> Null,
   speedFine |-> Null, line |-> Null, prog |-> 0, overtaken |-> FALSE,
   toured |-> FALSE]

OpenNextLap(w) ==
  /\ ev[w].pc = "open"
  /\ Return(w)
  /\ \/ laps' = Append(laps, NewLap(ev[w])) /\ UNCHANGED faults
     \/ Fault /\ UNCHANGED laps
  /\ UNCHANGED <<fines, charges, environment>>

-----------------------------------------------------------------------------
(* The environment.                                                        *)

\* The process dies: every goroutine is lost, the tables stay.
Crash ==
  /\ \E w \in Workers : ev[w] # Idle
  /\ Fault
  /\ ev' = [w \in Workers |-> Idle]
  /\ UNCHANGED <<tables, environment>>

\* The vehicle-route endpoints: Create, Update and ChangeStatus.
Reassign(v, r) ==
  /\ reassigned < MaxReassign
  /\ r # routeOf[v]
  /\ reassigned' = reassigned + 1
  /\ routeOf' = [routeOf EXCEPT ![v] = r]
  /\ UNCHANGED <<tables, ev, newest, received, faults>>

Step(w) ==
  \/ ReadOpenLap(w) \/ EvaluateProlongedStop(w) \/ EvaluateSpeeding(w)
  \/ EvaluateOvertaking(w) \/ FineRival(w) \/ MarkRival(w) \/ UpdateTracking(w)
  \/ CrossCheckpoint(w) \/ CloseLap(w) \/ FineLateLap(w) \/ ChargeLap(w)
  \/ OpenNextLap(w)

Next ==
  \/ \E w \in Workers : \/ Step(w)
                        \/ ReadFails(w)
                        \/ \E p \in Reports : Receive(w, p)
  \/ Crash
  \/ \E v \in Vehicles, r \in Routes \cup {NoRoute} : Reassign(v, r)

Spec == Init /\ [][Next]_vars

\* The scheduler runs every live goroutine; nothing makes reports arrive.
FairSpec == Spec /\ \A w \in Workers : WF_vars(Step(w))

-----------------------------------------------------------------------------
(* Properties.                                                             *)

FineRow == [type: FineType, lap: Nat, at: Time, by: Nat, since: OptTime]
ChargeRow == [lap: Nat, amount: Nat, route: Routes, by: Nat]

\* Every table row, goroutine and counter has the shape its declaration gives;
\* the ids the rows and the goroutines hold are those of existing laps.
TypeOK ==
  /\ laps \in Seq(Lap)
  /\ fines \subseteq FineRow /\ \A f \in fines : f.lap \in DOMAIN laps
  /\ charges \subseteq ChargeRow /\ \A c \in charges : c.lap \in DOMAIN laps
  /\ routeOf \in [Vehicles -> Routes \cup {NoRoute}]
  /\ ev \in [Workers -> Evaluation \cup {Idle}]
  /\ newest \in [Vehicles -> OptTime]
  /\ received \in Nat /\ faults \in Nat /\ reassigned \in Nat

\* FindOpenLap's unstated assumption: a vehicle never has two laps in progress.
OneOpenLap ==
  \A i, j \in DOMAIN laps :
    /\ laps[i].status = "IN_PROGRESS" /\ laps[j].status = "IN_PROGRESS"
    /\ laps[i].veh = laps[j].veh
    => i = j

\* RF-17 and the charge's "1:1": no lap is charged twice, whichever goroutines
\* reach the checkpoint, whatever fails and whenever the process dies.
OneChargePerLap == \A c, d \in charges : c.lap = d.lap => c = d

\* RF-16: a lap pays for its duration once.
OneLateFinePerLap ==
  \A f, g \in fines :
    f.type = "LAP_TIME" /\ g.type = "LAP_TIME" /\ f.lap = g.lap => f = g

\* Only a finished lap is charged, and only a LATE one is fined for its time: a
\* charge is never left behind by a close that did not happen.
SettledOnlyWhenFinished ==
  /\ \A c \in charges : laps[c.lap].status \in Finished
  /\ \A f \in fines : f.type = "LAP_TIME" => laps[f.lap].status = "LATE"

\* Two laps of a vehicle overlap at most in an instant, so that no stretch of
\* driving is counted, charged and timed twice.
LapsDisjoint ==
  \A i, j \in DOMAIN laps :
    laps[i].veh = laps[j].veh /\ i < j =>
      laps[i].ended # Null /\ laps[i].ended <= laps[j].start

\* A finished lap is a record: no later or slower goroutine reopens it or
\* rewrites when it ended and how it was judged.
FinishedLapsFrozen ==
  [][\A i \in DOMAIN laps : laps[i].status \in Finished =>
       /\ laps'[i].status = laps[i].status
       /\ laps'[i].ended = laps[i].ended]_laps

\* RF-19, "once per stop": two fines of one lap are never measured from the
\* same last movement.
OncePerStop ==
  \A f, g \in fines :
    /\ f.type = "PROLONGED_STOP" /\ g.type = "PROLONGED_STOP"
    /\ f.lap = g.lap /\ f.since = g.since
    => f = g

\* RF-20: within a lap, fines for speeding are a cooldown apart.
SpeedingSpaced ==
  \A f, g \in fines :
    /\ f.type = "SPEEDING" /\ g.type = "SPEEDING" /\ f.lap = g.lap /\ f # g
    => f.at - g.at >= SpeedCooldown \/ g.at - f.at >= SpeedCooldown

\* RF-18: at most one fine for overtaking per lap.
OneOvertakingFinePerLap ==
  \A f, g \in fines :
    f.type = "OVERTAKING" /\ g.type = "OVERTAKING" /\ f.lap = g.lap => f = g

\* RF-17: a lap is charged the fare of the route it was driven on.
ChargedAsDriven == \A c \in charges : c.route = laps[c.lap].route

\* RF-15: a lap ends when the vehicle enters the checkpoint again, so it has
\* been away from it in between.
LapsAreTours == \A i \in DOMAIN laps : laps[i].status \in Finished => laps[i].toured

\* A vehicle whose lap has ended gets its next lap: the close does not stop
\* half-way.
NextLapOpens ==
  \A v \in Vehicles :
    (\E i \in DOMAIN laps : laps[i].veh = v) ~> (OpenLaps(v) # {})

-----------------------------------------------------------------------------
(* The ledger the engine keeps, for engines with one route.  The last lap  *)
(* of a vehicle is the one in progress, or being settled; the ones before  *)
(* it are in the book.                                                     *)

TheRoute == CHOOSE r \in Routes : TRUE

LapsOf(v) == {i \in DOMAIN laps : laps[i].veh = v}

LastOf(ids) == CHOOSE i \in ids : \A j \in ids : j <= i
EarlierLaps(v) == {i \in LapsOf(v) : \E j \in LapsOf(v) : i < j}

LateFinesOf(i) == {f \in fines : f.lap = i /\ f.type = "LAP_TIME"}
ChargesOf(i) == {c \in charges : c.lap = i}

LedgerEntry(i) ==
  [num |-> laps[i].num, from |-> laps[i].start, to |-> laps[i].ended,
   fines |-> Cardinality(LateFinesOf(i)), charges |-> Cardinality(ChargesOf(i))]

LapsBegun ==
  [v \in Vehicles |-> IF LapsOf(v) = {} THEN Null ELSE laps[LastOf(LapsOf(v))].start]

LapsBooked ==
  [v \in Vehicles |-> {LedgerEntry(i) : i \in EarlierLaps(v)}]

\* When a lap may begin: at a report, or before the process started.
Instants ==
  {p.at : p \in Reports}
  \cup UNION {{table[i].start : i \in DOMAIN table} : table \in InitialLaps}

Ledger == INSTANCE LapLedger WITH
  Times <- Instants,
  Allowed <- AllowedLap[TheRoute],
  Priced <- {t \in Instants : ActiveFares(TheRoute, t) # {}},
  NotBegun <- Null,
  begun <- LapsBegun,
  book <- LapsBooked

\* RF-15 to RF-17 as one promise: the engine's four statements at a checkpoint
\* (close, fine, charge, open) amount to one entry of the ledger.
KeepsLedger == Ledger!Spec

-----------------------------------------------------------------------------
(* The inductive invariant behind the properties above: what a goroutine   *)
(* may rely on.  Exclusive is the premise ~Overlap carried along.          *)

Busy(w) == ev[w] # Idle

\* The laps a goroutine names exist, and past the read it has one in hand
\* unless the vehicle had none.
Held(w) ==
  Busy(w) =>
    /\ ev[w].id # 0 => ev[w].id \in DOMAIN laps /\ ev[w].lap \in Lap
    /\ ev[w].pc \notin {"lap", "gate", "open"} => ev[w].id # 0
    /\ \A r \in ev[w].rivals : r.id \in DOMAIN laps

TypeInv == TypeOK /\ \A w \in Workers : Held(w)

Exclusive ==
  \A u, w \in Workers :
    Busy(u) /\ Busy(w) /\ ev[u].rep.veh = ev[w].rep.veh => u = w

\* Until it closes it, the lap a goroutine read is the vehicle's open lap.
HoldsOpenLap(w) ==
  Busy(w) /\ ev[w].id # 0 /\ ev[w].pc \notin {"late", "charge", "open"} =>
    /\ laps[ev[w].id].veh = ev[w].rep.veh
    /\ laps[ev[w].id].status = "IN_PROGRESS"

\* From then on, or if it found none, the vehicle has no open lap.
HoldsNoOpenLap(w) ==
  Busy(w) =>
    /\ ev[w].pc \in {"late", "charge", "open"} \/ (ev[w].pc = "gate" /\ ev[w].id = 0)
       => \A i \in DOMAIN laps :
            laps[i].veh = ev[w].rep.veh => laps[i].status # "IN_PROGRESS"
    /\ ev[w].pc \in {"late", "charge"} =>
         laps[ev[w].id].veh = ev[w].rep.veh /\ laps[ev[w].id].status \in Finished
    /\ ev[w].pc = "late" => laps[ev[w].id].status = "LATE"

\* What a goroutine is about to settle is not settled yet.
Unsettled(w) ==
  Busy(w) =>
    /\ ev[w].pc \in {"late", "charge"} => \A c \in charges : c.lap # ev[w].id
    /\ ev[w].pc = "late" =>
         \A f \in fines : f.type = "LAP_TIME" => f.lap # ev[w].id

LapInv ==
  /\ TypeInv
  /\ Exclusive
  /\ OneOpenLap
  /\ \A w \in Workers : HoldsOpenLap(w) /\ HoldsNoOpenLap(w) /\ Unsettled(w)
  /\ SettledOnlyWhenFinished
  /\ OneChargePerLap
  /\ OneLateFinePerLap
=============================================================================
