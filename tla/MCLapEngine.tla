---------------------------- MODULE MCLapEngine ----------------------------
(* Values for LapEngine's constants: one unit of time is the minimum lap.  *)
EXTENDS LapEngine, TLC

CONSTANTS v1, v2, r1, r2, w1, w2

\* Goroutines, and vehicles with the same reports, are interchangeable.
Symmetry == Permutations(Workers) \cup Permutations(Vehicles)

OnRoute(x) == [r \in Routes |-> x]

\* r1's fare starts at 0; r2's only later, so that a lap may close unpriced.
MCFares ==
  {f \in {[route |-> r1, amount |-> 2, from |-> 0],
          [route |-> r2, amount |-> 3, from |-> 2]} : f.route \in Routes}

MCAllowed == OnRoute(3)
MCMaxStop == OnRoute(1)
MCMaxSpeed == OnRoute(60)

At(v, t, s, in, l, p) ==
  [veh |-> v, at |-> t, speed |-> s, inside |-> in, line |-> l, prog |-> p]

\* The checkpoint is reached, or the vehicle speeds or stands elsewhere.
FaultReports ==
  {At(v, t, 20, Routes, Null, 0) : v \in Vehicles, t \in {0, 2, 4}}
  \cup {At(v, 2, 80, {}, 0, 1) : v \in Vehicles}
  \cup {At(v, 4, 0, {}, 0, 1) : v \in Vehicles}

\* Nothing but laps: inside the checkpoint or away from it.
CrossingReports ==
  {At(v, t, 20, in, Null, 0) : v \in Vehicles, t \in 0..4, in \in {{}, Routes}}

\* v1, slow, may stop or speed; v2 drives past it; both cross the checkpoint.
TourReports ==
  {At(v1, t, s, {}, 0, 1) : t \in 1..5, s \in {0, 20, 80}}
  \cup {At(v2, t, 20, {}, 0, p) : t \in {2, 4}, p \in {1, 3}}
  \cup {At(v, t, 20, Routes, Null, 0) : v \in Vehicles, t \in {0, 1, 3, 5}}

\* A lap in progress on r2, at a place of the geometry.
Rolling(v, start, p) ==
  [veh |-> v, route |-> r2, num |-> 1, start |-> start, ended |-> Null,
   status |-> "IN_PROGRESS", allowed |-> 3, lastMove |-> start, stopFine |-> Null,
   speedFine |-> Null, line |-> 0, prog |-> p, overtaken |-> FALSE, toured |-> TRUE]

\* Two vehicles on the road, u ahead of v though it set out later.
Overtaken(u, v) == <<Rolling(v, 0, 1), Rolling(u, 1, 3)>>

EmptyTable == {<<>>}
OnlyRolling == {Overtaken(v2, v1)}
EmptyOrRolling == EmptyTable \cup OnlyRolling
EmptyOrEither == EmptyOrRolling \cup {Overtaken(v1, v2)}
=============================================================================
