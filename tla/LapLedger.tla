----------------------------- MODULE LapLedger -----------------------------
(***************************************************************************)
(* What modules/lap promises of a vehicle on a route (docs/                *)
(* plan-modulo-micros.md, RF-15 to RF-17): its day is cut into laps that   *)
(* follow one another without gap or overlap, and every completed lap is   *)
(* entered once, numbered, timed, fined if late and charged if priced.     *)
(***************************************************************************)
EXTENDS Integers, FiniteSets

CONSTANTS
  Vehicles,
  Times,    \* instants at which a checkpoint may be crossed
  MinLap,   \* the shortest lap
  Allowed,  \* the longest lap that is not late, 0: any
  Priced,   \* instants at which the route has a fare
  NotBegun  \* no lap yet

VARIABLES
  begun,    \* when the current lap of each vehicle began
  book      \* the completed laps of each vehicle

\* The book is opened with some vehicles already on their first lap.
Init ==
  /\ begun \in [Vehicles -> Times \cup {NotBegun}]
  /\ book = [v \in Vehicles |-> {}]

\* The first crossing only starts the clock.
Begin(v, t) ==
  /\ begun[v] = NotBegun
  /\ begun' = [begun EXCEPT ![v] = t]
  /\ UNCHANGED book

\* Every later crossing completes a lap and begins the next one.
Complete(v, t) ==
  /\ begun[v] # NotBegun
  /\ t - begun[v] >= MinLap
  /\ begun' = [begun EXCEPT ![v] = t]
  /\ book' = [book EXCEPT ![v] = @ \cup
       {[num |-> Cardinality(@) + 1, from |-> begun[v], to |-> t,
         fines |-> IF Allowed # 0 /\ t - begun[v] > Allowed THEN 1 ELSE 0,
         charges |-> IF t \in Priced THEN 1 ELSE 0]}]

Next == \E v \in Vehicles, t \in Times : Begin(v, t) \/ Complete(v, t)

Spec == Init /\ [][Next]_<<begun, book>>
=============================================================================
