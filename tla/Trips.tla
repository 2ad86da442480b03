------------------------------- MODULE Trips -------------------------------
(***************************************************************************)
(* The history of a tracker or a vehicle: analyzePositions reads the       *)
(* stored positions in the order of their device times and cuts them into  *)
(* trips and stops.  Each turn of its loop is a step.                      *)
(*                                                                         *)
(* A position is abstracted to its device time and its speed, and the      *)
(* path of a trip to the numbers of its positions.                         *)
(***************************************************************************)
EXTENDS Naturals, Sequences, FiniteSets

CONSTANTS
  Speeds,      \* speeds that are reported
  Delays,      \* times between two positions
  MovingSpeed, \* MinMovingSpeed (5 km/h): faster is moving
  MinStop,     \* MinStopDuration (3 min): standing for longer is a stop
  MaxGap,      \* MaxGapDuration (10 min): silence for longer ends everything
  MinShown,    \* a stop is listed if it is longer (1 min)
  MaxPositions \* bound: positions of a history

ASSUME ConstantsOK ==
  /\ Speeds \subseteq Nat /\ Delays \subseteq Nat
  /\ MovingSpeed \in Nat /\ MinStop \in Nat /\ MaxGap \in Nat /\ MinShown \in Nat
  /\ MaxPositions \in Nat \ {0}

VARIABLES
  read,       \* the positions read so far
  state,      \* currentState
  blockStart, \* blockStartTime
  trip,       \* tripPositions
  potential,  \* time of potentialStopStart, Never when nil
  fastest,    \* currentTripMaxSpeed
  total,      \* currentTripSpeedSum
  count,      \* currentTripCount
  events,     \* the trips and stops found
  done        \* the answer is returned

vars == <<read, state, blockStart, trip, potential, fastest, total, count, events, done>>

Never == 0
Now == read[Len(read)].time
IsMoving(speed) == speed > MovingSpeed

-----------------------------------------------------------------------------
FinalizeStop(end) ==
  IF end - blockStart > MinShown
  THEN Append(events, [type |-> "stop", from |-> blockStart, to |-> end,
                       path |-> <<>>, fastest |-> 0, total |-> 0, count |-> 0])
  ELSE events

FinalizeTrip(end) ==
  IF Len(trip) >= 2
  THEN Append(events, [type |-> "trip", from |-> blockStart, to |-> end,
                       path |-> trip, fastest |-> fastest, total |-> total,
                       count |-> count])
  ELSE events

CloseBlock(end) == IF state = "moving" THEN FinalizeTrip(end) ELSE FinalizeStop(end)

\* A trip begins with position number n.
Depart(n, speed) ==
  /\ state' = "moving" /\ trip' = <<n>>
  /\ fastest' = speed /\ total' = speed /\ count' = 1

Settle == state' = "stopped" /\ trip' = <<>> /\ UNCHANGED <<fastest, total, count>>

\* A block begins: the speed of its first position says of which kind.
OpenBlock(n, time, speed) ==
  /\ blockStart' = time /\ potential' = Never
  /\ IF IsMoving(speed) THEN Depart(n, speed) ELSE Settle

\* The first position; a history without positions has no events.
Init ==
  \E speed \in Speeds :
    /\ read = <<[time |-> 1, speed |-> speed]>>
    /\ state = IF IsMoving(speed) THEN "moving" ELSE "stopped"
    /\ blockStart = 1 /\ potential = Never
    /\ trip = IF IsMoving(speed) THEN <<1>> ELSE <<>>
    /\ fastest = IF IsMoving(speed) THEN speed ELSE 0
    /\ total = fastest
    /\ count = IF IsMoving(speed) THEN 1 ELSE 0
    /\ events = <<>> /\ done = FALSE

\* The next position of the history, delay later.
Reads(delay, speed) ==
  /\ ~done /\ Len(read) < MaxPositions
  /\ read' = Append(read, [time |-> Now + delay, speed |-> speed])
  /\ UNCHANGED done

-----------------------------------------------------------------------------
\* Mutant: a stop that was being waited for survives the gap.
GapWaiting(delay, speed) ==
  /\ Reads(delay, speed) /\ delay > MaxGap
  /\ events' = CloseBlock(Now)
  /\ blockStart' = Now + delay /\ UNCHANGED potential
  /\ IF IsMoving(speed) THEN Depart(Len(read) + 1, speed) ELSE Settle

\* The tracker was silent: whatever was open ends with the last position.
Gap(delay, speed) ==
  /\ Reads(delay, speed) /\ delay > MaxGap
  /\ events' = CloseBlock(Now)
  /\ OpenBlock(Len(read) + 1, Now + delay, speed)

\* Mutant: the short stops of a trip are added up.
DriveOnWaiting(delay, speed) ==
  /\ Reads(delay, speed) /\ delay <= MaxGap
  /\ state = "moving" /\ IsMoving(speed)
  /\ trip' = Append(trip, Len(read) + 1)
  /\ fastest' = IF speed > fastest THEN speed ELSE fastest
  /\ total' = total + speed /\ count' = count + 1
  /\ UNCHANGED <<state, blockStart, potential, events>>

DriveOn(delay, speed) ==
  /\ Reads(delay, speed) /\ delay <= MaxGap
  /\ state = "moving" /\ IsMoving(speed)
  /\ trip' = Append(trip, Len(read) + 1)
  /\ fastest' = IF speed > fastest THEN speed ELSE fastest
  /\ total' = total + speed /\ count' = count + 1
  /\ potential' = Never
  /\ UNCHANGED <<state, blockStart, events>>

\* The time at which the tracker came to a stand, if it stands at time now.
Halted(now) == IF potential = Never THEN now ELSE potential

\* Standing, for a short time so far, is part of the trip.
Pause(delay, speed) ==
  /\ Reads(delay, speed) /\ delay <= MaxGap
  /\ state = "moving" /\ ~IsMoving(speed)
  /\ Now + delay - Halted(Now + delay) <= MinStop
  /\ potential' = Halted(Now + delay)
  /\ trip' = Append(trip, Len(read) + 1)
  /\ UNCHANGED <<state, blockStart, fastest, total, count, events>>

\* Mutant: the trip lasts until the stop is confirmed.
StopLate(delay, speed) ==
  /\ Reads(delay, speed) /\ delay <= MaxGap
  /\ state = "moving" /\ ~IsMoving(speed)
  /\ Now + delay - Halted(Now + delay) > MinStop
  /\ events' = FinalizeTrip(Now + delay)
  /\ blockStart' = Halted(Now + delay) /\ potential' = Never
  /\ Settle

\* A stop is confirmed: the trip ended, and the stop began, when it came to a
\* stand.  The positions since then stay in the path of the trip.
Stop(delay, speed) ==
  /\ Reads(delay, speed) /\ delay <= MaxGap
  /\ state = "moving" /\ ~IsMoving(speed)
  /\ Now + delay - Halted(Now + delay) > MinStop
  /\ events' = FinalizeTrip(Halted(Now + delay))
  /\ blockStart' = Halted(Now + delay) /\ potential' = Never
  /\ Settle

\* Mutant: the position that ends a stop is not in the trip that it begins.
StartUnlisted(delay, speed) ==
  /\ Reads(delay, speed) /\ delay <= MaxGap
  /\ state = "stopped" /\ IsMoving(speed)
  /\ events' = FinalizeStop(Now)
  /\ blockStart' = Now + delay /\ potential' = Never
  /\ state' = "moving" /\ trip' = <<>>
  /\ fastest' = speed /\ total' = speed /\ count' = 1

Start(delay, speed) ==
  /\ Reads(delay, speed) /\ delay <= MaxGap
  /\ state = "stopped" /\ IsMoving(speed)
  /\ events' = FinalizeStop(Now)
  /\ OpenBlock(Len(read) + 1, Now + delay, speed)

Rest(delay, speed) ==
  /\ Reads(delay, speed) /\ delay <= MaxGap
  /\ state = "stopped" /\ ~IsMoving(speed)
  /\ UNCHANGED <<state, blockStart, trip, potential, fastest, total, count, events>>

\* There are no more positions.
Finish ==
  /\ ~done /\ done' = TRUE
  /\ events' = CloseBlock(Now)
  /\ UNCHANGED <<read, state, blockStart, trip, potential, fastest, total, count>>

Next ==
  \/ \E delay \in Delays, speed \in Speeds :
       \/ Gap(delay, speed) \/ DriveOn(delay, speed) \/ Pause(delay, speed)
       \/ Stop(delay, speed) \/ Start(delay, speed) \/ Rest(delay, speed)
  \/ Finish

Spec == Init /\ [][Next]_vars

-----------------------------------------------------------------------------
Positions == 1..Len(read)
Time(i) == read[i].time
Moves(i) == IsMoving(read[i].speed)
Events == 1..Len(events)

\* Types; the stop that is waited for began in the block that is open.
TypeOK ==
  /\ read \in Seq([time: Nat \ {0}, speed: Speeds]) /\ read # <<>>
  /\ state \in {"moving", "stopped"}
  /\ blockStart \in Nat \ {0} /\ blockStart <= Now
  /\ trip \in Seq(Nat) /\ (state = "stopped" <=> trip = <<>>)
  /\ potential \in Nat
  /\ potential # Never => state = "moving" /\ blockStart <= potential /\ potential <= Now
  /\ fastest \in Nat /\ total \in Nat /\ count \in Nat
  /\ events \in Seq([type: {"trip", "stop"}, from: Nat, to: Nat, path: Seq(Nat),
                     fastest: Nat, total: Nat, count: Nat])
  /\ done \in BOOLEAN

\* The events follow one another: none begins before the one before it has
\* ended, though a stop is dated back when it is confirmed.
EventsInOrder ==
  /\ \A e \in Events : events[e].from <= events[e].to
  /\ \A e, f \in Events : e < f => events[e].to <= events[f].from

\* A moving position is in the path of one trip and of no other, and if of
\* none, then because the tracker fell silent right after it.
Silent(i) == i = Len(read) \/ Time(i + 1) - Time(i) > MaxGap
MovesAreDriven ==
  done =>
    \A i \in {j \in Positions : Moves(j)} :
      LET trips == {e \in Events : \E k \in DOMAIN events[e].path : events[e].path[k] = i}
      IN Cardinality(trips) = 1 \/ (trips = {} /\ Silent(i))

-----------------------------------------------------------------------------
(* What the history should be, said of all its positions at once.          *)

\* i..j lies between two gaps.
Whole(i, j) == i <= j /\ \A k \in i..(j - 1) : ~Silent(k)
Opens(i) == i = 1 \/ Silent(i - 1)

\* i..j is a stand, as long as it can be, and a stop: it lasted, or nothing is
\* known of what was before it.
IsStop(i, j) ==
  /\ Whole(i, j) /\ \A k \in i..j : ~Moves(k)
  /\ Opens(i) \/ Moves(i - 1)
  /\ Silent(j) \/ Moves(j + 1)
  /\ Opens(i) \/ Time(j) - Time(i) > MinStop

\* i..j is all that lies between two stops or gaps.
StopsBefore(i) == \E h \in 1..(i - 1) : IsStop(h, i - 1)
StopsAt(i) == \E h \in i..Len(read) : IsStop(i, h)
IsTrip(i, j) ==
  /\ Whole(i, j) /\ Moves(i)
  /\ Opens(i) \/ StopsBefore(i)
  /\ \A k \in (i + 1)..j : ~StopsAt(k)
  /\ Silent(j) \/ StopsAt(j + 1)

\* The path goes on for the positions of the stop before it is confirmed.
PathOf(i, j) ==
  {k \in i..Len(read) : k <= j \/ (/\ ~Silent(j) /\ Whole(i, k)
                                   /\ \A h \in (j + 1)..k : ~Moves(h)
                                   /\ Time(k) - Time(j + 1) <= MinStop)}

SpeedsOf(i, j) == {k \in i..j : Moves(k)}
SumOf[K \in SUBSET (1..MaxPositions)] ==
  IF K = {} THEN 0
  ELSE LET k == CHOOSE k \in K : TRUE IN read[k].speed + SumOf[K \ {k}]

StopOf(i, j) ==
  [type |-> "stop", from |-> Time(i), to |-> Time(j), path |-> {},
   fastest |-> 0, total |-> 0, count |-> 0]

TripOf(i, j) ==
  [type |-> "trip", from |-> Time(i), to |-> IF Silent(j) THEN Time(j) ELSE Time(j + 1),
   path |-> PathOf(i, j),
   fastest |-> CHOOSE s \in {read[k].speed : k \in SpeedsOf(i, j)} :
                 \A k \in SpeedsOf(i, j) : read[k].speed <= s,
   total |-> SumOf[SpeedsOf(i, j)], count |-> Cardinality(SpeedsOf(i, j))]

Reference ==
  LET stops == {p \in Positions \X Positions :
                  IsStop(p[1], p[2]) /\ Time(p[2]) - Time(p[1]) > MinShown}
      trips == {p \in Positions \X Positions :
                  IsTrip(p[1], p[2]) /\ Cardinality(PathOf(p[1], p[2])) >= 2}
  IN {StopOf(p[1], p[2]) : p \in stops} \cup {TripOf(p[1], p[2]) : p \in trips}

\* One pass over the positions finds just these events, each once, and the
\* fastest, the sum and the number of the speeds of each trip are its own.
HistoryAsDefined ==
  done =>
    /\ {[events[e] EXCEPT !.path = {@[k] : k \in DOMAIN @}] : e \in Events} = Reference
    /\ Len(events) = Cardinality(Reference)
=============================================================================
