---------------------------- MODULE TripsProofs ----------------------------
(***************************************************************************)
(* Proofs about Trips for any speeds, delays, limits and any number of     *)
(* positions: the analysis keeps its types, the trips and stops that it    *)
(* lists follow one another and share out the moving positions, and they   *)
(* are the ones that the history has by definition.                        *)
(***************************************************************************)
EXTENDS Trips, FiniteSetTheorems, TLAPS

Position == [time: Nat \ {0}, speed: Speeds]
Event == [type: {"trip", "stop"}, from: Nat, to: Nat, path: Seq(Nat),
          fastest: Nat, total: Nat, count: Nat]

\* A list of events of which none begins before the one before it has ended.
Ordered(es) ==
  /\ \A e \in 1..Len(es) : es[e].from <= es[e].to
  /\ \A e, f \in 1..Len(es) : e < f => es[e].to <= es[f].from

\* All of them have ended at a time.
EndedBy(es, time) == \A e \in 1..Len(es) : es[e].to <= time

-----------------------------------------------------------------------------
(* The positions.                                                          *)

LEMMA NowIsTime ==
  ASSUME TypeOK
  PROVE  /\ read \in Seq(Position) /\ Len(read) \in Nat \ {0}
         /\ Now \in Nat \ {0} /\ read[Len(read)] \in Position
<1>1. read \in Seq(Position) /\ read # <<>>
  BY DEF TypeOK, Position
<1>2. Len(read) \in Nat \ {0} /\ read[Len(read)] \in Position
  BY <1>1
<1>3. Now \in Nat \ {0}
  BY <1>2 DEF Now, Position
<1>4. QED
  BY <1>1, <1>2, <1>3

LEMMA ReadsOn ==
  ASSUME TypeOK, NEW delay \in Delays, NEW speed \in Speeds, Reads(delay, speed)
  PROVE  /\ read' \in Seq(Position) /\ read' # <<>>
         /\ Len(read) + 1 \in Nat
         /\ Now' = Now + delay /\ Now <= Now + delay /\ Now + delay \in Nat \ {0}
         /\ speed \in Nat /\ delay \in Nat
         /\ done = FALSE /\ done' = FALSE
<1>1. delay \in Nat /\ speed \in Nat
  BY ConstantsOK
<1>2. Now + delay \in Nat \ {0} /\ Now <= Now + delay
  BY <1>1, NowIsTime
<1>3. [time |-> Now + delay, speed |-> speed] \in Position
  BY <1>2 DEF Position
<1>4. read' = Append(read, [time |-> Now + delay, speed |-> speed])
  BY DEF Reads
<1>5. /\ read' \in Seq(Position) /\ Len(read') = Len(read) + 1
      /\ read'[Len(read')] = [time |-> Now + delay, speed |-> speed]
  BY <1>3, <1>4, NowIsTime
<1>6. Now' = Now + delay
  BY <1>5 DEF Now
<1>7. read' # <<>> /\ Len(read) + 1 \in Nat
  BY <1>4, NowIsTime
<1>8. done = FALSE /\ done' = FALSE
  BY DEF Reads, TypeOK
<1>9. QED
  BY <1>1, <1>2, <1>5, <1>6, <1>7, <1>8

-----------------------------------------------------------------------------
(* The end of a block.                                                     *)

\* An event appended to ordered events keeps their order if it begins when
\* all of them have ended.
LEMMA AppendKeepsOrder ==
  ASSUME NEW es \in Seq(Event), NEW e \in Event,
         Ordered(es), EndedBy(es, e.from), e.from <= e.to
  PROVE  /\ Append(es, e) \in Seq(Event)
         /\ Ordered(Append(es, e)) /\ EndedBy(Append(es, e), e.to)
<1> DEFINE fs == Append(es, e)
<1>1. /\ fs \in Seq(Event) /\ Len(fs) = Len(es) + 1 /\ Len(es) \in Nat
      /\ \A k \in 1..Len(es) : fs[k] = es[k] /\ es[k] \in Event
      /\ fs[Len(es) + 1] = e
  OBVIOUS
<1>2. \A k \in 1..Len(es) : es[k].from \in Nat /\ es[k].to \in Nat
  BY <1>1 DEF Event
<1>3. e.from \in Nat /\ e.to \in Nat
  BY DEF Event
<1> HIDE DEF fs
<1>4. \A k \in 1..Len(fs) : k \in 1..Len(es) \/ k = Len(es) + 1
  BY <1>1
<1>5. Ordered(fs)
  BY <1>1, <1>2, <1>3, <1>4 DEF Ordered, EndedBy
<1>6. EndedBy(fs, e.to)
  BY <1>1, <1>2, <1>3, <1>4 DEF EndedBy
<1>7. QED
  BY <1>1, <1>5, <1>6 DEF fs

LEMMA EndedLater ==
  ASSUME NEW es \in Seq(Event), NEW s \in Nat, NEW t \in Nat, EndedBy(es, s), s <= t
  PROVE  EndedBy(es, t)
<1>1. \A k \in 1..Len(es) : es[k] \in Event
  OBVIOUS
<1>2. \A k \in 1..Len(es) : es[k].to \in Nat
  BY <1>1 DEF Event
<1>3. QED
  BY <1>2 DEF EndedBy

\* What the analysis maintains: what it has listed ended before the block that
\* is open began.
OrderInv == Ordered(events) /\ (~done => EndedBy(events, blockStart))

LEMMA Closing ==
  ASSUME TypeOK, OrderInv, ~done, NEW end \in Nat, blockStart <= end,
         NEW es \in {FinalizeStop(end), FinalizeTrip(end), CloseBlock(end)}
  PROVE  es \in Seq(Event) /\ Ordered(es) /\ EndedBy(es, end)
<1>1. /\ events \in Seq(Event) /\ blockStart \in Nat
      /\ Ordered(events) /\ EndedBy(events, blockStart)
  BY DEF TypeOK, OrderInv, Event
<1> DEFINE stop == [type |-> "stop", from |-> blockStart, to |-> end,
                    path |-> <<>>, fastest |-> 0, total |-> 0, count |-> 0]
           drive == [type |-> "trip", from |-> blockStart, to |-> end,
                     path |-> trip, fastest |-> fastest, total |-> total,
                     count |-> count]
<1>2. stop \in Event /\ stop.from = blockStart /\ stop.to = end
  BY <1>1 DEF Event
<1>3. drive \in Event /\ drive.from = blockStart /\ drive.to = end
  BY <1>1 DEF Event, TypeOK
<1>4. es \in {events, Append(events, stop), Append(events, drive)}
  BY DEF FinalizeStop, FinalizeTrip, CloseBlock
<1> HIDE DEF stop, drive
<1>5. CASE es = events
  BY <1>1, <1>5, EndedLater
<1>6. CASE es = Append(events, stop)
  BY <1>1, <1>2, <1>6, AppendKeepsOrder
<1>7. CASE es = Append(events, drive)
  BY <1>1, <1>3, <1>7, AppendKeepsOrder
<1>8. QED
  BY <1>4, <1>5, <1>6, <1>7
-----------------------------------------------------------------------------
(* The steps.                                                              *)

\* What a turn of the loop has to establish, the position being read.
Turned ==
  /\ state' \in {"moving", "stopped"}
  /\ blockStart' \in Nat \ {0} /\ blockStart' <= Now'
  /\ trip' \in Seq(Nat) /\ (state' = "stopped" <=> trip' = <<>>)
  /\ potential' \in Nat
  /\ potential' # Never => /\ state' = "moving"
                          /\ blockStart' <= potential' /\ potential' <= Now'
  /\ fastest' \in Nat /\ total' \in Nat /\ count' \in Nat
  /\ events' \in Seq(Event) /\ Ordered(events') /\ EndedBy(events', blockStart')

LEMMA OpenedBlock ==
  ASSUME NEW n \in Nat, NEW time \in Nat \ {0}, NEW speed \in Nat,
         fastest \in Nat, total \in Nat, count \in Nat,
         Now' = time, OpenBlock(n, time, speed),
         events' \in Seq(Event), Ordered(events'), EndedBy(events', time)
  PROVE  Turned
<1>1. CASE IsMoving(speed)
  <2>1. /\ state' = "moving" /\ trip' = <<n>> /\ potential' = Never
        /\ blockStart' = time /\ fastest' = speed /\ total' = speed /\ count' = 1
    BY <1>1 DEF OpenBlock, Depart
  <2>2. <<n>> \in Seq(Nat) /\ <<n>> # <<>>
    OBVIOUS
  <2>3. QED
    BY <2>1, <2>2 DEF Turned, Never
<1>2. CASE ~IsMoving(speed)
  BY <1>2 DEF OpenBlock, Settle, Turned, Never
<1>3. QED
  BY <1>1, <1>2

LEMMA GapTurns ==
  ASSUME TypeOK, OrderInv, NEW delay \in Delays, NEW speed \in Speeds, Gap(delay, speed)
  PROVE  Turned
<1>1. Reads(delay, speed) /\ OpenBlock(Len(read) + 1, Now + delay, speed)
  BY DEF Gap
<1>2. blockStart <= Now /\ Now \in Nat /\ events' = CloseBlock(Now) /\ ~done
  BY <1>1, NowIsTime DEF TypeOK, Gap, Reads
<1>3. events' \in Seq(Event) /\ Ordered(events') /\ EndedBy(events', Now)
  BY <1>2, Closing
<1>4. EndedBy(events', Now + delay)
  BY <1>1, <1>2, <1>3, ReadsOn, EndedLater
<1>5. QED
  BY <1>1, <1>3, <1>4, ReadsOn, OpenedBlock DEF TypeOK

LEMMA StartTurns ==
  ASSUME TypeOK, OrderInv, NEW delay \in Delays, NEW speed \in Speeds, Start(delay, speed)
  PROVE  Turned
<1>1. Reads(delay, speed) /\ OpenBlock(Len(read) + 1, Now + delay, speed)
  BY DEF Start
<1>2. blockStart <= Now /\ Now \in Nat /\ events' = FinalizeStop(Now) /\ ~done
  BY <1>1, NowIsTime DEF TypeOK, Start, Reads
<1>3. events' \in Seq(Event) /\ Ordered(events') /\ EndedBy(events', Now)
  BY <1>2, Closing
<1>4. EndedBy(events', Now + delay)
  BY <1>1, <1>2, <1>3, ReadsOn, EndedLater
<1>5. QED
  BY <1>1, <1>3, <1>4, ReadsOn, OpenedBlock DEF TypeOK

\* The stand began in the block that is open.
LEMMA HaltedSince ==
  ASSUME TypeOK, NEW delay \in Delays, NEW speed \in Speeds, Reads(delay, speed)
  PROVE  /\ Halted(Now + delay) \in Nat \ {0}
         /\ blockStart <= Halted(Now + delay) /\ Halted(Now + delay) <= Now + delay
<1>1. /\ Now \in Nat /\ delay \in Nat /\ Now + delay \in Nat \ {0}
      /\ Now <= Now + delay
  BY NowIsTime, ReadsOn
<1>2. /\ blockStart \in Nat \ {0} /\ blockStart <= Now /\ potential \in Nat
      /\ potential # Never => blockStart <= potential /\ potential <= Now
  BY DEF TypeOK
<1>3. blockStart <= Now + delay
  BY <1>1, <1>2
<1>4. CASE potential = Never
  BY <1>1, <1>2, <1>3, <1>4 DEF Halted
<1>5. CASE potential # Never
  BY <1>1, <1>2, <1>5 DEF Halted, Never
<1>6. QED
  BY <1>4, <1>5

LEMMA StopTurns ==
  ASSUME TypeOK, OrderInv, NEW delay \in Delays, NEW speed \in Speeds, Stop(delay, speed)
  PROVE  Turned
<1>1. Reads(delay, speed)
  BY DEF Stop
<1> DEFINE halt == Halted(Now + delay)
<1>2. /\ events' = FinalizeTrip(halt) /\ blockStart' = halt /\ potential' = Never
      /\ Settle /\ ~done
  BY <1>1 DEF Stop, Reads
<1>3. /\ halt \in Nat \ {0} /\ blockStart <= halt /\ halt <= Now'
  BY <1>1, HaltedSince, ReadsOn
<1> HIDE DEF halt
<1>4. events' \in Seq(Event) /\ Ordered(events') /\ EndedBy(events', halt)
  BY <1>2, <1>3, Closing
<1>5. /\ state' = "stopped" /\ trip' = <<>> /\ <<>> \in Seq(Nat)
      /\ fastest' \in Nat /\ total' \in Nat /\ count' \in Nat
  BY <1>2 DEF Settle, TypeOK
<1>6. QED
  BY <1>2, <1>3, <1>4, <1>5 DEF Turned, Never

\* The events are those of before and no block begins.
LEMMA EventsKept ==
  ASSUME TypeOK, OrderInv, ~done, events' = events, blockStart' = blockStart
  PROVE  events' \in Seq(Event) /\ Ordered(events') /\ EndedBy(events', blockStart')
<1>1. events \in Seq(Event)
  BY DEF TypeOK, Event
<1>2. Ordered(events) /\ EndedBy(events, blockStart)
  BY DEF OrderInv
<1>3. QED
  BY <1>1, <1>2

\* No block begins: the open one began before the position that is read.
LEMMA BlockKept ==
  ASSUME TypeOK, NEW delay \in Delays, NEW speed \in Speeds, Reads(delay, speed),
         blockStart' = blockStart
  PROVE  blockStart' \in Nat \ {0} /\ blockStart' <= Now'
<1>1. /\ Now \in Nat /\ Now' = Now + delay /\ delay \in Nat
  BY NowIsTime, ReadsOn
<1>2. blockStart \in Nat \ {0} /\ blockStart <= Now
  BY DEF TypeOK
<1>3. QED
  BY <1>1, <1>2

LEMMA DriveOnTurns ==
  ASSUME TypeOK, OrderInv, NEW delay \in Delays, NEW speed \in Speeds, DriveOn(delay, speed)
  PROVE  Turned
<1>1. Reads(delay, speed)
  BY DEF DriveOn
<1>2. /\ trip' = Append(trip, Len(read) + 1) /\ trip \in Seq(Nat) /\ Len(read) + 1 \in Nat
  BY <1>1, ReadsOn DEF DriveOn, TypeOK
<1>3. trip' \in Seq(Nat) /\ trip' # <<>>
  BY <1>2
<1>4. fastest' \in Nat /\ total' \in Nat /\ count' \in Nat
  <2>1. speed \in Nat
    BY <1>1, ReadsOn
  <2>2. QED
    BY <2>1 DEF DriveOn, TypeOK
<1>5. blockStart' \in Nat \ {0} /\ blockStart' <= Now'
  BY <1>1, BlockKept DEF DriveOn
<1>6. events' \in Seq(Event) /\ Ordered(events') /\ EndedBy(events', blockStart')
  BY <1>1, EventsKept DEF DriveOn, Reads
<1>7. state' = "moving" /\ potential' = Never
  BY DEF DriveOn
<1>8. QED
  BY <1>3, <1>4, <1>5, <1>6, <1>7 DEF Turned, Never

LEMMA PauseTurns ==
  ASSUME TypeOK, OrderInv, NEW delay \in Delays, NEW speed \in Speeds, Pause(delay, speed)
  PROVE  Turned
<1>1. Reads(delay, speed)
  BY DEF Pause
<1>2. /\ trip' = Append(trip, Len(read) + 1) /\ trip \in Seq(Nat) /\ Len(read) + 1 \in Nat
  BY <1>1, ReadsOn DEF Pause, TypeOK
<1>3. trip' \in Seq(Nat) /\ trip' # <<>>
  BY <1>2
<1>4. /\ potential' \in Nat /\ blockStart' <= potential' /\ potential' <= Now'
  BY <1>1, HaltedSince, ReadsOn DEF Pause
<1>5. blockStart' \in Nat \ {0} /\ blockStart' <= Now'
  BY <1>1, BlockKept DEF Pause
<1>6. events' \in Seq(Event) /\ Ordered(events') /\ EndedBy(events', blockStart')
  BY <1>1, EventsKept DEF Pause, Reads
<1>7. state' = "moving" /\ fastest' \in Nat /\ total' \in Nat /\ count' \in Nat
  BY DEF Pause, TypeOK
<1>8. QED
  BY <1>3, <1>4, <1>5, <1>6, <1>7 DEF Turned

LEMMA RestTurns ==
  ASSUME TypeOK, OrderInv, NEW delay \in Delays, NEW speed \in Speeds, Rest(delay, speed)
  PROVE  Turned
<1>1. Reads(delay, speed) /\ state' = "stopped" /\ potential' = Never
  BY DEF Rest, TypeOK
<1>2. blockStart' \in Nat \ {0} /\ blockStart' <= Now'
  BY <1>1, BlockKept DEF Rest
<1>3. events' \in Seq(Event) /\ Ordered(events') /\ EndedBy(events', blockStart')
  BY <1>1, EventsKept DEF Rest, Reads
<1>4. /\ trip' = <<>> /\ <<>> \in Seq(Nat)
      /\ fastest' \in Nat /\ total' \in Nat /\ count' \in Nat
  BY DEF Rest, TypeOK
<1>5. QED
  BY <1>1, <1>2, <1>3, <1>4 DEF Turned, Never

LEMMA Turning ==
  ASSUME TypeOK, Turned, read' \in Seq(Position), read' # <<>>, done' = FALSE
  PROVE  TypeOK' /\ OrderInv'
<1>1. TypeOK'
  BY DEF Turned, TypeOK, Position, Event, Never
<1>2. OrderInv'
  BY DEF Turned, OrderInv
<1>3. QED
  BY <1>1, <1>2

LEMMA Finishing ==
  ASSUME TypeOK, OrderInv, Finish
  PROVE  TypeOK' /\ OrderInv'
<1>1. events' = CloseBlock(Now) /\ blockStart <= Now /\ Now \in Nat /\ ~done
  BY NowIsTime DEF Finish, TypeOK
<1>2. events' \in Seq(Event) /\ Ordered(events')
  BY <1>1, Closing
<1>3. Now' = Now
  BY DEF Finish, Now
<1>4. TypeOK'
  BY <1>2, <1>3 DEF Finish, TypeOK, Event
<1>5. OrderInv'
  BY <1>2 DEF Finish, OrderInv
<1>6. QED
  BY <1>4, <1>5

-----------------------------------------------------------------------------
LEMMA Beginning == Init => TypeOK /\ OrderInv
<1> SUFFICES ASSUME Init PROVE TypeOK /\ OrderInv
  OBVIOUS
<1>1. PICK speed \in Speeds :
        /\ read = <<[time |-> 1, speed |-> speed]>>
        /\ state = IF IsMoving(speed) THEN "moving" ELSE "stopped"
        /\ blockStart = 1 /\ potential = Never
        /\ trip = IF IsMoving(speed) THEN <<1>> ELSE <<>>
        /\ fastest = IF IsMoving(speed) THEN speed ELSE 0
        /\ total = fastest
        /\ count = IF IsMoving(speed) THEN 1 ELSE 0
        /\ events = <<>> /\ done = FALSE
  BY DEF Init
<1>2. speed \in Nat
  BY ConstantsOK
<1>3. /\ read \in Seq([time: Nat \ {0}, speed: Speeds]) /\ read # <<>>
      /\ Now = 1
  BY <1>1 DEF Now
<1>4. trip \in Seq(Nat) /\ (state = "stopped" <=> trip = <<>>)
  BY <1>1
<1>5. events \in Seq(Event) /\ Ordered(events) /\ EndedBy(events, blockStart)
  BY <1>1 DEF Ordered, EndedBy
<1>6. TypeOK
  <2>1. fastest \in Nat /\ total \in Nat /\ count \in Nat
    BY <1>1, <1>2
  <2>2. state \in {"moving", "stopped"} /\ blockStart \in Nat \ {0} /\ blockStart <= Now
    BY <1>1, <1>3
  <2>3. potential \in Nat /\ ~(potential # Never) /\ done \in BOOLEAN
    BY <1>1 DEF Never
  <2>4. QED
    BY <1>3, <1>4, <1>5, <2>1, <2>2, <2>3 DEF TypeOK, Event
<1>7. QED
  BY <1>5, <1>6 DEF OrderInv

LEMMA Stepping == TypeOK /\ OrderInv /\ [Next]_vars => TypeOK' /\ OrderInv'
<1> SUFFICES ASSUME TypeOK, OrderInv, [Next]_vars PROVE TypeOK' /\ OrderInv'
  OBVIOUS
<1>1. ASSUME NEW delay \in Delays, NEW speed \in Speeds,
             \/ Gap(delay, speed) \/ DriveOn(delay, speed) \/ Pause(delay, speed)
             \/ Stop(delay, speed) \/ Start(delay, speed) \/ Rest(delay, speed)
      PROVE  TypeOK' /\ OrderInv'
  <2>1. Reads(delay, speed)
    BY <1>1 DEF Gap, DriveOn, Pause, Stop, Start, Rest
  <2>2. Turned
    BY <1>1, GapTurns, DriveOnTurns, PauseTurns, StopTurns, StartTurns, RestTurns
  <2>3. QED
    BY <2>1, <2>2, ReadsOn, Turning
<1>2. CASE Finish
  BY <1>2, Finishing
<1>3. CASE UNCHANGED vars
  <2>1. /\ read' = read /\ state' = state /\ blockStart' = blockStart /\ trip' = trip
        /\ potential' = potential /\ fastest' = fastest /\ total' = total
        /\ count' = count /\ events' = events /\ done' = done
    BY <1>3 DEF vars
  <2>2. Now' = Now
    BY <2>1 DEF Now
  <2>3. OrderInv'
    BY <2>1 DEF OrderInv
  <2>4. TypeOK'
    BY <2>1, <2>2 DEF TypeOK
  <2>5. QED
    BY <2>3, <2>4
<1>4. QED
  BY <1>1, <1>2, <1>3 DEF Next

\* The inductive invariant holds of every history.
THEOREM Analysed == Spec => [](TypeOK /\ OrderInv)
<1>1. Init => TypeOK /\ OrderInv
  BY Beginning
<1>2. TypeOK /\ OrderInv /\ [Next]_vars => (TypeOK /\ OrderInv)'
  BY Stepping
<1>3. QED
  BY <1>1, <1>2, PTL DEF Spec

\* Every variable of analyzePositions keeps its type, the block that is open
\* began before the last position, and a stop that is waited for after that.
THEOREM TypeCorrect == Spec => []TypeOK
<1>1. TypeOK /\ OrderInv => TypeOK
  OBVIOUS
<1>2. QED
  BY <1>1, Analysed, PTL

\* The trips and stops of a history follow one another without overlap,
\* though stops are dated back to their first standing position.
THEOREM OrderedHistory == Spec => []EventsInOrder
<1>1. TypeOK /\ OrderInv => EventsInOrder
  BY DEF OrderInv, Ordered, EventsInOrder, Events
<1>2. QED
  BY <1>1, Analysed, PTL

-----------------------------------------------------------------------------
(* The paths.                                                              *)

Lists(path, i) == \E k \in DOMAIN path : path[k] = i
Within(path, n) == \A k \in DOMAIN path : path[k] \in 1..n
FoundIn(es, i) == \E e \in 1..Len(es) : Lists(es[e].path, i)

\* Paths of positions up to n, each position in one of them at most.
PathsOnce(es, n) ==
  /\ \A e \in 1..Len(es) : Within(es[e].path, n)
  /\ \A e, f \in 1..Len(es), i \in 1..n :
       Lists(es[e].path, i) /\ Lists(es[f].path, i) => e = f

GapAfter(i) == i < Len(read) /\ Time(i + 1) - Time(i) > MaxGap

\* Until the end: the trip that is open goes up to the last position, and has
\* more than that one when a stop is waited for; a moving position is in it, in
\* an event, or before a gap.
OpenPaths ==
  /\ state = "moving" => trip[Len(trip)] = Len(read)
  /\ potential # Never => Len(trip) >= 2
  /\ Within(trip, Len(read))
  /\ \A i \in Positions : Lists(trip, i) => ~FoundIn(events, i)
  /\ \A i \in Positions : Moves(i) => Lists(trip, i) \/ FoundIn(events, i) \/ GapAfter(i)

PathInv ==
  /\ PathsOnce(events, Len(read))
  /\ ~done => OpenPaths
  /\ done => \A i \in Positions : Moves(i) => FoundIn(events, i) \/ Silent(i)

LEMMA AppendPath ==
  ASSUME NEW es \in Seq(Event), NEW e \in Event, NEW n \in Nat, PathsOnce(es, n),
         Within(e.path, n), \A i \in 1..n : Lists(e.path, i) => ~FoundIn(es, i)
  PROVE  /\ PathsOnce(Append(es, e), n)
         /\ \A i : FoundIn(Append(es, e), i) <=> FoundIn(es, i) \/ Lists(e.path, i)
<1> DEFINE fs == Append(es, e)
<1>1. /\ Len(fs) = Len(es) + 1 /\ Len(es) \in Nat
      /\ \A k \in 1..Len(es) : fs[k] = es[k]
      /\ fs[Len(es) + 1] = e
  OBVIOUS
<1> HIDE DEF fs
<1>2. 1..Len(fs) = 1..Len(es) \cup {Len(es) + 1}
  BY <1>1
<1>3. \A i : FoundIn(fs, i) <=> FoundIn(es, i) \/ Lists(e.path, i)
  BY <1>1, <1>2 DEF FoundIn
<1>4. \A f \in 1..Len(fs) : Within(fs[f].path, n)
  BY <1>1, <1>2 DEF PathsOnce
<1>5. ASSUME NEW f \in 1..Len(fs), NEW g \in 1..Len(fs), NEW i \in 1..n,
             Lists(fs[f].path, i), Lists(fs[g].path, i)
      PROVE  f = g
  <2>1. CASE f \in 1..Len(es) /\ g \in 1..Len(es)
    BY <1>1, <1>5, <2>1 DEF PathsOnce
  <2>2. CASE f = Len(es) + 1 /\ g \in 1..Len(es)
    BY <1>1, <1>5, <2>2 DEF FoundIn
  <2>3. CASE f \in 1..Len(es) /\ g = Len(es) + 1
    BY <1>1, <1>5, <2>3 DEF FoundIn
  <2>4. QED
    BY <1>2, <2>1, <2>2, <2>3
<1>6. QED
  BY <1>3, <1>4, <1>5 DEF PathsOnce, fs

\* What closing the open block leaves: nothing is lost but a trip of a single
\* position, the last one.
LEMMA ClosedPaths ==
  ASSUME TypeOK, PathInv, ~done, NEW end \in Nat, NEW es,
         \/ state = "moving" /\ es = FinalizeTrip(end)
         \/ state = "stopped" /\ es = FinalizeStop(end)
  PROVE  /\ PathsOnce(es, Len(read))
         /\ \A i \in Positions : Moves(i) =>
              \/ FoundIn(es, i) \/ GapAfter(i)
              \/ state = "moving" /\ Len(trip) < 2 /\ i = Len(read)
<1>1. /\ events \in Seq(Event) /\ trip \in Seq(Nat) /\ blockStart \in Nat /\ Len(read) \in Nat
      /\ (state = "stopped" <=> trip = <<>>) /\ state \in {"moving", "stopped"}
      /\ fastest \in Nat /\ total \in Nat /\ count \in Nat
  BY NowIsTime DEF TypeOK, Event
<1>2. PathsOnce(events, Len(read)) /\ OpenPaths
  BY DEF PathInv
<1>3. CASE state = "stopped" /\ es = FinalizeStop(end)
  <2> DEFINE stop == [type |-> "stop", from |-> blockStart, to |-> end,
                      path |-> <<>>, fastest |-> 0, total |-> 0, count |-> 0]
  <2>1. stop \in Event /\ stop.path = <<>>
    BY <1>1 DEF Event
  <2>2. es \in {events, Append(events, stop)}
    BY <1>3 DEF FinalizeStop
  <2> HIDE DEF stop
  <2>3. \A i : ~Lists(trip, i) /\ ~Lists(stop.path, i)
    BY <1>1, <1>3, <2>1 DEF Lists
  <2>4. Within(stop.path, Len(read))
    BY <2>1 DEF Within
  <2>5. /\ PathsOnce(es, Len(read))
        /\ \A i : FoundIn(events, i) => FoundIn(es, i)
    <3>1. CASE es = events
      BY <1>2, <3>1
    <3>2. CASE es = Append(events, stop)
      BY <1>1, <1>2, <2>1, <2>3, <2>4, <3>2, AppendPath
    <3>3. QED
      BY <2>2, <3>1, <3>2
  <2>6. \A i \in Positions : Moves(i) => FoundIn(events, i) \/ GapAfter(i)
    BY <1>2, <2>3 DEF OpenPaths
  <2>7. QED
    BY <2>5, <2>6
<1>4. CASE state = "moving" /\ es = FinalizeTrip(end) /\ Len(trip) >= 2
  <2> DEFINE drive == [type |-> "trip", from |-> blockStart, to |-> end,
                       path |-> trip, fastest |-> fastest, total |-> total,
                       count |-> count]
  <2>1. drive \in Event /\ drive.path = trip
    BY <1>1 DEF Event
  <2>2. es = Append(events, drive)
    BY <1>4 DEF FinalizeTrip
  <2> HIDE DEF drive
  <2>3. /\ PathsOnce(es, Len(read))
        /\ \A i : FoundIn(es, i) <=> FoundIn(events, i) \/ Lists(trip, i)
    BY <1>1, <1>2, <2>1, <2>2, AppendPath DEF OpenPaths, Positions
  <2>4. QED
    BY <1>2, <2>3 DEF OpenPaths
<1>5. CASE state = "moving" /\ es = FinalizeTrip(end) /\ ~(Len(trip) >= 2)
  <2>1. es = events
    BY <1>5 DEF FinalizeTrip
  <2>2. Len(trip) = 1 /\ Len(trip) < 2
    <3>1. trip # <<>>
      BY <1>1, <1>5
    <3>2. Len(trip) \in Nat /\ Len(trip) # 0
      BY <1>1, <3>1
    <3>3. ~(Len(trip) >= 2)
      BY <1>5
    <3>4. QED
      BY <3>2, <3>3
  <2>3. \A i : Lists(trip, i) => i = Len(read)
    BY <1>1, <1>2, <1>5, <2>2 DEF Lists, OpenPaths
  <2>4. QED
    BY <1>2, <1>5, <2>1, <2>2, <2>3 DEF OpenPaths
<1>6. QED
  BY <1>1, <1>3, <1>4, <1>5

\* The history after one more position is read.
LEMMA OnePositionMore ==
  ASSUME TypeOK, NEW delay \in Delays, NEW speed \in Speeds, Reads(delay, speed)
  PROVE  /\ Len(read) \in Nat \ {0} /\ Len(read') = Len(read) + 1
         /\ Positions' = Positions \cup {Len(read) + 1} /\ Len(read) + 1 \notin Positions
         /\ \A i \in Positions : (Moves(i)' <=> Moves(i)) /\ (GapAfter(i) => GapAfter(i)')
         /\ \A i : i = Len(read) + 1 => (Moves(i)' <=> IsMoving(speed))
         /\ delay > MaxGap => \A i : i = Len(read) => GapAfter(i)'
<1> DEFINE n == Len(read)
           p == [time |-> Now + delay, speed |-> speed]
<1>1. read \in Seq(Position) /\ n \in Nat \ {0} /\ p \in Position /\ p.time = Now + delay
      /\ p.speed = speed
  BY NowIsTime, ReadsOn DEF Position
<1>2. read' = Append(read, p)
  BY DEF Reads
<1>3. /\ Len(read') = n + 1 /\ read'[n + 1] = p
      /\ \A i \in 1..n : read'[i] = read[i]
  BY <1>1, <1>2
<1>4. Now \in Nat /\ delay \in Nat /\ read[n].time = Now
  BY NowIsTime, ReadsOn DEF Now
<1> HIDE DEF n, p
<1>5. Positions = 1..n /\ Positions' = 1..(n + 1) /\ 1..(n + 1) = 1..n \cup {n + 1}
  BY <1>1, <1>3 DEF Positions, n
<1>6. \A i \in 1..n : Moves(i)' <=> Moves(i)
  BY <1>3 DEF Moves
<1>7. ASSUME NEW i, i = n + 1
      PROVE  Moves(i)' <=> IsMoving(speed)
  BY <1>1, <1>3, <1>7 DEF Moves, IsMoving
<1>8. ASSUME NEW i \in 1..n, GapAfter(i)
      PROVE  GapAfter(i)'
  <2>1. i < n /\ read[i + 1].time - read[i].time > MaxGap
    BY <1>8 DEF GapAfter, Time, n
  <2>2. i + 1 \in 1..n
    BY <1>1, <2>1
  <2>3. read'[i + 1].time - read'[i].time > MaxGap /\ i < n + 1
    BY <1>1, <1>3, <2>1, <2>2
  <2>4. QED
    BY <1>3, <2>3 DEF GapAfter, Time
<1>9. ASSUME delay > MaxGap, NEW i, i = n
      PROVE  GapAfter(i)'
  <2>1. read'[i + 1].time = Now + delay /\ read'[i].time = Now
    BY <1>1, <1>3, <1>4, <1>9
  <2>2. (Now + delay) - Now > MaxGap /\ i < n + 1
    BY <1>1, <1>4, <1>9, ConstantsOK
  <2>3. QED
    BY <1>3, <2>1, <2>2 DEF GapAfter, Time
<1>10. QED
  BY <1>1, <1>3, <1>5, <1>6, <1>7, <1>8, <1>9 DEF n

\* What a turn has to establish of the paths.
LEMMA PathsTurn ==
  ASSUME TypeOK, NEW delay \in Delays, NEW speed \in Speeds, Reads(delay, speed),
         PathsOnce(events', Len(read)),
         state' = "moving" => trip'[Len(trip')] = Len(read) + 1,
         potential' # Never => Len(trip') >= 2,
         Within(trip', Len(read) + 1),
         \A i \in 1..(Len(read) + 1) : Lists(trip', i) => ~FoundIn(events', i),
         \A i \in Positions : Moves(i) =>
           \/ Lists(trip', i) \/ FoundIn(events', i) \/ GapAfter(i)
           \/ i = Len(read) /\ delay > MaxGap,
         IsMoving(speed) => Lists(trip', Len(read) + 1)
  PROVE  PathInv'
<1>1. /\ Len(read) \in Nat \ {0} /\ Len(read') = Len(read) + 1
      /\ Positions' = Positions \cup {Len(read) + 1}
      /\ \A i \in Positions : (Moves(i)' <=> Moves(i)) /\ (GapAfter(i) => GapAfter(i)')
      /\ \A i : i = Len(read) + 1 => (Moves(i)' <=> IsMoving(speed))
      /\ delay > MaxGap => \A i : i = Len(read) => GapAfter(i)'
  BY OnePositionMore
<1>2. Positions = 1..Len(read) /\ Positions' = 1..(Len(read) + 1)
  BY <1>1 DEF Positions
<1>3. PathsOnce(events', Len(read) + 1)
  <2> DEFINE n == Len(read)
  <2>1. n \in Nat /\ 1..(n + 1) = 1..n \cup {n + 1} /\ n + 1 \notin 1..n
    BY <1>1
  <2>2. \A e \in 1..Len(events') : Within(events'[e].path, n)
    BY DEF PathsOnce
  <2> HIDE DEF n
  <2>3. \A e \in 1..Len(events') : Within(events'[e].path, n + 1)
    BY <2>1, <2>2 DEF Within
  <2>4. \A e \in 1..Len(events') : ~Lists(events'[e].path, n + 1)
    BY <2>1, <2>2 DEF Within, Lists
  <2>5. \A e, f \in 1..Len(events'), i \in 1..n :
          Lists(events'[e].path, i) /\ Lists(events'[f].path, i) => e = f
    BY DEF PathsOnce, n
  <2>6. \A e, f \in 1..Len(events'), i \in 1..(n + 1) :
          Lists(events'[e].path, i) /\ Lists(events'[f].path, i) => e = f
    BY <2>1, <2>4, <2>5
  <2>7. QED
    BY <2>3, <2>6 DEF PathsOnce, n
<1>4. ASSUME NEW i \in Positions', Moves(i)'
      PROVE  Lists(trip', i) \/ FoundIn(events', i) \/ GapAfter(i)'
  <2>1. CASE i \in Positions
    BY <1>1, <1>4, <2>1
  <2>2. CASE i = Len(read) + 1
    BY <1>1, <1>4, <2>2
  <2>3. QED
    BY <1>1, <2>1, <2>2
<1>5. OpenPaths'
  <2>1. (\A i \in Positions : Lists(trip, i) => ~FoundIn(events, i))'
    BY <1>2
  <2>2. (\A i \in Positions : Moves(i) => Lists(trip, i) \/ FoundIn(events, i) \/ GapAfter(i))'
    BY <1>4
  <2>3. Within(trip', Len(read'))
    BY <1>1
  <2>4. QED
    BY <1>1, <2>1, <2>2, <2>3 DEF OpenPaths
<1>6. done' = FALSE
  BY ReadsOn
<1>7. QED
  BY <1>1, <1>3, <1>5, <1>6 DEF PathInv

\* A block that opens lists nothing but the position just read.
LEMMA OpenedPaths ==
  ASSUME TypeOK, NEW delay \in Delays, NEW speed \in Speeds, Reads(delay, speed),
         OpenBlock(Len(read) + 1, Now + delay, speed) \/
           (Settle /\ potential' = Never /\ ~IsMoving(speed)),
         PathsOnce(events', Len(read)),
         \A i \in Positions : Moves(i) =>
           FoundIn(events', i) \/ GapAfter(i) \/ (i = Len(read) /\ delay > MaxGap)
  PROVE  PathInv'
<1> DEFINE n == Len(read)
<1>1. n \in Nat \ {0} /\ n + 1 \notin 1..n /\ n + 1 \in 1..(n + 1)
  BY NowIsTime
<1>2. /\ potential' = Never
      /\ \/ IsMoving(speed) /\ state' = "moving" /\ trip' = <<n + 1>>
         \/ ~IsMoving(speed) /\ state' = "stopped" /\ trip' = <<>>
  BY DEF OpenBlock, Depart, Settle
<1>3. \A i : Lists(trip', i) => i = n + 1 /\ IsMoving(speed)
  BY <1>2 DEF Lists
<1>4. IsMoving(speed) => Lists(trip', n + 1) /\ trip'[Len(trip')] = n + 1
  <2> HIDE DEF n
  <2>1. SUFFICES ASSUME IsMoving(speed)
                 PROVE  Lists(trip', n + 1) /\ trip'[Len(trip')] = n + 1
    OBVIOUS
  <2>2. 1 \in DOMAIN trip' /\ trip'[1] = n + 1 /\ Len(trip') = 1
    BY <1>2, <2>1
  <2>3. QED
    BY <2>2 DEF Lists
<1>5. Within(trip', n + 1)
  BY <1>1, <1>2 DEF Within
<1>6. ~FoundIn(events', n + 1)
  BY <1>1 DEF PathsOnce, FoundIn, Within, Lists
<1>7. QED
  BY <1>2, <1>3, <1>4, <1>5, <1>6, PathsTurn

LEMMA GapKeepsPaths ==
  ASSUME TypeOK, PathInv, NEW delay \in Delays, NEW speed \in Speeds, Gap(delay, speed)
  PROVE  PathInv'
<1>1. /\ Reads(delay, speed) /\ ~done /\ delay > MaxGap
      /\ OpenBlock(Len(read) + 1, Now + delay, speed)
      /\ events' = CloseBlock(Now) /\ Now \in Nat
  BY NowIsTime DEF Gap, Reads
<1>2. \/ state = "moving" /\ events' = FinalizeTrip(Now)
      \/ state = "stopped" /\ events' = FinalizeStop(Now)
  BY <1>1 DEF CloseBlock, TypeOK
<1>3. /\ PathsOnce(events', Len(read))
      /\ \A i \in Positions : Moves(i) => FoundIn(events', i) \/ GapAfter(i) \/ i = Len(read)
  BY <1>1, <1>2, ClosedPaths
<1>4. QED
  BY <1>1, <1>3, OpenedPaths

LEMMA StartKeepsPaths ==
  ASSUME TypeOK, PathInv, NEW delay \in Delays, NEW speed \in Speeds, Start(delay, speed)
  PROVE  PathInv'
<1>1. /\ Reads(delay, speed) /\ ~done
      /\ OpenBlock(Len(read) + 1, Now + delay, speed)
      /\ state = "stopped" /\ events' = FinalizeStop(Now) /\ Now \in Nat
  BY NowIsTime DEF Start, Reads
<1>2. /\ PathsOnce(events', Len(read))
      /\ \A i \in Positions : Moves(i) => FoundIn(events', i) \/ GapAfter(i)
  BY <1>1, ClosedPaths
<1>3. QED
  BY <1>1, <1>2, OpenedPaths

\* A stop is confirmed only after one more standing position, so the trip that
\* it ends has two positions at least and is listed.
LEMMA StopKeepsPaths ==
  ASSUME TypeOK, PathInv, NEW delay \in Delays, NEW speed \in Speeds, Stop(delay, speed)
  PROVE  PathInv'
<1>1. /\ Reads(delay, speed) /\ ~done /\ Settle /\ potential' = Never /\ ~IsMoving(speed)
      /\ state = "moving" /\ events' = FinalizeTrip(Halted(Now + delay))
      /\ Now + delay - Halted(Now + delay) > MinStop
  BY DEF Stop, Reads
<1>2. Halted(Now + delay) \in Nat
  BY <1>1, HaltedSince
<1>3. potential # Never
  <2>1. SUFFICES ASSUME potential = Never PROVE FALSE
    OBVIOUS
  <2>2. Halted(Now + delay) = Now + delay
    BY <2>1 DEF Halted
  <2>3. Now \in Nat /\ delay \in Nat /\ MinStop \in Nat
    BY <1>1, NowIsTime, ReadsOn, ConstantsOK
  <2>4. Now + delay - (Now + delay) > MinStop
    BY <1>1, <2>2
  <2>5. QED
    BY <2>3, <2>4
<1>4. Len(trip) >= 2 /\ Len(trip) \in Nat
  BY <1>1, <1>3 DEF PathInv, OpenPaths, TypeOK
<1>5. ~(Len(trip) < 2)
  BY <1>4
<1>6. /\ PathsOnce(events', Len(read))
      /\ \A i \in Positions : Moves(i) => FoundIn(events', i) \/ GapAfter(i)
  BY <1>1, <1>2, <1>5, ClosedPaths
<1>7. QED
  BY <1>1, <1>6, OpenedPaths

\* The trip that is open goes on with the position just read.
LEMMA LongerTripKeepsPaths ==
  ASSUME TypeOK, PathInv, NEW delay \in Delays, NEW speed \in Speeds, 
         DriveOn(delay, speed) \/ Pause(delay, speed)
  PROVE  PathInv'
<1> DEFINE n == Len(read)
<1>1. /\ Reads(delay, speed) /\ ~done /\ state = "moving" /\ events' = events
      /\ trip' = Append(trip, n + 1)
  BY DEF DriveOn, Pause, Reads
<1>2. n \in Nat \ {0} /\ n + 1 \notin 1..n /\ 1..(n + 1) = 1..n \cup {n + 1}
  BY NowIsTime
<1>3. trip \in Seq(Nat) /\ trip # <<>>
  BY <1>1 DEF TypeOK
<1>4. PathsOnce(events, n) /\ OpenPaths
  BY <1>1 DEF PathInv
<1>5. /\ Len(trip') = Len(trip) + 1 /\ Len(trip) \in Nat \ {0}
      /\ \A k \in 1..Len(trip) : trip'[k] = trip[k]
      /\ trip'[Len(trip) + 1] = n + 1
      /\ DOMAIN trip = 1..Len(trip) /\ DOMAIN trip' = 1..(Len(trip) + 1)
  <2>1. n + 1 \in Nat
    BY <1>2
  <2> HIDE DEF n
  <2>2. QED
    BY <1>1, <1>3, <2>1
<1>6. Len(trip') >= 2 /\ trip'[Len(trip')] = n + 1
  BY <1>5
<1>7. 1..(Len(trip) + 1) = 1..Len(trip) \cup {Len(trip) + 1}
  BY <1>5
<1> HIDE DEF n
<1>8. \A i : Lists(trip', i) <=> Lists(trip, i) \/ i = n + 1
  BY <1>5, <1>7 DEF Lists
<1>9. Within(trip', n + 1)
  BY <1>2, <1>4, <1>5, <1>7 DEF Within, OpenPaths, n
<1>10. ~FoundIn(events, n + 1) /\ ~Lists(trip, n + 1)
  BY <1>2, <1>4 DEF PathsOnce, FoundIn, Within, Lists, OpenPaths, n
<1>11. \A i \in 1..(n + 1) : Lists(trip', i) => ~FoundIn(events', i)
  BY <1>1, <1>2, <1>4, <1>8, <1>10 DEF OpenPaths, Positions, n
<1>12. \A i \in Positions : Moves(i) => Lists(trip', i) \/ FoundIn(events', i) \/ GapAfter(i)
  BY <1>1, <1>4, <1>8 DEF OpenPaths
<1>13. QED
  BY <1>1, <1>4, <1>6, <1>8, <1>9, <1>11, <1>12, PathsTurn DEF n

LEMMA RestKeepsPaths ==
  ASSUME TypeOK, PathInv, NEW delay \in Delays, NEW speed \in Speeds, Rest(delay, speed)
  PROVE  PathInv'
<1>1. /\ Reads(delay, speed) /\ ~done /\ ~IsMoving(speed) /\ events' = events
      /\ state = "stopped" /\ state' = "stopped" /\ trip' = trip /\ potential' = potential
  BY DEF Rest, Reads
<1>2. trip = <<>> /\ potential = Never
  BY <1>1 DEF TypeOK
<1>3. \A i : ~Lists(trip, i)
  BY <1>2 DEF Lists
<1>4. Within(trip, Len(read) + 1)
  BY <1>2 DEF Within
<1>5. PathsOnce(events, Len(read)) /\ OpenPaths
  BY <1>1 DEF PathInv
<1>6. \A i \in Positions : Moves(i) => FoundIn(events, i) \/ GapAfter(i)
  BY <1>3, <1>5 DEF OpenPaths
<1>7. QED
  BY <1>1, <1>2, <1>3, <1>4, <1>5, <1>6, PathsTurn

LEMMA FinishKeepsPaths ==
  ASSUME TypeOK, PathInv, Finish
  PROVE  PathInv'
<1>1. /\ ~done /\ done' = TRUE /\ read' = read
      /\ events' = CloseBlock(Now) /\ Now \in Nat
  BY NowIsTime DEF Finish
<1>2. \/ state = "moving" /\ events' = FinalizeTrip(Now)
      \/ state = "stopped" /\ events' = FinalizeStop(Now)
  BY <1>1 DEF CloseBlock, TypeOK
<1>3. /\ PathsOnce(events', Len(read))
      /\ \A i \in Positions : Moves(i) => FoundIn(events', i) \/ GapAfter(i) \/ i = Len(read)
  BY <1>1, <1>2, ClosedPaths
<1>4. \A i \in Positions : Moves(i) => FoundIn(events', i) \/ Silent(i)
  BY <1>3 DEF GapAfter, Silent
<1>5. (\A i \in Positions : Moves(i) => FoundIn(events, i) \/ Silent(i))'
  BY <1>1, <1>4 DEF Positions, Moves, Silent, Time
<1>6. QED
  BY <1>1, <1>3, <1>5 DEF PathInv

LEMMA FirstPath == Init => PathInv
<1> SUFFICES ASSUME Init PROVE PathInv
  OBVIOUS
<1>1. PICK speed \in Speeds :
        /\ read = <<[time |-> 1, speed |-> speed]>>
        /\ state = IF IsMoving(speed) THEN "moving" ELSE "stopped"
        /\ potential = Never
        /\ trip = IF IsMoving(speed) THEN <<1>> ELSE <<>>
        /\ events = <<>> /\ done = FALSE
  BY DEF Init
<1>2. Len(read) = 1 /\ Positions = {1} /\ read[1].speed = speed
  BY <1>1 DEF Positions
<1>3. PathsOnce(events, Len(read)) /\ \A i : ~FoundIn(events, i)
  BY <1>1 DEF PathsOnce, FoundIn
<1>4. Within(trip, Len(read)) /\ (state = "moving" => trip[Len(trip)] = Len(read))
  BY <1>1, <1>2 DEF Within
<1>5. Moves(1) => Lists(trip, 1)
  BY <1>1, <1>2 DEF Moves, Lists
<1>6. OpenPaths
  BY <1>1, <1>2, <1>3, <1>4, <1>5 DEF OpenPaths
<1>7. QED
  BY <1>1, <1>3, <1>6 DEF PathInv

LEMMA NextKeepsPaths == TypeOK /\ PathInv /\ [Next]_vars => PathInv'
<1> SUFFICES ASSUME TypeOK, PathInv, [Next]_vars PROVE PathInv'
  OBVIOUS
<1>1. ASSUME NEW delay \in Delays, NEW speed \in Speeds,
             \/ Gap(delay, speed) \/ DriveOn(delay, speed) \/ Pause(delay, speed)
             \/ Stop(delay, speed) \/ Start(delay, speed) \/ Rest(delay, speed)
      PROVE  PathInv'
  BY <1>1, GapKeepsPaths, LongerTripKeepsPaths, StopKeepsPaths, StartKeepsPaths, RestKeepsPaths
<1>2. CASE Finish
  BY <1>2, FinishKeepsPaths
<1>3. CASE UNCHANGED vars
  <2>1. /\ read' = read /\ state' = state /\ trip' = trip /\ potential' = potential
        /\ events' = events /\ done' = done
    BY <1>3 DEF vars
  <2>2. QED
    BY <2>1 DEF PathInv, OpenPaths, Positions, Moves, GapAfter, Silent, Time
<1>4. QED
  BY <1>1, <1>2, <1>3 DEF Next

\* No drive is lost or listed twice: a moving position is in the path of just
\* one trip, or is the only one of a trip that silence ended, which FinalizeTrip
\* leaves out.  In particular, a trip that a stop ends is never left out.
THEOREM DrivenOnce == Spec => []MovesAreDriven
<1>1. TypeOK /\ PathInv => MovesAreDriven
  <2> SUFFICES ASSUME TypeOK, PathInv, done, NEW i \in Positions, Moves(i)
               PROVE  LET trips == {e \in Events : \E k \in DOMAIN events[e].path :
                                                     events[e].path[k] = i}
                      IN Cardinality(trips) = 1 \/ (trips = {} /\ Silent(i))
    BY DEF MovesAreDriven
  <2> DEFINE trips == {e \in Events : Lists(events[e].path, i)}
  <2>1. CASE FoundIn(events, i)
    <3>1. PICK e \in Events : Lists(events[e].path, i)
      BY <2>1 DEF FoundIn, Events
    <3>2. \A f \in Events : Lists(events[f].path, i) => f = e
      BY <3>1 DEF PathInv, PathsOnce, Events, Positions
    <3>3. trips = {e}
      BY <3>1, <3>2
    <3>4. Cardinality(trips) = 1
      BY <3>3, FS_Singleton
    <3>5. QED
      BY <3>4 DEF Lists
  <2>2. CASE ~FoundIn(events, i)
    <3>1. Silent(i)
      BY <2>2 DEF PathInv
    <3>2. trips = {}
      BY <2>2 DEF FoundIn, Events
    <3>3. QED
      BY <3>1, <3>2 DEF Lists
  <2>3. QED
    BY <2>1, <2>2
<1>2. TypeOK /\ PathInv /\ [Next]_vars => PathInv'
  BY NextKeepsPaths
<1>3. QED
  BY <1>1, <1>2, FirstPath, TypeCorrect, PTL DEF Spec

-----------------------------------------------------------------------------
(* The sum of the speeds of some positions.                                *)

\* Every nonempty collection of sets of positions has a smallest one: what
\* holds of the larger sets follows from what holds of the smaller ones.
LEMMA SmallestSet ==
  ASSUME NEW S, IsFiniteSet(S), NEW W \in SUBSET (SUBSET S), W # {}
  PROVE  \E K \in W : \A L \in W : L \subseteq K => L = K
<1>1. FiniteSubsetsOf(S) = SUBSET S
  BY FS_FiniteSubsetsOfFinite
<1>2. IsWellFoundedOn(StrictSubsetOrdering(S), SUBSET S)
  BY <1>1, FS_StrictSubsetOrderingWellFounded
<1>3. PICK K \in W : \A L \in W : <<L, K>> \notin StrictSubsetOrdering(S)
  BY <1>2, WFMin
<1>4. ASSUME NEW L \in W, L \subseteq K
      PROVE  L = K
  <2>1. L \in SUBSET S /\ K \in SUBSET S
    OBVIOUS
  <2>2. SUFFICES ASSUME L # K PROVE <<L, K>> \in StrictSubsetOrdering(S)
    BY <1>3
  <2>3. QED
    BY <1>4, <2>1, <2>2 DEF StrictSubsetOrdering
<1>5. QED
  BY <1>4

\* f sums the speeds of history r over the subsets of S, as SumOf does.
AnyOf(K) == CHOOSE k \in K : TRUE
Summing(f, r, S) ==
  f = [K \in SUBSET S |-> IF K = {} THEN 0
                          ELSE r[AnyOf(K)].speed + f[K \ {AnyOf(K)}]]

\* What such a function says of one set.
LEMMA SummingStep ==
  ASSUME NEW f, NEW r, NEW S, Summing(f, r, S), NEW K \in SUBSET S
  PROVE  /\ K = {} => f[K] = 0
         /\ K # {} => /\ AnyOf(K) \in K
                      /\ K \ {AnyOf(K)} \in SUBSET S
                      /\ K \ {AnyOf(K)} # K
                      /\ f[K] = r[AnyOf(K)].speed + f[K \ {AnyOf(K)}]
<1>1. f[K] = IF K = {} THEN 0 ELSE r[AnyOf(K)].speed + f[K \ {AnyOf(K)}]
  BY DEF Summing
<1>2. K # {} => AnyOf(K) \in K
  BY DEF AnyOf
<1>3. QED
  BY <1>1, <1>2

\* The sum depends on the speeds of the set only.
LEMMA SumsAgree ==
  ASSUME NEW f, NEW r, NEW S, Summing(f, r, S), IsFiniteSet(S),
         NEW g, NEW q, NEW T, Summing(g, q, T),
         NEW K \in SUBSET S, K \subseteq T,
         \A k \in K : r[k].speed = q[k].speed
  PROVE  f[K] = g[K]
<1> DEFINE W == {L \in SUBSET K : f[L] # g[L]}
<1>1. SUFFICES ASSUME W # {} PROVE FALSE
  OBVIOUS
<1>2. W \in SUBSET (SUBSET S)
  OBVIOUS
<1> HIDE DEF W
<1>3. PICK L \in W : \A M \in W : M \subseteq L => M = L
  BY <1>1, <1>2, SmallestSet
<1>4. L \in SUBSET S /\ L \in SUBSET T /\ L \in SUBSET K /\ f[L] # g[L]
  BY DEF W
<1>5. L # {}
  BY <1>4, SummingStep
<1>6. /\ f[L] = r[AnyOf(L)].speed + f[L \ {AnyOf(L)}]
      /\ g[L] = q[AnyOf(L)].speed + g[L \ {AnyOf(L)}]
      /\ AnyOf(L) \in L /\ L \ {AnyOf(L)} # L
  BY <1>4, <1>5, SummingStep
<1>7. f[L \ {AnyOf(L)}] = g[L \ {AnyOf(L)}]
  <2>1. L \ {AnyOf(L)} \notin W
    BY <1>3, <1>6
  <2>2. QED
    BY <1>4, <2>1 DEF W
<1>8. r[AnyOf(L)].speed = q[AnyOf(L)].speed
  BY <1>4, <1>6
<1>9. QED
  BY <1>4, <1>6, <1>7, <1>8

\* There is such a function for every finite set.
LEMMA SummingExists ==
  ASSUME NEW r, NEW S, IsFiniteSet(S)
  PROVE  \E f : Summing(f, r, S)
<1> DEFINE W == {K \in SUBSET S : ~\E f : Summing(f, r, K)}
<1>1. SUFFICES ASSUME W # {} PROVE FALSE
  <2>1. W = {} => S \notin W
    OBVIOUS
  <2>2. QED
    BY <2>1
<1>2. W \in SUBSET (SUBSET S)
  OBVIOUS
<1> HIDE DEF W
<1>3. PICK K \in W : \A L \in W : L \subseteq K => L = K
  BY <1>1, <1>2, SmallestSet
<1>4. K \in SUBSET S /\ IsFiniteSet(K) /\ ~\E f : Summing(f, r, K)
  BY FS_Subset DEF W
<1> DEFINE SumOn(L) == CHOOSE f : Summing(f, r, L)
<1>5. ASSUME NEW L \in SUBSET K, L # K
      PROVE  Summing(SumOn(L), r, L)
  <2>1. L \notin W /\ L \in SUBSET S
    BY <1>3, <1>4, <1>5
  <2>2. \E f : Summing(f, r, L)
    BY <2>1 DEF W
  <2>3. QED
    BY <2>2
<1> HIDE DEF SumOn
<1> DEFINE all == [L \in SUBSET K |-> IF L = {} THEN 0
                     ELSE r[AnyOf(L)].speed + SumOn(L \ {AnyOf(L)})[L \ {AnyOf(L)}]]
<1>6. ASSUME NEW L \in SUBSET K, L # K
      PROVE  all[L] = SumOn(L)[L]
  <2>1. Summing(SumOn(L), r, L) /\ L \in SUBSET L
    BY <1>5, <1>6
  <2>2. CASE L = {}
    BY <2>1, <2>2, SummingStep
  <2>3. CASE L # {}
    <3> DEFINE M == L \ {AnyOf(L)}
    <3>1. /\ SumOn(L)[L] = r[AnyOf(L)].speed + SumOn(L)[M]
          /\ M \in SUBSET L /\ M # L
      BY <2>1, <2>3, SummingStep
    <3>2. M \in SUBSET K /\ M # K /\ IsFiniteSet(L)
      BY <1>4, <3>1, FS_Subset
    <3>3. Summing(SumOn(M), r, M) /\ M \in SUBSET M
      BY <1>5, <3>2
    <3>4. SumOn(L)[M] = SumOn(M)[M]
      BY <2>1, <3>1, <3>2, <3>3, SumsAgree
    <3>5. all[L] = r[AnyOf(L)].speed + SumOn(M)[M]
      BY <2>3
    <3>6. QED
      BY <3>1, <3>4, <3>5
  <2>4. QED
    BY <2>2, <2>3
<1>7. ASSUME NEW L \in SUBSET K, L # {}
      PROVE  /\ L \ {AnyOf(L)} \in SUBSET K /\ L \ {AnyOf(L)} # K
  <2>1. AnyOf(L) \in L
    BY <1>7 DEF AnyOf
  <2>2. QED
    BY <2>1
<1>8. ASSUME NEW L \in SUBSET K
      PROVE  all[L] = IF L = {} THEN 0 ELSE r[AnyOf(L)].speed + all[L \ {AnyOf(L)}]
  <2>1. CASE L = {}
    BY <2>1
  <2>2. CASE L # {}
    <3>1. all[L] = r[AnyOf(L)].speed + SumOn(L \ {AnyOf(L)})[L \ {AnyOf(L)}]
      BY <2>2
    <3>2. all[L \ {AnyOf(L)}] = SumOn(L \ {AnyOf(L)})[L \ {AnyOf(L)}]
      BY <1>6, <1>7, <2>2
    <3> HIDE DEF all
    <3>3. QED
      BY <2>2, <3>1, <3>2
  <2>3. QED
    BY <2>1, <2>2
<1>9. all = [L \in SUBSET K |-> all[L]]
  OBVIOUS
<1> HIDE DEF all
<1>10. Summing(all, r, K)
  BY <1>8, <1>9 DEF Summing
<1>11. QED
  BY <1>4, <1>10

\* The sum is a number.
LEMMA SumType ==
  ASSUME NEW f, NEW r, NEW S, Summing(f, r, S), IsFiniteSet(S),
         NEW K \in SUBSET S, \A k \in K : r[k].speed \in Nat
  PROVE  f[K] \in Nat
<1> DEFINE W == {L \in SUBSET K : f[L] \notin Nat}
<1>1. SUFFICES ASSUME W # {} PROVE FALSE
  OBVIOUS
<1>2. W \in SUBSET (SUBSET S)
  OBVIOUS
<1> HIDE DEF W
<1>3. PICK L \in W : \A M \in W : M \subseteq L => M = L
  BY <1>1, <1>2, SmallestSet
<1>4. L \in SUBSET S /\ L \in SUBSET K /\ f[L] \notin Nat
  BY DEF W
<1>5. L # {}
  <2>1. L = {} => f[L] = 0
    BY <1>4, SummingStep
  <2>2. QED
    BY <1>4, <2>1
<1>6. /\ f[L] = r[AnyOf(L)].speed + f[L \ {AnyOf(L)}]
      /\ AnyOf(L) \in L /\ L \ {AnyOf(L)} # L
  BY <1>4, <1>5, SummingStep
<1>7. f[L \ {AnyOf(L)}] \in Nat
  <2>1. L \ {AnyOf(L)} \notin W
    BY <1>3, <1>6
  <2>2. QED
    BY <1>4, <2>1 DEF W
<1>8. r[AnyOf(L)].speed \in Nat
  BY <1>4, <1>6
<1>9. QED
  BY <1>4, <1>6, <1>7, <1>8

\* Any one position may be taken out first.
LEMMA SumRemove ==
  ASSUME NEW f, NEW r, NEW S, Summing(f, r, S), IsFiniteSet(S),
         NEW K \in SUBSET S, \A k \in K : r[k].speed \in Nat, NEW x \in K
  PROVE  f[K] = r[x].speed + f[K \ {x}]
<1> DEFINE W == {L \in SUBSET K : \E y \in L : f[L] # r[y].speed + f[L \ {y}]}
<1>1. SUFFICES ASSUME W # {} PROVE FALSE
  <2>1. K \in SUBSET K
    OBVIOUS
  <2>2. QED
    BY <2>1
<1>2. W \in SUBSET (SUBSET S)
  OBVIOUS
<1> HIDE DEF W
<1>3. PICK L \in W : \A M \in W : M \subseteq L => M = L
  BY <1>1, <1>2, SmallestSet
<1>4. L \in SUBSET S /\ L \in SUBSET K
  BY DEF W
<1>5. PICK y \in L : f[L] # r[y].speed + f[L \ {y}]
  BY DEF W
<1>6. PICK c : c = AnyOf(L)
  OBVIOUS
<1>7. c \in L /\ f[L] = r[c].speed + f[L \ {c}]
  BY <1>4, <1>6, SummingStep
<1>8. c # y
  BY <1>5, <1>7
<1>9. f[L \ {c}] = r[y].speed + f[(L \ {c}) \ {y}]
  <2>1. L \ {c} \in SUBSET K /\ y \in L \ {c} /\ L \ {c} # L /\ L \ {c} \subseteq L
    BY <1>4, <1>7, <1>8
  <2>2. L \ {c} \notin W
    BY <1>3, <2>1
  <2>3. QED
    BY <2>1, <2>2 DEF W
<1>10. f[L \ {y}] = r[c].speed + f[(L \ {y}) \ {c}]
  <2>1. L \ {y} \in SUBSET K /\ c \in L \ {y} /\ L \ {y} # L /\ L \ {y} \subseteq L
    BY <1>4, <1>7, <1>8
  <2>2. L \ {y} \notin W
    BY <1>3, <2>1
  <2>3. QED
    BY <2>1, <2>2 DEF W
<1>11. (L \ {y}) \ {c} = (L \ {c}) \ {y}
  OBVIOUS
<1>12. PICK M : M = (L \ {c}) \ {y}
  OBVIOUS
<1>13. r[c].speed \in Nat /\ r[y].speed \in Nat /\ f[M] \in Nat
  <2>1. M \in SUBSET S /\ M \in SUBSET K
    BY <1>4, <1>12
  <2>2. f[M] \in Nat
    BY <2>1, SumType
  <2>3. QED
    BY <1>4, <1>7, <2>2
<1>14. \A a, b, s \in Nat : a + (b + s) = b + (a + s)
  OBVIOUS
<1>15. r[c].speed + (r[y].speed + f[M]) = r[y].speed + (r[c].speed + f[M])
  BY <1>13, <1>14
<1>16. f[L] = r[c].speed + (r[y].speed + f[M]) /\ f[L \ {y}] = r[c].speed + f[M]
  BY <1>7, <1>9, <1>10, <1>11, <1>12
<1>17. f[L] = r[y].speed + f[L \ {y}]
  BY <1>15, <1>16
<1>18. QED
  BY <1>5, <1>17

\* SumOf is such a function, before a step and after it.
LEMMA SumOfSums == Summing(SumOf, read, 1..MaxPositions)
<1> DEFINE Eqn(f) == f = [K \in SUBSET (1..MaxPositions) |->
                            IF K = {} THEN 0
                            ELSE LET k == CHOOSE k \in K : TRUE
                                 IN read[k].speed + f[K \ {k}]]
<1>1. SumOf = CHOOSE f : Eqn(f)
  BY DEF SumOf
<1>2. \A f : Eqn(f) <=> Summing(f, read, 1..MaxPositions)
  BY DEF Summing, AnyOf
<1>3. IsFiniteSet(1..MaxPositions)
  BY FS_Interval, ConstantsOK
<1> HIDE DEF Eqn
<1>4. \E f : Eqn(f)
  <2>1. PICK f : Summing(f, read, 1..MaxPositions)
    BY <1>3, SummingExists
  <2>2. QED
    BY <1>2, <2>1
<1>5. Eqn(SumOf)
  BY <1>1, <1>4
<1>6. QED
  BY <1>2, <1>5

LEMMA SumOfSumsNext == Summing(SumOf, read, 1..MaxPositions)'
  BY SumOfSums, PTL

-----------------------------------------------------------------------------
(* What the definitions say of blocks of positions.                        *)

\* A history in the order of its times.
Recorded ==
  /\ read \in Seq(Position) /\ read # <<>> /\ Len(read) <= MaxPositions
  /\ \A i, j \in Positions : i <= j => Time(i) <= Time(j)

\* The positions of a history and their types.
LEMMA RecordedFacts ==
  ASSUME Recorded
  PROVE  /\ Len(read) \in Nat \ {0} /\ Positions = 1..Len(read)
         /\ \A i \in Positions : Time(i) \in Nat \ {0} /\ read[i].speed \in Nat
         /\ \A i, j \in Positions : i <= j => Time(i) <= Time(j)
         /\ MinStop \in Nat /\ MaxGap \in Nat /\ MinShown \in Nat
<1>1. read \in Seq(Position) /\ Len(read) \in Nat \ {0}
  BY DEF Recorded
<1>2. \A i \in 1..Len(read) : read[i] \in Position
  BY <1>1
<1>3. \A i \in 1..Len(read) : Time(i) \in Nat \ {0} /\ read[i].speed \in Nat
  BY <1>2, ConstantsOK DEF Position, Time
<1>4. QED
  BY <1>1, <1>3, ConstantsOK DEF Recorded, Positions

\* No position of a stop but its first begins a stop or a trip, none but its
\* last ends one.
LEMMA StopApart ==
  ASSUME Recorded, NEW b \in Positions, NEW e \in Positions, IsStop(b, e),
         NEW i \in Positions, NEW j \in b..e
  PROVE  (IsStop(i, j) => i = b /\ j = e) /\ ~IsTrip(i, j)
<1>1. /\ Len(read) \in Nat \ {0} /\ Positions = 1..Len(read)
      /\ b \in Nat \ {0} /\ e \in Nat \ {0} /\ i \in Nat \ {0} /\ j \in Nat
      /\ b <= j /\ j <= e /\ e <= Len(read)
  BY RecordedFacts
<1>2. /\ \A k \in b..(e - 1) : ~Silent(k)
      /\ \A k \in b..e : ~Moves(k)
      /\ Opens(b) \/ Moves(b - 1)
  BY DEF IsStop, Whole
<1>3. ASSUME IsStop(i, j) PROVE i = b /\ j = e
  <2>1. /\ i <= j /\ \A k \in i..(j - 1) : ~Silent(k)
        /\ \A k \in i..j : ~Moves(k)
        /\ Opens(i) \/ Moves(i - 1)
        /\ Silent(j) \/ Moves(j + 1)
    BY <1>3 DEF IsStop, Whole
  <2>2. ~(i < b)
    <3>1. SUFFICES ASSUME i < b PROVE FALSE
      OBVIOUS
    <3>2. b - 1 \in i..(j - 1) /\ b - 1 \in i..j /\ b # 1
      BY <1>1, <3>1
    <3>3. ~Silent(b - 1) /\ ~Moves(b - 1)
      BY <2>1, <3>2
    <3>4. QED
      BY <1>2, <3>2, <3>3 DEF Opens
  <2>3. ~(b < i)
    <3>1. SUFFICES ASSUME b < i PROVE FALSE
      OBVIOUS
    <3>2. i - 1 \in b..(e - 1) /\ i - 1 \in b..e /\ i # 1
      BY <1>1, <2>1, <3>1
    <3>3. ~Silent(i - 1) /\ ~Moves(i - 1)
      BY <1>2, <3>2
    <3>4. QED
      BY <2>1, <3>2, <3>3 DEF Opens
  <2>4. ~(j < e)
    <3>1. SUFFICES ASSUME j < e PROVE FALSE
      OBVIOUS
    <3>2. j \in b..(e - 1) /\ j + 1 \in b..e
      BY <1>1, <3>1
    <3>3. QED
      BY <1>2, <2>1, <3>2
  <2>5. QED
    BY <1>1, <2>2, <2>3, <2>4
<1>4. ASSUME IsTrip(i, j) PROVE FALSE
  <2>1. i <= j /\ Moves(i) /\ \A k \in (i + 1)..j : ~StopsAt(k)
    BY <1>4 DEF IsTrip, Whole
  <2>2. i < b
    <3>1. i \notin b..e
      BY <1>2, <2>1
    <3>2. QED
      BY <1>1, <2>1, <3>1
  <2>3. b \in (i + 1)..j /\ e \in b..Len(read)
    BY <1>1, <2>2
  <2>4. StopsAt(b)
    BY <2>3 DEF StopsAt
  <2>5. QED
    BY <2>1, <2>3, <2>4
<1>5. QED
  BY <1>3, <1>4

\* Nor does a position of a trip belong to another block.
LEMMA TripApart ==
  ASSUME Recorded, NEW b \in Positions, NEW e \in Positions, IsTrip(b, e),
         NEW i \in Positions, NEW j \in b..e
  PROVE  (IsTrip(i, j) => i = b /\ j = e) /\ ~IsStop(i, j)
<1>1. /\ Len(read) \in Nat \ {0} /\ Positions = 1..Len(read)
      /\ b \in Nat \ {0} /\ e \in Nat \ {0} /\ i \in Nat \ {0} /\ j \in Nat
      /\ b <= j /\ j <= e /\ e <= Len(read)
  BY RecordedFacts
<1>2. /\ \A k \in b..(e - 1) : ~Silent(k)
      /\ Moves(b) /\ (Opens(b) \/ StopsBefore(b))
      /\ \A k \in (b + 1)..e : ~StopsAt(k)
  BY DEF IsTrip, Whole
\* No stop ends in the trip, its last position included.
<1>3. ASSUME NEW g \in Positions, NEW h \in b..e, IsStop(g, h) PROVE FALSE
  <2>1. g <= h /\ \A k \in g..h : ~Moves(k)
    BY <1>3 DEF IsStop, Whole
  <2>2. ~(g <= b)
    <3>1. SUFFICES ASSUME g <= b PROVE FALSE
      OBVIOUS
    <3>2. b \in g..h
      BY <1>1, <3>1
    <3>3. QED
      BY <1>2, <2>1, <3>2
  <2>3. g \in (b + 1)..e /\ h \in g..Len(read)
    BY <1>1, <2>1, <2>2
  <2>4. StopsAt(g)
    BY <1>3, <2>3 DEF StopsAt
  <2>5. QED
    BY <1>2, <2>3, <2>4
<1>4. ASSUME IsTrip(i, j) PROVE i = b /\ j = e
  <2>1. /\ i <= j /\ \A k \in i..(j - 1) : ~Silent(k)
        /\ Moves(i) /\ (Opens(i) \/ StopsBefore(i))
        /\ \A k \in (i + 1)..j : ~StopsAt(k)
        /\ Silent(j) \/ StopsAt(j + 1)
    BY <1>4 DEF IsTrip, Whole
  <2>2. ~(i < b)
    <3>1. SUFFICES ASSUME i < b PROVE FALSE
      OBVIOUS
    <3>2. b - 1 \in i..(j - 1) /\ b # 1
      BY <1>1, <3>1
    <3>3. ~Opens(b)
      BY <2>1, <3>2 DEF Opens
    <3>4. PICK h \in 1..(b - 1) : IsStop(h, b - 1)
      BY <1>2, <3>3 DEF StopsBefore
    <3>5. \A k \in h..(b - 1) : ~Moves(k)
      BY <3>4 DEF IsStop
    <3>6. ~(h <= i)
      <4>1. SUFFICES ASSUME h <= i PROVE FALSE
        OBVIOUS
      <4>2. i \in h..(b - 1)
        BY <1>1, <3>1, <3>4, <4>1
      <4>3. QED
        BY <2>1, <3>5, <4>2
    <3>7. h \in (i + 1)..j /\ b - 1 \in h..Len(read)
      BY <1>1, <3>1, <3>4, <3>6
    <3>8. StopsAt(h)
      BY <3>4, <3>7 DEF StopsAt
    <3>9. QED
      BY <2>1, <3>7, <3>8
  <2>3. ~(b < i)
    <3>1. SUFFICES ASSUME b < i PROVE FALSE
      OBVIOUS
    <3>2. i - 1 \in b..(e - 1) /\ i - 1 \in b..e /\ i # 1
      BY <1>1, <2>1, <3>1
    <3>3. ~Opens(i)
      BY <1>2, <3>2 DEF Opens
    <3>4. PICK h \in 1..(i - 1) : IsStop(h, i - 1)
      BY <2>1, <3>3 DEF StopsBefore
    <3>5. h \in Positions
      BY <1>1, <3>4
    <3>6. QED
      BY <1>3, <3>2, <3>4, <3>5
  <2>4. ~(j < e)
    <3>1. SUFFICES ASSUME j < e PROVE FALSE
      OBVIOUS
    <3>2. j \in b..(e - 1) /\ j + 1 \in (b + 1)..e
      BY <1>1, <3>1
    <3>3. QED
      BY <1>2, <2>1, <3>2
  <2>5. QED
    BY <1>1, <2>2, <2>3, <2>4
<1>5. QED
  BY <1>3, <1>4

-----------------------------------------------------------------------------
(* The list of the blocks that end before a position.                      *)

StopsUpTo(b) ==
  {p \in Positions \X Positions :
     p[2] < b /\ IsStop(p[1], p[2]) /\ Time(p[2]) - Time(p[1]) > MinShown}
TripsUpTo(b) ==
  {p \in Positions \X Positions :
     p[2] < b /\ IsTrip(p[1], p[2]) /\ Cardinality(PathOf(p[1], p[2])) >= 2}
Listed(b) ==
  {StopOf(p[1], p[2]) : p \in StopsUpTo(b)} \cup {TripOf(p[1], p[2]) : p \in TripsUpTo(b)}

\* With the blocks that end anywhere, the list is complete.
LEMMA AllListed ==
  ASSUME Recorded
  PROVE  Listed(Len(read) + 1) = Reference
<1>1. \A p \in Positions \X Positions : p[2] < Len(read) + 1
  BY RecordedFacts
<1>2. StopsUpTo(Len(read) + 1) = {p \in Positions \X Positions :
                  IsStop(p[1], p[2]) /\ Time(p[2]) - Time(p[1]) > MinShown}
  BY <1>1 DEF StopsUpTo
<1>3. TripsUpTo(Len(read) + 1) = {p \in Positions \X Positions :
                  IsTrip(p[1], p[2]) /\ Cardinality(PathOf(p[1], p[2])) >= 2}
  BY <1>1 DEF TripsUpTo
<1>4. QED
  BY <1>2, <1>3 DEF Listed, Reference

\* Nothing ends before the first position.
LEMMA NoneListed ==
  ASSUME Recorded
  PROVE  Listed(1) = {}
<1>1. \A p \in Positions \X Positions : ~(p[2] < 1)
  BY RecordedFacts
<1>2. StopsUpTo(1) = {} /\ TripsUpTo(1) = {}
  BY <1>1 DEF StopsUpTo, TripsUpTo
<1>3. QED
  BY <1>2 DEF Listed

\* A position is before b, in the block b..e, or after it.
LEMMA EndsInBlock ==
  ASSUME Recorded, NEW b \in Positions, NEW e \in Positions, b <= e,
         NEW p \in Positions \X Positions
  PROVE  /\ p[2] < e + 1 <=> p[2] < b \/ p[2] \in b..e
         /\ p[1] \in Positions /\ p[2] \in Positions
         /\ p = <<p[1], p[2]>>
         /\ ~(e < b) /\ e < e + 1
<1>1. /\ b \in Nat /\ e \in Nat /\ p[1] \in Positions /\ p[2] \in Positions
      /\ p[2] \in Nat /\ p = <<p[1], p[2]>>
  BY RecordedFacts
<1>2. QED
  BY <1>1

\* A stop adds its event to the list, if it is long enough to be shown.
LEMMA StopListed ==
  ASSUME Recorded, NEW b \in Positions, NEW e \in Positions, IsStop(b, e)
  PROVE  /\ Time(e) - Time(b) > MinShown =>
              Listed(e + 1) = Listed(b) \cup {StopOf(b, e)} /\ StopOf(b, e) \notin Listed(b)
         /\ ~(Time(e) - Time(b) > MinShown) => Listed(e + 1) = Listed(b)
<1>1. b <= e
  BY DEF IsStop, Whole
<1>2. TripsUpTo(e + 1) = TripsUpTo(b)
  <2>1. \A p \in Positions \X Positions :
          p[2] < e + 1 /\ IsTrip(p[1], p[2]) <=> p[2] < b /\ IsTrip(p[1], p[2])
    BY <1>1, EndsInBlock, StopApart
  <2>2. QED
    BY <2>1 DEF TripsUpTo
<1>3. \A p \in Positions \X Positions :
        p[2] < e + 1 /\ IsStop(p[1], p[2]) <=> (p[2] < b /\ IsStop(p[1], p[2])) \/ p = <<b, e>>
  <2>1. SUFFICES ASSUME NEW p \in Positions \X Positions
                 PROVE  p[2] < e + 1 /\ IsStop(p[1], p[2])
                          <=> (p[2] < b /\ IsStop(p[1], p[2])) \/ p = <<b, e>>
    OBVIOUS
  <2>2. p[2] \in b..e /\ IsStop(p[1], p[2]) => p = <<b, e>>
    BY <1>1, EndsInBlock, StopApart
  <2>3. p = <<b, e>> => p[2] < e + 1 /\ IsStop(p[1], p[2])
    BY <1>1, EndsInBlock
  <2>4. QED
    BY <1>1, <2>2, <2>3, EndsInBlock
<1>4. CASE ~(Time(e) - Time(b) > MinShown)
  <2>1. StopsUpTo(e + 1) = StopsUpTo(b)
    BY <1>3, <1>4 DEF StopsUpTo
  <2>2. QED
    BY <1>2, <1>4, <2>1 DEF Listed
<1>5. CASE Time(e) - Time(b) > MinShown
  <2>1. StopsUpTo(e + 1) = StopsUpTo(b) \cup {<<b, e>>}
    BY <1>3, <1>5 DEF StopsUpTo
  <2>2. Listed(e + 1) = Listed(b) \cup {StopOf(b, e)}
    <3> DEFINE of(S) == {StopOf(p[1], p[2]) : p \in S}
    <3>1. \A S, p : of(S \cup {p}) = of(S) \cup {StopOf(p[1], p[2])}
      OBVIOUS
    <3>2. of(StopsUpTo(b) \cup {<<b, e>>}) = of(StopsUpTo(b)) \cup {StopOf(b, e)}
      BY <3>1
    <3>3. QED
      BY <1>2, <2>1, <3>2 DEF Listed
  <2>3. ASSUME NEW p \in StopsUpTo(b)
        PROVE  StopOf(p[1], p[2]) # StopOf(b, e)
    <3>1. p \in Positions \X Positions /\ p[2] < b
      BY <2>3 DEF StopsUpTo
    <3>2. p[2] \in Positions /\ p[2] <= b
      BY <1>1, <3>1, RecordedFacts, EndsInBlock
    <3>3. Time(p[2]) <= Time(b) /\ Time(p[2]) \in Nat /\ Time(b) \in Nat /\ Time(e) \in Nat
      BY <3>2, RecordedFacts
    <3>4. Time(p[2]) # Time(e)
      BY <1>5, <3>3, RecordedFacts
    <3>5. StopOf(p[1], p[2]).to = Time(p[2]) /\ StopOf(b, e).to = Time(e)
      BY DEF StopOf
    <3>6. QED
      BY <3>4, <3>5
  <2>4. ASSUME NEW p \in TripsUpTo(b)
        PROVE  TripOf(p[1], p[2]) # StopOf(b, e)
    <3>1. TripOf(p[1], p[2]).type = "trip" /\ StopOf(b, e).type = "stop"
      BY DEF TripOf, StopOf
    <3>2. QED
      BY <3>1
  <2>5. StopOf(b, e) \notin Listed(b)
    BY <2>3, <2>4 DEF Listed
  <2>6. QED
    BY <1>5, <2>2, <2>5
<1>6. QED
  BY <1>4, <1>5

\* A trip adds its event to the list, if its path has two positions.
LEMMA TripListed ==
  ASSUME Recorded, NEW b \in Positions, NEW e \in Positions, IsTrip(b, e)
  PROVE  /\ Cardinality(PathOf(b, e)) >= 2 =>
              Listed(e + 1) = Listed(b) \cup {TripOf(b, e)} /\ TripOf(b, e) \notin Listed(b)
         /\ ~(Cardinality(PathOf(b, e)) >= 2) => Listed(e + 1) = Listed(b)
<1>1. b <= e
  BY DEF IsTrip, Whole
<1>2. StopsUpTo(e + 1) = StopsUpTo(b)
  <2>1. \A p \in Positions \X Positions :
          p[2] < e + 1 /\ IsStop(p[1], p[2]) <=> p[2] < b /\ IsStop(p[1], p[2])
    BY <1>1, EndsInBlock, TripApart
  <2>2. QED
    BY <2>1 DEF StopsUpTo
<1>3. \A p \in Positions \X Positions :
        p[2] < e + 1 /\ IsTrip(p[1], p[2]) <=> (p[2] < b /\ IsTrip(p[1], p[2])) \/ p = <<b, e>>
  <2>1. SUFFICES ASSUME NEW p \in Positions \X Positions
                 PROVE  p[2] < e + 1 /\ IsTrip(p[1], p[2])
                          <=> (p[2] < b /\ IsTrip(p[1], p[2])) \/ p = <<b, e>>
    OBVIOUS
  <2>2. p[2] \in b..e /\ IsTrip(p[1], p[2]) => p = <<b, e>>
    BY <1>1, EndsInBlock, TripApart
  <2>3. p = <<b, e>> => p[2] < e + 1 /\ IsTrip(p[1], p[2])
    BY <1>1, EndsInBlock
  <2>4. QED
    BY <1>1, <2>2, <2>3, EndsInBlock
<1>4. CASE ~(Cardinality(PathOf(b, e)) >= 2)
  <2>1. TripsUpTo(e + 1) = TripsUpTo(b)
    BY <1>3, <1>4 DEF TripsUpTo
  <2>2. QED
    BY <1>2, <1>4, <2>1 DEF Listed
<1>5. CASE Cardinality(PathOf(b, e)) >= 2
  <2>1. TripsUpTo(e + 1) = TripsUpTo(b) \cup {<<b, e>>}
    BY <1>3, <1>5 DEF TripsUpTo
  <2>2. Listed(e + 1) = Listed(b) \cup {TripOf(b, e)}
    <3> DEFINE of(S) == {TripOf(p[1], p[2]) : p \in S}
    <3>1. \A S, p : of(S \cup {p}) = of(S) \cup {TripOf(p[1], p[2])}
      OBVIOUS
    <3>2. of(TripsUpTo(b) \cup {<<b, e>>}) = of(TripsUpTo(b)) \cup {TripOf(b, e)}
      BY <3>1
    <3>3. QED
      BY <1>2, <2>1, <3>2 DEF Listed
  <2>3. ASSUME NEW p \in TripsUpTo(b)
        PROVE  TripOf(p[1], p[2]) # TripOf(b, e)
    <3>1. p \in Positions \X Positions /\ p[2] < b /\ IsTrip(p[1], p[2])
      BY <2>3 DEF TripsUpTo
    <3>2. /\ p[1] \in Positions /\ p[1] <= p[2] /\ p[1] \in Nat /\ b \in Nat
          /\ Len(read) \in Nat /\ p[1] < b /\ b <= Len(read) /\ p[2] \in Nat
      BY <3>1, RecordedFacts DEF IsTrip, Whole
    <3>3. p[1] \in PathOf(p[1], p[2])
      BY <3>2 DEF PathOf
    <3>4. p[1] \notin PathOf(b, e)
      BY <3>2 DEF PathOf
    <3>5. TripOf(p[1], p[2]).path = PathOf(p[1], p[2]) /\ TripOf(b, e).path = PathOf(b, e)
      BY DEF TripOf
    <3>6. QED
      BY <3>3, <3>4, <3>5
  <2>4. ASSUME NEW p \in StopsUpTo(b)
        PROVE  StopOf(p[1], p[2]) # TripOf(b, e)
    <3>1. StopOf(p[1], p[2]).type = "stop" /\ TripOf(b, e).type = "trip"
      BY DEF TripOf, StopOf
    <3>2. QED
      BY <3>1
  <2>5. TripOf(b, e) \notin Listed(b)
    BY <2>3, <2>4 DEF Listed
  <2>6. QED
    BY <1>5, <2>2, <2>5
<1>6. QED
  BY <1>4, <1>5

-----------------------------------------------------------------------------
(* A list of events, and the set that it should be.                        *)

View(event) == [event EXCEPT !.path = {@[k] : k \in DOMAIN @}]
Views(es) == {View(es[e]) : e \in 1..Len(es)}
Counts(es, S) == Views(es) = S /\ IsFiniteSet(S) /\ Cardinality(S) = Len(es)

\* The event without the order of its path.
LEMMA ViewIs ==
  ASSUME NEW ty, NEW fr, NEW to, NEW pa, NEW fa, NEW su, NEW co
  PROVE  View([type |-> ty, from |-> fr, to |-> to, path |-> pa,
               fastest |-> fa, total |-> su, count |-> co])
         = [type |-> ty, from |-> fr, to |-> to, path |-> {pa[k] : k \in DOMAIN pa},
            fastest |-> fa, total |-> su, count |-> co]
BY DEF View

\* A list counts an event more when one that it has not is appended.
LEMMA CountsMore ==
  ASSUME NEW es \in Seq(Event), NEW S, Counts(es, S), NEW ev \in Event, View(ev) \notin S
  PROVE  Counts(Append(es, ev), S \cup {View(ev)})
<1> DEFINE fs == Append(es, ev)
<1>1. /\ Len(es) \in Nat /\ Len(fs) = Len(es) + 1 /\ fs[Len(es) + 1] = ev
      /\ \A k \in 1..Len(es) : fs[k] = es[k]
  OBVIOUS
<1>2. 1..(Len(es) + 1) = 1..Len(es) \cup {Len(es) + 1}
  BY <1>1
<1> HIDE DEF fs
<1>3. Views(fs) = Views(es) \cup {View(ev)}
  BY <1>1, <1>2 DEF Views
<1>4. IsFiniteSet(S \cup {View(ev)}) /\ Cardinality(S \cup {View(ev)}) = Len(es) + 1
  BY FS_AddElement DEF Counts
<1>5. Counts(fs, S \cup {View(ev)})
  BY <1>1, <1>3, <1>4 DEF Counts
<1>6. QED
  BY <1>5 DEF fs

\* With the last block in it, the list is the history as defined.
LEMMA CountsAsDefined ==
  ASSUME Recorded, Counts(events, Listed(Len(read) + 1))
  PROVE  HistoryAsDefined
<1>1. Counts(events, Reference)
  BY AllListed
<1>2. Views(events) = {[events[e] EXCEPT !.path = {@[k] : k \in DOMAIN @}] : e \in Events}
  BY DEF Views, View, Events
<1>3. QED
  BY <1>1, <1>2 DEF Counts, HistoryAsDefined

-----------------------------------------------------------------------------
(* The block that is open.                                                 *)

\* No stand in what follows b has lasted.
ShortStands(b, m) ==
  \A i, j \in (b + 1)..m :
    i <= j /\ (\A k \in i..j : ~Moves(k)) => Time(j) - Time(i) <= MinStop

\* b..m is a stop so far, or a trip so far.
Stands(b, m) ==
  /\ Whole(b, m) /\ \A k \in b..m : ~Moves(k)
  /\ Opens(b) \/ Moves(b - 1)
  /\ Opens(b) \/ Time(m) - Time(b) > MinStop
Drives(b, m) ==
  /\ Whole(b, m) /\ Moves(b)
  /\ Opens(b) \/ StopsBefore(b)
  /\ ShortStands(b, m)

\* What is noted of a trip is right.
Measures(b, m, path, fast, sum, number) ==
  /\ path = [k \in 1..(m - b + 1) |-> b + k - 1]
  /\ \E k \in SpeedsOf(b, m) : fast = read[k].speed
  /\ \A k \in SpeedsOf(b, m) : read[k].speed <= fast
  /\ sum = SumOf[SpeedsOf(b, m)]
  /\ number = Cardinality(SpeedsOf(b, m))

\* The open trip waits for a stop that began with its last moving position.
Waits(m, b) ==
  IF potential = Never THEN Moves(m)
  ELSE \E h \in (b + 1)..m : /\ potential = Time(h) /\ Moves(h - 1)
                             /\ \A k \in h..m : ~Moves(k)

\* A stand that a silence or a moving position ends is a stop.
LEMMA StandIsStop ==
  ASSUME NEW b, NEW m, Stands(b, m), Silent(m) \/ Moves(m + 1)
  PROVE  IsStop(b, m)
BY DEF Stands, IsStop

\* A stop cannot begin in an open trip and end there.
LEMMA NoStopInDrive ==
  ASSUME Recorded, NEW b \in Positions, NEW m \in Positions, Drives(b, m),
         NEW k \in (b + 1)..m, NEW g \in k..m
  PROVE  ~IsStop(k, g)
<1>1. b \in Nat \ {0} /\ m \in Nat /\ k \in Nat /\ g \in Nat /\ g \in (b + 1)..m
  BY RecordedFacts
<1>2. k - 1 \in b..(m - 1) /\ k # 1
  BY <1>1
<1>3. ~Opens(k)
  BY <1>2 DEF Drives, Whole, Opens
<1>4. SUFFICES ASSUME IsStop(k, g) PROVE FALSE
  OBVIOUS
<1>5. Time(g) - Time(k) > MinStop /\ k <= g /\ \A x \in k..g : ~Moves(x)
  BY <1>3, <1>4 DEF IsStop, Whole
<1>6. Time(g) - Time(k) <= MinStop
  BY <1>1, <1>5 DEF Drives, ShortStands
<1>7. g \in Positions /\ k \in Positions
  BY <1>1, RecordedFacts
<1>8. QED
  BY <1>5, <1>6, <1>7, RecordedFacts

\* A trip that a silence ends is a trip as defined, with all its positions.
LEMMA DriveIsTrip ==
  ASSUME Recorded, NEW b \in Positions, NEW m \in Positions, Drives(b, m), Silent(m)
  PROVE  IsTrip(b, m) /\ PathOf(b, m) = b..m
<1>1. /\ Len(read) \in Nat /\ b \in Nat \ {0} /\ m \in Nat /\ m <= Len(read) /\ b <= m
  BY RecordedFacts DEF Drives, Whole
<1>2. ASSUME NEW k \in (b + 1)..m PROVE ~StopsAt(k)
  <2>1. SUFFICES ASSUME NEW h \in k..Len(read), IsStop(k, h) PROVE FALSE
    BY DEF StopsAt
  <2>2. CASE h <= m
    <3>1. h \in k..m
      BY <1>1, <2>2
    <3>2. QED
      BY <2>1, <3>1, NoStopInDrive
  <2>3. CASE m < h
    <3>1. m \in k..(h - 1)
      BY <1>1, <2>3
    <3>2. QED
      BY <2>1, <3>1 DEF IsStop, Whole
  <2>4. QED
    BY <1>1, <2>2, <2>3
<1>3. IsTrip(b, m)
  BY <1>2 DEF IsTrip, Drives
<1>4. PathOf(b, m) = b..m
  BY <1>1 DEF PathOf
<1>5. QED
  BY <1>3, <1>4

\* A trip that a stop from h on ends is the trip as defined until h; the
\* positions since h stay in its path.
LEMMA StopEndsDrive ==
  ASSUME Recorded, NEW b \in Positions, NEW m \in Positions, Drives(b, m),
         m + 1 \in Positions, NEW h \in (b + 1)..m, Moves(h - 1), IsStop(h, m + 1)
  PROVE  /\ IsTrip(b, h - 1) /\ PathOf(b, h - 1) = b..m
         /\ SpeedsOf(b, h - 1) = SpeedsOf(b, m) /\ ~Silent(h - 1)
<1>1. /\ Len(read) \in Nat /\ b \in Nat \ {0} /\ m \in Nat /\ m + 1 <= Len(read) /\ b <= m
      /\ h \in Nat \ {0} /\ h - 1 \in b..m /\ (h - 1) + 1 = h
      /\ Positions = 1..Len(read) /\ h # 1
  BY RecordedFacts DEF Drives, Whole
<1>2. /\ \A k \in h..(m + 1) : ~Moves(k)
      /\ \A k \in b..(m - 1) : ~Silent(k)
      /\ Opens(h) \/ Time(m + 1) - Time(h) > MinStop
  BY DEF IsStop, Drives, Whole
<1>3. ~Silent(h - 1)
  BY <1>1, <1>2
<1>4. Time(m + 1) - Time(h) > MinStop
  BY <1>1, <1>2, <1>3 DEF Opens
<1>5. ASSUME NEW k \in (b + 1)..(h - 1) PROVE ~StopsAt(k)
  <2>1. SUFFICES ASSUME NEW g \in k..Len(read), IsStop(k, g) PROVE FALSE
    BY DEF StopsAt
  <2>2. CASE g <= m
    <3>1. k \in (b + 1)..m /\ g \in k..m
      BY <1>1, <2>2
    <3>2. QED
      BY <2>1, <3>1, NoStopInDrive
  <2>3. CASE m < g
    <3>1. h - 1 \in k..g
      BY <1>1, <2>3
    <3>2. QED
      BY <2>1, <3>1 DEF IsStop
  <2>4. QED
    BY <1>1, <2>2, <2>3
<1>6. Whole(b, h - 1)
  BY <1>1, <1>2 DEF Whole
<1>7. StopsAt(h)
  BY <1>1 DEF StopsAt
<1>8. IsTrip(b, h - 1)
  BY <1>1, <1>5, <1>6, <1>7 DEF IsTrip, Drives
<1>9. SpeedsOf(b, h - 1) = SpeedsOf(b, m)
  <2>1. \A k \in h..m : ~Moves(k)
    BY <1>1, <1>2
  <2>2. b..m = b..(h - 1) \cup h..m
    BY <1>1
  <2>3. QED
    BY <2>1, <2>2 DEF SpeedsOf
<1>10. PathOf(b, h - 1) = b..m
  <2>1. ASSUME NEW k \in b..m, ~(k <= h - 1)
        PROVE  /\ Whole(b, k) /\ \A x \in h..k : ~Moves(x)
               /\ Time(k) - Time(h) <= MinStop
    <3>1. \A x \in h..k : ~Moves(x)
      BY <1>1, <1>2
    <3>2. Whole(b, k)
      BY <1>1, <1>2 DEF Whole
    <3>3. h \in (b + 1)..m /\ k \in (b + 1)..m /\ h <= k
      BY <1>1, <2>1
    <3>4. Time(k) - Time(h) <= MinStop
      BY <3>1, <3>3 DEF Drives, ShortStands
    <3>5. QED
      BY <3>1, <3>2, <3>4
  <2>2. ASSUME NEW k \in b..Len(read), m < k
        PROVE  ~(Time(k) - Time(h) <= MinStop) /\ ~(k <= h - 1)
    <3>1. k \in Positions /\ m + 1 <= k /\ h \in Positions
      BY <1>1, <2>2
    <3>2. Time(m + 1) <= Time(k) /\ Time(k) \in Nat /\ Time(h) \in Nat /\ Time(m + 1) \in Nat
      BY <3>1, RecordedFacts
    <3>3. QED
      BY <1>1, <1>4, <2>2, <3>2, RecordedFacts
  <2>3. PathOf(b, h - 1) =
          {k \in b..Len(read) : k <= h - 1 \/ (/\ Whole(b, k)
                                               /\ \A x \in h..k : ~Moves(x)
                                               /\ Time(k) - Time(h) <= MinStop)}
    BY <1>1, <1>3 DEF PathOf
  <2>4. \A k : k \in b..m <=> k \in b..Len(read) /\ ~(m < k)
    BY <1>1
  <2>5. QED
    BY <2>1, <2>2, <2>3, <2>4
<1>11. QED
  BY <1>3, <1>8, <1>9, <1>10

\* The event of a trip is the one defined, if what was noted is right.
LEMMA TripView ==
  ASSUME Recorded, NEW b \in Positions, NEW m \in Positions, NEW e \in Positions,
         b <= m, PathOf(b, e) = b..m, SpeedsOf(b, e) = SpeedsOf(b, m),
         NEW path, NEW fast, NEW sum, NEW number,
         Measures(b, m, path, fast, sum, number)
  PROVE  /\ View([type |-> "trip", from |-> Time(b),
                  to |-> IF Silent(e) THEN Time(e) ELSE Time(e + 1), path |-> path,
                  fastest |-> fast, total |-> sum, count |-> number]) = TripOf(b, e)
         /\ Len(path) >= 2 <=> Cardinality(PathOf(b, e)) >= 2
<1>1. Len(read) \in Nat /\ b \in Nat \ {0} /\ m \in Nat /\ b <= m /\ m - b + 1 \in Nat
  BY RecordedFacts
<1>2. path = [k \in 1..(m - b + 1) |-> b + k - 1]
  BY DEF Measures
<1>3. {path[k] : k \in DOMAIN path} = b..m
  <2>1. DOMAIN path = 1..(m - b + 1) /\ \A k \in 1..(m - b + 1) : path[k] = b + k - 1
    BY <1>2
  <2>2. ASSUME NEW x \in b..m PROVE x - b + 1 \in DOMAIN path /\ path[x - b + 1] = x
    <3>1. x - b + 1 \in 1..(m - b + 1)
      BY <1>1
    <3>2. path[x - b + 1] = b + (x - b + 1) - 1
      BY <2>1, <3>1
    <3>3. QED
      BY <1>1, <2>1, <3>1, <3>2
  <2>3. \A k \in DOMAIN path : path[k] \in b..m
    BY <1>1, <2>1
  <2>4. QED
    BY <2>2, <2>3
<1>4. Len(path) = m - b + 1
  <2>1. path \in Seq(Nat) /\ DOMAIN path = 1..(m - b + 1)
    BY <1>1, <1>2
  <2>2. QED
    BY <1>1, <2>1
<1>5. Cardinality(PathOf(b, e)) = m - b + 1
  BY <1>1, FS_Interval
<1>6. fast = CHOOSE s \in {read[k].speed : k \in SpeedsOf(b, e)} :
               \A k \in SpeedsOf(b, e) : read[k].speed <= s
  <2> DEFINE speeds == {read[k].speed : k \in SpeedsOf(b, e)}
             Top(s) == \A k \in SpeedsOf(b, e) : read[k].speed <= s
  <2>1. fast \in speeds /\ Top(fast)
    BY DEF Measures
  <2>2. \A k \in SpeedsOf(b, e) : read[k].speed \in Nat
    <3>1. SpeedsOf(b, m) \subseteq Positions
      BY <1>1, RecordedFacts DEF SpeedsOf
    <3>2. QED
      BY <3>1, RecordedFacts
  <2>3. speeds \subseteq Nat
    BY <2>2
  <2>4. ASSUME NEW s \in speeds, Top(s) PROVE s = fast
    <3>1. s <= fast /\ fast <= s
      BY <2>1, <2>4
    <3>2. QED
      BY <2>1, <2>3, <3>1
  <2> HIDE DEF speeds, Top
  <2>5. fast = CHOOSE s \in speeds : Top(s)
    BY <2>1, <2>4
  <2>6. QED
    BY <2>5 DEF speeds, Top
<1>7. sum = SumOf[SpeedsOf(b, e)] /\ number = Cardinality(SpeedsOf(b, e))
  BY DEF Measures
<1>8. PICK to : to = IF Silent(e) THEN Time(e) ELSE Time(e + 1)
  OBVIOUS
<1>9. View([type |-> "trip", from |-> Time(b), to |-> to, path |-> path,
            fastest |-> fast, total |-> sum, count |-> number])
      = [type |-> "trip", from |-> Time(b), to |-> to, path |-> {path[k] : k \in DOMAIN path},
         fastest |-> fast, total |-> sum, count |-> number]
  BY ViewIs
<1>10. TripOf(b, e) = [type |-> "trip", from |-> Time(b), to |-> to, path |-> PathOf(b, e),
                       fastest |-> fast, total |-> sum, count |-> number]
  BY <1>6, <1>7, <1>8 DEF TripOf
<1>11. View([type |-> "trip", from |-> Time(b), to |-> to, path |-> path,
             fastest |-> fast, total |-> sum, count |-> number]) = TripOf(b, e)
  BY <1>3, <1>9, <1>10
<1>12. QED
  BY <1>4, <1>5, <1>8, <1>11

\* What FinalizeStop and FinalizeTrip make of a list of events.
StopEvent(from, to) ==
  [type |-> "stop", from |-> from, to |-> to, path |-> <<>>,
   fastest |-> 0, total |-> 0, count |-> 0]
TripEvent(from, to, path, fast, sum, number) ==
  [type |-> "trip", from |-> from, to |-> to, path |-> path,
   fastest |-> fast, total |-> sum, count |-> number]
WithStop(es, from, to) ==
  IF to - from > MinShown THEN Append(es, StopEvent(from, to)) ELSE es
WithTrip(es, from, to, path, fast, sum, number) ==
  IF Len(path) >= 2 THEN Append(es, TripEvent(from, to, path, fast, sum, number)) ELSE es

\* FinalizeStop lists a stop that ends.
LEMMA StopCounts ==
  ASSUME Recorded, NEW b \in Positions, NEW e \in Positions, IsStop(b, e),
         NEW es \in Seq(Event), Counts(es, Listed(b))
  PROVE  Counts(WithStop(es, Time(b), Time(e)), Listed(e + 1))
<1>1. StopEvent(Time(b), Time(e)) \in Event
  <2>1. Time(b) \in Nat /\ Time(e) \in Nat /\ <<>> \in Seq(Nat)
    BY RecordedFacts
  <2>2. QED
    BY <2>1 DEF StopEvent, Event
<1>2. View(StopEvent(Time(b), Time(e))) = StopOf(b, e)
  <2>1. {<<>>[k] : k \in DOMAIN <<>>} = {}
    OBVIOUS
  <2>2. QED
    BY <2>1, ViewIs DEF StopEvent, StopOf
<1>3. CASE Time(e) - Time(b) > MinShown
  <2>1. Listed(e + 1) = Listed(b) \cup {StopOf(b, e)} /\ StopOf(b, e) \notin Listed(b)
    BY <1>3, StopListed
  <2>2. WithStop(es, Time(b), Time(e)) = Append(es, StopEvent(Time(b), Time(e)))
    BY <1>3 DEF WithStop
  <2>3. QED
    BY <1>1, <1>2, <2>1, <2>2, CountsMore
<1>4. CASE ~(Time(e) - Time(b) > MinShown)
  BY <1>4, StopListed DEF WithStop
<1>5. QED
  BY <1>3, <1>4

\* FinalizeTrip lists a trip that ends.
LEMMA TripCounts ==
  ASSUME Recorded, NEW b \in Positions, NEW m \in Positions, NEW e \in Positions,
         b <= m, IsTrip(b, e), PathOf(b, e) = b..m, SpeedsOf(b, e) = SpeedsOf(b, m),
         NEW path \in Seq(Nat), NEW fast \in Nat, NEW sum \in Nat, NEW number \in Nat,
         Measures(b, m, path, fast, sum, number),
         NEW es \in Seq(Event), Counts(es, Listed(b)),
         NEW to \in Nat, to = IF Silent(e) THEN Time(e) ELSE Time(e + 1)
  PROVE  Counts(WithTrip(es, Time(b), to, path, fast, sum, number), Listed(e + 1))
<1> DEFINE event == TripEvent(Time(b), to, path, fast, sum, number)
<1>1. event \in Event
  BY RecordedFacts DEF TripEvent, Event
<1>2. View(event) = TripOf(b, e) /\ (Len(path) >= 2 <=> Cardinality(PathOf(b, e)) >= 2)
  BY TripView DEF TripEvent
<1> HIDE DEF event
<1>3. CASE Len(path) >= 2
  <2>1. Listed(e + 1) = Listed(b) \cup {TripOf(b, e)} /\ TripOf(b, e) \notin Listed(b)
    BY <1>2, <1>3, TripListed
  <2>2. WithTrip(es, Time(b), to, path, fast, sum, number) = Append(es, event)
    BY <1>3 DEF WithTrip, event
  <2>3. QED
    BY <1>1, <1>2, <2>1, <2>2, CountsMore
<1>4. CASE ~(Len(path) >= 2)
  BY <1>2, <1>4, TripListed DEF WithTrip
<1>5. QED
  BY <1>3, <1>4

\* The three ways in which a block ends, as closed formulas: they hold of the
\* history before a step and of the history after it.
StandsClose ==
  Recorded => \A b, m \in Positions, es \in Seq(Event) :
    Stands(b, m) /\ (Silent(m) \/ Moves(m + 1)) /\ Counts(es, Listed(b)) =>
      IsStop(b, m) /\ Counts(WithStop(es, Time(b), Time(m)), Listed(m + 1))

DrivesClose ==
  Recorded => \A b, m \in Positions, es \in Seq(Event),
                 path \in Seq(Nat), fast, sum, number \in Nat :
    Drives(b, m) /\ Silent(m) /\ Measures(b, m, path, fast, sum, number)
        /\ Counts(es, Listed(b)) =>
      Counts(WithTrip(es, Time(b), Time(m), path, fast, sum, number), Listed(m + 1))

StopsClose ==
  Recorded => \A b, m, h \in Positions, es \in Seq(Event),
                 path \in Seq(Nat), fast, sum, number \in Nat :
    Drives(b, m) /\ Measures(b, m, path, fast, sum, number)
        /\ b < h /\ h <= m /\ m + 1 \in Positions /\ Moves(h - 1) /\ IsStop(h, m + 1)
        /\ Counts(es, Listed(b)) =>
      Counts(WithTrip(es, Time(b), Time(h), path, fast, sum, number), Listed(h))

\* The stop that is open ends.
LEMMA StandsCloseHolds == StandsClose
  BY StandIsStop, StopCounts DEF StandsClose

\* The trip that is open ends in a silence.
LEMMA DrivesCloseHolds == DrivesClose
<1> SUFFICES ASSUME Recorded, NEW b \in Positions, NEW m \in Positions,
                    NEW es \in Seq(Event), NEW path \in Seq(Nat),
                    NEW fast \in Nat, NEW sum \in Nat, NEW number \in Nat,
                    Drives(b, m), Silent(m), Measures(b, m, path, fast, sum, number),
                    Counts(es, Listed(b))
             PROVE  Counts(WithTrip(es, Time(b), Time(m), path, fast, sum, number),
                           Listed(m + 1))
  BY DEF DrivesClose
<1>1. IsTrip(b, m) /\ PathOf(b, m) = b..m
  BY DriveIsTrip
<1>2. b <= m /\ Time(m) \in Nat /\ Time(m) = IF Silent(m) THEN Time(m) ELSE Time(m + 1)
  BY RecordedFacts DEF Drives, Whole
<1>3. QED
  BY <1>1, <1>2, TripCounts

\* The trip that is open ends where a stop began.
LEMMA StopsCloseHolds == StopsClose
<1> SUFFICES ASSUME Recorded, NEW b \in Positions, NEW m \in Positions,
                    NEW h \in Positions,
                    NEW es \in Seq(Event), NEW path \in Seq(Nat),
                    NEW fast \in Nat, NEW sum \in Nat, NEW number \in Nat,
                    Drives(b, m), Measures(b, m, path, fast, sum, number),
                    b < h, h <= m, m + 1 \in Positions, Moves(h - 1), IsStop(h, m + 1),
                    Counts(es, Listed(b))
             PROVE  Counts(WithTrip(es, Time(b), Time(h), path, fast, sum, number),
                           Listed(h))
  BY DEF StopsClose
<1>1. h \in (b + 1)..m /\ h - 1 \in Positions /\ (h - 1) + 1 = h /\ b <= m
  BY RecordedFacts
<1>2. /\ IsTrip(b, h - 1) /\ PathOf(b, h - 1) = b..m
      /\ SpeedsOf(b, h - 1) = SpeedsOf(b, m) /\ ~Silent(h - 1)
  BY <1>1, StopEndsDrive
<1>3. PICK e \in Positions : e = h - 1
  BY <1>1
<1>4. Time(h) \in Nat /\ Time(h) = IF Silent(e) THEN Time(e) ELSE Time(e + 1)
  BY <1>1, <1>2, <1>3, RecordedFacts
<1>5. Counts(WithTrip(es, Time(b), Time(h), path, fast, sum, number), Listed(e + 1))
  BY <1>1, <1>2, <1>3, <1>4, TripCounts
<1>6. QED
  BY <1>1, <1>3, <1>5

\* All three hold of the history after a step.
LEMMA ClosingNext == StandsClose' /\ DrivesClose' /\ StopsClose'
  BY StandsCloseHolds, DrivesCloseHolds, StopsCloseHolds, PTL

-----------------------------------------------------------------------------
(* A trip begins and goes on.                                              *)

\* The sum over the positions of a history.
LEMMA SumOfFacts ==
  ASSUME Recorded, NEW K \in SUBSET Positions
  PROVE  /\ SumOf[K] \in Nat
         /\ K = {} => SumOf[K] = 0
         /\ \A x \in K : SumOf[K] = read[x].speed + SumOf[K \ {x}]
<1>1. IsFiniteSet(1..MaxPositions) /\ K \in SUBSET (1..MaxPositions)
  <2>1. MaxPositions \in Nat /\ 1 \in Int /\ MaxPositions \in Int
    BY ConstantsOK
  <2>2. Positions = 1..Len(read) /\ Len(read) \in Nat /\ Len(read) <= MaxPositions
    BY RecordedFacts DEF Recorded
  <2>3. Positions \subseteq 1..MaxPositions
    BY <2>1, <2>2
  <2>4. QED
    BY <2>1, <2>3, FS_Interval
<1>2. \A k \in K : read[k].speed \in Nat
  BY RecordedFacts
<1>3. SumOf[K] \in Nat
  BY <1>1, <1>2, SumOfSums, SumType
<1>4. K = {} => SumOf[K] = 0
  BY <1>1, SumOfSums, SummingStep
<1>5. ASSUME NEW x \in K
      PROVE  SumOf[K] = read[x].speed + SumOf[K \ {x}]
  <2>1. PICK f, r, S : f = SumOf /\ r = read /\ S = 1..MaxPositions
    OBVIOUS
  <2>2. /\ Summing(f, r, S) /\ IsFiniteSet(S) /\ K \in SUBSET S
        /\ \A k \in K : r[k].speed \in Nat
    BY <1>1, <1>2, <2>1, SumOfSums
  <2>3. f[K] = r[x].speed + f[K \ {x}]
    BY <2>2, SumRemove
  <2>4. QED
    BY <2>1, <2>3
<1>6. QED
  BY <1>3, <1>4, <1>5

TripBegins ==
  Recorded => \A m \in Positions, speed \in Nat :
    speed = read[m].speed /\ Moves(m) /\ (Opens(m) \/ StopsBefore(m)) =>
      Drives(m, m) /\ Measures(m, m, <<m>>, speed, speed, 1)

TripGoesOn ==
  Recorded => \A b, m \in Positions, path \in Seq(Nat), fast, sum, number \in Nat :
    b <= m /\ m + 1 \in Positions /\ Measures(b, m, path, fast, sum, number) =>
      /\ Moves(m + 1) =>
           Measures(b, m + 1, Append(path, m + 1),
                    IF read[m + 1].speed > fast THEN read[m + 1].speed ELSE fast,
                    sum + read[m + 1].speed, number + 1)
      /\ ~Moves(m + 1) => Measures(b, m + 1, Append(path, m + 1), fast, sum, number)

\* A moving position begins a trip, which is that position so far.
LEMMA TripBeginsHolds == TripBegins
<1> SUFFICES ASSUME Recorded, NEW m \in Positions, NEW speed \in Nat,
                    speed = read[m].speed, Moves(m), Opens(m) \/ StopsBefore(m)
             PROVE  Drives(m, m) /\ Measures(m, m, <<m>>, speed, speed, 1)
  BY DEF TripBegins
<1>1. m \in Nat
  BY RecordedFacts
<1>2. Drives(m, m)
  <2>1. m..(m - 1) = {} /\ (m + 1)..m = {}
    BY <1>1
  <2>2. QED
    BY <1>1, <2>1 DEF Drives, Whole, ShortStands
<1>3. SpeedsOf(m, m) = {m}
  BY <1>1 DEF SpeedsOf
<1>4. SumOf[{m}] = speed /\ Cardinality({m}) = 1
  <2>1. {m} \in SUBSET Positions /\ {} \in SUBSET Positions /\ {m} \ {m} = {}
    OBVIOUS
  <2>2. SumOf[{m}] = read[m].speed + SumOf[{m} \ {m}] /\ SumOf[{}] = 0
    BY <2>1, SumOfFacts
  <2>3. SumOf[{m}] = speed
    BY <1>1, <2>1, <2>2
  <2>4. QED
    BY <2>3, FS_Singleton
<1>5. <<m>> = [k \in 1..(m - m + 1) |-> m + k - 1]
  <2>1. m - m + 1 = 1 /\ \A k \in 1..1 : m + k - 1 = m
    BY <1>1
  <2>2. QED
    BY <2>1
<1>6. Measures(m, m, <<m>>, speed, speed, 1)
  BY <1>1, <1>3, <1>4, <1>5 DEF Measures
<1>7. QED
  BY <1>2, <1>6

\* A position more is noted of a trip.
LEMMA TripGoesOnHolds == TripGoesOn
<1> SUFFICES ASSUME Recorded, NEW b \in Positions, NEW m \in Positions,
                    NEW path \in Seq(Nat), NEW fast \in Nat, NEW sum \in Nat,
                    NEW number \in Nat, b <= m, m + 1 \in Positions,
                    Measures(b, m, path, fast, sum, number)
             PROVE  /\ Moves(m + 1) =>
                         Measures(b, m + 1, Append(path, m + 1),
                                  IF read[m + 1].speed > fast THEN read[m + 1].speed ELSE fast,
                                  sum + read[m + 1].speed, number + 1)
                    /\ ~Moves(m + 1) =>
                         Measures(b, m + 1, Append(path, m + 1), fast, sum, number)
  BY DEF TripGoesOn
<1>1. /\ b \in Nat /\ m \in Nat /\ m - b + 1 \in Nat /\ read[m + 1].speed \in Nat
      /\ b..(m + 1) = b..m \cup {m + 1} /\ m + 1 \notin b..m
      /\ b..m \subseteq Positions
  <2>1. b \in Nat \ {0} /\ m \in Nat /\ m <= Len(read) /\ Len(read) \in Nat
        /\ Positions = 1..Len(read)
    BY RecordedFacts
  <2>2. read[m + 1].speed \in Nat
    BY RecordedFacts
  <2>3. b..(m + 1) = b..m \cup {m + 1} /\ m + 1 \notin b..m
    BY <2>1
  <2>4. b..m \subseteq Positions
    BY <2>1
  <2>5. QED
    BY <2>1, <2>2, <2>3, <2>4
<1>2. Append(path, m + 1) = [k \in 1..((m + 1) - b + 1) |-> b + k - 1]
  <2>1. PICK n \in Nat : n = m - b + 1
    BY <1>1
  <2>2. path = [k \in 1..n |-> b + k - 1] /\ (m + 1) - b + 1 = n + 1 /\ b + (n + 1) - 1 = m + 1
    BY <1>1, <2>1 DEF Measures
  <2>3. Len(path) = n
    BY <2>2
  <2>4. QED
    BY <1>1, <2>2, <2>3
<1>3. SpeedsOf(b, m) \subseteq Positions /\ m + 1 \notin SpeedsOf(b, m)
      /\ \A k \in SpeedsOf(b, m) : read[k].speed \in Nat
  BY <1>1, RecordedFacts DEF SpeedsOf
<1>4. CASE ~Moves(m + 1)
  <2>1. SpeedsOf(b, m + 1) = SpeedsOf(b, m)
    BY <1>1, <1>4 DEF SpeedsOf
  <2>2. QED
    BY <1>2, <1>4, <2>1 DEF Measures
<1>5. CASE Moves(m + 1)
  <2>1. SpeedsOf(b, m + 1) = SpeedsOf(b, m) \cup {m + 1}
    BY <1>1, <1>5 DEF SpeedsOf
  <2>2. PICK K \in SUBSET Positions : K = SpeedsOf(b, m)
    BY <1>3
  <2>3. /\ fast \in {read[k].speed : k \in K} /\ \A k \in K : read[k].speed <= fast
        /\ sum = SumOf[K] /\ number = Cardinality(K)
    BY <2>2 DEF Measures
  <2>4. Cardinality(K \cup {m + 1}) = number + 1
    <3>1. IsFiniteSet(Positions)
      BY FS_Interval, RecordedFacts
    <3>2. IsFiniteSet(K)
      BY <3>1, FS_Subset
    <3>3. QED
      BY <1>3, <2>2, <2>3, <3>2, FS_AddElement
  <2>5. SumOf[K \cup {m + 1}] = sum + read[m + 1].speed
    <3>1. K \cup {m + 1} \in SUBSET Positions /\ m + 1 \in K \cup {m + 1}
      OBVIOUS
    <3>2. (K \cup {m + 1}) \ {m + 1} = K
      BY <1>3, <2>2
    <3>3. SumOf[K \cup {m + 1}] = read[m + 1].speed + SumOf[K]
      BY <3>1, <3>2, SumOfFacts
    <3>4. PICK v \in Nat : v = read[m + 1].speed
      BY <1>1
    <3>5. v + sum = sum + v
      OBVIOUS
    <3>6. QED
      BY <2>3, <3>3, <3>4, <3>5
  <2>6. PICK top \in Nat : top = IF read[m + 1].speed > fast THEN read[m + 1].speed ELSE fast
    BY <1>1
  <2>7. /\ \E k \in K \cup {m + 1} : top = read[k].speed
        /\ \A k \in K \cup {m + 1} : read[k].speed <= top
    <3>1. PICK k \in K : fast = read[k].speed
      BY <2>3
    <3>2. \A j \in K : read[j].speed \in Nat
      BY <1>3, <2>2
    <3>3. \/ top = read[m + 1].speed /\ fast <= top
          \/ top = fast /\ read[m + 1].speed <= top
      BY <1>1, <2>6
    <3>4. \E j \in K \cup {m + 1} : top = read[j].speed
      BY <3>1, <3>3
    <3>5. fast <= top /\ read[m + 1].speed <= top
      BY <1>1, <2>6, <3>3
    <3>6. \A j \in K : read[j].speed <= top
      BY <2>3, <3>2, <3>5
    <3>7. QED
      BY <3>4, <3>5, <3>6
  <2>8. QED
    BY <1>2, <1>5, <2>1, <2>2, <2>4, <2>5, <2>6, <2>7 DEF Measures
<1>6. QED
  BY <1>4, <1>5

\* Both hold of the history after a step.
LEMMA TripNext == TripBegins' /\ TripGoesOn'
  BY TripBeginsHolds, TripGoesOnHolds, PTL

-----------------------------------------------------------------------------
(* One more position changes nothing of the blocks that have ended.        *)

Extends(n) ==
  /\ n \in Nat \ {0} /\ Len(read) = n /\ Len(read') = n + 1
  /\ Positions = 1..n /\ Positions' = 1..(n + 1)
  /\ Recorded /\ Recorded'
  /\ \A i \in 1..n : (Moves(i)' <=> Moves(i)) /\ Time(i)' = Time(i) /\ read'[i] = read[i]
  /\ \A i \in 1..(n - 1) : Silent(i)' <=> Silent(i)
  /\ Silent(n) /\ Silent(n + 1)'

\* Reading a position extends the history by it.
LEMMA Extending ==
  ASSUME TypeOK, Recorded, NEW delay \in Delays, NEW speed \in Speeds,
         Reads(delay, speed), NEW n, n = Len(read)
  PROVE  /\ Extends(n)
         /\ Time(n) = Now /\ Time(n + 1)' = Now + delay
         /\ read'[n + 1].speed = speed
         /\ Moves(n + 1)' <=> IsMoving(speed)
         /\ Silent(n)' <=> delay > MaxGap
<1> DEFINE p == [time |-> Now + delay, speed |-> speed]
<1>1. /\ read \in Seq(Position) /\ n \in Nat \ {0} /\ p \in Position
      /\ p.time = Now + delay /\ p.speed = speed
  BY NowIsTime, ReadsOn DEF Position
<1>2. read' = Append(read, p) /\ n < MaxPositions
  BY DEF Reads
<1> HIDE DEF p
<1>3. /\ read' \in Seq(Position) /\ read' # <<>> /\ Len(read') = n + 1 /\ read'[n + 1] = p
      /\ \A i \in 1..n : read'[i] = read[i]
  BY <1>1, <1>2
<1>4. Positions = 1..n /\ Positions' = 1..(n + 1) /\ 1..(n + 1) = 1..n \cup {n + 1}
  BY <1>1, <1>3 DEF Positions
<1>5. \A i \in 1..n : (Moves(i)' <=> Moves(i)) /\ Time(i)' = Time(i)
  BY <1>3 DEF Moves, Time
<1>6. /\ Time(n) = Now /\ Time(n + 1)' = Now + delay /\ n \in 1..n
      /\ (Moves(n + 1)' <=> IsMoving(speed))
  BY <1>1, <1>3 DEF Time, Now, Moves, IsMoving
<1>7. \A i \in 1..n : i # n + 1 /\ i + 1 \in 1..(n + 1) /\ (i # n => i + 1 \in 1..n)
  BY <1>1
<1>8. ASSUME NEW i \in 1..(n - 1)
      PROVE  Silent(i)' <=> Silent(i)
  <2>1. i \in 1..n /\ i # n
    BY <1>1
  <2>2. i + 1 \in 1..n /\ i # n + 1
    BY <1>7, <2>1
  <2>3. Time(i)' = Time(i) /\ Time(i + 1)' = Time(i + 1)
    BY <1>5, <2>1, <2>2
  <2>4. Silent(i) <=> Time(i + 1) - Time(i) > MaxGap
    BY <2>1 DEF Silent
  <2>5. Silent(i)' <=> Time(i + 1)' - Time(i)' > MaxGap
    BY <1>3, <2>2 DEF Silent
  <2>6. QED
    BY <2>3, <2>4, <2>5
<1>9. Silent(n)' <=> delay > MaxGap
  <2>1. Silent(n)' <=> Time(n + 1)' - Time(n)' > MaxGap
    BY <1>3, <1>6, <1>7 DEF Silent
  <2>2. Time(n + 1)' = Now + delay /\ Time(n)' = Now /\ Now \in Nat /\ delay \in Nat
    BY <1>5, <1>6, NowIsTime, ReadsOn
  <2>3. (Now + delay) - Now = delay
    BY <2>2
  <2>4. QED
    BY <2>1, <2>2, <2>3
<1>10. Silent(n) /\ Silent(n + 1)'
  BY <1>3 DEF Silent
<1>11. Recorded'
  <2>0. Now \in Nat /\ delay \in Nat
    BY NowIsTime, ReadsOn
  <2>1. ASSUME NEW i \in 1..(n + 1), NEW j \in 1..(n + 1), i <= j
        PROVE  Time(i)' <= Time(j)'
    <3>1. CASE j \in 1..n
      <4>1. i \in 1..n
        BY <1>1, <2>1, <3>1
      <4>2. QED
        BY <1>4, <1>5, <2>1, <3>1, <4>1 DEF Recorded
    <3>2. CASE j = n + 1 /\ i \in 1..n
      <4>1. Time(i) <= Time(n) /\ Time(i) \in Nat /\ Time(n) \in Nat
        BY <1>1, <1>4, <3>2, RecordedFacts
      <4>2. Time(i) <= Now + delay
        BY <1>6, <2>0, <4>1
      <4>3. Time(j)' = Now + delay
        BY <1>6, <3>2
      <4>4. QED
        BY <1>5, <3>2, <4>2, <4>3
    <3>3. CASE j = n + 1 /\ i = n + 1
      <4>1. Time(i)' = Now + delay /\ Time(j)' = Now + delay
        BY <1>6, <3>3
      <4>2. QED
        BY <2>0, <4>1
    <3>4. QED
      BY <1>4, <3>1, <3>2, <3>3
  <2>2. Len(read') <= MaxPositions
    BY <1>1, <1>2, <1>3, ConstantsOK
  <2>3. QED
    BY <1>3, <1>4, <2>1, <2>2 DEF Recorded
<1>12. Extends(n)
  BY <1>1, <1>3, <1>4, <1>5, <1>8, <1>10, <1>11 DEF Extends
<1>13. QED
  BY <1>1, <1>3, <1>6, <1>9, <1>12

\* What lies between two gaps, and stands.
LEMMA WholeKept ==
  ASSUME NEW n, Extends(n), NEW i \in 1..n, NEW j \in 1..n
  PROVE  /\ Whole(i, j)' <=> Whole(i, j)
         /\ (\A k \in i..j : ~Moves(k))' <=> \A k \in i..j : ~Moves(k)
<1>1. \A k \in i..(j - 1) : k \in 1..(n - 1)
  BY DEF Extends
<1>2. \A k \in i..j : k \in 1..n
  BY DEF Extends
<1>3. QED
  BY <1>1, <1>2 DEF Extends, Whole

\* What opens a block.
LEMMA OpensKept ==
  ASSUME NEW n, Extends(n), NEW i \in 1..(n + 1), i # n + 1
  PROVE  /\ Opens(i)' <=> Opens(i)
         /\ i # 1 => (Moves(i - 1)' <=> Moves(i - 1))
<1>1. i # 1 => i - 1 \in 1..(n - 1) /\ i - 1 \in 1..n
  BY DEF Extends
<1>2. QED
  BY <1>1 DEF Extends, Opens

\* The stops that end before the last position.
LEMMA IsStopKept ==
  ASSUME NEW n, Extends(n), NEW i \in 1..n, NEW j \in 1..(n - 1)
  PROVE  IsStop(i, j)' <=> IsStop(i, j)
<1>1. /\ j \in 1..n /\ j + 1 \in 1..n /\ i \in 1..(n + 1) /\ i # n + 1
  BY DEF Extends
<1>2. /\ Whole(i, j)' <=> Whole(i, j)
      /\ (\A k \in i..j : ~Moves(k))' <=> \A k \in i..j : ~Moves(k)
      /\ Opens(i)' <=> Opens(i)
      /\ i # 1 => (Moves(i - 1)' <=> Moves(i - 1))
  BY <1>1, WholeKept, OpensKept
<1>3. /\ Silent(j)' <=> Silent(j)
      /\ Moves(j + 1)' <=> Moves(j + 1)
      /\ Time(i)' = Time(i) /\ Time(j)' = Time(j)
  BY <1>1 DEF Extends
<1>4. i = 1 => Opens(i) /\ Opens(i)'
  BY DEF Opens
<1>5. QED
  BY <1>2, <1>3, <1>4 DEF IsStop

\* The stops that end right before a position.
LEMMA StopsBeforeKept ==
  ASSUME NEW n, Extends(n), NEW i \in 1..n
  PROVE  StopsBefore(i)' <=> StopsBefore(i)
<1>1. \A h \in 1..(i - 1) : h \in 1..n /\ i - 1 \in 1..(n - 1)
  BY DEF Extends
<1>2. \A h \in 1..(i - 1) : IsStop(h, i - 1)' <=> IsStop(h, i - 1)
  <2>1. PICK j : j = i - 1
    OBVIOUS
  <2>2. \A h \in 1..(i - 1) : IsStop(h, j)' <=> IsStop(h, j)
    BY <1>1, <2>1, IsStopKept
  <2>3. QED
    BY <2>1, <2>2
<1>3. QED
  BY <1>2 DEF StopsBefore

\* The open stop.
LEMMA StandsKept ==
  ASSUME NEW n, Extends(n), NEW b \in 1..n
  PROVE  Stands(b, n)' <=> Stands(b, n)
<1>1. n \in 1..n /\ b \in 1..(n + 1) /\ b # n + 1
  BY DEF Extends
<1>2. /\ Whole(b, n)' <=> Whole(b, n)
      /\ (\A k \in b..n : ~Moves(k))' <=> \A k \in b..n : ~Moves(k)
      /\ Opens(b)' <=> Opens(b)
      /\ b # 1 => (Moves(b - 1)' <=> Moves(b - 1))
  BY <1>1, WholeKept, OpensKept
<1>3. Time(b)' = Time(b) /\ Time(n)' = Time(n)
  BY <1>1 DEF Extends
<1>4. b = 1 => Opens(b) /\ Opens(b)'
  BY DEF Opens
<1>5. QED
  BY <1>2, <1>3, <1>4 DEF Stands

\* The open trip.
LEMMA DrivesKept ==
  ASSUME NEW n, Extends(n), NEW b \in 1..n
  PROVE  Drives(b, n)' <=> Drives(b, n)
<1>1. n \in 1..n /\ b \in 1..(n + 1) /\ b # n + 1
  BY DEF Extends
<1>2. /\ Whole(b, n)' <=> Whole(b, n)
      /\ Opens(b)' <=> Opens(b)
      /\ StopsBefore(b)' <=> StopsBefore(b)
      /\ Moves(b)' <=> Moves(b)
  BY <1>1, WholeKept, OpensKept, StopsBeforeKept DEF Extends
<1>3. \A i \in (b + 1)..n : i \in 1..n
  BY DEF Extends
<1>4. \A i, j \in (b + 1)..n :
        /\ (\A k \in i..j : ~Moves(k))' <=> \A k \in i..j : ~Moves(k)
        /\ Time(i)' = Time(i) /\ Time(j)' = Time(j)
  BY <1>3, WholeKept DEF Extends
<1>5. ShortStands(b, n)' <=> ShortStands(b, n)
  BY <1>4 DEF ShortStands
<1>6. QED
  BY <1>2, <1>5 DEF Drives

\* The speeds of a block and their sum.
LEMMA SpeedsOfKept ==
  ASSUME NEW n, Extends(n), NEW i \in 1..n, NEW j \in 1..n
  PROVE  /\ SpeedsOf(i, j)' = SpeedsOf(i, j) /\ SpeedsOf(i, j) \subseteq 1..n
         /\ SumOf'[SpeedsOf(i, j)] = SumOf[SpeedsOf(i, j)]
<1>1. \A k \in i..j : k \in 1..n
  BY DEF Extends
<1>2. SpeedsOf(i, j)' = SpeedsOf(i, j) /\ SpeedsOf(i, j) \subseteq 1..n
  BY <1>1 DEF Extends, SpeedsOf
<1>3. PICK K : K = SpeedsOf(i, j)
  OBVIOUS
<1>4. PICK f, g, r, q, S : /\ f = SumOf' /\ g = SumOf /\ r = read' /\ q = read
                           /\ S = 1..MaxPositions
  OBVIOUS
<1>5. Summing(f, r, S) /\ Summing(g, q, S)
  BY <1>4, SumOfSums, SumOfSumsNext
<1>6. IsFiniteSet(S) /\ K \in SUBSET S
  <2>1. MaxPositions \in Nat /\ 1 \in Int /\ MaxPositions \in Int
    BY ConstantsOK
  <2>2. n \in Nat /\ n <= MaxPositions
    BY DEF Extends, Recorded
  <2>3. 1..n \subseteq 1..MaxPositions
    BY <2>1, <2>2
  <2>4. QED
    BY <1>2, <1>3, <1>4, <2>1, <2>3, FS_Interval
<1>7. \A k \in K : r[k].speed = q[k].speed
  BY <1>2, <1>3, <1>4 DEF Extends
<1>8. f[K] = g[K]
  BY <1>5, <1>6, <1>7, SumsAgree
<1>9. QED
  BY <1>2, <1>3, <1>4, <1>8

\* What was noted of the open trip.
LEMMA MeasuresKept ==
  ASSUME NEW n, Extends(n), NEW b \in 1..n, NEW path, NEW fast, NEW sum, NEW number,
         Measures(b, n, path, fast, sum, number)
  PROVE  Measures(b, n, path, fast, sum, number)'
<1>1. n \in 1..n
  BY DEF Extends
<1>2. /\ SpeedsOf(b, n)' = SpeedsOf(b, n) /\ SpeedsOf(b, n) \subseteq 1..n
      /\ SumOf'[SpeedsOf(b, n)] = SumOf[SpeedsOf(b, n)]
  BY <1>1, SpeedsOfKept
<1>3. \A k \in SpeedsOf(b, n) : read'[k] = read[k]
  BY <1>2 DEF Extends
<1>4. QED
  BY <1>2, <1>3 DEF Measures

\* A block begins at b: a stand is not one on both sides of it.
Edge(b) == Moves(b) \/ Opens(b) \/ (b # 1 /\ Moves(b - 1))

NoStopAcross ==
  Recorded => \A b, k, h \in Positions : Edge(b) /\ k < b /\ b <= h => ~IsStop(k, h)

\* No stop lies on both sides of an edge.
LEMMA NoStopAcrossHolds == NoStopAcross
<1> SUFFICES ASSUME Recorded, NEW b \in Positions, NEW k \in Positions, NEW h \in Positions,
                    Edge(b), k < b, b <= h, IsStop(k, h)
             PROVE  FALSE
  BY DEF NoStopAcross
<1>1. b \in Nat \ {0} /\ k \in Nat \ {0} /\ h \in Nat
  BY RecordedFacts
<1>2. b - 1 \in k..(h - 1) /\ b - 1 \in k..h /\ b \in k..h /\ b # 1
  BY <1>1
<1>3. ~Silent(b - 1) /\ ~Moves(b - 1) /\ ~Moves(b)
  BY <1>2 DEF IsStop, Whole
<1>4. QED
  BY <1>2, <1>3 DEF Edge, Opens

\* Nor is there one in the history after a step.
LEMMA NoStopAcrossNext == NoStopAcross'
  BY NoStopAcrossHolds, PTL

\* The times of the positions.
LEMMA TimesAreNumbers == Recorded => \A i \in Positions : Time(i) \in Nat \ {0}
  BY RecordedFacts

\* And of the positions after a step.
LEMMA TimesAreNumbersNext == (Recorded => \A i \in Positions : Time(i) \in Nat \ {0})'
  BY TimesAreNumbers, PTL

\* A stand goes on with a standing position, unless after a silence.
LEMMA StandGoesOn ==
  ASSUME NEW n, Extends(n), NEW b \in 1..n, Stands(b, n), ~Silent(n)', ~Moves(n + 1)'
  PROVE  Stands(b, n + 1)'
<1>1. Stands(b, n)'
  BY StandsKept
<1>2. /\ n \in Nat /\ b \in Nat /\ b <= n /\ b..(n + 1) = b..n \cup {n + 1}
      /\ b..((n + 1) - 1) = b..(n - 1) \cup {n}
  BY DEF Extends
<1>3. Whole(b, n + 1)' /\ (\A k \in b..(n + 1) : ~Moves(k))'
  BY <1>1, <1>2 DEF Stands, Whole
<1>4. Time(n + 1)' >= Time(n)' /\ Time(n + 1)' \in Nat /\ Time(n)' \in Nat /\ Time(b)' \in Nat
  <2>1. Recorded' /\ n \in Positions' /\ n + 1 \in Positions' /\ b \in Positions'
    BY <1>2 DEF Extends
  <2>2. Time(n)' \in Nat /\ Time(n + 1)' \in Nat /\ Time(b)' \in Nat
    BY <2>1, TimesAreNumbersNext
  <2>3. Time(n)' <= Time(n + 1)'
    BY <1>2, <2>1 DEF Recorded
  <2>4. QED
    BY <2>1, <2>2, <2>3
<1>5. Opens(b)' \/ Time(n + 1)' - Time(b)' > MinStop
  BY <1>1, <1>4, ConstantsOK DEF Stands
<1>6. QED
  BY <1>1, <1>3, <1>5 DEF Stands

\* The open block begins at an edge.
LEMMA StandsEdge ==
  ASSUME NEW n, Extends(n), NEW b \in 1..n, Stands(b, n) \/ Drives(b, n)
  PROVE  Edge(b) /\ Edge(b)'
<1>1. b \in 1..(n + 1) /\ b # n + 1
  BY DEF Extends
<1>2. Edge(b)
  BY DEF Edge, Stands, Drives, Opens
<1>3. Opens(b)' <=> Opens(b)
  BY <1>1, OpensKept
<1>4. b # 1 => (Moves(b - 1)' <=> Moves(b - 1))
  BY <1>1, OpensKept
<1>5. Moves(b)' <=> Moves(b)
  BY DEF Extends
<1>6. QED
  BY <1>2, <1>3, <1>4, <1>5 DEF Edge

\* A stop that begins in the blocks before the open one, or with it.
LEMMA StopsAtKept ==
  ASSUME NEW n, Extends(n), NEW b \in 1..n, Stands(b, n) \/ Drives(b, n), NEW k \in 1..b
  PROVE  StopsAt(k)' <=> StopsAt(k)
<1>1. /\ n \in Nat /\ b \in Nat \ {0} /\ b <= n /\ k \in 1..n /\ k \in 1..(n + 1)
      /\ Len(read) = n /\ Len(read') = n + 1
      /\ Positions = 1..n /\ Positions' = 1..(n + 1) /\ Recorded /\ Recorded'
  BY DEF Extends
<1>2. Edge(b) /\ Edge(b)'
  BY StandsEdge
<1>3. CASE k < b
  <2>1. ASSUME NEW h \in k..n, IsStop(k, h) PROVE h \in k..(b - 1)
    <3>1. h \in Positions /\ k \in Positions /\ b \in Positions
      BY <1>1
    <3>2. ~(b <= h)
      BY <1>1, <1>2, <1>3, <2>1, <3>1, NoStopAcrossHolds DEF NoStopAcross
    <3>3. QED
      BY <1>1, <3>2
  <2>2. ASSUME NEW h \in k..(n + 1), IsStop(k, h)' PROVE h \in k..(b - 1)
    <3>1. h \in Positions' /\ k \in Positions' /\ b \in Positions'
      BY <1>1
    <3>2. ~(b <= h)
      BY <1>1, <1>2, <1>3, <2>2, <3>1, NoStopAcrossNext DEF NoStopAcross
    <3>3. QED
      BY <1>1, <3>2
  <2>3. \A h \in k..(b - 1) : h \in 1..(n - 1) /\ h \in k..n /\ h \in k..(n + 1)
    BY <1>1
  <2>4. \A h \in k..(b - 1) : IsStop(k, h)' <=> IsStop(k, h)
    BY <1>1, <2>3, IsStopKept
  <2>5. StopsAt(k) <=> \E h \in k..(b - 1) : IsStop(k, h)
    BY <1>1, <2>1, <2>3 DEF StopsAt
  <2>6. StopsAt(k)' <=> \E h \in k..(b - 1) : IsStop(k, h)'
    BY <1>1, <2>2, <2>3 DEF StopsAt
  <2>7. QED
    BY <2>4, <2>5, <2>6
<1>4. CASE k = b /\ Drives(b, n)
  <2>1. Moves(b) /\ Moves(b)'
    BY <1>1, <1>4 DEF Drives, Extends
  <2>2. ~StopsAt(b)
    <3>1. \A h \in b..Len(read) : b \in b..h
      BY <1>1
    <3>2. QED
      BY <2>1, <3>1 DEF StopsAt, IsStop
  <2>3. ~StopsAt(b)'
    <3>1. \A h \in b..Len(read') : b \in b..h
      BY <1>1
    <3>2. QED
      BY <2>1, <3>1 DEF StopsAt, IsStop
  <2>4. QED
    BY <1>4, <2>2, <2>3
<1>5. CASE k = b /\ Stands(b, n)
  <2>1. n \in b..Len(read) /\ n \in b..Len(read') /\ n + 1 \in b..Len(read')
    BY <1>1
  <2>2. StopsAt(b)
    <3>1. IsStop(b, n)
      BY <1>5 DEF Extends, Stands, IsStop
    <3>2. QED
      BY <2>1, <3>1 DEF StopsAt
  <2>3. StopsAt(b)'
    <3>1. CASE Silent(n)' \/ Moves(n + 1)'
      <4>1. Stands(b, n)'
        BY <1>5, StandsKept
      <4>2. IsStop(b, n)'
        BY <3>1, <4>1 DEF Stands, IsStop
      <4>3. QED
        BY <2>1, <4>2 DEF StopsAt
    <3>2. CASE ~Silent(n)' /\ ~Moves(n + 1)'
      <4>1. Stands(b, n + 1)'
        BY <1>5, <3>2, StandGoesOn
      <4>2. IsStop(b, n + 1)'
        BY <4>1 DEF Extends, Stands, IsStop
      <4>3. QED
        BY <2>1, <4>2 DEF StopsAt
    <3>3. QED
      BY <3>1, <3>2
  <2>4. QED
    BY <1>5, <2>2, <2>3
<1>6. QED
  BY <1>1, <1>3, <1>4, <1>5

\* The trips that end before the open block.
LEMMA IsTripKept ==
  ASSUME NEW n, Extends(n), NEW b \in 1..n, Stands(b, n) \/ Drives(b, n),
         NEW i \in 1..n, NEW j \in 1..(b - 1)
  PROVE  IsTrip(i, j)' <=> IsTrip(i, j)
<1>1. /\ n \in Nat /\ b \in Nat /\ j \in 1..n /\ j \in 1..(n - 1) /\ j + 1 \in 1..b
      /\ \A k \in (i + 1)..j : k \in 1..b
      /\ i \in 1..(n + 1) /\ i # n + 1
  BY DEF Extends
<1>2. /\ Whole(i, j)' <=> Whole(i, j)
      /\ Opens(i)' <=> Opens(i)
      /\ StopsBefore(i)' <=> StopsBefore(i)
      /\ Moves(i)' <=> Moves(i)
      /\ Silent(j)' <=> Silent(j)
  BY <1>1, WholeKept, OpensKept, StopsBeforeKept DEF Extends
<1>3. \A k \in (i + 1)..j : StopsAt(k)' <=> StopsAt(k)
  BY <1>1, StopsAtKept
<1>4. StopsAt(j + 1)' <=> StopsAt(j + 1)
  <2>1. PICK k \in 1..b : k = j + 1
    BY <1>1
  <2>2. StopsAt(k)' <=> StopsAt(k)
    BY StopsAtKept
  <2>3. QED
    BY <2>1, <2>2
<1>5. QED
  BY <1>2, <1>3, <1>4 DEF IsTrip

\* Their paths.
LEMMA PathOfKept ==
  ASSUME NEW n, Extends(n), NEW b \in 1..n, Stands(b, n) \/ Drives(b, n),
         NEW i \in 1..n, NEW j \in 1..(b - 1), IsTrip(i, j)
  PROVE  PathOf(i, j)' = PathOf(i, j)
<1>1. /\ n \in Nat /\ b \in Nat \ {0} /\ j \in 1..(n - 1) /\ j + 1 \in 1..n /\ j + 1 <= b
      /\ Len(read) = n /\ Len(read') = n + 1 /\ i \in Nat \ {0} /\ i <= j /\ j < b
      /\ i..(n + 1) = i..n \cup {n + 1} /\ Recorded
      /\ Positions = 1..n /\ Positions' = 1..(n + 1) /\ Recorded'
  BY DEF Extends, IsTrip, Whole
<1>2. PICK s : s = j + 1
  OBVIOUS
<1>3. /\ Silent(j)' <=> Silent(j)
      /\ Time(s)' = Time(s) /\ s \in 1..n
  BY <1>1, <1>2 DEF Extends
<1>4. ASSUME NEW k \in i..n
      PROVE  k \in PathOf(i, j)' <=> k \in PathOf(i, j)
  <2>1. k \in 1..n /\ k \in i..(n + 1) /\ \A x \in s..k : x \in 1..n
    BY <1>1, <1>2
  <2>2. /\ Whole(i, k)' <=> Whole(i, k)
        /\ Time(k)' = Time(k)
        /\ \A x \in s..k : Moves(x)' <=> Moves(x)
    BY <2>1, WholeKept DEF Extends
  <2>3. k \in PathOf(i, j) <=>
          k <= j \/ (/\ ~Silent(j) /\ Whole(i, k) /\ \A x \in s..k : ~Moves(x)
                     /\ Time(k) - Time(s) <= MinStop)
    BY <1>1, <1>2, <2>1 DEF PathOf
  <2>4. k \in PathOf(i, j)' <=>
          k <= j \/ (/\ ~Silent(j)' /\ Whole(i, k)' /\ \A x \in s..k : ~Moves(x)'
                     /\ Time(k)' - Time(s)' <= MinStop)
    BY <1>1, <1>2, <2>1 DEF PathOf
  <2>5. QED
    BY <1>3, <2>2, <2>3, <2>4
<1>5. ASSUME n + 1 \in PathOf(i, j)'
      PROVE  FALSE
  <2>1. ~(n + 1 <= j)
    BY <1>1
  <2>2. PICK m : m = n + 1
    OBVIOUS
  <2>3. /\ Whole(i, m)' /\ \A x \in s..m : ~Moves(x)'
        /\ Time(m)' - Time(s)' <= MinStop
    BY <1>2, <1>5, <2>1, <2>2 DEF PathOf
  <2>4. b \in s..m /\ b - 1 \in i..(m - 1) /\ b # 1
    BY <1>1, <1>2, <2>2
  <2>5. ~Moves(b)' /\ ~Silent(b - 1)'
    <3>1. PICK x : x = b - 1
      OBVIOUS
    <3>2. ~Silent(x)'
      BY <2>3, <2>4, <3>1 DEF Whole
    <3>3. QED
      BY <2>3, <2>4, <3>1, <3>2
  <2>6. Stands(b, n)
    BY <2>5 DEF Extends, Drives
  <2>7. ~Opens(b)
    <3>1. b \in 1..(n + 1) /\ b # n + 1
      BY <1>1
    <3>2. Opens(b)' <=> Opens(b)
      BY <3>1, OpensKept
    <3>3. QED
      BY <2>4, <2>5, <3>2 DEF Opens
  <2>8. Time(n) - Time(b) > MinStop
    BY <2>6, <2>7 DEF Stands
  <2>9. /\ Time(s) <= Time(b) /\ Time(n) \in Nat /\ Time(b) \in Nat /\ Time(s) \in Nat
    BY <1>1, <1>2, <1>3, RecordedFacts
  <2>10. Time(n)' = Time(n) /\ Time(m)' \in Nat /\ Time(n)' <= Time(m)'
    <3>1. n \in Positions' /\ m \in Positions' /\ n <= m /\ n \in 1..n
      BY <1>1, <2>2, <2>4
    <3>2. Time(m)' \in Nat
      BY <1>1, <3>1, TimesAreNumbersNext
    <3>3. QED
      BY <1>1, <3>1, <3>2 DEF Recorded, Extends
  <2>11. Time(m)' - Time(s) <= MinStop
    BY <1>3, <2>3
  <2>12. QED
    BY <2>8, <2>9, <2>10, <2>11, ConstantsOK
<1>6. PathOf(i, j) \subseteq i..n /\ PathOf(i, j)' \subseteq i..(n + 1)
  BY <1>1 DEF PathOf
<1>7. QED
  BY <1>1, <1>4, <1>5, <1>6

\* The highest speed of some positions of a history.
TopSpeed(r, K) == CHOOSE s \in {r[k].speed : k \in K} : \A k \in K : r[k].speed <= s

\* The fastest speed of some positions.
LEMMA TopSpeedKept ==
  ASSUME NEW r, NEW q, NEW K, \A k \in K : r[k] = q[k]
  PROVE  TopSpeed(r, K) = TopSpeed(q, K)
<1> DEFINE Top(w, s) == s \in {w[k].speed : k \in K} /\ \A k \in K : w[k].speed <= s
<1>1. \A s : Top(r, s) <=> Top(q, s)
  OBVIOUS
<1>2. (CHOOSE s : Top(r, s)) = (CHOOSE s : Top(q, s))
  <2> HIDE DEF Top
  <2>1. QED
    BY <1>1, Zenon
<1>3. QED
  BY <1>2 DEF TopSpeed

\* The event of a trip that ends before the open block.
LEMMA TripOfKept ==
  ASSUME NEW n, Extends(n), NEW b \in 1..n, Stands(b, n) \/ Drives(b, n),
         NEW i \in 1..n, NEW j \in 1..(b - 1), IsTrip(i, j)
  PROVE  TripOf(i, j)' = TripOf(i, j)
<1>1. j \in 1..n /\ j + 1 \in 1..n /\ j \in 1..(n - 1)
  BY DEF Extends
<1>2. PICK K, r, q : K = SpeedsOf(i, j) /\ r = read' /\ q = read
  OBVIOUS
<1>3. /\ SpeedsOf(i, j)' = K /\ K \subseteq 1..n /\ SumOf'[K] = SumOf[K]
  BY <1>1, <1>2, SpeedsOfKept
<1>4. TopSpeed(r, K) = TopSpeed(q, K)
  <2>1. \A k \in K : r[k] = q[k]
    BY <1>2, <1>3 DEF Extends
  <2>2. QED
    BY <2>1, TopSpeedKept
<1>5. PathOf(i, j)' = PathOf(i, j)
  BY PathOfKept
<1>6. /\ Time(i)' = Time(i) /\ Time(j)' = Time(j) /\ Time(j + 1)' = Time(j + 1)
      /\ Silent(j)' <=> Silent(j)
  <2>1. PICK s : s = j + 1
    OBVIOUS
  <2>2. Time(s)' = Time(s)
    BY <1>1, <2>1 DEF Extends
  <2>3. QED
    BY <1>1, <2>1, <2>2 DEF Extends
<1>7. TripOf(i, j) =
        [type |-> "trip", from |-> Time(i), to |-> IF Silent(j) THEN Time(j) ELSE Time(j + 1),
         path |-> PathOf(i, j), fastest |-> TopSpeed(q, K),
         total |-> SumOf[K], count |-> Cardinality(K)]
  BY <1>2 DEF TripOf, TopSpeed
<1>8. TripOf(i, j)' =
        [type |-> "trip", from |-> Time(i)', to |-> IF Silent(j)' THEN Time(j)' ELSE Time(j + 1)',
         path |-> PathOf(i, j)', fastest |-> TopSpeed(r, K),
         total |-> SumOf'[K], count |-> Cardinality(K)]
  BY <1>2, <1>3 DEF TripOf, TopSpeed
<1>9. QED
  BY <1>3, <1>4, <1>5, <1>6, <1>7, <1>8

\* The list of the blocks that end before the open one.
LEMMA ListedKept ==
  ASSUME NEW n, Extends(n), NEW b \in 1..n, Stands(b, n) \/ Drives(b, n)
  PROVE  Listed(b)' = Listed(b)
<1>1. /\ n \in Nat /\ b \in Nat /\ b <= n /\ Positions = 1..n /\ Positions' = 1..(n + 1)
  BY DEF Extends
<1>2. ASSUME NEW p \in Positions' \X Positions', p[2] < b, p[1] <= p[2]
      PROVE  p \in Positions \X Positions /\ p[1] \in 1..n /\ p[2] \in 1..(b - 1)
             /\ p[2] \in 1..(n - 1) /\ p[2] \in 1..n
  <2>1. p[1] \in 1..(n + 1) /\ p[2] \in 1..(n + 1) /\ p = <<p[1], p[2]>>
    BY <1>1
  <2>2. p[1] \in 1..n /\ p[2] \in 1..(b - 1) /\ p[2] \in 1..(n - 1) /\ p[2] \in 1..n
    BY <1>1, <1>2, <2>1
  <2>3. QED
    BY <1>1, <2>1, <2>2
<1>3. Positions \X Positions \subseteq Positions' \X Positions'
  BY <1>1
<1>4. \A p : /\ IsStop(p[1], p[2]) \/ IsTrip(p[1], p[2]) => p[1] <= p[2]
             /\ IsStop(p[1], p[2])' \/ IsTrip(p[1], p[2])' => p[1] <= p[2]
  BY DEF IsStop, IsTrip, Whole
<1>5. StopsUpTo(b)' = StopsUpTo(b)
  <2>1. ASSUME NEW p \in Positions' \X Positions', p[2] < b, p[1] <= p[2]
        PROVE  /\ IsStop(p[1], p[2])' <=> IsStop(p[1], p[2])
               /\ Time(p[1])' = Time(p[1]) /\ Time(p[2])' = Time(p[2])
    <3>1. PICK i, j : i = p[1] /\ j = p[2]
      OBVIOUS
    <3>2. i \in 1..n /\ j \in 1..(n - 1) /\ j \in 1..n
      BY <1>2, <2>1, <3>1
    <3>3. (IsStop(i, j)' <=> IsStop(i, j)) /\ Time(i)' = Time(i) /\ Time(j)' = Time(j)
      BY <3>2, IsStopKept DEF Extends
    <3>4. QED
      BY <3>1, <3>3
  <2>2. \A p : p \in StopsUpTo(b)' <=>
                 /\ p \in Positions' \X Positions' /\ p[2] < b
                 /\ IsStop(p[1], p[2])' /\ Time(p[2])' - Time(p[1])' > MinShown
    BY DEF StopsUpTo
  <2>3. \A p : p \in StopsUpTo(b) <=>
                 /\ p \in Positions \X Positions /\ p[2] < b
                 /\ IsStop(p[1], p[2]) /\ Time(p[2]) - Time(p[1]) > MinShown
    BY DEF StopsUpTo
  <2>4. \A p : p \in StopsUpTo(b)' => p \in StopsUpTo(b)
    BY <1>2, <1>4, <2>1, <2>2, <2>3
  <2>5. \A p : p \in StopsUpTo(b) => p \in StopsUpTo(b)'
    BY <1>3, <1>4, <2>1, <2>2, <2>3
  <2>6. QED
    BY <2>4, <2>5
<1>6. ASSUME NEW p \in Positions' \X Positions', p[2] < b, p[1] <= p[2]
      PROVE  /\ IsTrip(p[1], p[2])' <=> IsTrip(p[1], p[2])
             /\ IsTrip(p[1], p[2]) => /\ PathOf(p[1], p[2])' = PathOf(p[1], p[2])
                                      /\ TripOf(p[1], p[2])' = TripOf(p[1], p[2])
  <2>1. PICK i, j : i = p[1] /\ j = p[2]
    OBVIOUS
  <2>2. i \in 1..n /\ j \in 1..(b - 1)
    BY <1>2, <1>6, <2>1
  <2>3. /\ IsTrip(i, j)' <=> IsTrip(i, j)
        /\ IsTrip(i, j) => PathOf(i, j)' = PathOf(i, j) /\ TripOf(i, j)' = TripOf(i, j)
    BY <2>2, IsTripKept, PathOfKept, TripOfKept
  <2>4. QED
    BY <2>1, <2>3
<1>7. TripsUpTo(b)' = TripsUpTo(b)
  <2>1. \A p : p \in TripsUpTo(b)' <=>
                 /\ p \in Positions' \X Positions' /\ p[2] < b
                 /\ IsTrip(p[1], p[2])' /\ Cardinality(PathOf(p[1], p[2])') >= 2
    BY DEF TripsUpTo
  <2>2. \A p : p \in TripsUpTo(b) <=>
                 /\ p \in Positions \X Positions /\ p[2] < b
                 /\ IsTrip(p[1], p[2]) /\ Cardinality(PathOf(p[1], p[2])) >= 2
    BY DEF TripsUpTo
  <2>3. \A p : p \in TripsUpTo(b)' => p \in TripsUpTo(b)
    BY <1>2, <1>4, <1>6, <2>1, <2>2
  <2>4. \A p : p \in TripsUpTo(b) => p \in TripsUpTo(b)'
    BY <1>3, <1>4, <1>6, <2>1, <2>2
  <2>5. QED
    BY <2>3, <2>4
<1>8. \A p \in StopsUpTo(b) : StopOf(p[1], p[2])' = StopOf(p[1], p[2])
  <2>1. SUFFICES ASSUME NEW p \in StopsUpTo(b)
                 PROVE  StopOf(p[1], p[2])' = StopOf(p[1], p[2])
    OBVIOUS
  <2>2. PICK i, j : i = p[1] /\ j = p[2]
    OBVIOUS
  <2>3. i \in 1..n /\ j \in 1..n
    BY <1>1, <2>2 DEF StopsUpTo
  <2>4. StopOf(i, j)' = StopOf(i, j)
    BY <2>3 DEF StopOf, Extends
  <2>5. QED
    BY <2>2, <2>4
<1>9. \A p \in TripsUpTo(b) : TripOf(p[1], p[2])' = TripOf(p[1], p[2])
  BY <1>3, <1>4, <1>6 DEF TripsUpTo
<1>10. {StopOf(p[1], p[2])' : p \in StopsUpTo(b)'} = {StopOf(p[1], p[2]) : p \in StopsUpTo(b)}
  BY <1>5, <1>8
<1>11. {TripOf(p[1], p[2])' : p \in TripsUpTo(b)'} = {TripOf(p[1], p[2]) : p \in TripsUpTo(b)}
  BY <1>7, <1>9
<1>12. Listed(b)' = {StopOf(p[1], p[2])' : p \in StopsUpTo(b)'}
                    \cup {TripOf(p[1], p[2])' : p \in TripsUpTo(b)'}
  BY DEF Listed
<1>13. Listed(b) = {StopOf(p[1], p[2]) : p \in StopsUpTo(b)}
                   \cup {TripOf(p[1], p[2]) : p \in TripsUpTo(b)}
  BY DEF Listed
<1>14. QED
  BY <1>10, <1>11, <1>12, <1>13

-----------------------------------------------------------------------------
(* The turns of the loop.                                                  *)

Block(b) ==
  /\ b \in Positions /\ blockStart = Time(b)
  /\ state = "stopped" => Stands(b, Len(read))
  /\ state = "moving" => /\ Drives(b, Len(read))
                         /\ Measures(b, Len(read), trip, fastest, total, count)
                         /\ Waits(Len(read), b)

\* What one pass maintains: the events found are the blocks that end before
\* the open one.
Blocked == \E b \in Positions : Block(b) /\ Counts(events, Listed(b))
HistoryInv ==
  /\ Recorded
  /\ ~done => Blocked
  /\ HistoryAsDefined

\* A turn of the loop with the block that was open before it.
Turns(n, b, delay, speed) ==
  /\ TypeOK /\ Recorded /\ n = Len(read) /\ b \in 1..n
  /\ Block(b) /\ Counts(events, Listed(b))
  /\ Extends(n)
  /\ Time(n) = Now /\ Time(n + 1)' = Now + delay
  /\ read'[n + 1].speed = speed
  /\ Moves(n + 1)' <=> IsMoving(speed)
  /\ Silent(n)' <=> delay > MaxGap

\* What a turn finds of the open block.
LEMMA TurnFacts ==
  ASSUME NEW n, NEW b, NEW delay \in Delays, NEW speed \in Speeds, Turns(n, b, delay, speed)
  PROVE  /\ Recorded' /\ b \in Positions' /\ n \in Positions' /\ n + 1 \in Positions'
         /\ n \in Nat \ {0} /\ b \in Nat \ {0} /\ b <= n /\ n \in 1..n
         /\ Time(b)' = blockStart /\ Time(n)' = Now
         /\ events \in Seq(Event)
         /\ Stands(b, n) \/ Drives(b, n)
         /\ Listed(b)' = Listed(b) /\ Counts(events, Listed(b)')
         /\ state = "stopped" => Stands(b, n) /\ Stands(b, n)'
         /\ state = "moving" => /\ Drives(b, n) /\ Drives(b, n)'
                                /\ Measures(b, n, trip, fastest, total, count)
                                /\ Waits(n, b)
<1>1. /\ Extends(n) /\ n = Len(read) /\ b \in 1..n /\ TypeOK /\ Block(b)
      /\ Counts(events, Listed(b)) /\ Time(n) = Now
  BY DEF Turns
<1>2. /\ Recorded' /\ n \in Nat \ {0} /\ Positions' = 1..(n + 1)
      /\ b \in 1..(n + 1) /\ n \in 1..(n + 1) /\ n + 1 \in 1..(n + 1) /\ n \in 1..n
      /\ b \in Nat \ {0} /\ b <= n
  BY <1>1 DEF Extends
<1>3. Time(b)' = blockStart /\ Time(n)' = Now
  BY <1>1, <1>2 DEF Extends, Block
<1>4. events \in Seq(Event)
  BY <1>1 DEF TypeOK, Event
<1>5. /\ state = "stopped" => Stands(b, n)
      /\ state = "moving" => /\ Drives(b, n)
                             /\ Measures(b, n, trip, fastest, total, count)
                             /\ Waits(n, b)
  BY <1>1 DEF Block
<1>6. state \in {"moving", "stopped"}
  BY <1>1 DEF TypeOK
<1>7. Stands(b, n) \/ Drives(b, n)
  BY <1>5, <1>6
<1>8. Listed(b)' = Listed(b)
  BY <1>1, <1>7, ListedKept
<1>9. Counts(events, Listed(b)')
  BY <1>1, <1>8
<1>10. /\ Stands(b, n)' <=> Stands(b, n)
       /\ Drives(b, n)' <=> Drives(b, n)
  BY <1>1, StandsKept, DrivesKept
<1>11. QED
  BY <1>2, <1>3, <1>4, <1>5, <1>7, <1>8, <1>9, <1>10

\* The open stop ends with the last position.
LEMMA StandEnds ==
  ASSUME NEW n, NEW b, NEW delay \in Delays, NEW speed \in Speeds, Turns(n, b, delay, speed),
         state = "stopped", Silent(n)' \/ Moves(n + 1)'
  PROVE  IsStop(b, n)' /\ Counts(FinalizeStop(Now), Listed(n + 1)')
<1>1. /\ Recorded' /\ b \in Positions' /\ n \in Positions' /\ Stands(b, n)'
      /\ Time(b)' = blockStart /\ Time(n)' = Now
      /\ events \in Seq(Event) /\ Counts(events, Listed(b)')
  BY TurnFacts
<1>2. PICK es : es = events
  OBVIOUS
<1>3. IsStop(b, n)' /\ Counts(WithStop(es, Time(b)', Time(n)'), Listed(n + 1)')
  BY <1>1, <1>2, ClosingNext DEF StandsClose
<1>4. FinalizeStop(Now) = WithStop(es, Time(b)', Time(n)')
  BY <1>1, <1>2 DEF FinalizeStop, WithStop, StopEvent
<1>5. QED
  BY <1>3, <1>4

\* The open trip ends with the last position.
LEMMA DriveEnds ==
  ASSUME NEW n, NEW b, NEW delay \in Delays, NEW speed \in Speeds, Turns(n, b, delay, speed),
         state = "moving", Silent(n)'
  PROVE  Counts(FinalizeTrip(Now), Listed(n + 1)')
<1>1. /\ Recorded' /\ b \in Positions' /\ n \in Positions' /\ Drives(b, n)'
      /\ Time(b)' = blockStart /\ Time(n)' = Now /\ b \in 1..n
      /\ events \in Seq(Event) /\ Counts(events, Listed(b)')
      /\ Measures(b, n, trip, fastest, total, count)
  BY TurnFacts DEF Turns
<1>2. PICK es, path, fast, sum, number :
        es = events /\ path = trip /\ fast = fastest /\ sum = total /\ number = count
  OBVIOUS
<1>3. path \in Seq(Nat) /\ fast \in Nat /\ sum \in Nat /\ number \in Nat
  BY <1>2 DEF Turns, TypeOK
<1>4. Measures(b, n, path, fast, sum, number)'
  BY <1>1, <1>2, MeasuresKept DEF Turns
<1>5. Counts(WithTrip(es, Time(b)', Time(n)', path, fast, sum, number), Listed(n + 1)')
  BY <1>1, <1>2, <1>3, <1>4, ClosingNext DEF DrivesClose
<1>6. FinalizeTrip(Now) = WithTrip(es, Time(b)', Time(n)', path, fast, sum, number)
  BY <1>1, <1>2 DEF FinalizeTrip, WithTrip, TripEvent
<1>7. QED
  BY <1>5, <1>6

\* A block opens at the position that is read.
LEMMA BlockOpens ==
  ASSUME NEW n, NEW b, NEW delay \in Delays, NEW speed \in Speeds, Turns(n, b, delay, speed),
         OpenBlock(n + 1, Now + delay, speed),
         Silent(n)' \/ (IsMoving(speed) /\ StopsBefore(n + 1)')
  PROVE  Block(n + 1)'
<1>1. /\ Recorded' /\ n + 1 \in Positions' /\ Len(read') = n + 1 /\ n \in Nat \ {0}
      /\ Time(n + 1)' = Now + delay /\ read'[n + 1].speed = speed
      /\ Moves(n + 1)' <=> IsMoving(speed)
  BY TurnFacts DEF Turns, Extends
<1>2. PICK m : m = n + 1
  OBVIOUS
<1>3. Opens(m)' \/ StopsBefore(m)'
  BY <1>1, <1>2 DEF Opens
<1>4. blockStart' = Time(m)' /\ potential' = Never
  BY <1>1, <1>2 DEF OpenBlock
<1>5. CASE IsMoving(speed)
  <2>1. /\ state' = "moving" /\ trip' = <<m>>
        /\ fastest' = speed /\ total' = speed /\ count' = 1
    BY <1>2, <1>5 DEF OpenBlock, Depart
  <2>2. Drives(m, m)' /\ Measures(m, m, <<m>>, speed, speed, 1)'
    <3>1. speed \in Nat /\ speed = read'[m].speed /\ Moves(m)' /\ m \in Positions'
      BY <1>1, <1>2, <1>5, ConstantsOK
    <3>2. QED
      BY <1>1, <1>3, <3>1, TripNext DEF TripBegins
  <2>3. Measures(m, m, trip, fastest, total, count)'
    BY <1>1, <1>2, <2>1, <2>2 DEF Measures
  <2>4. Waits(m, m)'
    BY <1>1, <1>2, <1>4, <1>5 DEF Waits
  <2>5. QED
    BY <1>1, <1>2, <1>4, <2>1, <2>2, <2>3, <2>4 DEF Block
<1>6. CASE ~IsMoving(speed)
  <2>1. state' = "stopped"
    BY <1>6 DEF OpenBlock, Settle
  <2>2. Opens(m)'
    BY <1>1, <1>2, <1>6 DEF Opens
  <2>3. Stands(m, m)'
    <3>1. m..(m - 1) = {} /\ m..m = {m} /\ m <= m
      BY <1>1, <1>2
    <3>2. QED
      BY <1>1, <1>2, <1>6, <2>2, <3>1 DEF Stands, Whole
  <2>4. QED
    BY <1>1, <1>2, <1>4, <2>1, <2>3 DEF Block
<1>7. QED
  BY <1>5, <1>6

\* The tracker was silent: the open block is listed, another one opens.
LEMMA GapBlocks ==
  ASSUME NEW n, NEW b, NEW delay \in Delays, NEW speed \in Speeds, Turns(n, b, delay, speed),
         Gap(delay, speed)
  PROVE  Blocked'
<1>1. /\ Silent(n)' /\ n + 1 \in Positions' /\ state \in {"moving", "stopped"}
      /\ OpenBlock(n + 1, Now + delay, speed) /\ events' = CloseBlock(Now)
  BY TurnFacts DEF Turns, Gap, TypeOK
<1>2. Block(n + 1)'
  BY <1>1, BlockOpens
<1>3. Counts(CloseBlock(Now), Listed(n + 1)')
  BY <1>1, StandEnds, DriveEnds DEF CloseBlock
<1>4. Counts(events', Listed(n + 1)')
  BY <1>1, <1>3
<1>5. QED
  BY <1>1, <1>2, <1>4 DEF Blocked

\* It moves again: the stop is listed and a trip begins.
LEMMA StartBlocks ==
  ASSUME NEW n, NEW b, NEW delay \in Delays, NEW speed \in Speeds, Turns(n, b, delay, speed),
         Start(delay, speed)
  PROVE  Blocked'
<1>1. /\ n + 1 \in Positions' /\ state = "stopped" /\ IsMoving(speed) /\ Moves(n + 1)'
      /\ OpenBlock(n + 1, Now + delay, speed) /\ events' = FinalizeStop(Now)
      /\ n \in Nat /\ b \in Nat \ {0} /\ b <= n
  BY TurnFacts DEF Turns, Start
<1>2. IsStop(b, n)' /\ Counts(FinalizeStop(Now), Listed(n + 1)')
  BY <1>1, StandEnds
<1>3. StopsBefore(n + 1)'
  <2>1. (n + 1) - 1 = n /\ b \in 1..n
    BY <1>1
  <2>2. QED
    BY <1>2, <2>1 DEF StopsBefore
<1>4. Block(n + 1)'
  BY <1>1, <1>3, BlockOpens
<1>5. Counts(events', Listed(n + 1)')
  BY <1>1, <1>2
<1>6. QED
  BY <1>1, <1>4, <1>5 DEF Blocked

\* It still stands: the stop goes on.
LEMMA RestBlocks ==
  ASSUME NEW n, NEW b, NEW delay \in Delays, NEW speed \in Speeds, Turns(n, b, delay, speed),
         Rest(delay, speed)
  PROVE  Blocked'
<1>1. /\ state = "stopped" /\ state' = "stopped" /\ blockStart' = blockStart
      /\ events' = events /\ ~Moves(n + 1)' /\ ~Silent(n)' /\ Extends(n) /\ b \in 1..n
      /\ b \in Positions' /\ Time(b)' = blockStart /\ Stands(b, n)
      /\ Counts(events, Listed(b)') /\ Len(read') = n + 1
  <2>1. delay \in Nat /\ MaxGap \in Nat
    BY ConstantsOK
  <2>2. ~(delay > MaxGap)
    BY <2>1 DEF Rest
  <2>3. QED
    BY <2>2, TurnFacts DEF Turns, Rest, Extends
<1>2. Stands(b, n + 1)'
  BY <1>1, StandGoesOn
<1>3. Block(b)'
  BY <1>1, <1>2 DEF Block
<1>4. Counts(events', Listed(b)')
  BY <1>1
<1>5. QED
  BY <1>1, <1>3, <1>4 DEF Blocked

\* What a turn finds of the trip that is open.
LEMMA DriveFacts ==
  ASSUME NEW n, NEW b, NEW delay \in Delays, NEW speed \in Speeds, Turns(n, b, delay, speed),
         delay <= MaxGap, state = "moving"
  PROVE  /\ n \in Nat \ {0} /\ b \in Nat \ {0} /\ b <= n /\ b \in 1..n
         /\ b \in Positions' /\ n \in Positions' /\ n + 1 \in Positions'
         /\ Positions' = 1..(n + 1) /\ Len(read') = n + 1
         /\ Extends(n) /\ Recorded' /\ ~Silent(n)' /\ Silent(n + 1)'
         /\ \A k \in 1..n : (Moves(k)' <=> Moves(k)) /\ Time(k)' = Time(k)
         /\ Now \in Nat /\ delay \in Nat /\ speed \in Nat
         /\ Time(n)' = Now /\ Time(n + 1)' = Now + delay
         /\ \A k \in 1..(n + 1) : Time(k)' \in Nat
         /\ Time(b)' = blockStart
         /\ Drives(b, n)' /\ Whole(b, n + 1)' /\ Moves(b)' /\ (Opens(b) \/ StopsBefore(b))'
         /\ Measures(b, n, trip, fastest, total, count)
         /\ Waits(n, b) /\ Counts(events, Listed(b)')
         /\ events \in Seq(Event)
         /\ trip \in Seq(Nat) /\ fastest \in Nat /\ total \in Nat /\ count \in Nat
<1>1. /\ Extends(n) /\ n = Len(read) /\ TypeOK /\ b \in 1..n /\ Time(n + 1)' = Now + delay
      /\ Silent(n)' <=> delay > MaxGap
  BY DEF Turns
<1>2. delay \in Nat /\ speed \in Nat /\ MaxGap \in Nat /\ Now \in Nat
  BY <1>1, ConstantsOK, NowIsTime
<1>3. ~Silent(n)'
  BY <1>1, <1>2
<1>4. /\ n \in Nat \ {0} /\ b \in Nat \ {0} /\ b <= n
      /\ b \in Positions' /\ n \in Positions' /\ n + 1 \in Positions'
      /\ Recorded' /\ Time(n)' = Now /\ Time(b)' = blockStart
      /\ Drives(b, n)' /\ Measures(b, n, trip, fastest, total, count) /\ Waits(n, b)
      /\ Counts(events, Listed(b)') /\ events \in Seq(Event)
  BY TurnFacts
<1>5. /\ Positions' = 1..(n + 1) /\ Len(read') = n + 1 /\ Silent(n + 1)'
      /\ \A k \in 1..n : (Moves(k)' <=> Moves(k)) /\ Time(k)' = Time(k)
  BY <1>1 DEF Extends
<1>6. \A k \in 1..(n + 1) : Time(k)' \in Nat
  BY <1>4, <1>5, TimesAreNumbersNext
<1>7. Whole(b, n + 1)'
  <2>1. \A k \in b..((n + 1) - 1) : k \in b..(n - 1) \/ k = n
    BY <1>4
  <2>2. \A k \in b..(n - 1) : ~Silent(k)'
    BY <1>4 DEF Drives, Whole
  <2>3. b <= n + 1
    BY <1>4
  <2>4. QED
    BY <1>3, <2>1, <2>2, <2>3 DEF Whole
<1>8. Moves(b)' /\ (Opens(b) \/ StopsBefore(b))'
  BY <1>4 DEF Drives
<1>9. trip \in Seq(Nat) /\ fastest \in Nat /\ total \in Nat /\ count \in Nat
  BY <1>1 DEF TypeOK
<1>10. QED
  BY <1>1, <1>2, <1>3, <1>4, <1>5, <1>6, <1>7, <1>8, <1>9

\* What was noted of the trip is right when one more position is in it.
LEMMA TripMeasured ==
  ASSUME NEW n, NEW b, NEW delay \in Delays, NEW speed \in Speeds, Turns(n, b, delay, speed),
         DriveOn(delay, speed) \/ Pause(delay, speed)
  PROVE  Measures(b, n + 1, trip, fastest, total, count)'
<1>1. delay <= MaxGap /\ state = "moving" /\ trip' = Append(trip, n + 1)
  BY DEF Turns, DriveOn, Pause
<1>2. /\ Measures(b, n, trip, fastest, total, count) /\ Extends(n) /\ b \in 1..n
      /\ trip \in Seq(Nat) /\ fastest \in Nat /\ total \in Nat /\ count \in Nat
      /\ b <= n /\ b \in Positions' /\ n \in Positions' /\ n + 1 \in Positions' /\ Recorded'
  BY <1>1, DriveFacts
<1>3. PICK path \in Seq(Nat), fast, sum, number \in Nat :
        path = trip /\ fast = fastest /\ sum = total /\ number = count
  BY <1>2
<1>4. Measures(b, n, path, fast, sum, number)'
  BY <1>2, <1>3, MeasuresKept
<1>5. /\ Moves(n + 1)' =>
           Measures(b, n + 1, Append(path, n + 1),
                    IF read[n + 1].speed > fast THEN read[n + 1].speed ELSE fast,
                    sum + read[n + 1].speed, number + 1)'
      /\ ~Moves(n + 1)' =>
           Measures(b, n + 1, Append(path, n + 1), fast, sum, number)'
  BY <1>2, <1>4, TripNext DEF TripGoesOn
<1>6. read'[n + 1].speed = speed /\ (Moves(n + 1)' <=> IsMoving(speed))
  BY DEF Turns
<1>7. CASE DriveOn(delay, speed)
  <2>1. /\ Moves(n + 1)' /\ trip' = Append(path, n + 1)
        /\ fastest' = IF speed > fast THEN speed ELSE fast
        /\ total' = sum + speed /\ count' = number + 1
    BY <1>1, <1>3, <1>6, <1>7 DEF DriveOn
  <2>2. QED
    BY <1>5, <1>6, <2>1 DEF Measures
<1>8. CASE Pause(delay, speed)
  <2>1. /\ ~Moves(n + 1)' /\ trip' = Append(path, n + 1)
        /\ fastest' = fast /\ total' = sum /\ count' = number
    BY <1>1, <1>3, <1>6, <1>8 DEF Pause
  <2>2. QED
    BY <1>5, <2>1 DEF Measures
<1>9. QED
  BY <1>7, <1>8

\* It drives on: no stand in the trip has lasted.
LEMMA DriveOnBlocks ==
  ASSUME NEW n, NEW b, NEW delay \in Delays, NEW speed \in Speeds, Turns(n, b, delay, speed),
         DriveOn(delay, speed)
  PROVE  Blocked'
<1>1. /\ delay <= MaxGap /\ state = "moving" /\ Moves(n + 1)'
      /\ state' = "moving" /\ blockStart' = blockStart /\ events' = events
      /\ potential' = Never
  BY DEF Turns, DriveOn
<1>2. /\ n \in Nat \ {0} /\ b \in Nat \ {0} /\ b <= n /\ Len(read') = n + 1
      /\ b \in Positions' /\ Time(b)' = blockStart
      /\ Drives(b, n)' /\ Whole(b, n + 1)' /\ Moves(b)' /\ (Opens(b) \/ StopsBefore(b))'
      /\ Counts(events, Listed(b)')
  BY <1>1, DriveFacts
<1>3. ShortStands(b, n + 1)'
  <2>1. SUFFICES ASSUME NEW i \in (b + 1)..(n + 1), NEW j \in (b + 1)..(n + 1),
                        i <= j, (\A k \in i..j : ~Moves(k))'
                 PROVE  (Time(j) - Time(i) <= MinStop)'
    BY DEF ShortStands
  <2>2. n + 1 \notin i..j
    BY <1>1, <2>1
  <2>3. i \in (b + 1)..n /\ j \in (b + 1)..n
    BY <1>2, <2>1, <2>2
  <2>4. QED
    BY <1>2, <2>1, <2>3 DEF Drives, ShortStands
<1>4. Drives(b, n + 1)'
  BY <1>2, <1>3 DEF Drives
<1>5. Waits(n + 1, b)'
  BY <1>1 DEF Waits
<1>6. Measures(b, n + 1, trip, fastest, total, count)'
  BY TripMeasured
<1>7. Block(b)'
  BY <1>1, <1>2, <1>4, <1>5, <1>6 DEF Block
<1>8. Counts(events', Listed(b)')
  BY <1>1, <1>2
<1>9. QED
  BY <1>2, <1>7, <1>8 DEF Blocked

\* It stands for a short time so far: the trip goes on and waits for the stop.
LEMMA PauseBlocks ==
  ASSUME NEW n, NEW b, NEW delay \in Delays, NEW speed \in Speeds, Turns(n, b, delay, speed),
         Pause(delay, speed)
  PROVE  Blocked'
<1>1. /\ delay <= MaxGap /\ state = "moving" /\ ~Moves(n + 1)'
      /\ state' = "moving" /\ blockStart' = blockStart /\ events' = events
      /\ potential' = Halted(Now + delay)
      /\ Now + delay - Halted(Now + delay) <= MinStop
  BY DEF Turns, Pause
<1>2. /\ n \in Nat \ {0} /\ b \in Nat \ {0} /\ b <= n /\ Len(read') = n + 1
      /\ b \in Positions' /\ Time(b)' = blockStart /\ Positions' = 1..(n + 1)
      /\ Recorded'
      /\ Drives(b, n)' /\ Whole(b, n + 1)' /\ Moves(b)' /\ (Opens(b) \/ StopsBefore(b))'
      /\ Counts(events, Listed(b)') /\ Waits(n, b)
      /\ \A k \in 1..n : (Moves(k)' <=> Moves(k)) /\ Time(k)' = Time(k)
      /\ \A k \in 1..(n + 1) : Time(k)' \in Nat
      /\ Time(n + 1)' = Now + delay /\ Now \in Nat /\ delay \in Nat
  BY <1>1, DriveFacts
\* The stand that goes on began at h, after a moving position.
<1>3. PICK h \in (b + 1)..(n + 1) :
        /\ potential' = Time(h)' /\ Time(n + 1)' - Time(h)' <= MinStop
        /\ Moves(h - 1)' /\ (\A k \in h..(n + 1) : ~Moves(k))'
  <2>1. CASE potential = Never
    <3>1. PICK h : h = n + 1
      OBVIOUS
    <3>2. potential' = Time(h)' /\ Time(n + 1)' - Time(h)' <= MinStop
      <4>1. potential' = Now + delay /\ Now + delay - (Now + delay) <= MinStop
        BY <1>1, <2>1 DEF Halted
      <4>2. Time(h)' = Now + delay
        BY <1>2, <3>1
      <4>3. PICK now, from \in Nat : now = Time(n + 1)' /\ from = Time(h)'
        BY <1>2, <3>1
      <4>4. now = Now + delay
        BY <1>2, <4>3
      <4>5. now - from <= MinStop
        BY <1>2, <4>1, <4>2, <4>3, <4>4, ConstantsOK
      <4>6. QED
        BY <4>1, <4>2, <4>3, <4>5
    <3>3. h - 1 = n /\ n \in 1..n /\ h \in (b + 1)..(n + 1) /\ h..(n + 1) = {n + 1}
      BY <1>2, <3>1
    <3>4. Moves(n)'
      BY <1>2, <2>1, <3>3 DEF Waits
    <3>5. QED
      BY <1>1, <3>2, <3>3, <3>4
  <2>2. CASE potential # Never
    <3>1. PICK h \in (b + 1)..n : /\ potential = Time(h) /\ Moves(h - 1)
                                  /\ \A k \in h..n : ~Moves(k)
      BY <1>2, <2>2 DEF Waits
    <3>2. /\ h \in 1..n /\ h - 1 \in 1..n /\ h \in (b + 1)..(n + 1)
          /\ \A k \in h..(n + 1) : (k \in 1..n /\ k \in h..n) \/ k = n + 1
      BY <1>2
    <3>3. Time(h)' = Time(h) /\ Moves(h - 1)' /\ (\A k \in h..(n + 1) : ~Moves(k))'
      <4>1. PICK g : g = h - 1
        OBVIOUS
      <4>2. Moves(g)'
        BY <1>2, <3>1, <3>2, <4>1
      <4>3. \A k \in h..(n + 1) : ~Moves(k)'
        BY <1>1, <1>2, <3>1, <3>2
      <4>4. QED
        BY <1>2, <3>2, <4>1, <4>2, <4>3
    <3>4. potential' = Time(h)' /\ Time(n + 1)' - Time(h)' <= MinStop
      <4>1. potential' = potential /\ Now + delay - potential <= MinStop
        BY <1>1, <2>2 DEF Halted
      <4>2. potential = Time(h)'
        BY <3>1, <3>3
      <4>3. PICK now, from \in Nat : now = Time(n + 1)' /\ from = Time(h)'
        BY <1>2, <3>2
      <4>4. now = Now + delay
        BY <1>2, <4>3
      <4>5. now - from <= MinStop
        BY <1>2, <4>1, <4>2, <4>3, <4>4, ConstantsOK
      <4>6. QED
        BY <4>1, <4>2, <4>3, <4>5
    <3>5. QED
      BY <3>2, <3>3, <3>4
  <2>3. QED
    BY <2>1, <2>2
<1>4. ShortStands(b, n + 1)'
  <2>1. SUFFICES ASSUME NEW i \in (b + 1)..(n + 1), NEW j \in (b + 1)..(n + 1),
                        i <= j, (\A k \in i..j : ~Moves(k))'
                 PROVE  (Time(j) - Time(i) <= MinStop)'
    BY DEF ShortStands
  <2>2. CASE j \in (b + 1)..n
    <3>1. i \in (b + 1)..n
      BY <1>2, <2>1, <2>2
    <3>2. QED
      BY <1>2, <2>1, <2>2, <3>1 DEF Drives, ShortStands
  <2>3. CASE j = n + 1
    <3>1. h - 1 \notin i..j
      BY <1>3, <2>1
    <3>2. h <= i /\ h \in 1..(n + 1) /\ i \in 1..(n + 1) /\ j \in 1..(n + 1)
      BY <1>2, <1>3, <2>1, <2>3, <3>1
    <3>3. Time(h)' <= Time(i)' /\ Time(h)' \in Nat /\ Time(i)' \in Nat /\ Time(j)' \in Nat
      BY <1>2, <3>2 DEF Recorded
    <3>4. Time(j)' - Time(h)' <= MinStop
      BY <1>3, <2>3
    <3>5. QED
      BY <3>3, <3>4, ConstantsOK
  <2>4. QED
    BY <1>2, <2>1, <2>2, <2>3
<1>5. Drives(b, n + 1)'
  BY <1>2, <1>4 DEF Drives
<1>6. Waits(n + 1, b)'
  <2>1. ASSUME potential' = Never PROVE FALSE
    <3>1. h \in 1..(n + 1)
      BY <1>2
    <3>2. Time(h)' # 0
      BY <1>2, <3>1, TimesAreNumbersNext
    <3>3. QED
      BY <1>3, <2>1, <3>2 DEF Never
  <2>2. QED
    BY <1>3, <2>1 DEF Waits
<1>7. Measures(b, n + 1, trip, fastest, total, count)'
  BY TripMeasured
<1>8. Block(b)'
  BY <1>1, <1>2, <1>5, <1>6, <1>7 DEF Block
<1>9. Counts(events', Listed(b)')
  BY <1>1, <1>2
<1>10. QED
  BY <1>2, <1>8, <1>9 DEF Blocked

\* The stop that is confirmed began at h; the trip ended right before it.
LEMMA StopBlocks ==
  ASSUME NEW n, NEW b, NEW delay \in Delays, NEW speed \in Speeds, Turns(n, b, delay, speed),
         Stop(delay, speed)
  PROVE  Blocked'
<1>1. /\ delay <= MaxGap /\ state = "moving" /\ ~Moves(n + 1)'
      /\ state' = "stopped" /\ blockStart' = Halted(Now + delay)
      /\ events' = FinalizeTrip(Halted(Now + delay))
      /\ Now + delay - Halted(Now + delay) > MinStop
  BY DEF Turns, Stop, Settle
<1>2. /\ n \in Nat \ {0} /\ b \in Nat \ {0} /\ b <= n /\ Len(read') = n + 1
      /\ b \in Positions' /\ n \in Positions' /\ n + 1 \in Positions'
      /\ Time(b)' = blockStart /\ Positions' = 1..(n + 1)
      /\ Recorded' /\ Extends(n) /\ b \in 1..n
      /\ Drives(b, n)' /\ Whole(b, n + 1)'
      /\ Counts(events, Listed(b)') /\ Waits(n, b) /\ Silent(n + 1)' /\ ~Silent(n)'
      /\ \A k \in 1..n : (Moves(k)' <=> Moves(k)) /\ Time(k)' = Time(k)
      /\ \A k \in 1..(n + 1) : Time(k)' \in Nat
      /\ Time(n + 1)' = Now + delay /\ Now \in Nat /\ delay \in Nat
      /\ Measures(b, n, trip, fastest, total, count) /\ events \in Seq(Event)
      /\ trip \in Seq(Nat) /\ fastest \in Nat /\ total \in Nat /\ count \in Nat
  BY <1>1, DriveFacts
<1>3. potential # Never
  <2>1. ASSUME potential = Never PROVE FALSE
    <3>1. Now + delay - (Now + delay) > MinStop
      BY <1>1, <2>1 DEF Halted
    <3>2. QED
      BY <1>2, <3>1, ConstantsOK
  <2>2. QED
    BY <2>1
<1>4. PICK h \in (b + 1)..n : /\ potential = Time(h) /\ Moves(h - 1)
                              /\ \A k \in h..n : ~Moves(k)
  BY <1>2, <1>3 DEF Waits
<1>5. /\ h \in 1..n /\ h \in 1..(n + 1) /\ h - 1 \in 1..n /\ b < h /\ h <= n
      /\ h <= n + 1 /\ h \in Nat /\ Halted(Now + delay) = Time(h)'
  BY <1>2, <1>3, <1>4 DEF Halted
<1>6. Moves(h - 1)'
  <2>1. PICK g : g = h - 1
    OBVIOUS
  <2>2. Moves(g)'
    BY <1>2, <1>4, <1>5, <2>1
  <2>3. QED
    BY <2>1, <2>2
<1>7. Stands(h, n + 1)' /\ IsStop(h, n + 1)'
  <2>1. \A k \in h..(n + 1) : ~Moves(k)'
    <3>1. \A k \in h..(n + 1) : (k \in 1..n /\ k \in h..n) \/ k = n + 1
      BY <1>2, <1>5
    <3>2. QED
      BY <1>1, <1>2, <1>4, <3>1
  <2>2. Whole(h, n + 1)'
    <3>1. \A k \in h..((n + 1) - 1) : k \in b..((n + 1) - 1)
      BY <1>2, <1>5
    <3>2. QED
      BY <1>2, <1>5, <3>1 DEF Whole
  <2>3. (Time(n + 1) - Time(h) > MinStop)'
    <3>1. Now + delay - Time(h)' > MinStop
      BY <1>1, <1>5
    <3>2. PICK now, from \in Nat : now = Time(n + 1)' /\ from = Time(h)'
      BY <1>2, <1>5
    <3>3. now = Now + delay
      BY <1>2, <3>2
    <3>4. now - from > MinStop
      BY <1>2, <3>1, <3>2, <3>3, ConstantsOK
    <3>5. QED
      BY <3>2, <3>4
  <2>4. QED
    BY <1>2, <1>6, <2>1, <2>2, <2>3 DEF Stands, IsStop
<1>8. Counts(FinalizeTrip(Time(h)'), Listed(h)')
  <2>1. PICK es \in Seq(Event), path \in Seq(Nat), fast, sum, number \in Nat :
          es = events /\ path = trip /\ fast = fastest /\ sum = total /\ number = count
    BY <1>2
  <2>2. Measures(b, n, path, fast, sum, number)'
    BY <1>2, <2>1, MeasuresKept
  <2>3. h \in Positions'
    BY <1>2, <1>5
  <2>4. Counts(WithTrip(es, Time(b)', Time(h)', path, fast, sum, number), Listed(h)')
    BY <1>2, <1>5, <1>6, <1>7, <2>1, <2>2, <2>3, ClosingNext DEF StopsClose
  <2>5. FinalizeTrip(Time(h)') = WithTrip(es, Time(b)', Time(h)', path, fast, sum, number)
    BY <1>2, <2>1 DEF FinalizeTrip, WithTrip, TripEvent
  <2>6. QED
    BY <2>4, <2>5
<1>9. Block(h)'
  BY <1>1, <1>2, <1>5, <1>7 DEF Block
<1>10. Counts(events', Listed(h)')
  BY <1>1, <1>5, <1>8
<1>11. QED
  BY <1>2, <1>5, <1>9, <1>10 DEF Blocked

\* The definitions speak of the positions that are read and of nothing else.
LEMMA SameHistory ==
  ASSUME read' = read
  PROVE  /\ Positions' = Positions /\ Len(read') = Len(read)
         /\ Recorded' <=> Recorded
         /\ \A i : Time(i)' = Time(i)
         /\ \A i, j : Stands(i, j)' <=> Stands(i, j)
         /\ \A i, j : Drives(i, j)' <=> Drives(i, j)
         /\ \A i, j : SpeedsOf(i, j)' = SpeedsOf(i, j)
         /\ SumOf' = SumOf
         /\ Reference' = Reference
         /\ \A b : Listed(b)' = Listed(b)
<1>1. /\ Positions' = Positions /\ Len(read') = Len(read)
      /\ \A i : Time(i)' = Time(i) /\ (Moves(i)' <=> Moves(i))
  BY DEF Positions, Time, Moves
<1>2. Recorded' <=> Recorded
  BY <1>1 DEF Recorded
<1>3. \A i : Silent(i)' <=> Silent(i)
  BY <1>1 DEF Silent
<1>4. \A i : Opens(i)' <=> Opens(i)
  BY <1>3 DEF Opens
<1>5. \A i, j : Whole(i, j)' <=> Whole(i, j)
  BY <1>3 DEF Whole
<1>6. \A i, j : IsStop(i, j)' <=> IsStop(i, j)
  BY <1>1, <1>3, <1>4, <1>5 DEF IsStop
<1>7. \A i : (StopsBefore(i)' <=> StopsBefore(i)) /\ (StopsAt(i)' <=> StopsAt(i))
  BY <1>6 DEF StopsBefore, StopsAt
<1>8. \A i, j : IsTrip(i, j)' <=> IsTrip(i, j)
  BY <1>1, <1>3, <1>4, <1>5, <1>7 DEF IsTrip
<1>9. \A i, j : PathOf(i, j)' = PathOf(i, j)
  BY <1>1, <1>3, <1>5 DEF PathOf
<1>10. \A i, j : SpeedsOf(i, j)' = SpeedsOf(i, j)
  BY <1>1 DEF SpeedsOf
<1>11. SumOf' = SumOf
  BY DEF SumOf
<1>12. \A i, j : StopOf(i, j)' = StopOf(i, j)
  BY <1>1 DEF StopOf
<1>13. \A i, j : TripOf(i, j)' = TripOf(i, j)
  BY <1>1, <1>3, <1>9, <1>10, <1>11 DEF TripOf
<1>14. Reference' = Reference
  BY <1>1, <1>6, <1>8, <1>9, <1>12, <1>13 DEF Reference
<1>15. \A b : Listed(b)' = Listed(b)
  BY <1>1, <1>6, <1>8, <1>9, <1>12, <1>13 DEF Listed, StopsUpTo, TripsUpTo
<1>16. \A i, j : Stands(i, j)' <=> Stands(i, j)
  BY <1>1, <1>4, <1>5 DEF Stands
<1>17. \A i, j : Drives(i, j)' <=> Drives(i, j)
  BY <1>1, <1>4, <1>5, <1>7 DEF Drives, ShortStands
<1>18. QED
  BY <1>1, <1>2, <1>10, <1>11, <1>14, <1>15, <1>16, <1>17

\* The last block ends with the last position.
LEMMA FinishDefines ==
  ASSUME TypeOK, Recorded, Blocked, Finish
  PROVE  Recorded' /\ HistoryAsDefined'
<1>1. read' = read /\ events' = CloseBlock(Now) /\ state \in {"moving", "stopped"}
  BY DEF Finish, TypeOK
<1>2. PICK n : n = Len(read)
  OBVIOUS
<1>3. n \in Positions /\ n \in Nat \ {0} /\ Silent(n) /\ Time(n) = Now
  BY <1>2, RecordedFacts DEF Silent, Time, Now
<1>4. PICK b \in Positions : Block(b) /\ Counts(events, Listed(b))
  BY DEF Blocked
<1>5. events \in Seq(Event) /\ blockStart = Time(b)
  BY <1>4 DEF TypeOK, Event, Block
<1>6. Counts(CloseBlock(Now), Listed(n + 1))
  <2>1. CASE state = "stopped"
    <3>1. Stands(b, n)
      BY <1>2, <1>4, <2>1 DEF Block
    <3>2. Counts(WithStop(events, Time(b), Time(n)), Listed(n + 1))
      BY <1>3, <1>4, <1>5, <3>1, StandsCloseHolds DEF StandsClose
    <3>3. CloseBlock(Now) = WithStop(events, Time(b), Time(n))
      BY <1>3, <1>5, <2>1 DEF CloseBlock, FinalizeStop, WithStop, StopEvent
    <3>4. QED
      BY <3>2, <3>3
  <2>2. CASE state = "moving"
    <3>1. Drives(b, n) /\ Measures(b, n, trip, fastest, total, count)
      BY <1>2, <1>4, <2>2 DEF Block
    <3>2. trip \in Seq(Nat) /\ fastest \in Nat /\ total \in Nat /\ count \in Nat
      BY DEF TypeOK
    <3>3. Counts(WithTrip(events, Time(b), Time(n), trip, fastest, total, count), Listed(n + 1))
      BY <1>3, <1>4, <1>5, <3>1, <3>2, DrivesCloseHolds DEF DrivesClose
    <3>4. CloseBlock(Now) = WithTrip(events, Time(b), Time(n), trip, fastest, total, count)
      BY <1>3, <1>5, <2>2 DEF CloseBlock, FinalizeTrip, WithTrip, TripEvent
    <3>5. QED
      BY <3>3, <3>4
  <2>3. QED
    BY <1>1, <2>1, <2>2
<1>7. Counts(CloseBlock(Now), Reference)
  BY <1>2, <1>6, AllListed
<1>8. Reference' = Reference /\ Recorded'
  BY <1>1, SameHistory
<1>9. PICK es : es = CloseBlock(Now)
  OBVIOUS
<1>10. Views(es) = {[events[e] EXCEPT !.path = {@[k] : k \in DOMAIN @}] : e \in Events}'
  BY <1>1, <1>9 DEF Views, View, Events
<1>11. QED
  BY <1>1, <1>7, <1>8, <1>9, <1>10 DEF Counts, HistoryAsDefined

\* The first position opens the first block.
LEMMA FirstBlock == Init => HistoryInv
<1> SUFFICES ASSUME Init PROVE HistoryInv
  OBVIOUS
<1>1. PICK speed \in Speeds :
        /\ read = <<[time |-> 1, speed |-> speed]>>
        /\ state = IF IsMoving(speed) THEN "moving" ELSE "stopped"
        /\ blockStart = 1 /\ potential = Never
        /\ trip = IF IsMoving(speed) THEN <<1>> ELSE <<>>
        /\ fastest = IF IsMoving(speed) THEN speed ELSE 0
        /\ total = fastest
        /\ count = IF IsMoving(speed) THEN 1 ELSE 0
        /\ events = <<>> /\ done = FALSE
  BY DEF Init
<1>2. /\ speed \in Nat /\ Len(read) = 1 /\ read[1].speed = speed /\ Time(1) = 1
      /\ Positions = {1} /\ (Moves(1) <=> IsMoving(speed))
  BY <1>1, ConstantsOK DEF Time, Positions, Moves
<1>3. Recorded
  <2>1. [time |-> 1, speed |-> speed] \in Position /\ read # <<>>
    BY <1>1 DEF Position
  <2>2. read \in Seq(Position) /\ Len(read) <= MaxPositions
    BY <1>1, <1>2, <2>1, ConstantsOK
  <2>3. QED
    BY <1>2, <2>1, <2>2 DEF Recorded
<1>4. Counts(events, Listed(1))
  <2>1. Listed(1) = {} /\ events = <<>> /\ Len(<<>>) = 0
    BY <1>1, <1>3, NoneListed
  <2>2. Views(<<>>) = {} /\ IsFiniteSet({}) /\ Cardinality({}) = 0
    BY FS_EmptySet DEF Views
  <2>3. QED
    BY <2>1, <2>2 DEF Counts
<1>5. Opens(1)
  BY DEF Opens
<1>6. Block(1)
  <2>1. CASE IsMoving(speed)
    <3>1. Drives(1, 1) /\ Measures(1, 1, <<1>>, speed, speed, 1)
      BY <1>2, <1>3, <1>5, <2>1, TripBeginsHolds DEF TripBegins
    <3>2. Waits(1, 1)
      BY <1>1, <1>2, <2>1 DEF Waits
    <3>3. QED
      BY <1>1, <1>2, <2>1, <3>1, <3>2 DEF Block
  <2>2. CASE ~IsMoving(speed)
    <3>1. 1..(1 - 1) = {} /\ 1..1 = {1}
      OBVIOUS
    <3>2. Stands(1, 1)
      BY <1>2, <1>5, <2>2, <3>1 DEF Stands, Whole
    <3>3. QED
      BY <1>1, <1>2, <2>2, <3>2 DEF Block
  <2>3. QED
    BY <2>1, <2>2
<1>7. Blocked
  BY <1>2, <1>4, <1>6 DEF Blocked
<1>8. QED
  BY <1>1, <1>3, <1>7 DEF HistoryInv, HistoryAsDefined

\* Every step keeps what the pass maintains.
LEMMA NextBlocks == TypeOK /\ HistoryInv /\ [Next]_vars => HistoryInv'
<1> SUFFICES ASSUME TypeOK, HistoryInv, [Next]_vars PROVE HistoryInv'
  OBVIOUS
<1>1. ASSUME NEW delay \in Delays, NEW speed \in Speeds,
             \/ Gap(delay, speed) \/ DriveOn(delay, speed) \/ Pause(delay, speed)
             \/ Stop(delay, speed) \/ Start(delay, speed) \/ Rest(delay, speed)
      PROVE  HistoryInv'
  <2>1. Reads(delay, speed)
    BY <1>1 DEF Gap, DriveOn, Pause, Stop, Start, Rest
  <2>2. ~done /\ done' = FALSE /\ Recorded
    BY <2>1 DEF Reads, TypeOK, HistoryInv
  <2>3. PICK n : n = Len(read)
    OBVIOUS
  <2>4. PICK b \in Positions : Block(b) /\ Counts(events, Listed(b))
    BY <2>2 DEF HistoryInv, Blocked
  <2>5. b \in 1..n
    BY <2>3 DEF Positions
  <2>6. Turns(n, b, delay, speed)
    BY <2>1, <2>2, <2>3, <2>4, <2>5, Extending DEF Turns
  <2>7. Blocked'
    BY <1>1, <2>6, GapBlocks, DriveOnBlocks, PauseBlocks, StopBlocks, StartBlocks, RestBlocks
  <2>8. Recorded'
    BY <2>6 DEF Turns, Extends
  <2>9. QED
    BY <2>2, <2>7, <2>8 DEF HistoryInv, HistoryAsDefined
<1>2. CASE Finish
  BY <1>2, FinishDefines DEF HistoryInv, Finish
<1>3. CASE UNCHANGED vars
  <2>1. /\ read' = read /\ state' = state /\ blockStart' = blockStart /\ trip' = trip
        /\ potential' = potential /\ fastest' = fastest /\ total' = total
        /\ count' = count /\ events' = events /\ done' = done
    BY <1>3 DEF vars
  <2>2. /\ Positions' = Positions /\ Len(read') = Len(read)
        /\ Recorded' <=> Recorded
        /\ \A i : Time(i)' = Time(i)
        /\ \A i, j : Stands(i, j)' <=> Stands(i, j)
        /\ \A i, j : Drives(i, j)' <=> Drives(i, j)
        /\ \A i, j : SpeedsOf(i, j)' = SpeedsOf(i, j)
        /\ SumOf' = SumOf
        /\ Reference' = Reference
        /\ \A b : Listed(b)' = Listed(b)
    BY <2>1, SameHistory
  <2>3. HistoryAsDefined'
    BY <2>1, <2>2 DEF HistoryInv, HistoryAsDefined, Events
  <2>4. \A m, b : Waits(m, b)' <=> Waits(m, b)
    BY <2>1 DEF Waits, Time, Moves
  <2>5. \A b, m : Measures(b, m, trip, fastest, total, count)'
                    <=> Measures(b, m, trip, fastest, total, count)
    BY <2>1, <2>2 DEF Measures
  <2>6. \A b : Block(b)' <=> Block(b)
    BY <2>1, <2>2, <2>4, <2>5 DEF Block
  <2>7. Blocked' <=> Blocked
    BY <2>1, <2>2, <2>6 DEF Blocked
  <2>8. QED
    BY <2>1, <2>2, <2>3, <2>7 DEF HistoryInv
<1>4. QED
  BY <1>1, <1>2, <1>3 DEF Next

\* One pass of analyzePositions finds exactly the trips and the stops that the
\* positions have by definition, each once, and with its own path, fastest
\* speed, sum and number of speeds.
THEOREM HistoryFound == Spec => []HistoryAsDefined
<1>1. Init => HistoryInv
  BY FirstBlock
<1>2. TypeOK /\ HistoryInv /\ [Next]_vars => HistoryInv'
  BY NextBlocks
<1>3. HistoryInv => HistoryAsDefined
  BY DEF HistoryInv
<1>4. QED
  BY <1>1, <1>2, <1>3, TypeCorrect, PTL DEF Spec
=============================================================================
