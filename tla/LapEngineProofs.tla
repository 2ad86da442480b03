-------------------------- MODULE LapEngineProofs --------------------------
(***************************************************************************)
(* Proofs about LapEngine: every table keeps its type whatever the         *)
(* goroutines do, and, when no two reports of one vehicle are evaluated at *)
(* once (~Overlap), a vehicle has one open lap and every lap is settled    *)
(* once, for any number of vehicles and goroutines, with reports in any    *)
(* order, statements that fail, crashes and reassignments.  The last part  *)
(* proves what is left of that without the premise.                        *)
(***************************************************************************)
EXTENDS LapEngine, SequenceTheorems, TLAPS

\* Replacing one row of the laps table by a row.
LEMMA UpdateRow ==
  ASSUME laps \in Seq(Lap), NEW k \in DOMAIN laps, NEW row \in Lap,
         laps' = [laps EXCEPT ![k] = row]
  PROVE  /\ laps' \in Seq(Lap)
         /\ DOMAIN laps' = DOMAIN laps
         /\ \A i \in DOMAIN laps : laps'[i] = IF i = k THEN row ELSE laps[i]
  BY ExceptSeq, LenProperties, SMT

\* Inserting a row.
LEMMA InsertRow ==
  ASSUME laps \in Seq(Lap), NEW row \in Lap, laps' = Append(laps, row)
  PROVE  /\ laps' \in Seq(Lap)
         /\ Len(laps) + 1 \notin DOMAIN laps
         /\ DOMAIN laps' = DOMAIN laps \cup {Len(laps) + 1}
         /\ \A i \in DOMAIN laps : laps'[i] = laps[i]
         /\ laps'[Len(laps) + 1] = row
<1>1. Len(laps) \in Nat /\ DOMAIN laps = 1 .. Len(laps)
  BY LenProperties
<1>2. laps' \in Seq(Lap) /\ Len(laps') = Len(laps) + 1
  BY AppendProperties
<1>3. DOMAIN laps' = 1 .. Len(laps) + 1
  BY <1>2, LenProperties
<1>4. /\ \A i \in 1 .. Len(laps) : laps'[i] = laps[i]
      /\ laps'[Len(laps) + 1] = row
  BY AppendProperties
<1>5. QED
  BY <1>1, <1>2, <1>3, <1>4

\* Each row of the table is a lap.
LEMMA RowIsLap ==
  ASSUME laps \in Seq(Lap), NEW k \in DOMAIN laps
  PROVE  laps[k] \in Lap
  BY LenProperties, ElementOfSeq

\* The statements that change a row leave a lap, of the same vehicle.
LEMMA WrittenRows ==
  ASSUME NEW row \in Lap
  PROVE  /\ \A copy \in Lap :
              /\ Tracked(row, copy) \in Lap
              /\ Tracked(row, copy).veh = row.veh
              /\ Tracked(row, copy).status = row.status
              /\ Tracked(row, copy).ended = row.ended
              /\ Tracked(row, copy).start = row.start
              /\ Tracked(row, copy).num = row.num
              /\ Tracked(row, copy).allowed = row.allowed
         /\ \A at \in Time :
              /\ Moved(row, at) \in Lap
              /\ [row EXCEPT !.stopFine = at] \in Lap
              /\ [row EXCEPT !.speedFine = at] \in Lap
         /\ \A line \in Nat \cup {Null}, prog \in Nat :
              [row EXCEPT !.line = line, !.prog = prog] \in Lap
         /\ [row EXCEPT !.overtaken = TRUE] \in Lap
         /\ [row EXCEPT !.toured = TRUE] \in Lap
         /\ \A status \in Finished, at \in Time :
              [row EXCEPT !.status = status, !.ended = at] \in Lap
<1>1. ASSUME NEW copy \in Lap
      PROVE  /\ Tracked(row, copy) \in Lap
             /\ Tracked(row, copy).veh = row.veh
             /\ Tracked(row, copy).status = row.status
             /\ Tracked(row, copy).ended = row.ended
             /\ Tracked(row, copy).start = row.start
             /\ Tracked(row, copy).num = row.num
             /\ Tracked(row, copy).allowed = row.allowed
  BY <1>1 DEF Lap, Tracked
<1>2. ASSUME NEW at \in Time
      PROVE  /\ Moved(row, at) \in Lap
             /\ [row EXCEPT !.stopFine = at] \in Lap
             /\ [row EXCEPT !.speedFine = at] \in Lap
  <2>1. at \in OptTime /\ Null \in OptTime
    BY <1>2 DEF OptTime
  <2>2. QED
    BY <1>2, <2>1 DEF Lap, Moved
<1>3. ASSUME NEW line \in Nat \cup {Null}, NEW prog \in Nat
      PROVE  [row EXCEPT !.line = line, !.prog = prog] \in Lap
  BY <1>3 DEF Lap
<1>4. /\ [row EXCEPT !.overtaken = TRUE] \in Lap
      /\ [row EXCEPT !.toured = TRUE] \in Lap
  BY DEF Lap
<1>5. ASSUME NEW status \in Finished, NEW at \in Time
      PROVE  [row EXCEPT !.status = status, !.ended = at] \in Lap
  <2>1. status \in LapStatus /\ at \in OptTime
    BY <1>5 DEF OptTime, LapStatus
  <2>2. QED
    BY <2>1 DEF Lap
<1>6. QED
  BY <1>1, <1>2, <1>3, <1>4, <1>5

LEMMA LapStatusComputed ==
  ASSUME NEW duration, NEW allowed
  PROVE  ComputeLapStatus(duration, allowed) \in Finished
  BY DEF ComputeLapStatus, Finished

-----------------------------------------------------------------------------
(* Types.                                                                  *)

\* A goroutine whose program counter is at a statement is evaluating a report.
LEMMA Evaluating ==
  ASSUME TypeOK, NEW w \in Workers, ev[w].pc \in Label
  PROVE  Busy(w) /\ ev[w] \in Evaluation
<1>1. ev[w] \in Evaluation \cup {Idle}
  BY DEF TypeOK
<1>2. Idle.pc \notin Label
  BY DEF Idle, Label
<1>3. QED
  BY <1>1, <1>2 DEF Busy

\* What a goroutine's memory must satisfy, next to a table with these ids.
GoodMemory(e, ids) ==
  \/ e = Idle
  \/ /\ e \in Evaluation
     /\ e.id # 0 => e.id \in ids /\ e.lap \in Lap
     /\ e.pc \notin {"lap", "gate", "open"} => e.id # 0
     /\ \A r \in e.rivals : r.id \in ids

\* A step of one goroutine keeps the types if its new memory is good and the
\* tables it writes keep theirs.
LEMMA StepKeepsTypes ==
  ASSUME TypeInv, NEW w \in Workers, NEW e,
         ev' = [ev EXCEPT ![w] = e],
         GoodMemory(e, DOMAIN laps'),
         laps' \in Seq(Lap), DOMAIN laps \subseteq DOMAIN laps',
         fines' \subseteq FineRow, \A f \in fines' : f.lap \in DOMAIN laps',
         charges' \subseteq ChargeRow, \A c \in charges' : c.lap \in DOMAIN laps',
         routeOf' = routeOf, newest' \in [Vehicles -> OptTime],
         received' \in Nat, faults' \in Nat, reassigned' \in Nat
  PROVE  TypeInv'
<1>1. TypeOK'
  <2>1. e \in Evaluation \cup {Idle}
    BY DEF GoodMemory
  <2>2. ev' \in [Workers -> Evaluation \cup {Idle}]
    BY <2>1 DEF TypeInv, TypeOK
  <2>3. QED
    BY <2>2 DEF TypeInv, TypeOK
<1>2. ASSUME NEW u \in Workers
      PROVE  Held(u)'
  <2>1. CASE u = w
    <3>1. ev'[u] = e
      BY <2>1 DEF TypeInv, TypeOK
    <3>2. QED
      BY <3>1 DEF GoodMemory, Held, Busy
  <2>2. CASE u # w
    <3>1. ev'[u] = ev[u]
      BY <2>2 DEF TypeInv, TypeOK
    <3>2. Held(u)
      BY DEF TypeInv
    <3>3. QED
      BY <3>1, <3>2 DEF Held, Busy
  <2>3. QED
    BY <2>1, <2>2
<1>3. QED
  BY <1>1, <1>2 DEF TypeInv

\* The memory of a goroutine that is evaluating is good.
LEMMA MemoryIsGood ==
  ASSUME TypeInv, NEW w \in Workers, ev[w].pc \in Label
  PROVE  ev[w] \in Evaluation /\ GoodMemory(ev[w], DOMAIN laps)
<1>1. Busy(w) /\ ev[w] \in Evaluation
  BY Evaluating DEF TypeInv
<1>2. Held(w)
  BY DEF TypeInv
<1>3. QED
  BY <1>1, <1>2 DEF GoodMemory, Held

\* A fine for a lap of the table is a row of the fines table.
LEMMA FineIsRow ==
  ASSUME NEW e \in Evaluation, NEW type \in FineType, NEW id \in Nat,
         NEW since \in OptTime
  PROVE  /\ NewFine(e, type, id, since) \in FineRow
         /\ NewFine(e, type, id, since).lap = id
         /\ NewFine(e, type, id, since).type = type
<1>1. e.rep.at \in Time /\ e.by \in Nat
  BY ConstantsOK DEF Evaluation, Report
<1>2. QED
  BY <1>1 DEF NewFine, FineRow

\* The positions of a table are numbers from 1 on.
LEMMA IdsArePositive ==
  ASSUME laps \in Seq(Lap)
  PROVE  DOMAIN laps \subseteq Nat \ {0}
  BY LenProperties

\* A step that only changes what one goroutine remembers.
LEMMA MemoryStep ==
  ASSUME TypeInv, NEW w \in Workers, NEW e, ev' = [ev EXCEPT ![w] = e],
         GoodMemory(e, DOMAIN laps), UNCHANGED tables, UNCHANGED environment,
         faults' \in Nat
  PROVE  TypeInv'
  BY StepKeepsTypes DEF TypeInv, TypeOK, tables, environment

\* A step of one goroutine that writes at most one fine, for a lap of the table.
LEMMA FineStep ==
  ASSUME TypeInv, NEW w \in Workers, NEW e, ev' = [ev EXCEPT ![w] = e],
         GoodMemory(e, DOMAIN laps),
         NEW f \in FineRow, f.lap \in DOMAIN laps, fines' = fines \cup {f},
         UNCHANGED <<laps, charges, environment, faults>>
  PROVE  TypeInv'
  BY StepKeepsTypes DEF TypeInv, TypeOK, environment

\* A step of one goroutine that writes one row of the laps table.
LEMMA RowStep ==
  ASSUME TypeInv, NEW w \in Workers, NEW e, ev' = [ev EXCEPT ![w] = e],
         GoodMemory(e, DOMAIN laps),
         NEW k \in DOMAIN laps, NEW row \in Lap, laps' = [laps EXCEPT ![k] = row],
         UNCHANGED <<fines, charges, environment, faults>>
  PROVE  TypeInv'
<1>1. laps' \in Seq(Lap) /\ DOMAIN laps' = DOMAIN laps
  BY UpdateRow DEF TypeInv, TypeOK
<1>2. QED
  BY <1>1, StepKeepsTypes DEF TypeInv, TypeOK, environment

\* Changing the label of a good memory among those that need a lap keeps it good.
LEMMA Relabelled ==
  ASSUME NEW ids, NEW e \in Evaluation, GoodMemory(e, ids), NEW l \in Label,
         e.id # 0 \/ l \in {"lap", "gate", "open"}
  PROVE  [e EXCEPT !.pc = l] \in Evaluation /\ GoodMemory([e EXCEPT !.pc = l], ids)
<1>1. e # Idle
  BY DEF Evaluation, Idle
<1>2. [e EXCEPT !.pc = l] \in Evaluation
  BY DEF Evaluation
<1>3. QED
  BY <1>1, <1>2 DEF GoodMemory, Evaluation

\* Replacing the lap in hand by a lap keeps a memory good.
LEMMA LapReplaced ==
  ASSUME NEW ids, NEW e \in Evaluation, GoodMemory(e, ids), NEW l \in Label,
         e.id # 0, NEW lap \in Lap
  PROVE  LET g == [e EXCEPT !.pc = l, !.lap = lap, !.dirty = TRUE]
         IN  g \in Evaluation /\ GoodMemory(g, ids)
<1> DEFINE g == [e EXCEPT !.pc = l, !.lap = lap, !.dirty = TRUE]
<1>1. e # Idle
  BY DEF Evaluation, Idle
<1>2. g \in Evaluation
  BY DEF Evaluation
<1>3. g.id = e.id /\ g.lap = lap /\ g.rivals = e.rivals
  BY DEF Evaluation
<1>4. QED
  BY <1>1, <1>2, <1>3 DEF GoodMemory

LEMMA ReceiveKeepsTypes ==
  ASSUME TypeInv, NEW w \in Workers, NEW p \in Reports, Receive(w, p)
  PROVE  TypeInv'
<1>1. p \in Report /\ p.veh \in Vehicles /\ p.at \in Time
  BY ConstantsOK DEF Report
<1>2. newest' \in [Vehicles -> OptTime] /\ received' \in Nat
  <2>1. newest \in [Vehicles -> OptTime] /\ received \in Nat /\ p.at \in OptTime
    BY <1>1 DEF TypeInv, TypeOK, OptTime
  <2>2. newest' = [newest EXCEPT ![p.veh] = p.at] \/ newest' = newest
    BY DEF Receive
  <2>3. received' = received + 1
    BY DEF Receive
  <2>4. QED
    BY <2>1, <2>2, <2>3
<1>3. CASE routeOf[p.veh] = NoRoute
  <2>1. UNCHANGED <<laps, fines, charges, routeOf, ev, faults, reassigned>>
    BY <1>3 DEF Receive, tables
  <2>2. TypeOK'
    BY <1>2, <2>1 DEF TypeInv, TypeOK
  <2>3. QED
    BY <2>1, <2>2 DEF TypeInv, Held, Busy
<1>4. CASE routeOf[p.veh] # NoRoute
  <2> DEFINE e == [pc |-> "lap", rep |-> p, by |-> received + 1,
                   route |-> routeOf[p.veh], id |-> 0, lap |-> NoLap,
                   dirty |-> FALSE, rivals |-> {}]
  <2>1. ev' = [ev EXCEPT ![w] = e]
    BY <1>4 DEF Receive, Continue
  <2>2. e \in Evaluation
    BY <1>1, <1>4 DEF Evaluation, Label, TypeInv, TypeOK
  <2>3. GoodMemory(e, DOMAIN laps)
    BY <2>2 DEF GoodMemory
  <2>4. UNCHANGED <<laps, fines, charges, routeOf, faults, reassigned>>
    BY DEF Receive, tables
  <2>5. QED
    BY <1>2, <2>1, <2>3, <2>4, StepKeepsTypes DEF TypeInv, TypeOK
<1>5. QED
  BY <1>3, <1>4

LEMMA ReadOpenLapKeepsTypes ==
  ASSUME TypeInv, NEW w \in Workers, ReadOpenLap(w)
  PROVE  TypeInv'
<1>1. ev[w].pc = "lap" /\ ev[w].pc \in Label
  BY DEF ReadOpenLap, Label
<1>2. ev[w] \in Evaluation /\ GoodMemory(ev[w], DOMAIN laps)
  BY <1>1, MemoryIsGood
<1>3. UNCHANGED <<tables, environment, faults>> /\ faults' \in Nat
  BY DEF ReadOpenLap, TypeInv, TypeOK
<1>4. CASE Goto(w, "gate")
  <2>1. ev' = [ev EXCEPT ![w] = [ev[w] EXCEPT !.pc = "gate"]]
    BY <1>4 DEF Goto
  <2>2. GoodMemory([ev[w] EXCEPT !.pc = "gate"], DOMAIN laps)
    BY <1>2, Relabelled DEF Label
  <2>3. QED
    BY <2>1, <2>2, <1>3, MemoryStep
<1>5. ASSUME NEW i \in LatestStarted(OpenLaps(ev[w].rep.veh)),
             Continue(w, [ev[w] EXCEPT !.pc = "stop", !.id = i, !.lap = laps[i]])
      PROVE  TypeInv'
  <2> DEFINE e == [ev[w] EXCEPT !.pc = "stop", !.id = i, !.lap = laps[i]]
  <2>1. i \in DOMAIN laps
    BY <1>5 DEF LatestStarted, OpenLaps
  <2>2. i \in Nat \ {0} /\ laps[i] \in Lap
    BY <2>1, IdsArePositive, RowIsLap DEF TypeInv, TypeOK
  <2>3. e \in Evaluation
    BY <1>2, <2>2 DEF Evaluation, Label
  <2>4. e.id = i /\ e.lap = laps[i] /\ e.rivals = ev[w].rivals
    BY <1>2 DEF Evaluation
  <2>5. \A r \in ev[w].rivals : r.id \in DOMAIN laps
    BY <1>1, <1>2 DEF GoodMemory, Idle
  <2>6. GoodMemory(e, DOMAIN laps)
    BY <2>1, <2>2, <2>3, <2>4, <2>5 DEF GoodMemory
  <2>7. ev' = [ev EXCEPT ![w] = e]
    BY <1>5 DEF Continue
  <2>8. QED
    BY <2>6, <2>7, <1>3, MemoryStep
<1>6. QED
  BY <1>4, <1>5 DEF ReadOpenLap

LEMMA ReturnKeepsTypes ==
  ASSUME TypeInv, NEW w \in Workers, Return(w), UNCHANGED <<tables, environment>>,
         faults' \in Nat
  PROVE  TypeInv'
<1>1. ev' = [ev EXCEPT ![w] = Idle] /\ GoodMemory(Idle, DOMAIN laps)
  BY DEF Return, GoodMemory
<1>2. QED
  BY <1>1, MemoryStep

\* A goroutine past FindOpenLap with a lap in hand.
LEMMA InHand ==
  ASSUME TypeInv, NEW w \in Workers, ev[w].pc \in Label \ {"lap", "gate", "open"}
  PROVE  /\ ev[w] \in Evaluation /\ GoodMemory(ev[w], DOMAIN laps)
         /\ ev[w].id # 0 /\ ev[w].id \in DOMAIN laps /\ ev[w].id \in Nat
         /\ ev[w].lap \in Lap /\ laps[ev[w].id] \in Lap
         /\ ev[w].rep.at \in Time
         /\ \A r \in ev[w].rivals : r \in Rival /\ r.id \in DOMAIN laps
<1>1. ev[w] \in Evaluation /\ GoodMemory(ev[w], DOMAIN laps)
  BY MemoryIsGood
<1>2. ev[w] # Idle
  BY DEF Idle, Label
<1>3. /\ ev[w].id # 0 /\ ev[w].id \in DOMAIN laps /\ ev[w].lap \in Lap
      /\ \A r \in ev[w].rivals : r.id \in DOMAIN laps
  BY <1>1, <1>2 DEF GoodMemory
<1>4. laps[ev[w].id] \in Lap
  BY <1>3, RowIsLap DEF TypeInv, TypeOK
<1>5. ev[w].rep.at \in Time /\ ev[w].id \in Nat /\ ev[w].rivals \in SUBSET Rival
  BY <1>1, ConstantsOK DEF Evaluation, Report
<1>6. QED
  BY <1>1, <1>3, <1>4, <1>5

LEMMA GotoKeepsTypes ==
  ASSUME TypeInv, NEW w \in Workers, ev[w].pc \in Label \ {"lap", "gate", "open"},
         NEW l \in Label, Goto(w, l), UNCHANGED <<tables, environment>>, faults' \in Nat
  PROVE  TypeInv'
<1>1. ev' = [ev EXCEPT ![w] = [ev[w] EXCEPT !.pc = l]]
  BY DEF Goto
<1>2. GoodMemory([ev[w] EXCEPT !.pc = l], DOMAIN laps)
  BY InHand, Relabelled
<1>3. QED
  BY <1>1, <1>2, MemoryStep

LEMMA ProlongedStopKeepsTypes ==
  ASSUME TypeInv, NEW w \in Workers, EvaluateProlongedStop(w)
  PROVE  TypeInv'
<1> DEFINE e == ev[w]
<1>1. e.pc = "stop" /\ e.pc \in Label \ {"lap", "gate", "open"}
  BY DEF EvaluateProlongedStop, Label
<1>2. /\ e \in Evaluation /\ GoodMemory(e, DOMAIN laps) /\ e.id # 0 /\ e.id \in Nat
      /\ e.id \in DOMAIN laps /\ e.lap \in Lap /\ e.rep.at \in Time
  BY <1>1, InHand
<1>3. UNCHANGED <<laps, charges, environment>> /\ faults \in Nat
  BY DEF EvaluateProlongedStop, TypeInv, TypeOK
<1>4. CASE /\ Continue(w, [e EXCEPT !.pc = "speed", !.lap = Moved(e.lap, e.rep.at),
                                    !.dirty = Moved(e.lap, e.rep.at) # e.lap])
           /\ UNCHANGED <<fines, faults>>
  <2> DEFINE moved == Moved(e.lap, e.rep.at)
  <2> DEFINE g == [e EXCEPT !.pc = "speed", !.lap = moved, !.dirty = moved # e.lap]
  <2>1. moved \in Lap
    BY <1>2, WrittenRows
  <2>2. (moved # e.lap) \in BOOLEAN
    OBVIOUS
  <2> HIDE DEF moved
  <2>3. /\ g \in Evaluation
        /\ g.id = e.id /\ g.lap = moved /\ g.rivals = e.rivals
    BY <1>2, <2>1, <2>2 DEF Evaluation, Label
  <2>4. e # Idle
    BY <1>1 DEF Idle
  <2>5. GoodMemory(g, DOMAIN laps)
    BY <1>2, <2>1, <2>3, <2>4 DEF GoodMemory
  <2>6. ev' = [ev EXCEPT ![w] = g]
    BY <1>4 DEF Continue, moved
  <2>7. QED
    BY <1>3, <1>4, <2>5, <2>6, MemoryStep DEF tables
<1>5. CASE Goto(w, "speed") /\ UNCHANGED fines /\ faults' \in Nat
  BY <1>1, <1>3, <1>5, GotoKeepsTypes DEF tables, Label
<1>6. CASE /\ fines' = fines \cup {NewFine(e, "PROLONGED_STOP", e.id, e.lap.lastMove)}
           /\ Continue(w, [e EXCEPT !.pc = "speed", !.dirty = TRUE,
                                    !.lap.stopFine = e.rep.at])
           /\ UNCHANGED faults
  <2> DEFINE lap == [e.lap EXCEPT !.stopFine = e.rep.at]
  <2>1. lap \in Lap
    BY <1>2, WrittenRows
  <2>2. ev' = [ev EXCEPT ![w] = [e EXCEPT !.pc = "speed", !.lap = lap, !.dirty = TRUE]]
    BY <1>2, <1>6 DEF Continue, Evaluation
  <2>3. GoodMemory([e EXCEPT !.pc = "speed", !.lap = lap, !.dirty = TRUE], DOMAIN laps)
    BY <1>2, <2>1, LapReplaced DEF Label
  <2>4. e.lap.lastMove \in OptTime
    BY <1>2 DEF Lap
  <2>5. /\ NewFine(e, "PROLONGED_STOP", e.id, e.lap.lastMove) \in FineRow
        /\ NewFine(e, "PROLONGED_STOP", e.id, e.lap.lastMove).lap = e.id
    BY <1>2, <2>4, FineIsRow DEF FineType
  <2>6. QED
    BY <1>2, <1>3, <1>6, <2>2, <2>3, <2>5, FineStep
<1>7. QED
  BY <1>3, <1>4, <1>5, <1>6 DEF EvaluateProlongedStop, Fault

LEMMA SpeedingKeepsTypes ==
  ASSUME TypeInv, NEW w \in Workers, EvaluateSpeeding(w)
  PROVE  TypeInv'
<1> DEFINE e == ev[w]
<1>1. e.pc = "speed" /\ e.pc \in Label \ {"lap", "gate", "open"}
  BY DEF EvaluateSpeeding, Label
<1>2. /\ e \in Evaluation /\ GoodMemory(e, DOMAIN laps) /\ e.id # 0 /\ e.id \in Nat
      /\ e.id \in DOMAIN laps /\ e.lap \in Lap /\ e.rep.at \in Time
  BY <1>1, InHand
<1>3. UNCHANGED <<laps, charges, environment>> /\ faults \in Nat
  BY DEF EvaluateSpeeding, TypeInv, TypeOK
<1>4. CASE Goto(w, "overtake") /\ UNCHANGED fines /\ faults' \in Nat
  BY <1>1, <1>3, <1>4, GotoKeepsTypes DEF tables, Label
<1>5. CASE /\ fines' = fines \cup {NewFine(e, "SPEEDING", e.id, Null)}
           /\ Continue(w, [e EXCEPT !.pc = "overtake", !.dirty = TRUE,
                                    !.lap.speedFine = e.rep.at])
           /\ UNCHANGED faults
  <2> DEFINE lap == [e.lap EXCEPT !.speedFine = e.rep.at]
  <2>1. lap \in Lap
    BY <1>2, WrittenRows
  <2>2. ev' = [ev EXCEPT ![w] = [e EXCEPT !.pc = "overtake", !.lap = lap, !.dirty = TRUE]]
    BY <1>2, <1>5 DEF Continue, Evaluation
  <2>3. GoodMemory([e EXCEPT !.pc = "overtake", !.lap = lap, !.dirty = TRUE], DOMAIN laps)
    BY <1>2, <2>1, LapReplaced DEF Label
  <2>4. /\ NewFine(e, "SPEEDING", e.id, Null) \in FineRow
        /\ NewFine(e, "SPEEDING", e.id, Null).lap = e.id
    BY <1>2, FineIsRow DEF FineType, OptTime
  <2>5. QED
    BY <1>2, <1>3, <1>5, <2>2, <2>3, <2>4, FineStep
<1>6. QED
  BY <1>3, <1>4, <1>5 DEF EvaluateSpeeding, Fault

LEMMA OvertakingKeepsTypes ==
  ASSUME TypeInv, NEW w \in Workers, EvaluateOvertaking(w)
  PROVE  TypeInv'
<1> DEFINE e == ev[w]
<1> DEFINE placed == [e EXCEPT !.lap.line = e.rep.line, !.lap.prog = e.rep.prog,
                               !.dirty = TRUE]
<1> DEFINE lap == [e.lap EXCEPT !.line = e.rep.line, !.prog = e.rep.prog]
<1>1. e.pc = "overtake" /\ e.pc \in Label \ {"lap", "gate", "open"}
  BY DEF EvaluateOvertaking, Label
<1>2. /\ e \in Evaluation /\ GoodMemory(e, DOMAIN laps) /\ e.id # 0
      /\ e.lap \in Lap /\ \A r \in e.rivals : r.id \in DOMAIN laps
  BY <1>1, InHand
<1>3. UNCHANGED <<tables, environment>> /\ faults' \in Nat
  BY DEF EvaluateOvertaking, Fault, TypeInv, TypeOK
<1>4. CASE Goto(w, AfterInfractions(e.dirty))
  <2>1. ev' = [ev EXCEPT ![w] = [e EXCEPT !.pc = AfterInfractions(e.dirty)]]
    BY <1>4 DEF Goto
  <2>2. AfterInfractions(e.dirty) \in Label
    BY DEF AfterInfractions, Label
  <2>3. QED
    BY <1>2, <1>3, <2>1, <2>2, Relabelled, MemoryStep
<1>5. lap \in Lap
  <2>1. e.rep.line \in Nat \cup {Null} /\ e.rep.prog \in Nat
    BY <1>2, ConstantsOK DEF Evaluation, Report
  <2>2. QED
    BY <1>2, <2>1, WrittenRows
<1>6. CASE Continue(w, [placed EXCEPT !.pc = "track"])
  <2>1. ev' = [ev EXCEPT ![w] = [e EXCEPT !.pc = "track", !.lap = lap, !.dirty = TRUE]]
    BY <1>2, <1>6 DEF Continue, Evaluation
  <2>2. GoodMemory([e EXCEPT !.pc = "track", !.lap = lap, !.dirty = TRUE], DOMAIN laps)
    BY <1>2, <1>5, LapReplaced DEF Label
  <2>3. QED
    BY <1>3, <2>1, <2>2, MemoryStep
<1>7. CASE Continue(w, [placed EXCEPT !.pc = "rival", !.rivals = Overtakers(e)])
  <2> DEFINE found == Overtakers(e)
  <2> DEFINE g == [e EXCEPT !.pc = "rival", !.lap = lap, !.dirty = TRUE,
                            !.rivals = found]
  <2>1. \A r \in found : r \in Rival /\ r.id \in DOMAIN laps
    <3>1. ASSUME NEW i \in DOMAIN laps
          PROVE  [id |-> i, row |-> laps[i]] \in Rival
      BY <3>1, IdsArePositive, RowIsLap DEF Rival, TypeInv, TypeOK
    <3>2. QED
      BY <3>1 DEF Overtakers, OpenLapsByRoute
  <2>2. found \in SUBSET Rival
    BY <2>1
  <2>3. ev' = [ev EXCEPT ![w] = g]
    BY <1>2, <1>7 DEF Continue, Evaluation
  <2> HIDE DEF found, lap
  <2>4. g \in Evaluation /\ g.id = e.id /\ g.lap = lap /\ g.rivals = found
    BY <1>2, <1>5, <2>2 DEF Evaluation, Label
  <2>5. e # Idle
    BY <1>1 DEF Idle
  <2>6. GoodMemory(g, DOMAIN laps)
    BY <1>2, <1>5, <2>1, <2>4, <2>5 DEF GoodMemory
  <2>7. QED
    BY <1>3, <2>3, <2>6, MemoryStep
<1>8. QED
  BY <1>4, <1>6, <1>7 DEF EvaluateOvertaking

\* Dropping a rival keeps a memory good; so does keeping it with its flag set.
LEMMA RivalsReplaced ==
  ASSUME NEW ids, NEW e \in Evaluation, GoodMemory(e, ids), NEW l \in Label,
         e.id # 0, NEW rivals \in SUBSET Rival, \A r \in rivals : r.id \in ids
  PROVE  GoodMemory([e EXCEPT !.rivals = rivals, !.pc = l], ids)
<1> DEFINE g == [e EXCEPT !.rivals = rivals, !.pc = l]
<1>1. e # Idle
  BY DEF Evaluation, Idle
<1>2. g \in Evaluation /\ g.id = e.id /\ g.lap = e.lap /\ g.rivals = rivals
  BY DEF Evaluation
<1>3. QED
  BY <1>1, <1>2 DEF GoodMemory

LEMMA FineRivalKeepsTypes ==
  ASSUME TypeInv, NEW w \in Workers, FineRival(w)
  PROVE  TypeInv'
<1> DEFINE e == ev[w]
<1>1. e.pc = "rival" /\ e.pc \in Label \ {"lap", "gate", "open"}
  BY DEF FineRival, Label
<1>2. /\ e \in Evaluation /\ GoodMemory(e, DOMAIN laps) /\ e.id # 0
      /\ \A r \in e.rivals : r \in Rival /\ r.id \in DOMAIN laps
  BY <1>1, InHand
<1>3. UNCHANGED <<laps, charges, environment>> /\ faults \in Nat
  BY DEF FineRival, TypeInv, TypeOK
<1>4. PICK r \in e.rivals :
        LET rest == [e EXCEPT !.rivals = @ \ {r}]
        IN  \/ /\ fines' = fines \cup {NewFine(e, "OVERTAKING", r.id, Null)}
               /\ Continue(w, [rest EXCEPT !.pc = "mark",
                            !.rivals = @ \cup {[r EXCEPT !.row.overtaken = TRUE]}])
               /\ UNCHANGED faults
            \/ /\ Fault
               /\ Continue(w, [rest EXCEPT !.pc = NextRival(rest)])
               /\ UNCHANGED fines
  BY DEF FineRival
<1> DEFINE marked == [r EXCEPT !.row.overtaken = TRUE]
<1> DEFINE rest == [e EXCEPT !.rivals = @ \ {r}]
<1>5. r.id \in Nat /\ r.row \in Lap /\ r.id \in DOMAIN laps
  BY <1>2, <1>4 DEF Rival
<1>6. marked \in Rival /\ marked.id = r.id
  <2>1. [r.row EXCEPT !.overtaken = TRUE] \in Lap
    BY <1>5, WrittenRows
  <2>2. r \in Rival
    BY <1>2, <1>4
  <2>3. QED
    BY <1>5, <2>1, <2>2 DEF Rival
<1>7. CASE /\ fines' = fines \cup {NewFine(e, "OVERTAKING", r.id, Null)}
           /\ Continue(w, [rest EXCEPT !.pc = "mark", !.rivals = @ \cup {marked}])
           /\ UNCHANGED faults
  <2> DEFINE left == (e.rivals \ {r}) \cup {marked}
  <2>1. left \in SUBSET Rival /\ \A q \in left : q.id \in DOMAIN laps
    BY <1>2, <1>5, <1>6
  <2>2. ev' = [ev EXCEPT ![w] = [e EXCEPT !.rivals = left, !.pc = "mark"]]
    BY <1>2, <1>7 DEF Continue, Evaluation
  <2> HIDE DEF left
  <2>3. GoodMemory([e EXCEPT !.rivals = left, !.pc = "mark"], DOMAIN laps)
    BY <1>2, <2>1, RivalsReplaced DEF Label
  <2>4. /\ NewFine(e, "OVERTAKING", r.id, Null) \in FineRow
        /\ NewFine(e, "OVERTAKING", r.id, Null).lap = r.id
    BY <1>2, <1>5, FineIsRow DEF FineType, OptTime
  <2>5. QED
    BY <1>3, <1>5, <1>7, <2>2, <2>3, <2>4, FineStep
<1>8. CASE /\ Fault
           /\ Continue(w, [rest EXCEPT !.pc = NextRival(rest)])
           /\ UNCHANGED fines
  <2> DEFINE left == e.rivals \ {r}
  <2>1. left \in SUBSET Rival /\ \A q \in left : q.id \in DOMAIN laps
    BY <1>2
  <2>2. NextRival(rest) \in Label
    BY DEF NextRival, Label
  <2>3. ev' = [ev EXCEPT ![w] = [e EXCEPT !.rivals = left, !.pc = NextRival(rest)]]
    BY <1>2, <1>8 DEF Continue, Evaluation
  <2>4. GoodMemory([e EXCEPT !.rivals = left, !.pc = NextRival(rest)], DOMAIN laps)
    BY <1>2, <2>1, <2>2, RivalsReplaced
  <2> HIDE DEF left, rest
  <2>5. faults' \in Nat
    BY <1>3, <1>8 DEF Fault
  <2>6. UNCHANGED tables /\ UNCHANGED environment
    BY <1>3, <1>8 DEF tables
  <2>7. QED
    BY <2>3, <2>4, <2>5, <2>6, MemoryStep
<1>9. QED
  BY <1>4, <1>7, <1>8

\* A step that writes one row of the laps table, or fails to.
LEMMA RowStepOrFault ==
  ASSUME TypeInv, NEW w \in Workers, NEW e, ev' = [ev EXCEPT ![w] = e],
         GoodMemory(e, DOMAIN laps),
         NEW k \in DOMAIN laps, NEW row \in Lap,
         \/ laps' = [laps EXCEPT ![k] = row] /\ UNCHANGED faults
         \/ Fault /\ UNCHANGED laps,
         UNCHANGED <<fines, charges, environment>>
  PROVE  TypeInv'
<1>1. CASE laps' = [laps EXCEPT ![k] = row] /\ UNCHANGED faults
  BY <1>1, RowStep
<1>2. CASE Fault /\ UNCHANGED laps
  <2>1. faults' \in Nat
    BY <1>2 DEF Fault, TypeInv, TypeOK
  <2>2. UNCHANGED tables /\ UNCHANGED environment
    BY <1>2 DEF tables
  <2>3. QED
    BY <2>1, <2>2, MemoryStep
<1>3. QED
  BY <1>1, <1>2

LEMMA MarkRivalKeepsTypes ==
  ASSUME TypeInv, NEW w \in Workers, MarkRival(w)
  PROVE  TypeInv'
<1> DEFINE e == ev[w]
<1>1. e.pc = "mark" /\ e.pc \in Label \ {"lap", "gate", "open"}
  BY DEF MarkRival, Label
<1>2. /\ e \in Evaluation /\ GoodMemory(e, DOMAIN laps) /\ e.id # 0
      /\ \A r \in e.rivals : r \in Rival /\ r.id \in DOMAIN laps
  BY <1>1, InHand
<1>3. UNCHANGED <<fines, charges, environment>>
  BY DEF MarkRival
<1>4. PICK r \in e.rivals :
        /\ LET rest == [e EXCEPT !.rivals = @ \ {r}]
           IN  Continue(w, [rest EXCEPT !.pc = NextRival(rest)])
        /\ \/ laps' = [laps EXCEPT ![r.id] = Tracked(@, r.row)] /\ UNCHANGED faults
           \/ Fault /\ UNCHANGED laps
  BY DEF MarkRival
<1> DEFINE rest == [e EXCEPT !.rivals = @ \ {r}]
<1> DEFINE left == e.rivals \ {r}
<1>5. left \in SUBSET Rival /\ \A q \in left : q.id \in DOMAIN laps
  BY <1>2
<1>6. NextRival(rest) \in Label
  BY DEF NextRival, Label
<1>7. ev' = [ev EXCEPT ![w] = [e EXCEPT !.rivals = left, !.pc = NextRival(rest)]]
  BY <1>2, <1>4 DEF Continue, Evaluation
<1>8. GoodMemory([e EXCEPT !.rivals = left, !.pc = NextRival(rest)], DOMAIN laps)
  BY <1>2, <1>5, <1>6, RivalsReplaced
<1>9. r.id \in DOMAIN laps /\ Tracked(laps[r.id], r.row) \in Lap
  BY <1>2, <1>4, RowIsLap, WrittenRows DEF Rival, TypeInv, TypeOK
<1>10. QED
  BY <1>3, <1>4, <1>7, <1>8, <1>9, RowStepOrFault

LEMMA UpdateTrackingKeepsTypes ==
  ASSUME TypeInv, NEW w \in Workers, UpdateTracking(w)
  PROVE  TypeInv'
<1>1. ev[w].pc \in Label \ {"lap", "gate", "open"}
  BY DEF UpdateTracking, Label
<1>2. /\ ev[w] \in Evaluation /\ GoodMemory(ev[w], DOMAIN laps)
      /\ ev[w].id \in DOMAIN laps /\ ev[w].lap \in Lap /\ laps[ev[w].id] \in Lap
  BY <1>1, InHand
<1>3. ev' = [ev EXCEPT ![w] = [ev[w] EXCEPT !.pc = "gate"]]
  BY DEF UpdateTracking, Goto
<1>4. GoodMemory([ev[w] EXCEPT !.pc = "gate"], DOMAIN laps)
  BY <1>2, Relabelled DEF Label
<1>5. Tracked(laps[ev[w].id], ev[w].lap) \in Lap
  BY <1>2, WrittenRows
<1>6. QED
  BY <1>2, <1>3, <1>4, <1>5, RowStepOrFault DEF UpdateTracking

LEMMA CrossCheckpointKeepsTypes ==
  ASSUME TypeInv, NEW w \in Workers, CrossCheckpoint(w)
  PROVE  TypeInv'
<1> DEFINE e == ev[w]
<1>1. e.pc = "gate" /\ e.pc \in Label
  BY DEF CrossCheckpoint, Label
<1>2. /\ e \in Evaluation /\ GoodMemory(e, DOMAIN laps) /\ e # Idle
      /\ e.id # 0 => e.id \in DOMAIN laps
  BY <1>1, MemoryIsGood DEF GoodMemory, Idle
<1>3. UNCHANGED <<fines, charges, environment, faults>> /\ faults' \in Nat
  BY DEF CrossCheckpoint, TypeInv, TypeOK
<1>4. CASE Return(w) /\ UNCHANGED laps
  BY <1>3, <1>4, ReturnKeepsTypes DEF tables
<1>5. CASE Return(w) /\ e.id # 0 /\ laps' = [laps EXCEPT ![e.id].toured = TRUE]
  <2>1. laps[e.id] \in Lap /\ [laps[e.id] EXCEPT !.toured = TRUE] \in Lap
    BY <1>2, <1>5, RowIsLap, WrittenRows DEF TypeInv, TypeOK
  <2>2. ev' = [ev EXCEPT ![w] = Idle] /\ GoodMemory(Idle, DOMAIN laps)
    BY <1>5 DEF Return, GoodMemory
  <2>3. laps' = [laps EXCEPT ![e.id] = [laps[e.id] EXCEPT !.toured = TRUE]]
    BY <1>5
  <2>4. QED
    BY <1>2, <1>3, <1>5, <2>1, <2>2, <2>3, RowStep
<1>6. CASE Goto(w, IF e.id = 0 THEN "open" ELSE "close") /\ UNCHANGED laps
  <2> DEFINE l == IF e.id = 0 THEN "open" ELSE "close"
  <2>1. l \in Label /\ (e.id # 0 \/ l \in {"lap", "gate", "open"})
    BY DEF Label
  <2>2. ev' = [ev EXCEPT ![w] = [e EXCEPT !.pc = l]]
    BY <1>6 DEF Goto
  <2> HIDE DEF l
  <2>3. GoodMemory([e EXCEPT !.pc = l], DOMAIN laps)
    BY <1>2, <2>1, Relabelled
  <2>4. QED
    BY <1>3, <1>6, <2>2, <2>3, MemoryStep DEF tables
<1>7. QED
  BY <1>4, <1>5, <1>6 DEF CrossCheckpoint

LEMMA CloseLapKeepsTypes ==
  ASSUME TypeInv, NEW w \in Workers, CloseLap(w)
  PROVE  TypeInv'
<1> DEFINE e == ev[w]
<1> DEFINE status == ComputeLapStatus(e.rep.at - e.lap.start, e.lap.allowed)
<1> DEFINE l == IF status = "LATE" THEN "late" ELSE "charge"
<1> DEFINE row == [laps[e.id] EXCEPT !.status = status, !.ended = e.rep.at]
<1>1. e.pc \in Label \ {"lap", "gate", "open"}
  BY DEF CloseLap, Label
<1>2. /\ e \in Evaluation /\ GoodMemory(e, DOMAIN laps) /\ e.id # 0
      /\ e.id \in DOMAIN laps /\ laps[e.id] \in Lap /\ e.rep.at \in Time
  BY <1>1, InHand
<1>3. UNCHANGED <<fines, charges, environment>> /\ faults \in Nat
  BY DEF CloseLap, TypeInv, TypeOK
<1>4. status \in Finished /\ l \in Label
  BY LapStatusComputed DEF Label
<1>5. row \in Lap
  BY <1>2, <1>4, WrittenRows
<1>6. CASE /\ laps' = [laps EXCEPT ![e.id].status = status, ![e.id].ended = e.rep.at]
           /\ Goto(w, l) /\ UNCHANGED faults
  <2>1. laps' = [laps EXCEPT ![e.id] = row]
    BY <1>2, <1>6 DEF TypeInv, TypeOK
  <2>2. ev' = [ev EXCEPT ![w] = [e EXCEPT !.pc = l]]
    BY <1>6 DEF Goto
  <2> HIDE DEF l, row, status
  <2>3. GoodMemory([e EXCEPT !.pc = l], DOMAIN laps)
    BY <1>2, <1>4, Relabelled
  <2>4. QED
    BY <1>2, <1>3, <1>5, <1>6, <2>1, <2>2, <2>3, RowStep
<1>7. CASE Fault /\ Return(w) /\ UNCHANGED laps
  <2>1. faults' \in Nat
    BY <1>3, <1>7 DEF Fault
  <2>2. QED
    BY <1>3, <1>7, <2>1, ReturnKeepsTypes DEF tables
<1>8. QED
  BY <1>6, <1>7 DEF CloseLap

LEMMA FineLateLapKeepsTypes ==
  ASSUME TypeInv, NEW w \in Workers, FineLateLap(w)
  PROVE  TypeInv'
<1> DEFINE e == ev[w]
<1>1. e.pc \in Label \ {"lap", "gate", "open"}
  BY DEF FineLateLap, Label
<1>2. /\ e \in Evaluation /\ GoodMemory(e, DOMAIN laps) /\ e.id # 0
      /\ e.id \in DOMAIN laps /\ e.id \in Nat
  BY <1>1, InHand
<1>3. UNCHANGED <<laps, charges, environment>> /\ faults \in Nat /\ Goto(w, "charge")
  BY DEF FineLateLap, TypeInv, TypeOK
<1>4. CASE fines' = fines \cup {NewFine(e, "LAP_TIME", e.id, Null)} /\ UNCHANGED faults
  <2>1. ev' = [ev EXCEPT ![w] = [e EXCEPT !.pc = "charge"]]
    BY <1>3 DEF Goto
  <2>2. GoodMemory([e EXCEPT !.pc = "charge"], DOMAIN laps)
    BY <1>2, Relabelled DEF Label
  <2>3. /\ NewFine(e, "LAP_TIME", e.id, Null) \in FineRow
        /\ NewFine(e, "LAP_TIME", e.id, Null).lap = e.id
    BY <1>2, FineIsRow DEF FineType, OptTime
  <2>4. QED
    BY <1>2, <1>3, <1>4, <2>1, <2>2, <2>3, FineStep
<1>5. CASE Fault /\ UNCHANGED fines
  <2>1. faults' \in Nat /\ "charge" \in Label
    BY <1>3, <1>5 DEF Fault, Label
  <2>2. UNCHANGED <<tables, environment>>
    BY <1>3, <1>5 DEF tables
  <2>3. QED
    BY <1>1, <1>3, <2>1, <2>2, GotoKeepsTypes
<1>6. QED
  BY <1>4, <1>5 DEF FineLateLap

LEMMA ChargeLapKeepsTypes ==
  ASSUME TypeInv, NEW w \in Workers, ChargeLap(w)
  PROVE  TypeInv'
<1> DEFINE e == ev[w]
<1> DEFINE charge(f) == [lap |-> e.id, amount |-> f.amount, route |-> e.route,
                         by |-> e.by]
<1>1. e.pc \in Label \ {"lap", "gate", "open"}
  BY DEF ChargeLap, Label
<1>2. /\ e \in Evaluation /\ GoodMemory(e, DOMAIN laps) /\ e.id # 0
      /\ e.id \in DOMAIN laps /\ e.id \in Nat
  BY <1>1, InHand
<1>3. UNCHANGED <<laps, fines, environment>> /\ faults \in Nat
  BY DEF ChargeLap, TypeInv, TypeOK
<1>4. /\ ev' = [ev EXCEPT ![w] = [e EXCEPT !.pc = "open"]]
      /\ GoodMemory([e EXCEPT !.pc = "open"], DOMAIN laps)
  BY <1>2, Relabelled DEF Label, ChargeLap, Goto
<1>5. CASE UNCHANGED charges /\ faults' \in Nat
  BY <1>3, <1>4, <1>5, MemoryStep DEF tables
<1>6. ASSUME NEW f \in ActiveFares(e.route, e.rep.at),
             charges' = charges \cup {charge(f)}, UNCHANGED faults
      PROVE  TypeInv'
  <2>1. f \in Fare
    BY ConstantsOK DEF ActiveFares
  <2>2. charge(f) \in ChargeRow /\ charge(f).lap = e.id
    BY <1>2, <2>1 DEF ChargeRow, Fare, Evaluation
  <2> HIDE DEF charge
  <2>3. charges' \subseteq ChargeRow /\ \A c \in charges' : c.lap \in DOMAIN laps
    BY <1>2, <1>6, <2>2 DEF TypeInv, TypeOK
  <2>4. QED
    BY <1>3, <1>4, <1>6, <2>3, StepKeepsTypes DEF TypeInv, TypeOK, environment
<1>7. QED
  BY <1>3, <1>5, <1>6 DEF ChargeLap, Fault

\* The row OpenNextLap inserts is a lap in progress of the report's vehicle.
LEMMA NewLapIsLap ==
  ASSUME TypeInv, NEW w \in Workers, ev[w].pc = "open"
  PROVE  /\ NewLap(ev[w]) \in Lap
         /\ NewLap(ev[w]).veh = ev[w].rep.veh
         /\ NewLap(ev[w]).status = "IN_PROGRESS"
<1> DEFINE e == ev[w]
<1>1. e \in Evaluation /\ GoodMemory(e, DOMAIN laps) /\ e # Idle
  BY MemoryIsGood DEF Label, Idle
<1>2. /\ e.rep.at \in Time /\ e.rep.at \in OptTime /\ e.rep.veh \in Vehicles
      /\ e.route \in Routes
  BY <1>1, ConstantsOK DEF Evaluation, Report, OptTime
<1>3. (IF e.id = 0 THEN 1 ELSE e.lap.num + 1) \in Nat
  BY <1>1 DEF GoodMemory, Lap
<1>4. AllowedLap[e.route] \in Nat
  BY <1>2, ConstantsOK
<1>5. QED
  BY <1>2, <1>3, <1>4 DEF NewLap, Lap, LapStatus, OptTime

LEMMA OpenNextLapKeepsTypes ==
  ASSUME TypeInv, NEW w \in Workers, OpenNextLap(w)
  PROVE  TypeInv'
<1>1. ev[w].pc = "open" /\ Return(w) /\ UNCHANGED <<fines, charges, environment>>
  BY DEF OpenNextLap
<1>2. CASE laps' = Append(laps, NewLap(ev[w])) /\ UNCHANGED faults
  <2>1. laps' \in Seq(Lap) /\ DOMAIN laps \subseteq DOMAIN laps'
    BY <1>1, <1>2, NewLapIsLap, InsertRow DEF TypeInv, TypeOK
  <2>2. ev' = [ev EXCEPT ![w] = Idle] /\ GoodMemory(Idle, DOMAIN laps')
    BY <1>1 DEF Return, GoodMemory
  <2>3. QED
    BY <1>1, <1>2, <2>1, <2>2, StepKeepsTypes DEF TypeInv, TypeOK, environment
<1>3. CASE Fault /\ UNCHANGED laps
  <2>1. faults' \in Nat
    BY <1>3 DEF Fault, TypeInv, TypeOK
  <2>2. QED
    BY <1>1, <1>3, <2>1, ReturnKeepsTypes DEF tables
<1>4. QED
  BY <1>2, <1>3 DEF OpenNextLap

LEMMA ReadFailsKeepsTypes ==
  ASSUME TypeInv, NEW w \in Workers, ReadFails(w)
  PROVE  TypeInv'
<1>1. faults' \in Nat
  BY DEF ReadFails, Fault, TypeInv, TypeOK
<1>2. QED
  BY <1>1, ReturnKeepsTypes DEF ReadFails

LEMMA CrashKeepsTypes ==
  ASSUME TypeInv, Crash
  PROVE  TypeInv'
<1>1. TypeOK'
  BY DEF Crash, Fault, tables, environment, TypeInv, TypeOK
<1>2. \A w \in Workers : Held(w)'
  BY DEF Crash, Held, Busy
<1>3. QED
  BY <1>1, <1>2 DEF TypeInv

LEMMA ReassignKeepsTypes ==
  ASSUME TypeInv, NEW v \in Vehicles, NEW r \in Routes \cup {NoRoute}, Reassign(v, r)
  PROVE  TypeInv'
<1>1. TypeOK'
  BY DEF Reassign, tables, TypeInv, TypeOK
<1>2. \A w \in Workers : Held(w)'
  BY DEF Reassign, tables, Held, Busy, TypeInv
<1>3. QED
  BY <1>1, <1>2 DEF TypeInv

LEMMA InitHasTypes == Init => TypeInv
<1> SUFFICES ASSUME Init PROVE TypeInv
  OBVIOUS
<1>1. laps \in Seq(Lap)
  BY ConstantsOK DEF Init
<1>2. ev \in [Workers -> Evaluation \cup {Idle}] /\ \A w \in Workers : ev[w] = Idle
  BY DEF Init
<1>3. routeOf \in [Vehicles -> Routes \cup {NoRoute}] /\ newest \in [Vehicles -> OptTime]
  BY DEF Init, OptTime
<1>4. QED
  BY <1>1, <1>2, <1>3 DEF Init, TypeInv, TypeOK, Held, Busy

LEMMA NextKeepsTypes == TypeInv /\ [Next]_vars => TypeInv'
<1> SUFFICES ASSUME TypeInv, [Next]_vars PROVE TypeInv'
  OBVIOUS
<1>1. ASSUME NEW w \in Workers, Step(w)
      PROVE  TypeInv'
  BY <1>1, ReadOpenLapKeepsTypes, ProlongedStopKeepsTypes, SpeedingKeepsTypes,
     OvertakingKeepsTypes, FineRivalKeepsTypes, MarkRivalKeepsTypes,
     UpdateTrackingKeepsTypes, CrossCheckpointKeepsTypes, CloseLapKeepsTypes,
     FineLateLapKeepsTypes, ChargeLapKeepsTypes, OpenNextLapKeepsTypes DEF Step
<1>2. ASSUME NEW w \in Workers, ReadFails(w) \/ \E p \in Reports : Receive(w, p)
      PROVE  TypeInv'
  BY <1>2, ReadFailsKeepsTypes, ReceiveKeepsTypes
<1>3. CASE Crash
  BY <1>3, CrashKeepsTypes
<1>4. ASSUME NEW v \in Vehicles, NEW r \in Routes \cup {NoRoute}, Reassign(v, r)
      PROVE  TypeInv'
  BY <1>4, ReassignKeepsTypes
<1>5. CASE UNCHANGED vars
  BY <1>5 DEF vars, TypeInv, TypeOK, Held, Busy
<1>6. QED
  BY <1>1, <1>2, <1>3, <1>4, <1>5 DEF Next

\* Type correctness: whatever the goroutines, the failures, the crashes and the
\* reassignments do, every row of the three tables keeps its shape and points to
\* an existing lap.
THEOREM TypeCorrect == Spec => []TypeOK
<1>1. TypeInv => TypeOK
  BY DEF TypeInv
<1>2. QED
  BY <1>1, InitHasTypes, NextKeepsTypes, PTL DEF Spec

-----------------------------------------------------------------------------
(* One open lap, settled once: the invariant LapInv, when no two reports   *)
(* of one vehicle are evaluated at once.                                   *)

\* What a step must show about the goroutine that takes it.
HoldsWhatItMust(w) == HoldsOpenLap(w) /\ HoldsNoOpenLap(w) /\ Unsettled(w)

\* A step of the goroutine that has vehicle v, if it writes laps, charges and
\* LAP_TIME fines of v only, cannot disturb what the others rely on.
LEMMA OthersUndisturbed ==
  ASSUME LapInv, NEW w \in Workers, Busy(w), NEW v, v = ev[w].rep.veh,
         NEW u \in Workers, u # w, ev'[u] = ev[u],
         \A i \in DOMAIN laps :
           laps[i].veh # v => laps'[i].veh = laps[i].veh /\ laps'[i].status = laps[i].status,
         \A i \in DOMAIN laps : laps[i].veh = v => laps'[i].veh = v,
         \A i \in DOMAIN laps' : i \notin DOMAIN laps => laps'[i].veh = v,
         \A c \in charges' : c \in charges \/ laps[c.lap].veh = v,
         \A f \in fines' : f.type = "LAP_TIME" => f \in fines \/ laps[f.lap].veh = v
  PROVE  HoldsWhatItMust(u)'
<1> SUFFICES ASSUME Busy(u) PROVE HoldsWhatItMust(u)'
  BY DEF HoldsWhatItMust, HoldsOpenLap, HoldsNoOpenLap, Unsettled, Busy
<1>1. ev[u].rep.veh # v
  BY DEF LapInv, Exclusive
<1>2. HoldsOpenLap(u) /\ HoldsNoOpenLap(u) /\ Unsettled(u) /\ Held(u)
  BY DEF LapInv, TypeInv
<1>3. HoldsOpenLap(u)'
  BY <1>1, <1>2 DEF HoldsOpenLap, Held, Busy
<1>4. ASSUME ev[u].pc \in {"late", "charge"}
      PROVE  ev[u].id \in DOMAIN laps /\ laps[ev[u].id].veh # v
             /\ laps'[ev[u].id].veh = laps[ev[u].id].veh
             /\ laps'[ev[u].id].status = laps[ev[u].id].status
  BY <1>1, <1>2, <1>4 DEF HoldsNoOpenLap, Held
<1>5. HoldsNoOpenLap(u)'
  <2>1. ASSUME NEW i \in DOMAIN laps', laps'[i].veh = ev[u].rep.veh
        PROVE  /\ i \in DOMAIN laps /\ laps[i].veh = ev[u].rep.veh
               /\ laps'[i].status = laps[i].status
    BY <1>1, <2>1
  <2>2. QED
    BY <1>2, <1>4, <2>1 DEF HoldsNoOpenLap, Busy
<1>6. Unsettled(u)'
  BY <1>2, <1>4 DEF Unsettled, Busy
<1>7. QED
  BY <1>3, <1>5, <1>6 DEF HoldsWhatItMust

LEMMA StepKeepsInv ==
  ASSUME LapInv, TypeInv', NEW w \in Workers, Busy(w), NEW v, v = ev[w].rep.veh,
         NEW e, ev' = [ev EXCEPT ![w] = e], e = Idle \/ e.rep = ev[w].rep,
         \A i \in DOMAIN laps :
           laps[i].veh # v => laps'[i].veh = laps[i].veh /\ laps'[i].status = laps[i].status,
         \A i \in DOMAIN laps : laps[i].veh = v => laps'[i].veh = v,
         \A i \in DOMAIN laps' : i \notin DOMAIN laps => laps'[i].veh = v,
         \A c \in charges' : c \in charges \/ laps[c.lap].veh = v,
         \A f \in fines' : f.type = "LAP_TIME" => f \in fines \/ laps[f.lap].veh = v,
         HoldsWhatItMust(w)',
         OneOpenLap', SettledOnlyWhenFinished', OneChargePerLap', OneLateFinePerLap'
  PROVE  LapInv'
<1>1. ev'[w] = e /\ \A u \in Workers : u # w => ev'[u] = ev[u]
  BY DEF LapInv, TypeInv, TypeOK
<1>2. \A u \in Workers : HoldsWhatItMust(u)'
  BY <1>1, OthersUndisturbed
<1>3. Exclusive'
  <2> SUFFICES ASSUME NEW t \in Workers, NEW u \in Workers, Busy(t)', Busy(u)',
                      ev'[t].rep.veh = ev'[u].rep.veh
               PROVE  t = u
    BY DEF Exclusive
  <2>1. ASSUME NEW x \in Workers, Busy(x)'
        PROVE  Busy(x) /\ ev'[x].rep = ev[x].rep
    BY <1>1, <2>1 DEF Busy
  <2>2. QED
    BY <2>1 DEF LapInv, Exclusive
<1>4. QED
  BY <1>2, <1>3 DEF LapInv, HoldsWhatItMust

\* A step that leaves every lap its vehicle and status and settles nothing.
LEMMA QuietStep ==
  ASSUME LapInv, TypeInv', NEW w \in Workers, Busy(w),
         NEW e, ev' = [ev EXCEPT ![w] = e], e = Idle \/ e.rep = ev[w].rep,
         DOMAIN laps' = DOMAIN laps,
         \A i \in DOMAIN laps :
           laps'[i].veh = laps[i].veh /\ laps'[i].status = laps[i].status,
         charges' = charges,
         \A f \in fines' : f.type = "LAP_TIME" => f \in fines,
         HoldsWhatItMust(w)'
  PROVE  LapInv'
<1>1. OneOpenLap'
  BY DEF LapInv, OneOpenLap
<1>2. SettledOnlyWhenFinished'
  BY DEF LapInv, TypeInv, TypeOK, SettledOnlyWhenFinished
<1>3. OneChargePerLap' /\ OneLateFinePerLap'
  BY DEF LapInv, OneChargePerLap, OneLateFinePerLap
<1>4. QED
  BY <1>1, <1>2, <1>3, StepKeepsInv

\* Between the read of the open lap and the checkpoint a goroutine keeps its lap
\* in hand and the lap stays open.
Rolling == {"stop", "speed", "overtake", "rival", "mark", "track"}

LEMMA RollingStep ==
  ASSUME LapInv, TypeInv', NEW w \in Workers, ev[w].pc \in Rolling,
         NEW e, ev' = [ev EXCEPT ![w] = e], e.rep = ev[w].rep, e.id = ev[w].id,
         e.pc \in Rolling \cup {"gate"},
         DOMAIN laps' = DOMAIN laps,
         \A i \in DOMAIN laps :
           laps'[i].veh = laps[i].veh /\ laps'[i].status = laps[i].status,
         charges' = charges,
         \A f \in fines' : f.type = "LAP_TIME" => f \in fines
  PROVE  LapInv'
<1>1. Busy(w)
  BY Evaluating DEF Rolling, Label, LapInv, TypeInv
<1>2. ev'[w] = e
  BY DEF LapInv, TypeInv, TypeOK
<1>3. ev[w].id # 0 /\ ev[w].id \in DOMAIN laps
  BY <1>1 DEF LapInv, TypeInv, Held, Rolling
<1>4. HoldsOpenLap(w)
  BY DEF LapInv
<1>5. HoldsOpenLap(w)'
  BY <1>1, <1>2, <1>3, <1>4 DEF HoldsOpenLap, Rolling
<1>6. HoldsNoOpenLap(w)' /\ Unsettled(w)'
  BY <1>2, <1>3 DEF HoldsNoOpenLap, Unsettled, Rolling
<1>7. HoldsWhatItMust(w)'
  BY <1>5, <1>6 DEF HoldsWhatItMust
<1>8. QED
  BY <1>1, <1>7, QuietStep

\* UPDATE statements that leave a row its vehicle and its status.
LEMMA RowKept ==
  ASSUME TypeInv, NEW k \in DOMAIN laps, NEW row \in Lap,
         laps' = [laps EXCEPT ![k] = row],
         row.veh = laps[k].veh, row.status = laps[k].status, row.ended = laps[k].ended,
         row.start = laps[k].start, row.num = laps[k].num, row.allowed = laps[k].allowed
  PROVE  /\ DOMAIN laps' = DOMAIN laps
         /\ \A i \in DOMAIN laps :
              /\ laps'[i].veh = laps[i].veh
              /\ laps'[i].status = laps[i].status
              /\ laps'[i].ended = laps[i].ended
              /\ laps'[i].start = laps[i].start
              /\ laps'[i].num = laps[i].num
              /\ laps'[i].allowed = laps[i].allowed
  BY UpdateRow DEF TypeInv, TypeOK

LEMMA TrackedRowKept ==
  ASSUME TypeInv, NEW k \in DOMAIN laps, NEW copy \in Lap,
         laps' = [laps EXCEPT ![k] = Tracked(laps[k], copy)]
  PROVE  /\ DOMAIN laps' = DOMAIN laps
         /\ \A i \in DOMAIN laps :
              /\ laps'[i].veh = laps[i].veh
              /\ laps'[i].status = laps[i].status
              /\ laps'[i].ended = laps[i].ended
              /\ laps'[i].start = laps[i].start
              /\ laps'[i].num = laps[i].num
              /\ laps'[i].allowed = laps[i].allowed
<1> DEFINE row == Tracked(laps[k], copy)
<1>1. laps[k] \in Lap
  BY RowIsLap DEF TypeInv, TypeOK
<1>2. /\ row \in Lap /\ row.veh = laps[k].veh
      /\ row.status = laps[k].status /\ row.ended = laps[k].ended
      /\ row.start = laps[k].start /\ row.num = laps[k].num
      /\ row.allowed = laps[k].allowed
  BY <1>1, WrittenRows
<1> HIDE DEF row
<1>3. laps' = [laps EXCEPT ![k] = row]
  BY DEF row
<1>4. QED
  BY <1>2, <1>3, RowKept

\* The two UpdateTracking statements and the toured ghost change such a row.
LEMMA MarkRivalWrites ==
  ASSUME TypeInv, NEW w \in Workers, MarkRival(w)
  PROVE  /\ DOMAIN laps' = DOMAIN laps
         /\ \A i \in DOMAIN laps :
              /\ laps'[i].veh = laps[i].veh
              /\ laps'[i].status = laps[i].status
              /\ laps'[i].ended = laps[i].ended
              /\ laps'[i].start = laps[i].start
              /\ laps'[i].num = laps[i].num
              /\ laps'[i].allowed = laps[i].allowed
<1>1. ev[w].pc \in Label \ {"lap", "gate", "open"}
  BY DEF MarkRival, Label
<1>2. PICK r \in ev[w].rivals :
        laps' = [laps EXCEPT ![r.id] = Tracked(@, r.row)] \/ UNCHANGED laps
  BY DEF MarkRival
<1>3. r.id \in DOMAIN laps /\ r.row \in Lap
  BY <1>1, <1>2, InHand DEF Rival
<1>4. CASE laps' = [laps EXCEPT ![r.id] = Tracked(laps[r.id], r.row)]
  BY <1>3, <1>4, TrackedRowKept
<1>5. QED
  BY <1>2, <1>4

LEMMA UpdateTrackingWrites ==
  ASSUME TypeInv, NEW w \in Workers, UpdateTracking(w)
  PROVE  /\ DOMAIN laps' = DOMAIN laps
         /\ \A i \in DOMAIN laps :
              /\ laps'[i].veh = laps[i].veh
              /\ laps'[i].status = laps[i].status
              /\ laps'[i].ended = laps[i].ended
              /\ laps'[i].start = laps[i].start
              /\ laps'[i].num = laps[i].num
              /\ laps'[i].allowed = laps[i].allowed
<1>1. ev[w].pc \in Label \ {"lap", "gate", "open"}
  BY DEF UpdateTracking, Label
<1>2. ev[w].id \in DOMAIN laps /\ ev[w].lap \in Lap /\ laps[ev[w].id] \in Lap
  BY <1>1, InHand
<1>3. CASE laps' = [laps EXCEPT ![ev[w].id] = Tracked(laps[ev[w].id], ev[w].lap)]
  BY <1>2, <1>3, TrackedRowKept
<1>4. QED
  BY <1>3 DEF UpdateTracking

LEMMA CrossCheckpointWrites ==
  ASSUME TypeInv, NEW w \in Workers, CrossCheckpoint(w)
  PROVE  /\ DOMAIN laps' = DOMAIN laps
         /\ \A i \in DOMAIN laps :
              /\ laps'[i].veh = laps[i].veh
              /\ laps'[i].status = laps[i].status
              /\ laps'[i].ended = laps[i].ended
              /\ laps'[i].start = laps[i].start
              /\ laps'[i].num = laps[i].num
              /\ laps'[i].allowed = laps[i].allowed
<1>1. ev[w].pc = "gate" /\ ev[w].pc \in Label
  BY DEF CrossCheckpoint, Label
<1>2. ev[w].id # 0 => ev[w].id \in DOMAIN laps
  BY <1>1, MemoryIsGood DEF GoodMemory, Idle
<1>3. CASE ev[w].id # 0 /\ laps' = [laps EXCEPT ![ev[w].id].toured = TRUE]
  <2> DEFINE row == [laps[ev[w].id] EXCEPT !.toured = TRUE]
  <2>1. laps[ev[w].id] \in Lap
    BY <1>2, <1>3, RowIsLap DEF TypeInv, TypeOK
  <2>2. /\ row \in Lap /\ row.veh = laps[ev[w].id].veh
        /\ row.status = laps[ev[w].id].status /\ row.ended = laps[ev[w].id].ended
        /\ row.start = laps[ev[w].id].start /\ row.num = laps[ev[w].id].num
        /\ row.allowed = laps[ev[w].id].allowed
    BY <2>1 DEF Lap
  <2>3. laps' = [laps EXCEPT ![ev[w].id] = row]
    BY <1>3
  <2> HIDE DEF row
  <2>4. QED
    BY <1>2, <1>3, <2>2, <2>3, RowKept
<1>4. QED
  BY <1>3 DEF CrossCheckpoint

\* CloseLap writes the lap in hand only: its status, which becomes a finished
\* one, and when it ended.
LEMMA CloseLapWrites ==
  ASSUME TypeInv, NEW w \in Workers, CloseLap(w), ~(Return(w) /\ UNCHANGED laps)
  PROVE  LET id == ev[w].id
             status == ComputeLapStatus(ev[w].rep.at - ev[w].lap.start,
                                        ev[w].lap.allowed)
         IN  /\ id \in DOMAIN laps
             /\ DOMAIN laps' = DOMAIN laps
             /\ \A i \in DOMAIN laps : i # id => laps'[i] = laps[i]
             /\ laps'[id].veh = laps[id].veh
             /\ laps'[id].status = status /\ status \in Finished
             /\ laps'[id].ended = ev[w].rep.at /\ laps'[id].start = laps[id].start
             /\ laps'[id].num = laps[id].num /\ laps'[id].allowed = laps[id].allowed
             /\ Goto(w, IF status = "LATE" THEN "late" ELSE "charge")
<1> DEFINE id == ev[w].id
<1> DEFINE status == ComputeLapStatus(ev[w].rep.at - ev[w].lap.start,
                                      ev[w].lap.allowed)
<1> DEFINE row == [laps[id] EXCEPT !.status = status, !.ended = ev[w].rep.at]
<1>1. ev[w].pc \in Label \ {"lap", "gate", "open"}
  BY DEF CloseLap, Label
<1>2. id \in DOMAIN laps /\ laps[id] \in Lap /\ ev[w].rep.at \in Time
  BY <1>1, InHand
<1>3. status \in Finished
  BY LapStatusComputed
<1>4. /\ laps' = [laps EXCEPT ![id].status = status, ![id].ended = ev[w].rep.at]
      /\ Goto(w, IF status = "LATE" THEN "late" ELSE "charge")
  BY DEF CloseLap
<1> HIDE DEF status
<1>5. laps' = [laps EXCEPT ![id] = row]
  BY <1>2, <1>4 DEF TypeInv, TypeOK
<1>6. /\ row \in Lap /\ row.veh = laps[id].veh /\ row.status = status
      /\ row.ended = ev[w].rep.at /\ row.start = laps[id].start
      /\ row.num = laps[id].num /\ row.allowed = laps[id].allowed
  <2>1. row \in Lap
    BY <1>2, <1>3, WrittenRows
  <2>2. QED
    BY <1>2, <2>1 DEF Lap
<1> HIDE DEF row
<1>7. /\ DOMAIN laps' = DOMAIN laps
      /\ \A i \in DOMAIN laps : laps'[i] = IF i = id THEN row ELSE laps[i]
  BY <1>2, <1>5, <1>6, UpdateRow DEF TypeInv, TypeOK
<1>8. QED
  BY <1>2, <1>3, <1>4, <1>6, <1>7 DEF status

LEMMA ReceiveKeepsInv ==
  ASSUME ~Overlap, LapInv, TypeInv', NEW w \in Workers, NEW p \in Reports, Receive(w, p)
  PROVE  LapInv'
<1> DEFINE e == [pc |-> "lap", rep |-> p, by |-> received + 1,
                 route |-> routeOf[p.veh], id |-> 0, lap |-> NoLap,
                 dirty |-> FALSE, rivals |-> {}]
<1>1. UNCHANGED <<laps, fines, charges>>
  BY DEF Receive, tables
<1>2. CASE UNCHANGED ev
  BY <1>1, <1>2 DEF LapInv, Exclusive, OneOpenLap, HoldsOpenLap, HoldsNoOpenLap,
     Unsettled, SettledOnlyWhenFinished, OneChargePerLap, OneLateFinePerLap, Busy
<1>3. CASE ev' = [ev EXCEPT ![w] = e]
  <2>1. ev'[w] = e /\ \A u \in Workers : u # w => ev'[u] = ev[u]
    BY <1>3 DEF LapInv, TypeInv, TypeOK
  <2>2. \A u \in Workers : Busy(u) => ev[u].rep.veh # p.veh
    BY DEF Receive, MayStart, Busy
  <2>3. Exclusive'
    BY <2>1, <2>2 DEF LapInv, Exclusive, Busy
  <2>4. HoldsOpenLap(w)' /\ HoldsNoOpenLap(w)' /\ Unsettled(w)'
    BY <2>1 DEF HoldsOpenLap, HoldsNoOpenLap, Unsettled
  <2>5. ASSUME NEW u \in Workers, u # w
        PROVE  HoldsOpenLap(u)' /\ HoldsNoOpenLap(u)' /\ Unsettled(u)'
    BY <1>1, <2>1, <2>5 DEF LapInv, HoldsOpenLap, HoldsNoOpenLap, Unsettled, Busy
  <2>6. OneOpenLap' /\ SettledOnlyWhenFinished' /\ OneChargePerLap' /\ OneLateFinePerLap'
    BY <1>1 DEF LapInv, OneOpenLap, SettledOnlyWhenFinished, OneChargePerLap,
       OneLateFinePerLap
  <2>7. QED
    BY <2>3, <2>4, <2>5, <2>6 DEF LapInv
<1>4. QED
  BY <1>2, <1>3 DEF Receive, Continue

\* Between the read of the open lap and the checkpoint, a goroutine goes on with
\* the same report and the same lap.
GoesOn(e, next) ==
  /\ next.rep = e.rep /\ next.by = e.by /\ next.id = e.id /\ next.pc \in Rolling \cup {"gate"}
  /\ next.lap.start = e.lap.start
  /\ next.lap.num = e.lap.num
  /\ next.lap.allowed = e.lap.allowed

LEMMA RollingMemory ==
  ASSUME TypeInv, NEW w \in Workers,
         \/ EvaluateProlongedStop(w) \/ EvaluateSpeeding(w) \/ EvaluateOvertaking(w)
         \/ FineRival(w) \/ MarkRival(w) \/ UpdateTracking(w)
  PROVE  \E e : ev' = [ev EXCEPT ![w] = e] /\ GoesOn(ev[w], e)
<1>0. ev[w] \in Evaluation /\ ev[w].lap \in Lap
  BY InHand DEF Label, EvaluateProlongedStop, EvaluateSpeeding, EvaluateOvertaking,
     FineRival, MarkRival, UpdateTracking
<1>1. ASSUME NEW l \in Rolling \cup {"gate"}, Goto(w, l)
      PROVE  \E e : ev' = [ev EXCEPT ![w] = e] /\ GoesOn(ev[w], e)
  <2> DEFINE e == [ev[w] EXCEPT !.pc = l]
  <2>1. ev' = [ev EXCEPT ![w] = e]
    BY <1>1 DEF Goto
  <2>2. /\ e.rep = ev[w].rep /\ e.by = ev[w].by /\ e.id = ev[w].id
        /\ e.pc = l /\ e.lap = ev[w].lap
    BY <1>0 DEF Evaluation
  <2> HIDE DEF e
  <2>3. QED
    BY <1>1, <2>1, <2>2 DEF GoesOn
<1>2. ASSUME NEW e, Continue(w, e), GoesOn(ev[w], e)
      PROVE  \E g : ev' = [ev EXCEPT ![w] = g] /\ GoesOn(ev[w], g)
  BY <1>2 DEF Continue
<1>3. ASSUME NEW l \in Rolling, NEW lap,
             lap.start = ev[w].lap.start, lap.num = ev[w].lap.num,
             lap.allowed = ev[w].lap.allowed,
             NEW dirty, NEW rivals,
             \/ Continue(w, [ev[w] EXCEPT !.pc = l, !.lap = lap, !.dirty = dirty])
             \/ Continue(w, [ev[w] EXCEPT !.pc = l, !.lap = lap, !.dirty = dirty,
                                          !.rivals = rivals])
      PROVE  \E g : ev' = [ev EXCEPT ![w] = g] /\ GoesOn(ev[w], g)
  <2>1. GoesOn(ev[w], [ev[w] EXCEPT !.pc = l, !.lap = lap, !.dirty = dirty])
    BY <1>0, <1>3 DEF GoesOn, Evaluation
  <2>2. GoesOn(ev[w], [ev[w] EXCEPT !.pc = l, !.lap = lap, !.dirty = dirty,
                                    !.rivals = rivals])
    BY <1>0, <1>3 DEF GoesOn, Evaluation
  <2>3. QED
    BY <1>2, <1>3, <2>1, <2>2
<1>4. CASE EvaluateProlongedStop(w)
  <2> DEFINE moved == Moved(ev[w].lap, ev[w].rep.at)
             fined == [ev[w].lap EXCEPT !.stopFine = ev[w].rep.at]
  <2>1. \/ Goto(w, "speed")
        \/ Continue(w, [ev[w] EXCEPT !.pc = "speed", !.lap = moved,
                                     !.dirty = (moved # ev[w].lap)])
        \/ Continue(w, [ev[w] EXCEPT !.pc = "speed", !.lap = fined, !.dirty = TRUE])
    BY <1>0, <1>4 DEF EvaluateProlongedStop, Evaluation
  <2>2. /\ moved.start = ev[w].lap.start /\ moved.num = ev[w].lap.num
        /\ moved.allowed = ev[w].lap.allowed
    BY <1>0 DEF Moved, Lap
  <2>3. /\ fined.start = ev[w].lap.start /\ fined.num = ev[w].lap.num
        /\ fined.allowed = ev[w].lap.allowed
    BY <1>0 DEF Lap
  <2> HIDE DEF moved, fined
  <2>4. QED
    BY <1>1, <1>3, <2>1, <2>2, <2>3 DEF Rolling
<1>5. CASE EvaluateSpeeding(w)
  <2> DEFINE fined == [ev[w].lap EXCEPT !.speedFine = ev[w].rep.at]
  <2>1. \/ Goto(w, "overtake")
        \/ Continue(w, [ev[w] EXCEPT !.pc = "overtake", !.lap = fined, !.dirty = TRUE])
    BY <1>0, <1>5 DEF EvaluateSpeeding, Evaluation
  <2>2. /\ fined.start = ev[w].lap.start /\ fined.num = ev[w].lap.num
        /\ fined.allowed = ev[w].lap.allowed
    BY <1>0 DEF Lap
  <2> HIDE DEF fined
  <2>3. QED
    BY <1>1, <1>3, <2>1, <2>2 DEF Rolling
<1>6. CASE EvaluateOvertaking(w)
  <2> DEFINE placed == [ev[w].lap EXCEPT !.line = ev[w].rep.line, !.prog = ev[w].rep.prog]
             there == [ev[w] EXCEPT !.lap.line = ev[w].rep.line,
                                    !.lap.prog = ev[w].rep.prog, !.dirty = TRUE]
  <2>1. PICK rivals :
          \/ Goto(w, AfterInfractions(ev[w].dirty))
          \/ Continue(w, [there EXCEPT !.pc = "track"])
          \/ Continue(w, [there EXCEPT !.pc = "rival", !.rivals = rivals])
    BY <1>6 DEF EvaluateOvertaking
  <2>2. [there EXCEPT !.pc = "track"]
          = [ev[w] EXCEPT !.pc = "track", !.lap = placed, !.dirty = TRUE]
    BY <1>0 DEF Evaluation
  <2>3. [there EXCEPT !.pc = "rival", !.rivals = rivals]
          = [ev[w] EXCEPT !.pc = "rival", !.lap = placed, !.dirty = TRUE, !.rivals = rivals]
    BY <1>0 DEF Evaluation
  <2>4. /\ placed.start = ev[w].lap.start /\ placed.num = ev[w].lap.num
        /\ placed.allowed = ev[w].lap.allowed
    BY <1>0 DEF Lap
  <2> HIDE DEF placed, there
  <2>5. AfterInfractions(ev[w].dirty) \in Rolling \cup {"gate"}
    BY DEF AfterInfractions, Rolling
  <2>6. QED
    BY <1>1, <1>3, <2>1, <2>2, <2>3, <2>4, <2>5 DEF Rolling
<1>7. CASE FineRival(w)
  <2>1. PICK r, s : 
          \/ Continue(w, [[ev[w] EXCEPT !.rivals = r] EXCEPT !.pc = "mark", !.rivals = s])
          \/ Continue(w, [[ev[w] EXCEPT !.rivals = r] EXCEPT
                            !.pc = NextRival([ev[w] EXCEPT !.rivals = r])])
    BY <1>7 DEF FineRival
  <2>2. NextRival([ev[w] EXCEPT !.rivals = r]) \in Rolling
    BY DEF NextRival, Rolling
  <2>3. QED
    BY <1>0, <1>2, <2>1, <2>2 DEF Rolling, Evaluation, GoesOn
<1>8. CASE MarkRival(w)
  <2>1. PICK r : Continue(w, [[ev[w] EXCEPT !.rivals = r] EXCEPT
                                !.pc = NextRival([ev[w] EXCEPT !.rivals = r])])
    BY <1>8 DEF MarkRival
  <2>2. NextRival([ev[w] EXCEPT !.rivals = r]) \in Rolling
    BY DEF NextRival, Rolling
  <2>3. QED
    BY <1>0, <1>2, <2>1, <2>2 DEF Evaluation, GoesOn
<1>9. CASE UpdateTracking(w)
  BY <1>1, <1>9 DEF UpdateTracking, Rolling
<1>10. QED
  BY <1>4, <1>5, <1>6, <1>7, <1>8, <1>9

LEMMA RollingStepsKeepInv ==
  ASSUME LapInv, TypeInv', NEW w \in Workers,
         \/ EvaluateProlongedStop(w) \/ EvaluateSpeeding(w) \/ EvaluateOvertaking(w)
         \/ FineRival(w) \/ MarkRival(w) \/ UpdateTracking(w)
  PROVE  LapInv'
<1>1. TypeInv /\ ev[w].pc \in Rolling
  BY DEF LapInv, Rolling, EvaluateProlongedStop, EvaluateSpeeding, EvaluateOvertaking,
     FineRival, MarkRival, UpdateTracking
<1>2. PICK e : /\ ev' = [ev EXCEPT ![w] = e] /\ e.rep = ev[w].rep /\ e.id = ev[w].id
               /\ e.pc \in Rolling \cup {"gate"}
  BY <1>1, RollingMemory DEF GoesOn
<1>3. /\ DOMAIN laps' = DOMAIN laps
      /\ \A i \in DOMAIN laps :
           laps'[i].veh = laps[i].veh /\ laps'[i].status = laps[i].status
  <2>1. CASE UNCHANGED laps
    BY <2>1
  <2>2. CASE MarkRival(w)
    BY <1>1, <2>2, MarkRivalWrites
  <2>3. CASE UpdateTracking(w)
    BY <1>1, <2>3, UpdateTrackingWrites
  <2>4. QED
    BY <2>1, <2>2, <2>3 DEF EvaluateProlongedStop, EvaluateSpeeding,
       EvaluateOvertaking, FineRival, tables
<1>4. charges' = charges /\ \A f \in fines' : f.type = "LAP_TIME" => f \in fines
  <2>1. charges' = charges
    BY DEF EvaluateProlongedStop, EvaluateSpeeding, EvaluateOvertaking,
       FineRival, MarkRival, UpdateTracking, tables
  <2>2. PICK id, since :
          \/ UNCHANGED fines
          \/ fines' = fines \cup {NewFine(ev[w], "PROLONGED_STOP", id, since)}
          \/ fines' = fines \cup {NewFine(ev[w], "SPEEDING", id, since)}
          \/ fines' = fines \cup {NewFine(ev[w], "OVERTAKING", id, since)}
    <3>1. CASE EvaluateProlongedStop(w)
      BY <3>1 DEF EvaluateProlongedStop
    <3>2. CASE EvaluateSpeeding(w)
      BY <3>2 DEF EvaluateSpeeding
    <3>3. CASE FineRival(w)
      BY <3>3 DEF FineRival
    <3>4. CASE UNCHANGED fines
      BY <3>4
    <3>5. QED
      BY <3>1, <3>2, <3>3, <3>4 DEF EvaluateOvertaking, MarkRival, UpdateTracking, tables
  <2>3. \A t, i, s : NewFine(ev[w], t, i, s).type = t
    BY DEF NewFine
  <2> QED
    BY <2>1, <2>2, <2>3
<1>5. QED
  BY <1>1, <1>2, <1>3, <1>4, RollingStep

\* A goroutine that returns relies on nothing any more.
LEMMA ReturnsFree ==
  ASSUME LapInv, NEW w \in Workers, Return(w)
  PROVE  ev' = [ev EXCEPT ![w] = Idle] /\ HoldsWhatItMust(w)'
  BY DEF LapInv, TypeInv, TypeOK, Return, HoldsWhatItMust, HoldsOpenLap,
     HoldsNoOpenLap, Unsettled, Busy

LEMMA ReadFailsKeepsInv ==
  ASSUME LapInv, TypeInv', NEW w \in Workers, ReadFails(w)
  PROVE  LapInv'
<1>1. Busy(w)
  BY Evaluating DEF ReadFails, Label, LapInv, TypeInv
<1>2. UNCHANGED <<laps, fines, charges>> /\ Return(w)
  BY DEF ReadFails, tables
<1>3. QED
  BY <1>1, <1>2, ReturnsFree, QuietStep

LEMMA ReadOpenLapKeepsInv ==
  ASSUME LapInv, TypeInv', NEW w \in Workers, ReadOpenLap(w)
  PROVE  LapInv'
<1>1. ev[w].pc = "lap" /\ UNCHANGED <<laps, fines, charges>>
  BY DEF ReadOpenLap, tables
<1>2. Busy(w) /\ ev[w] \in Evaluation /\ Held(w) /\ HoldsOpenLap(w)
  BY <1>1, Evaluating DEF Label, LapInv, TypeInv
<1>3. CASE OpenLaps(ev[w].rep.veh) = {} /\ Goto(w, "gate")
  <2> DEFINE e == [ev[w] EXCEPT !.pc = "gate"]
  <2>1. ev' = [ev EXCEPT ![w] = e]
    BY <1>3 DEF Goto
  <2>2. e.rep = ev[w].rep /\ e.id = ev[w].id /\ e.pc = "gate"
    BY <1>2 DEF Evaluation
  <2> HIDE DEF e
  <2>3. ev'[w] = e
    BY <2>1 DEF LapInv, TypeInv, TypeOK
  <2>4. ev[w].id = 0
    BY <1>1, <1>2, <1>3 DEF HoldsOpenLap, Held, OpenLaps
  <2>5. \A i \in DOMAIN laps :
          laps[i].veh = ev[w].rep.veh => laps[i].status # "IN_PROGRESS"
    BY <1>3 DEF OpenLaps
  <2>6. HoldsWhatItMust(w)'
    BY <1>1, <2>2, <2>3, <2>4, <2>5
       DEF HoldsWhatItMust, HoldsOpenLap, HoldsNoOpenLap, Unsettled
  <2>7. QED
    BY <1>1, <1>2, <2>1, <2>2, <2>6, QuietStep
<1>4. ASSUME NEW i \in LatestStarted(OpenLaps(ev[w].rep.veh)),
             Continue(w, [ev[w] EXCEPT !.pc = "stop", !.id = i, !.lap = laps[i]])
      PROVE  LapInv'
  <2> DEFINE e == [ev[w] EXCEPT !.pc = "stop", !.id = i, !.lap = laps[i]]
  <2>1. ev' = [ev EXCEPT ![w] = e]
    BY <1>4 DEF Continue
  <2>2. e.rep = ev[w].rep /\ e.id = i /\ e.pc = "stop"
    BY <1>2 DEF Evaluation
  <2> HIDE DEF e
  <2>3. ev'[w] = e
    BY <2>1 DEF LapInv, TypeInv, TypeOK
  <2>4. laps[i].veh = ev[w].rep.veh /\ laps[i].status = "IN_PROGRESS"
    BY DEF LatestStarted, OpenLaps
  <2>5. HoldsWhatItMust(w)'
    BY <1>1, <2>2, <2>3, <2>4
       DEF HoldsWhatItMust, HoldsOpenLap, HoldsNoOpenLap, Unsettled
  <2>6. QED
    BY <1>1, <1>2, <2>1, <2>2, <2>5, QuietStep
<1>5. QED
  BY <1>3, <1>4 DEF ReadOpenLap

LEMMA CrossCheckpointKeepsInv ==
  ASSUME LapInv, TypeInv', NEW w \in Workers, CrossCheckpoint(w)
  PROVE  LapInv'
<1>1. ev[w].pc = "gate" /\ UNCHANGED <<fines, charges>>
  BY DEF CrossCheckpoint
<1>2. /\ Busy(w) /\ ev[w] \in Evaluation
      /\ Held(w) /\ HoldsOpenLap(w) /\ HoldsNoOpenLap(w)
  BY <1>1, Evaluating DEF Label, LapInv, TypeInv
<1>3. /\ DOMAIN laps' = DOMAIN laps
      /\ \A i \in DOMAIN laps :
           laps'[i].veh = laps[i].veh /\ laps'[i].status = laps[i].status
  BY CrossCheckpointWrites DEF LapInv
<1>4. CASE Return(w)
  BY <1>1, <1>2, <1>3, <1>4, ReturnsFree, QuietStep
<1>5. CASE Goto(w, IF ev[w].id = 0 THEN "open" ELSE "close")
  <2> DEFINE l == IF ev[w].id = 0 THEN "open" ELSE "close"
  <2> DEFINE e == [ev[w] EXCEPT !.pc = l]
  <2>1. ev' = [ev EXCEPT ![w] = e]
    BY <1>5 DEF Goto
  <2>2. e.rep = ev[w].rep /\ e.id = ev[w].id /\ e.pc = l
    BY <1>2 DEF Evaluation
  <2> HIDE DEF e
  <2>3. ev'[w] = e
    BY <2>1 DEF LapInv, TypeInv, TypeOK
  <2>4. HoldsOpenLap(w)'
    BY <1>1, <1>2, <1>3, <2>2, <2>3 DEF HoldsOpenLap, Held
  <2>5. HoldsNoOpenLap(w)' /\ Unsettled(w)'
    BY <1>1, <1>2, <1>3, <2>2, <2>3 DEF HoldsNoOpenLap, Unsettled
  <2>6. QED
    BY <1>1, <1>2, <1>3, <2>1, <2>2, <2>4, <2>5, QuietStep DEF HoldsWhatItMust
<1>6. QED
  BY <1>4, <1>5 DEF CrossCheckpoint

LEMMA CloseLapKeepsInv ==
  ASSUME LapInv, TypeInv', NEW w \in Workers, CloseLap(w)
  PROVE  LapInv'
<1> DEFINE v == ev[w].rep.veh
<1> DEFINE id == ev[w].id
<1> DEFINE status == ComputeLapStatus(ev[w].rep.at - ev[w].lap.start, ev[w].lap.allowed)
<1> DEFINE l == IF status = "LATE" THEN "late" ELSE "charge"
<1>1. ev[w].pc = "close" /\ UNCHANGED <<fines, charges>>
  BY DEF CloseLap
<1>2. Busy(w) /\ ev[w] \in Evaluation /\ Held(w) /\ HoldsOpenLap(w)
  BY <1>1, Evaluating DEF Label, LapInv, TypeInv
<1>3. id # 0 /\ id \in DOMAIN laps /\ laps[id].veh = v /\ laps[id].status = "IN_PROGRESS"
  BY <1>1, <1>2 DEF Held, HoldsOpenLap
<1>4. laps[id].status \notin Finished
  BY <1>3 DEF Finished
<1>5. CASE Return(w) /\ UNCHANGED laps
  BY <1>1, <1>2, <1>5, ReturnsFree, QuietStep
<1>6. CASE ~(Return(w) /\ UNCHANGED laps)
  <2>1. /\ DOMAIN laps' = DOMAIN laps
        /\ \A i \in DOMAIN laps : i # id => laps'[i] = laps[i]
        /\ laps'[id].veh = v
        /\ laps'[id].status = status /\ status \in Finished
        /\ Goto(w, l)
    BY <1>3, <1>6, CloseLapWrites DEF LapInv
  <2> DEFINE e == [ev[w] EXCEPT !.pc = l]
  <2>2. ev' = [ev EXCEPT ![w] = e]
    BY <2>1 DEF Goto
  <2>3. e.rep = ev[w].rep /\ e.id = id /\ e.pc = l
    BY <1>2 DEF Evaluation
  <2> HIDE DEF e, status
  <2>4. ev'[w] = e
    BY <2>2 DEF LapInv, TypeInv, TypeOK
  <2>5. laps'[id].status # "IN_PROGRESS"
    BY <2>1 DEF Finished
  <2>6. \A i \in DOMAIN laps : laps'[i].veh = v => laps'[i].status # "IN_PROGRESS"
    BY <1>3, <2>1, <2>5 DEF LapInv, OneOpenLap
  <2>7. \A c \in charges : c.lap # id
    BY <1>4 DEF LapInv, SettledOnlyWhenFinished
  <2>8. \A f \in fines : f.type = "LAP_TIME" => f.lap # id
    BY <1>3 DEF LapInv, SettledOnlyWhenFinished
  <2>9. HoldsOpenLap(w)'
    BY <2>3, <2>4 DEF HoldsOpenLap
  <2>10. HoldsNoOpenLap(w)'
    BY <1>3, <2>1, <2>3, <2>4, <2>6 DEF HoldsNoOpenLap
  <2>11. Unsettled(w)'
    BY <1>1, <2>3, <2>4, <2>7, <2>8 DEF Unsettled
  <2>12. OneOpenLap'
    BY <2>1, <2>5 DEF LapInv, OneOpenLap
  <2>13. SettledOnlyWhenFinished'
    BY <1>1, <2>1, <2>7, <2>8 DEF LapInv, TypeInv, TypeOK, SettledOnlyWhenFinished
  <2>14. OneChargePerLap' /\ OneLateFinePerLap'
    BY <1>1 DEF LapInv, OneChargePerLap, OneLateFinePerLap
  <2>15. HoldsWhatItMust(w)'
    BY <2>9, <2>10, <2>11 DEF HoldsWhatItMust
  <2>16. QED
    BY <1>1, <1>2, <1>3, <2>1, <2>2, <2>3, <2>12, <2>13, <2>14, <2>15, StepKeepsInv
<1>7. QED
  BY <1>5, <1>6

LEMMA FineLateLapKeepsInv ==
  ASSUME LapInv, TypeInv', NEW w \in Workers, FineLateLap(w)
  PROVE  LapInv'
<1> DEFINE v == ev[w].rep.veh
<1> DEFINE id == ev[w].id
<1> DEFINE e == [ev[w] EXCEPT !.pc = "charge"]
<1> DEFINE f == NewFine(ev[w], "LAP_TIME", id, Null)
<1>1. ev[w].pc = "late" /\ UNCHANGED <<laps, charges>> /\ ev' = [ev EXCEPT ![w] = e]
  BY DEF FineLateLap, Goto
<1>2. Busy(w) /\ ev[w] \in Evaluation /\ Held(w) /\ HoldsNoOpenLap(w) /\ Unsettled(w)
  BY <1>1, Evaluating DEF Label, LapInv, TypeInv
<1>3. e.rep = ev[w].rep /\ e.id = id /\ e.pc = "charge"
  BY <1>2 DEF Evaluation
<1> HIDE DEF e
<1>4. ev'[w] = e
  BY <1>1 DEF LapInv, TypeInv, TypeOK
<1>5. f.type = "LAP_TIME" /\ f.lap = id
  BY DEF NewFine
<1>6. fines' = fines \/ fines' = fines \cup {f}
  BY DEF FineLateLap
<1> HIDE DEF f
<1>7. laps[id].veh = v /\ laps[id].status = "LATE" /\ id \in DOMAIN laps
  BY <1>1, <1>2 DEF HoldsNoOpenLap, Held
<1>8. HoldsOpenLap(w)' /\ HoldsNoOpenLap(w)' /\ Unsettled(w)'
  BY <1>1, <1>2, <1>3, <1>4 DEF HoldsOpenLap, HoldsNoOpenLap, Unsettled
<1>9. OneOpenLap' /\ OneChargePerLap'
  BY <1>1 DEF LapInv, OneOpenLap, OneChargePerLap
<1>10. SettledOnlyWhenFinished'
  BY <1>1, <1>5, <1>6, <1>7 DEF LapInv, SettledOnlyWhenFinished
<1>11. OneLateFinePerLap'
  BY <1>1, <1>2, <1>5, <1>6 DEF LapInv, OneLateFinePerLap, Unsettled
<1>12. \A g \in fines' : g.type = "LAP_TIME" => g \in fines \/ laps[g.lap].veh = v
  BY <1>5, <1>6, <1>7
<1>13. QED
  BY <1>1, <1>2, <1>3, <1>8, <1>9, <1>10, <1>11, <1>12, StepKeepsInv DEF HoldsWhatItMust

LEMMA ChargeLapKeepsInv ==
  ASSUME LapInv, TypeInv', NEW w \in Workers, ChargeLap(w)
  PROVE  LapInv'
<1> DEFINE v == ev[w].rep.veh
<1> DEFINE id == ev[w].id
<1> DEFINE e == [ev[w] EXCEPT !.pc = "open"]
<1>1. ev[w].pc = "charge" /\ UNCHANGED <<laps, fines>> /\ ev' = [ev EXCEPT ![w] = e]
  BY DEF ChargeLap, Goto
<1>2. Busy(w) /\ ev[w] \in Evaluation /\ Held(w) /\ HoldsNoOpenLap(w) /\ Unsettled(w)
  BY <1>1, Evaluating DEF Label, LapInv, TypeInv
<1>3. e.rep = ev[w].rep /\ e.id = id /\ e.pc = "open"
  BY <1>2 DEF Evaluation
<1> HIDE DEF e
<1>4. ev'[w] = e
  BY <1>1 DEF LapInv, TypeInv, TypeOK
<1>5. PICK c : c.lap = id /\ (charges' = charges \/ charges' = charges \cup {c})
  <2>1. CASE charges' = charges
    <3>1. [lap |-> id].lap = id
      OBVIOUS
    <3>2. QED
      BY <2>1, <3>1
  <2>2. ASSUME NEW c, c = [lap |-> id, amount |-> c.amount, route |-> ev[w].route,
                           by |-> ev[w].by],
               charges' = charges \cup {c}
        PROVE  \E d : d.lap = id /\ (charges' = charges \/ charges' = charges \cup {d})
    <3>1. c.lap = id
      BY <2>2
    <3>2. QED
      BY <2>2, <3>1
  <2>3. QED
    BY <2>1, <2>2 DEF ChargeLap
<1>6. laps[id].veh = v /\ laps[id].status \in Finished /\ id \in DOMAIN laps
  BY <1>1, <1>2 DEF HoldsNoOpenLap, Held
<1>7. HoldsOpenLap(w)' /\ HoldsNoOpenLap(w)' /\ Unsettled(w)'
  BY <1>1, <1>2, <1>3, <1>4 DEF HoldsOpenLap, HoldsNoOpenLap, Unsettled
<1>8. OneOpenLap' /\ OneLateFinePerLap'
  BY <1>1 DEF LapInv, OneOpenLap, OneLateFinePerLap
<1>9. SettledOnlyWhenFinished'
  BY <1>1, <1>5, <1>6 DEF LapInv, SettledOnlyWhenFinished
<1>10. OneChargePerLap'
  BY <1>1, <1>2, <1>5 DEF LapInv, OneChargePerLap, Unsettled
<1>11. \A d \in charges' : d \in charges \/ laps[d.lap].veh = v
  BY <1>5, <1>6
<1>12. QED
  BY <1>1, <1>2, <1>3, <1>7, <1>8, <1>9, <1>10, <1>11, StepKeepsInv DEF HoldsWhatItMust

LEMMA OpenNextLapKeepsInv ==
  ASSUME LapInv, TypeInv', NEW w \in Workers, OpenNextLap(w)
  PROVE  LapInv'
<1> DEFINE v == ev[w].rep.veh
<1>1. ev[w].pc = "open" /\ UNCHANGED <<fines, charges>> /\ Return(w)
  BY DEF OpenNextLap
<1>2. Busy(w) /\ HoldsNoOpenLap(w)
  BY <1>1, Evaluating DEF Label, LapInv, TypeInv
<1>3. CASE UNCHANGED laps
  BY <1>1, <1>2, <1>3, ReturnsFree, QuietStep
<1>4. CASE laps' = Append(laps, NewLap(ev[w]))
  <2> DEFINE row == NewLap(ev[w])
  <2> DEFINE new == Len(laps) + 1
  <2>1. row \in Lap /\ row.veh = v /\ row.status = "IN_PROGRESS"
    BY <1>1, NewLapIsLap DEF LapInv
  <2> HIDE DEF row
  <2>2. laps' = Append(laps, row) /\ laps \in Seq(Lap)
    BY <1>4 DEF row, LapInv, TypeInv, TypeOK
  <2>3. /\ new \notin DOMAIN laps
        /\ DOMAIN laps' = DOMAIN laps \cup {new}
        /\ \A i \in DOMAIN laps : laps'[i] = laps[i]
        /\ laps'[new] = row
    BY <2>1, <2>2, InsertRow
  <2> HIDE DEF new
  <2>4. \A i \in DOMAIN laps : laps[i].veh = v => laps[i].status # "IN_PROGRESS"
    BY <1>1, <1>2 DEF HoldsNoOpenLap
  <2>5. OneOpenLap'
    BY <2>1, <2>3, <2>4 DEF LapInv, OneOpenLap
  <2>6. SettledOnlyWhenFinished'
    BY <1>1, <2>3 DEF LapInv, TypeInv, TypeOK, SettledOnlyWhenFinished
  <2>7. OneChargePerLap' /\ OneLateFinePerLap'
    BY <1>1 DEF LapInv, OneChargePerLap, OneLateFinePerLap
  <2>8. \A i \in DOMAIN laps' : i \notin DOMAIN laps => laps'[i].veh = v
    BY <2>1, <2>3
  <2>9. QED
    BY <1>1, <1>2, <2>3, <2>5, <2>6, <2>7, <2>8, ReturnsFree, StepKeepsInv
<1>5. QED
  BY <1>3, <1>4 DEF OpenNextLap

LEMMA CrashKeepsInv ==
  ASSUME LapInv, TypeInv', Crash
  PROVE  LapInv'
<1>1. UNCHANGED <<laps, fines, charges>> /\ \A w \in Workers : ev'[w] = Idle
  BY DEF Crash, tables
<1>2. QED
  BY <1>1 DEF LapInv, Exclusive, OneOpenLap, HoldsOpenLap, HoldsNoOpenLap,
     Unsettled, SettledOnlyWhenFinished, OneChargePerLap, OneLateFinePerLap, Busy

LEMMA IdleStepKeepsInv ==
  ASSUME LapInv, TypeInv', UNCHANGED <<laps, fines, charges, ev>>
  PROVE  LapInv'
  BY DEF LapInv, Exclusive, OneOpenLap, HoldsOpenLap, HoldsNoOpenLap,
     Unsettled, SettledOnlyWhenFinished, OneChargePerLap, OneLateFinePerLap, Busy

LEMMA InitHasInv == Init => LapInv
<1> SUFFICES ASSUME Init PROVE LapInv
  OBVIOUS
<1>1. TypeInv /\ \A w \in Workers : ~Busy(w)
  BY InitHasTypes DEF Init, Busy
<1>2. OneOpenLap
  BY ConstantsOK DEF Init, OneOpenLap
<1>3. QED
  BY <1>1, <1>2 DEF Init, LapInv, Exclusive, HoldsOpenLap, HoldsNoOpenLap, Unsettled,
     SettledOnlyWhenFinished, OneChargePerLap, OneLateFinePerLap

LEMMA NextKeepsInv == ~Overlap /\ LapInv /\ [Next]_vars => LapInv'
<1> SUFFICES ASSUME ~Overlap, LapInv, [Next]_vars PROVE LapInv'
  OBVIOUS
<1>1. TypeInv'
  BY NextKeepsTypes DEF LapInv
<1>2. ASSUME NEW w \in Workers, Step(w)
      PROVE  LapInv'
  BY <1>1, <1>2, ReadOpenLapKeepsInv, RollingStepsKeepInv, CrossCheckpointKeepsInv,
     CloseLapKeepsInv, FineLateLapKeepsInv, ChargeLapKeepsInv, OpenNextLapKeepsInv
     DEF Step
<1>3. ASSUME NEW w \in Workers, ReadFails(w) \/ \E p \in Reports : Receive(w, p)
      PROVE  LapInv'
  BY <1>1, <1>3, ReadFailsKeepsInv, ReceiveKeepsInv
<1>4. CASE Crash
  BY <1>1, <1>4, CrashKeepsInv
<1>5. ASSUME NEW v \in Vehicles, NEW r \in Routes \cup {NoRoute}, Reassign(v, r)
      PROVE  LapInv'
  BY <1>1, <1>5, IdleStepKeepsInv DEF Reassign, tables
<1>6. CASE UNCHANGED vars
  BY <1>1, <1>6, IdleStepKeepsInv DEF vars
<1>7. QED
  BY <1>2, <1>3, <1>4, <1>5, <1>6 DEF Next

\* The invariant behind the theorems that follow.
THEOREM Serialized == ASSUME ~Overlap PROVE Spec => []LapInv
  BY InitHasInv, NextKeepsInv, PTL DEF Spec

\* FindOpenLap finds the only lap in progress: evaluated one report at a time, a
\* vehicle never has two.
THEOREM AtMostOneOpenLap == ASSUME ~Overlap PROVE Spec => []OneOpenLap
<1>1. LapInv => OneOpenLap
  BY DEF LapInv
<1>2. QED
  BY <1>1, Serialized, PTL

\* CreateCharge runs at most once for a lap, through failures and crashes.
THEOREM ChargedOnce == ASSUME ~Overlap PROVE Spec => []OneChargePerLap
<1>1. LapInv => OneChargePerLap
  BY DEF LapInv
<1>2. QED
  BY <1>1, Serialized, PTL

\* A lap is fined for its duration at most once: GenerateFine is reached once per
\* close, and a lap is closed once.
THEOREM LateFinedOnce == ASSUME ~Overlap PROVE Spec => []OneLateFinePerLap
<1>1. LapInv => OneLateFinePerLap
  BY DEF LapInv
<1>2. QED
  BY <1>1, Serialized, PTL

\* Charges and fines for the duration are of laps that CloseLap has finished: none
\* is left behind by a close that failed.
THEOREM SettledAfterClose == ASSUME ~Overlap PROVE Spec => []SettledOnlyWhenFinished
<1>1. LapInv => SettledOnlyWhenFinished
  BY DEF LapInv
<1>2. QED
  BY <1>1, Serialized, PTL

\* No step rewrites how a finished lap ended: UpdateTracking leaves those columns
\* alone and CloseLap only writes a lap that is still open.
LEMMA StepFreezesFinished ==
  ASSUME LapInv, [Next]_vars, NEW i \in DOMAIN laps, laps[i].status \in Finished
  PROVE  laps'[i].status = laps[i].status /\ laps'[i].ended = laps[i].ended
<1>1. CASE UNCHANGED laps
  BY <1>1
<1>2. ASSUME NEW w \in Workers, MarkRival(w) \/ UpdateTracking(w) \/ CrossCheckpoint(w)
      PROVE  laps'[i].status = laps[i].status /\ laps'[i].ended = laps[i].ended
  BY <1>2, MarkRivalWrites, UpdateTrackingWrites, CrossCheckpointWrites DEF LapInv
<1>3. ASSUME NEW w \in Workers, CloseLap(w), ~UNCHANGED laps
      PROVE  laps'[i].status = laps[i].status /\ laps'[i].ended = laps[i].ended
  <2>1. ev[w].pc = "close"
    BY <1>3 DEF CloseLap
  <2>2. laps[ev[w].id].status = "IN_PROGRESS"
    BY <2>1, Evaluating DEF Label, LapInv, TypeInv, Held, HoldsOpenLap
  <2>3. ev[w].id # i
    BY <2>2 DEF Finished
  <2>4. QED
    BY <1>3, <2>3, CloseLapWrites DEF LapInv
<1>4. ASSUME NEW w \in Workers, OpenNextLap(w), ~UNCHANGED laps
      PROVE  laps'[i].status = laps[i].status /\ laps'[i].ended = laps[i].ended
  <2>1. NewLap(ev[w]) \in Lap /\ laps' = Append(laps, NewLap(ev[w]))
    BY <1>4, NewLapIsLap DEF OpenNextLap, LapInv
  <2>2. QED
    BY <2>1, InsertRow DEF LapInv, TypeInv, TypeOK
<1>5. QED
  BY <1>1, <1>2, <1>3, <1>4 DEF Next, Step, ReadOpenLap, EvaluateProlongedStop,
     EvaluateSpeeding, EvaluateOvertaking, FineRival, FineLateLap, ChargeLap,
     ReadFails, Receive, Crash, Reassign, tables, vars

\* A finished lap is a record, whatever goroutine is still at work.
THEOREM FinishedForGood == ASSUME ~Overlap PROVE Spec => FinishedLapsFrozen
<1> DEFINE Frozen == \A i \in DOMAIN laps : laps[i].status \in Finished =>
                       /\ laps'[i].status = laps[i].status
                       /\ laps'[i].ended = laps[i].ended
<1>1. LapInv /\ [Next]_vars => [Frozen]_laps
  BY StepFreezesFinished
<1>2. QED
  BY <1>1, Serialized, PTL DEF Spec, FinishedLapsFrozen

-----------------------------------------------------------------------------
(* What holds even when reports of one vehicle are evaluated at once: the  *)
(* invariant SettleInv, for every value of the constants.                  *)

\* Goroutines are told apart by the report they evaluate, and a charge names
\* the evaluation that wrote it.
Numbered ==
  /\ \A w \in Workers : Busy(w) => ev[w].by <= received
  /\ \A u, w \in Workers : Busy(u) /\ Busy(w) /\ ev[u].by = ev[w].by => u = w
  /\ \A c \in charges : c.by <= received

\* The only goroutine that may still hold the number of a charge has written it.
ChargeBehind ==
  \A c \in charges, w \in Workers : Busy(w) /\ ev[w].by = c.by => ev[w].pc = "open"

\* An evaluation charges at most one lap, once.
OneChargePerEvaluation == \A c, d \in charges : c.by = d.by => c = d

\* A goroutine settles a lap that it has closed.
SettlesFinished ==
  \A w \in Workers :
    ev[w].pc \in {"late", "charge"} => laps[ev[w].id].status \in Finished

\* A lap that was charged, or fined for its duration, is over.
SettledAreFinished ==
  /\ \A c \in charges : laps[c.lap].status \in Finished
  /\ \A f \in fines : f.type = "LAP_TIME" => laps[f.lap].status \in Finished

SettleInv ==
  /\ TypeInv
  /\ Numbered /\ ChargeBehind /\ OneChargePerEvaluation
  /\ SettlesFinished /\ SettledAreFinished

\* A step of one goroutine keeps the invariant if it ends no lap's being over,
\* settles only laps that are over, and charges only on its way to "open".
LEMMA StepKeepsSettled ==
  ASSUME SettleInv, TypeInv', NEW w \in Workers, Busy(w),
         NEW e, ev' = [ev EXCEPT ![w] = e], received' = received,
         e = Idle \/ (e.by = ev[w].by /\ ev[w].pc # "open"),
         e.pc \in {"late", "charge"} => laps'[e.id].status \in Finished,
         \A i \in DOMAIN laps :
           laps[i].status \in Finished => laps'[i].status \in Finished,
         \A f \in fines' :
           f.type = "LAP_TIME" => f \in fines \/ laps'[f.lap].status \in Finished,
         NEW c, c.by = ev[w].by,
         \/ charges' = charges
         \/ /\ charges' = charges \cup {c}
            /\ ev[w].pc # "open" /\ e.pc = "open"
            /\ laps'[c.lap].status \in Finished
  PROVE  SettleInv'
<1>1. ev'[w] = e /\ \A u \in Workers : u # w => ev'[u] = ev[u]
  BY DEF SettleInv, TypeInv, TypeOK
<1>2. ASSUME NEW u \in Workers, Busy(u)'
      PROVE  Busy(u) /\ ev'[u].by = ev[u].by
  BY <1>1, <1>2 DEF Busy
<1>3. ev[w].by <= received /\ \A d \in charges' : d \in charges \/ d.by = ev[w].by
  BY DEF SettleInv, Numbered
<1>4. Numbered'
  <2>1. (\A u \in Workers : Busy(u) => ev[u].by <= received)'
    BY <1>2 DEF SettleInv, Numbered
  <2>2. (\A t, u \in Workers : Busy(t) /\ Busy(u) /\ ev[t].by = ev[u].by => t = u)'
    BY <1>2 DEF SettleInv, Numbered
  <2>3. (\A d \in charges : d.by <= received)'
    BY <1>3 DEF SettleInv, Numbered
  <2>4. QED
    BY <2>1, <2>2, <2>3 DEF Numbered
<1>5. ASSUME NEW d \in charges
      PROVE  d.by = ev[w].by => ev[w].pc = "open"
  BY DEF SettleInv, ChargeBehind
<1>6. ChargeBehind'
  <2> SUFFICES ASSUME NEW d \in charges', NEW u \in Workers, Busy(u)', ev'[u].by = d.by
               PROVE  ev'[u].pc = "open"
    BY DEF ChargeBehind
  <2>1. CASE u = w
    <3>1. e # Idle /\ e.by = ev[w].by /\ ev[w].pc # "open"
      BY <1>1, <2>1 DEF Busy
    <3>2. d \notin charges
      BY <1>1, <1>5, <2>1, <3>1
    <3>3. QED
      BY <1>1, <2>1, <3>2
  <2>2. CASE u # w
    <3>1. Busy(u) /\ ev[u].by = d.by /\ ev'[u] = ev[u]
      BY <1>1, <1>2, <2>2
    <3>2. d \in charges
      BY <1>3, <2>2, <3>1 DEF SettleInv, Numbered
    <3>3. QED
      BY <3>1, <3>2 DEF SettleInv, ChargeBehind
  <2>3. QED
    BY <2>1, <2>2
<1>7. OneChargePerEvaluation'
  BY <1>5 DEF SettleInv, OneChargePerEvaluation
<1>8. ASSUME NEW u \in Workers, ev[u].pc \in {"late", "charge"}
      PROVE  laps[ev[u].id].status \in Finished /\ ev[u].id \in DOMAIN laps
  <2>1. ev[u].pc \in Label \ {"lap", "gate", "open"}
    BY <1>8 DEF Label
  <2>2. QED
    BY <1>8, <2>1, InHand DEF SettleInv, SettlesFinished
<1>9. SettlesFinished'
  BY <1>1, <1>8 DEF SettlesFinished
<1>10. SettledAreFinished'
  <2>1. ASSUME NEW d \in charges'
        PROVE  laps'[d.lap].status \in Finished
    <3>1. CASE d \in charges
      BY <3>1 DEF SettleInv, SettledAreFinished, TypeInv, TypeOK
    <3>2. QED
      BY <3>1
  <2>2. ASSUME NEW f \in fines', f.type = "LAP_TIME"
        PROVE  laps'[f.lap].status \in Finished
    BY <2>2 DEF SettleInv, SettledAreFinished, TypeInv, TypeOK
  <2>3. QED
    BY <2>1, <2>2 DEF SettledAreFinished
<1>11. QED
  BY <1>4, <1>6, <1>7, <1>9, <1>10 DEF SettleInv

\* The same for a step that settles nothing.
LEMMA StepSettlesNothing ==
  ASSUME SettleInv, TypeInv', NEW w \in Workers, Busy(w),
         NEW e, ev' = [ev EXCEPT ![w] = e], received' = received,
         e = Idle \/ (e.by = ev[w].by /\ ev[w].pc # "open"),
         e.pc \in {"late", "charge"} => laps'[e.id].status \in Finished,
         \A i \in DOMAIN laps :
           laps[i].status \in Finished => laps'[i].status \in Finished,
         \A f \in fines' : f.type = "LAP_TIME" => f \in fines,
         charges' = charges
  PROVE  SettleInv'
<1>1. [by |-> ev[w].by].by = ev[w].by
  OBVIOUS
<1>2. QED
  BY <1>1, StepKeepsSettled

\* A goroutine that returns.
LEMMA ReturnKeepsSettled ==
  ASSUME SettleInv, TypeInv', NEW w \in Workers, Busy(w), Return(w),
         received' = received,
         \A i \in DOMAIN laps :
           laps[i].status \in Finished => laps'[i].status \in Finished,
         UNCHANGED <<fines, charges>>
  PROVE  SettleInv'
<1>1. ev' = [ev EXCEPT ![w] = Idle] /\ Idle.pc \notin {"late", "charge"}
  BY DEF Return, Idle
<1>2. QED
  BY <1>1, StepSettlesNothing

\* CloseLap may rewrite how a lap ended, but no statement reopens or deletes one.
LEMMA StepReopensNothing ==
  ASSUME TypeInv, [Next]_vars, NEW i \in DOMAIN laps, laps[i].status \in Finished
  PROVE  i \in DOMAIN laps' /\ laps'[i].status \in Finished
<1>1. CASE UNCHANGED laps
  BY <1>1
<1>2. ASSUME NEW w \in Workers, MarkRival(w) \/ UpdateTracking(w) \/ CrossCheckpoint(w)
      PROVE  i \in DOMAIN laps' /\ laps'[i].status \in Finished
  BY <1>2, MarkRivalWrites, UpdateTrackingWrites, CrossCheckpointWrites
<1>3. ASSUME NEW w \in Workers, CloseLap(w), ~UNCHANGED laps
      PROVE  i \in DOMAIN laps' /\ laps'[i].status \in Finished
  BY <1>3, CloseLapWrites
<1>4. ASSUME NEW w \in Workers, OpenNextLap(w), ~UNCHANGED laps
      PROVE  i \in DOMAIN laps' /\ laps'[i].status \in Finished
  <2>1. NewLap(ev[w]) \in Lap /\ laps' = Append(laps, NewLap(ev[w]))
    BY <1>4, NewLapIsLap DEF OpenNextLap
  <2>2. QED
    BY <2>1, InsertRow DEF TypeInv, TypeOK
<1>5. QED
  BY <1>1, <1>2, <1>3, <1>4 DEF Next, Step, ReadOpenLap, EvaluateProlongedStop,
     EvaluateSpeeding, EvaluateOvertaking, FineRival, FineLateLap, ChargeLap,
     ReadFails, Receive, Crash, Reassign, tables, vars

\* The six statements between FindOpenLap and the checkpoint fine something
\* else than the duration of a lap, and charge nothing.
LEMMA RollingLeavesSettlement ==
  ASSUME NEW w \in Workers,
         \/ EvaluateProlongedStop(w) \/ EvaluateSpeeding(w) \/ EvaluateOvertaking(w)
         \/ FineRival(w) \/ MarkRival(w) \/ UpdateTracking(w)
  PROVE  charges' = charges /\ \A f \in fines' : f.type = "LAP_TIME" => f \in fines
<1>1. charges' = charges
  BY DEF EvaluateProlongedStop, EvaluateSpeeding, EvaluateOvertaking,
     FineRival, MarkRival, UpdateTracking, tables
<1>2. PICK id, since :
        \/ UNCHANGED fines
        \/ fines' = fines \cup {NewFine(ev[w], "PROLONGED_STOP", id, since)}
        \/ fines' = fines \cup {NewFine(ev[w], "SPEEDING", id, since)}
        \/ fines' = fines \cup {NewFine(ev[w], "OVERTAKING", id, since)}
  <2>1. CASE EvaluateProlongedStop(w)
    BY <2>1 DEF EvaluateProlongedStop
  <2>2. CASE EvaluateSpeeding(w)
    BY <2>2 DEF EvaluateSpeeding
  <2>3. CASE FineRival(w)
    BY <2>3 DEF FineRival
  <2>4. CASE UNCHANGED fines
    BY <2>4
  <2>5. QED
    BY <2>1, <2>2, <2>3, <2>4 DEF EvaluateOvertaking, MarkRival, UpdateTracking, tables
<1>3. \A t, i, s : NewFine(ev[w], t, i, s).type = t
  BY DEF NewFine
<1>4. QED
  BY <1>1, <1>2, <1>3

\* The next state of a goroutine, when it only moves to another label.
LEMMA Relabels ==
  ASSUME NEW w \in Workers, ev[w] \in Evaluation, NEW l, Goto(w, l)
  PROVE  \E e : /\ ev' = [ev EXCEPT ![w] = e]
                /\ e.by = ev[w].by /\ e.id = ev[w].id /\ e.pc = l
<1> DEFINE e == [ev[w] EXCEPT !.pc = l]
<1>1. ev' = [ev EXCEPT ![w] = e]
  BY DEF Goto
<1>2. e.by = ev[w].by /\ e.id = ev[w].id /\ e.pc = l
  BY DEF Evaluation
<1> HIDE DEF e
<1>3. QED
  BY <1>1, <1>2

LEMMA StepKeepsSettleInv ==
  ASSUME SettleInv, TypeInv', NEW w \in Workers, Step(w)
  PROVE  SettleInv'
<1>1. ev[w].pc \in Label
  BY DEF Label, Step, ReadOpenLap, EvaluateProlongedStop, EvaluateSpeeding,
     EvaluateOvertaking, FineRival, MarkRival, UpdateTracking, CrossCheckpoint,
     CloseLap, FineLateLap, ChargeLap, OpenNextLap
<1>2. Busy(w) /\ ev[w] \in Evaluation /\ TypeInv
  BY <1>1, Evaluating DEF SettleInv, TypeInv
<1>3. \A i \in DOMAIN laps : laps[i].status \in Finished => laps'[i].status \in Finished
  <2>1. [Next]_vars
    BY DEF Next
  <2>2. QED
    BY <1>2, <2>1, StepReopensNothing
<1>4. received' = received
  BY DEF environment, Step, ReadOpenLap, EvaluateProlongedStop, EvaluateSpeeding,
     EvaluateOvertaking, FineRival, MarkRival, UpdateTracking, CrossCheckpoint,
     CloseLap, FineLateLap, ChargeLap, OpenNextLap
<1>5. CASE ReadOpenLap(w)
  <2>1. ev[w].pc = "lap" /\ UNCHANGED <<laps, fines, charges>>
    BY <1>5 DEF ReadOpenLap, tables
  <2>2. PICK e : ev' = [ev EXCEPT ![w] = e] /\ e.by = ev[w].by /\ e.pc \in {"gate", "stop"}
    <3>1. CASE Goto(w, "gate")
      BY <1>2, <3>1, Relabels
    <3>2. ASSUME NEW i, Continue(w, [ev[w] EXCEPT !.pc = "stop", !.id = i, !.lap = laps[i]])
          PROVE  \E e : ev' = [ev EXCEPT ![w] = e] /\ e.by = ev[w].by /\ e.pc \in {"gate", "stop"}
      <4> DEFINE e == [ev[w] EXCEPT !.pc = "stop", !.id = i, !.lap = laps[i]]
      <4>1. ev' = [ev EXCEPT ![w] = e]
        BY <3>2 DEF Continue
      <4>2. e.by = ev[w].by /\ e.pc = "stop"
        BY <1>2 DEF Evaluation
      <4> HIDE DEF e
      <4>3. QED
        BY <4>1, <4>2
    <3>3. QED
      BY <1>5, <3>1, <3>2 DEF ReadOpenLap
  <2>3. QED
    BY <1>2, <1>3, <1>4, <2>1, <2>2, StepSettlesNothing
<1>6. CASE \/ EvaluateProlongedStop(w) \/ EvaluateSpeeding(w) \/ EvaluateOvertaking(w)
           \/ FineRival(w) \/ MarkRival(w) \/ UpdateTracking(w)
  <2>1. ev[w].pc # "open"
    BY <1>6 DEF EvaluateProlongedStop, EvaluateSpeeding, EvaluateOvertaking,
       FineRival, MarkRival, UpdateTracking
  <2>2. PICK e : ev' = [ev EXCEPT ![w] = e] /\ GoesOn(ev[w], e)
    BY <1>2, <1>6, RollingMemory
  <2>3. e.by = ev[w].by /\ e.pc \notin {"late", "charge"}
    BY <2>2 DEF GoesOn, Rolling
  <2>4. QED
    BY <1>2, <1>3, <1>4, <1>6, <2>1, <2>2, <2>3, RollingLeavesSettlement, StepSettlesNothing
<1>7. CASE CrossCheckpoint(w)
  <2>1. ev[w].pc = "gate" /\ UNCHANGED <<fines, charges>>
    BY <1>7 DEF CrossCheckpoint
  <2>2. CASE Return(w)
    BY <1>2, <1>3, <1>4, <2>1, <2>2, ReturnKeepsSettled
  <2>3. ASSUME NEW l \in {"open", "close"}, Goto(w, l)
        PROVE  SettleInv'
    <3>1. PICK e : ev' = [ev EXCEPT ![w] = e] /\ e.by = ev[w].by /\ e.pc = l
      BY <1>2, <2>3, Relabels
    <3>2. QED
      BY <1>2, <1>3, <1>4, <2>1, <3>1, StepSettlesNothing
  <2>4. QED
    BY <1>7, <2>2, <2>3 DEF CrossCheckpoint
<1>8. CASE CloseLap(w)
  <2>1. ev[w].pc = "close" /\ UNCHANGED <<fines, charges>>
    BY <1>8 DEF CloseLap
  <2>2. CASE Return(w)
    BY <1>2, <1>3, <1>4, <2>1, <2>2, ReturnKeepsSettled
  <2>3. CASE ~Return(w)
    <3>1. laps'[ev[w].id].status \in Finished
      BY <1>2, <1>8, <2>3, CloseLapWrites
    <3>2. PICK l \in {"late", "charge"} : Goto(w, l)
      BY <1>8, <2>3 DEF CloseLap
    <3>3. QED
      BY <1>2, <1>3, <1>4, <2>1, <3>1, <3>2, Relabels, StepSettlesNothing
  <2>4. QED
    BY <2>2, <2>3
<1>9. CASE FineLateLap(w)
  <2> DEFINE f == NewFine(ev[w], "LAP_TIME", ev[w].id, Null)
  <2>1. ev[w].pc = "late" /\ UNCHANGED <<laps, charges>> /\ Goto(w, "charge")
    BY <1>9 DEF FineLateLap
  <2>2. PICK e : ev' = [ev EXCEPT ![w] = e] /\ e.by = ev[w].by /\ e.id = ev[w].id
    BY <1>2, <2>1, Relabels
  <2>3. laps'[ev[w].id].status \in Finished
    BY <2>1 DEF SettleInv, SettlesFinished
  <2>4. f.lap = ev[w].id /\ (fines' = fines \/ fines' = fines \cup {f})
    BY <1>9 DEF FineLateLap, NewFine
  <2>5. [by |-> ev[w].by].by = ev[w].by
    OBVIOUS
  <2> HIDE DEF f
  <2>6. \A g \in fines' :
          g.type = "LAP_TIME" => g \in fines \/ laps'[g.lap].status \in Finished
    BY <2>3, <2>4
  <2>7. QED
    BY <1>2, <1>3, <1>4, <2>1, <2>2, <2>3, <2>5, <2>6, StepKeepsSettled
<1>10. CASE ChargeLap(w)
  <2>1. ev[w].pc = "charge" /\ UNCHANGED <<laps, fines>> /\ Goto(w, "open")
    BY <1>10 DEF ChargeLap
  <2>2. PICK e : ev' = [ev EXCEPT ![w] = e] /\ e.by = ev[w].by /\ e.pc = "open"
    BY <1>2, <2>1, Relabels
  <2>3. laps'[ev[w].id].status \in Finished
    BY <2>1 DEF SettleInv, SettlesFinished
  <2>4. PICK c : /\ c.lap = ev[w].id /\ c.by = ev[w].by
                 /\ charges' = charges \/ charges' = charges \cup {c}
    <3> DEFINE c(x) == [lap |-> ev[w].id, amount |-> x, route |-> ev[w].route,
                        by |-> ev[w].by]
    <3>1. \A x : c(x).lap = ev[w].id /\ c(x).by = ev[w].by
      OBVIOUS
    <3>2. charges' = charges \/ \E x : charges' = charges \cup {c(x)}
      BY <1>10 DEF ChargeLap
    <3> HIDE DEF c
    <3>3. QED
      BY <3>1, <3>2
  <2>5. QED
    BY <1>2, <1>3, <1>4, <2>1, <2>2, <2>3, <2>4, StepKeepsSettled
<1>11. CASE OpenNextLap(w)
  BY <1>2, <1>3, <1>4, <1>11, ReturnKeepsSettled DEF OpenNextLap
<1>12. QED
  BY <1>5, <1>6, <1>7, <1>8, <1>9, <1>10, <1>11 DEF Step

LEMMA ReceiveKeepsSettleInv ==
  ASSUME SettleInv, TypeInv', NEW w \in Workers, NEW p \in Reports, Receive(w, p)
  PROVE  SettleInv'
<1> DEFINE e == [pc |-> "lap", rep |-> p, by |-> received + 1,
                 route |-> routeOf[p.veh], id |-> 0, lap |-> NoLap,
                 dirty |-> FALSE, rivals |-> {}]
<1>1. UNCHANGED <<laps, fines, charges>> /\ received' = received + 1 /\ received \in Nat
  BY DEF Receive, tables, SettleInv, TypeInv, TypeOK
<1>2. e.by = received + 1 /\ e.pc = "lap"
  OBVIOUS
<1>3. ev' = ev \/ ev' = [ev EXCEPT ![w] = e]
  BY DEF Receive, Continue
<1> HIDE DEF e
<1>4. /\ \A u \in Workers : u # w => ev'[u] = ev[u]
      /\ ev'[w] = ev[w] \/ ev'[w] = e
  BY <1>3 DEF SettleInv, TypeInv, TypeOK
<1>5. ASSUME NEW u \in Workers, Busy(u)
      PROVE  ev[u].by \in Nat
  BY <1>5 DEF Busy, SettleInv, TypeInv, TypeOK, Evaluation
<1>6. \A c \in charges : c.by \in Nat /\ c.by <= received
  BY DEF SettleInv, Numbered, TypeInv, TypeOK, ChargeRow
<1>7. \A u \in Workers : Busy(u) => ev[u].by \in Nat /\ ev[u].by <= received
  BY <1>5 DEF SettleInv, Numbered
<1>8. Numbered'
  <2>1. (\A u \in Workers : Busy(u) => ev[u].by <= received)'
    BY <1>1, <1>2, <1>4, <1>7 DEF Busy
  <2>2. (\A t, u \in Workers : Busy(t) /\ Busy(u) /\ ev[t].by = ev[u].by => t = u)'
    <3> SUFFICES ASSUME NEW t \in Workers, NEW u \in Workers, Busy(t)', Busy(u)',
                        ev'[t].by = ev'[u].by
                 PROVE  t = u
      OBVIOUS
    <3>1. CASE ev'[t] = ev[t] /\ ev'[u] = ev[u]
      BY <3>1 DEF SettleInv, Numbered, Busy
    <3>2. QED
      BY <1>1, <1>2, <1>4, <1>7, <3>1 DEF Busy
  <2>3. (\A c \in charges : c.by <= received)'
    BY <1>1, <1>6
  <2>4. QED
    BY <2>1, <2>2, <2>3 DEF Numbered
<1>9. ChargeBehind'
  BY <1>1, <1>2, <1>4, <1>6 DEF SettleInv, ChargeBehind, Busy
<1>10. SettlesFinished'
  BY <1>1, <1>2, <1>4 DEF SettleInv, SettlesFinished
<1>11. OneChargePerEvaluation' /\ SettledAreFinished'
  BY <1>1 DEF SettleInv, OneChargePerEvaluation, SettledAreFinished
<1>12. QED
  BY <1>8, <1>9, <1>10, <1>11 DEF SettleInv

LEMMA IdleStepKeepsSettled ==
  ASSUME SettleInv, TypeInv', UNCHANGED <<laps, fines, charges, ev, received>>
  PROVE  SettleInv'
  BY DEF SettleInv, Numbered, ChargeBehind, OneChargePerEvaluation, SettlesFinished,
     SettledAreFinished, Busy

LEMMA CrashKeepsSettled ==
  ASSUME SettleInv, TypeInv', Crash
  PROVE  SettleInv'
<1>1. /\ UNCHANGED <<laps, fines, charges, received>>
      /\ \A w \in Workers : ev'[w] = Idle
      /\ Idle.pc \notin {"late", "charge"}
  BY DEF Crash, tables, environment, Idle
<1>2. QED
  BY <1>1 DEF SettleInv, Numbered, ChargeBehind, OneChargePerEvaluation,
     SettlesFinished, SettledAreFinished, Busy

LEMMA InitHasSettleInv == Init => SettleInv
<1> SUFFICES ASSUME Init PROVE SettleInv
  OBVIOUS
<1>1. TypeInv /\ \A w \in Workers : ev[w] = Idle
  BY InitHasTypes DEF Init
<1>2. Idle.pc \notin {"late", "charge"}
  BY DEF Idle
<1>3. QED
  BY <1>1, <1>2 DEF Init, SettleInv, Numbered, ChargeBehind, OneChargePerEvaluation,
     SettlesFinished, SettledAreFinished, Busy

LEMMA NextKeepsSettleInv == SettleInv /\ [Next]_vars => SettleInv'
<1> SUFFICES ASSUME SettleInv, [Next]_vars PROVE SettleInv'
  OBVIOUS
<1>1. TypeInv'
  BY NextKeepsTypes DEF SettleInv
<1>2. ASSUME NEW w \in Workers, Step(w)
      PROVE  SettleInv'
  BY <1>1, <1>2, StepKeepsSettleInv
<1>3. ASSUME NEW w \in Workers, ReadFails(w)
      PROVE  SettleInv'
  <2>1. ev[w].pc \in Label /\ Return(w) /\ UNCHANGED <<laps, fines, charges, received>>
    BY <1>3 DEF ReadFails, Label, tables, environment
  <2>2. Busy(w)
    BY <2>1, Evaluating DEF SettleInv, TypeInv
  <2>3. QED
    BY <1>1, <2>1, <2>2, ReturnKeepsSettled
<1>4. ASSUME NEW w \in Workers, NEW p \in Reports, Receive(w, p)
      PROVE  SettleInv'
  BY <1>1, <1>4, ReceiveKeepsSettleInv
<1>5. CASE Crash
  BY <1>1, <1>5, CrashKeepsSettled
<1>6. ASSUME NEW v \in Vehicles, NEW r \in Routes \cup {NoRoute}, Reassign(v, r)
      PROVE  SettleInv'
  BY <1>1, <1>6, IdleStepKeepsSettled DEF Reassign, tables
<1>7. CASE UNCHANGED vars
  BY <1>1, <1>7, IdleStepKeepsSettled DEF vars
<1>8. QED
  BY <1>2, <1>3, <1>4, <1>5, <1>6, <1>7 DEF Next

\* Even when reports of one vehicle are evaluated at once, CreateCharge runs at
\* most once per evaluation: what charges a lap twice is two goroutines that
\* both close it, never one goroutine.
THEOREM ChargedOncePerEvaluation == Spec => []OneChargePerEvaluation
<1>1. SettleInv => OneChargePerEvaluation
  BY DEF SettleInv
<1>2. QED
  BY <1>1, InitHasSettleInv, NextKeepsSettleInv, PTL DEF Spec

\* Even then, every charge and every fine for the duration is of a lap that is
\* over, through failed statements and crashes: CloseLap comes first and no
\* statement undoes it.
THEOREM SettledLapsAreOver == Spec => []SettledAreFinished
<1>1. SettleInv => SettledAreFinished
  BY DEF SettleInv
<1>2. QED
  BY <1>1, InitHasSettleInv, NextKeepsSettleInv, PTL DEF Spec

\* A lap that is over stays over.
FinishedStayFinished ==
  [][\A i \in DOMAIN laps : laps[i].status \in Finished =>
       i \in DOMAIN laps' /\ laps'[i].status \in Finished]_laps

\* Even then, no goroutine, however stale its copy of a lap, reopens or deletes a
\* lap that is over; rewriting how it ended is all a second close can do.
THEOREM NeverReopened == Spec => FinishedStayFinished
<1> DEFINE Stay == \A i \in DOMAIN laps : laps[i].status \in Finished =>
                     i \in DOMAIN laps' /\ laps'[i].status \in Finished
<1>1. TypeInv /\ [Next]_vars => [Stay]_laps
  BY StepReopensNothing
<1>2. QED
  BY <1>1, InitHasTypes, NextKeepsTypes, PTL DEF Spec, FinishedStayFinished
=============================================================================
