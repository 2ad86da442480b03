-------------------------- MODULE LapRecordsProofs --------------------------
(***************************************************************************)
(* Proofs about what the tables of LapEngine say of a drive: laps of one   *)
(* vehicle do not overlap when its reports are evaluated one by one in the *)
(* order of their times (~Overlap, InOrder); fines are not repeated when a *)
(* single goroutine evaluates and no statement fails; and, on one route    *)
(* and without failures, any number of goroutines implement LapLedger.     *)
(***************************************************************************)
EXTENDS LapEngineProofs, FiniteSetTheorems

(* Laps in order.                                                          *)

\* The tables that a process may have left when it stopped: open laps have no
\* end, the others one, laps of a vehicle follow one another, and every report
\* still to come is later.
TablesInOrder ==
  \A table \in InitialLaps : \A i \in DOMAIN table :
    /\ table[i].status = "IN_PROGRESS" <=> table[i].ended = Null
    /\ \A j \in DOMAIN table : table[i].veh = table[j].veh /\ i < j =>
         table[i].ended # Null /\ table[i].ended <= table[j].start
    /\ \A p \in Reports : p.veh = table[i].veh => table[i].ended <= p.at

\* Who evaluates has the newest report of its vehicle, and no lap ended later
\* than what may still be received.
OrderInv ==
  /\ \A w \in Workers : Busy(w) => newest[ev[w].rep.veh] = ev[w].rep.at
  /\ \A i \in DOMAIN laps : laps[i].status = "IN_PROGRESS" <=> laps[i].ended = Null
  /\ \A i \in DOMAIN laps : \A p \in Reports :
       p.veh = laps[i].veh /\ p.at >= newest[p.veh] => laps[i].ended <= p.at
  /\ LapsDisjoint

LEMMA RowStays ==
  ASSUME TypeInv, NEW w \in Workers, MarkRival(w) \/ UpdateTracking(w) \/ CrossCheckpoint(w)
  PROVE  /\ DOMAIN laps' = DOMAIN laps
         /\ \A i \in DOMAIN laps :
              /\ laps'[i].veh = laps[i].veh
              /\ laps'[i].status = laps[i].status
              /\ laps'[i].ended = laps[i].ended
              /\ laps'[i].start = laps[i].start
              /\ laps'[i].num = laps[i].num
              /\ laps'[i].allowed = laps[i].allowed
BY MarkRivalWrites, UpdateTrackingWrites, CrossCheckpointWrites

\* Only Receive gives a goroutine another report.
LEMMA ReportKept ==
  ASSUME TypeInv, NEW w \in Workers, Step(w) \/ ReadFails(w)
  PROVE  /\ newest' = newest
         /\ \A u \in Workers : Busy(u)' => Busy(u) /\ ev'[u].rep = ev[u].rep
         /\ Busy(w) /\ \A u \in Workers : u # w => ev'[u] = ev[u]
<1>1. newest' = newest
  BY DEF Step, ReadFails, ReadOpenLap, EvaluateProlongedStop, EvaluateSpeeding,
     EvaluateOvertaking, FineRival, MarkRival, UpdateTracking, CrossCheckpoint, CloseLap,
     FineLateLap, ChargeLap, OpenNextLap, environment
<1>2. ev[w].pc \in Label
  BY DEF Step, ReadFails, ReadOpenLap, EvaluateProlongedStop, EvaluateSpeeding,
     EvaluateOvertaking, FineRival, MarkRival, UpdateTracking, CrossCheckpoint, CloseLap,
     FineLateLap, ChargeLap, OpenNextLap, Label
<1>3. Busy(w) /\ ev[w] \in Evaluation
  BY <1>2, Evaluating DEF TypeInv
<1>4. PICK e : ev' = [ev EXCEPT ![w] = e] /\ (e = Idle \/ e.rep = ev[w].rep)
  <2>1. CASE Return(w)
    BY <2>1 DEF Return
  <2>2. ASSUME NEW l, Goto(w, l)
        PROVE  \E e : ev' = [ev EXCEPT ![w] = e] /\ (e = Idle \/ e.rep = ev[w].rep)
    <3> DEFINE e == [ev[w] EXCEPT !.pc = l]
    <3>1. ev' = [ev EXCEPT ![w] = e] /\ e.rep = ev[w].rep
      BY <1>3, <2>2 DEF Goto, Evaluation
    <3> HIDE DEF e
    <3>2. QED
      BY <3>1
  <2>3. CASE ReadOpenLap(w) /\ ~ \E l : Goto(w, l)
    <3>1. PICK i : ev' = [ev EXCEPT ![w] = [ev[w] EXCEPT !.pc = "stop", !.id = i, !.lap = laps[i]]]
      BY <2>3 DEF ReadOpenLap, Continue
    <3> DEFINE e == [ev[w] EXCEPT !.pc = "stop", !.id = i, !.lap = laps[i]]
    <3>2. e.rep = ev[w].rep
      BY <1>3 DEF Evaluation
    <3>3. ev' = [ev EXCEPT ![w] = e]
      BY <3>1
    <3> HIDE DEF e
    <3>4. QED
      BY <3>2, <3>3
  <2>4. CASE \/ EvaluateProlongedStop(w) \/ EvaluateSpeeding(w) \/ EvaluateOvertaking(w)
             \/ FineRival(w) \/ MarkRival(w) \/ UpdateTracking(w)
    BY <2>4, RollingMemory DEF GoesOn
  <2>5. CASE CrossCheckpoint(w) \/ CloseLap(w)
    BY <2>1, <2>2, <2>5 DEF CrossCheckpoint, CloseLap
  <2>6. CASE FineLateLap(w) \/ ChargeLap(w) \/ OpenNextLap(w) \/ ReadFails(w)
    BY <2>1, <2>2, <2>6 DEF FineLateLap, ChargeLap, OpenNextLap, ReadFails
  <2>7. QED
    BY <2>2, <2>3, <2>4, <2>5, <2>6 DEF Step
<1>5. ev'[w] = e /\ \A u \in Workers : u # w => ev'[u] = ev[u]
  BY <1>4 DEF TypeInv, TypeOK
<1>6. QED
  BY <1>1, <1>3, <1>4, <1>5 DEF Busy

\* A step that keeps when laps began and ended and receives nothing.
LEMMA RowsKeepOrder ==
  ASSUME OrderInv, newest' = newest,
         \A u \in Workers : Busy(u)' => Busy(u) /\ ev'[u].rep = ev[u].rep,
         DOMAIN laps' = DOMAIN laps,
         \A i \in DOMAIN laps :
           /\ laps'[i].veh = laps[i].veh
           /\ laps'[i].status = laps[i].status
           /\ laps'[i].ended = laps[i].ended
           /\ laps'[i].start = laps[i].start
  PROVE  OrderInv'
BY DEF OrderInv, LapsDisjoint

LEMMA ReceiveKeepsOrder ==
  ASSUME ~Overlap, InOrder, LapInv, OrderInv, NEW w \in Workers, NEW p \in Reports, Receive(w, p)
  PROVE  OrderInv'
<1>1. /\ p.veh \in Vehicles /\ p.at \in Time
      /\ newest \in [Vehicles -> OptTime] /\ laps' = laps
      /\ newest' = [newest EXCEPT ![p.veh] = p.at] /\ p.at >= newest[p.veh]
  BY ConstantsOK DEF Receive, MayStart, Report, LapInv, TypeInv, TypeOK, tables
<1>2. ASSUME NEW u \in Workers, Busy(u)'
      PROVE  newest'[ev'[u].rep.veh] = ev'[u].rep.at
  <2>1. CASE ev'[u] = ev[u]
    <3>1. Busy(u) /\ ev[u].rep.veh # p.veh
      BY <1>2, <2>1 DEF Busy, Receive, MayStart
    <3>2. ev[u] \in Evaluation
      BY <3>1 DEF LapInv, TypeInv, TypeOK, Busy
    <3>3. ev[u].rep.veh \in Vehicles
      BY <3>2, ConstantsOK DEF Evaluation, Report
    <3>4. QED
      BY <1>1, <2>1, <3>1, <3>3 DEF OrderInv
  <2>2. CASE ev'[u] # ev[u]
    <3>1. ev'[u].rep = p
      BY <2>2 DEF Receive, Continue, LapInv, TypeInv, TypeOK
    <3>2. QED
      BY <1>1, <3>1
  <2>3. QED
    BY <2>1, <2>2
<1>3. ASSUME NEW i \in DOMAIN laps, NEW q \in Reports, q.veh = laps[i].veh, q.at >= newest'[q.veh]
      PROVE  laps[i].ended <= q.at
  <2>1. q.veh \in Vehicles /\ q.at \in Time
    BY ConstantsOK DEF Report
  <2>2. q.at >= newest[q.veh]
    <3>1. newest'[q.veh] >= newest[q.veh] /\ newest[q.veh] \in Int /\ newest'[q.veh] \in Int
      BY <1>1, <2>1 DEF OptTime, Time, Null
    <3>2. QED
      BY <1>3, <2>1, <3>1 DEF Time
  <2>3. QED
    BY <1>3, <2>2 DEF OrderInv
<1>4. LapsDisjoint'
  BY <1>1 DEF OrderInv, LapsDisjoint
<1>5. QED
  BY <1>1, <1>2, <1>3, <1>4 DEF OrderInv

LEMMA CloseKeepsOrder ==
  ASSUME LapInv, OrderInv, NEW w \in Workers, CloseLap(w)
  PROVE  OrderInv'
<1> DEFINE id == ev[w].id
           rep == ev[w].rep
<1>1. /\ newest' = newest
      /\ \A u \in Workers : Busy(u)' => Busy(u) /\ ev'[u].rep = ev[u].rep
  BY ReportKept DEF Step, LapInv
<1>2. CASE UNCHANGED laps
  BY <1>1, <1>2, RowsKeepOrder
<1>3. CASE ~UNCHANGED laps
  <2>1. ev[w].pc = "close" /\ Busy(w) /\ ev[w] \in Evaluation /\ Held(w) /\ HoldsOpenLap(w)
    BY Evaluating DEF CloseLap, Label, LapInv, TypeInv
  <2>2. /\ id \in DOMAIN laps /\ laps[id].veh = rep.veh /\ laps[id].status = "IN_PROGRESS"
        /\ laps[id].ended = Null /\ rep.at \in Time /\ newest[rep.veh] = rep.at
    BY <2>1, ConstantsOK DEF Held, HoldsOpenLap, OrderInv, Evaluation, Report
  <2>3. /\ DOMAIN laps' = DOMAIN laps
        /\ \A i \in DOMAIN laps : i # id => laps'[i] = laps[i]
        /\ laps'[id].veh = rep.veh /\ laps'[id].status # "IN_PROGRESS"
        /\ laps'[id].ended = rep.at /\ laps'[id].start = laps[id].start
    BY <1>3, <2>2, CloseLapWrites DEF LapInv, Finished
  <2> HIDE DEF id, rep
  <2>4. ASSUME NEW i \in DOMAIN laps', NEW p \in Reports, p.veh = laps'[i].veh, p.at >= newest'[p.veh]
        PROVE  laps'[i].ended <= p.at
    <3>1. CASE i = id
      BY <1>1, <2>2, <2>3, <2>4, <3>1
    <3>2. CASE i # id
      BY <1>1, <2>3, <2>4, <3>2 DEF OrderInv
    <3>3. QED
      BY <3>1, <3>2
  <2>5. \A i \in DOMAIN laps' : laps'[i].status = "IN_PROGRESS" <=> laps'[i].ended = Null
    BY <2>2, <2>3 DEF OrderInv, Null, Time
  <2>6. LapsDisjoint'
    <3> SUFFICES ASSUME NEW i \in DOMAIN laps, NEW j \in DOMAIN laps,
                        laps'[i].veh = laps'[j].veh, i < j
                 PROVE  laps'[i].ended # Null /\ laps'[i].ended <= laps'[j].start
      BY <2>3 DEF LapsDisjoint
    <3>1. laps[i].veh = laps[j].veh /\ laps'[j].start = laps[j].start
      BY <2>2, <2>3
    <3>2. laps[i].ended # Null /\ laps[i].ended <= laps[j].start
      BY <3>1 DEF OrderInv, LapsDisjoint
    <3>3. i # id
      BY <2>2, <3>2
    <3>4. QED
      BY <2>3, <3>1, <3>2, <3>3
  <2>7. QED
    BY <1>1, <2>4, <2>5, <2>6 DEF OrderInv
<1>4. QED
  BY <1>2, <1>3

LEMMA OpenKeepsOrder ==
  ASSUME LapInv, OrderInv, NEW w \in Workers, OpenNextLap(w)
  PROVE  OrderInv'
<1> DEFINE rep == ev[w].rep
           new == Len(laps) + 1
<1>1. /\ newest' = newest
      /\ \A u \in Workers : Busy(u)' => Busy(u) /\ ev'[u].rep = ev[u].rep
  BY ReportKept DEF Step, LapInv
<1>2. CASE UNCHANGED laps
  BY <1>1, <1>2, RowsKeepOrder
<1>3. CASE ~UNCHANGED laps
  <2>1. ev[w].pc = "open" /\ Busy(w) /\ ev[w] \in Evaluation /\ HoldsNoOpenLap(w)
    BY Evaluating DEF OpenNextLap, Label, LapInv, TypeInv
  <2>2. rep.at \in Time /\ newest[rep.veh] = rep.at /\ rep \in Reports
    BY <2>1, ConstantsOK DEF OrderInv, Evaluation, Report
  <2>3. /\ NewLap(ev[w]) \in Lap /\ laps' = Append(laps, NewLap(ev[w]))
        /\ NewLap(ev[w]).veh = rep.veh /\ NewLap(ev[w]).status = "IN_PROGRESS"
        /\ NewLap(ev[w]).ended = Null /\ NewLap(ev[w]).start = rep.at
    BY <1>3, NewLapIsLap DEF OpenNextLap, LapInv, NewLap
  <2>4. /\ new \notin DOMAIN laps /\ DOMAIN laps' = DOMAIN laps \cup {new}
        /\ \A i \in DOMAIN laps : laps'[i] = laps[i] /\ i < new
        /\ laps'[new].veh = rep.veh /\ laps'[new].status = "IN_PROGRESS"
        /\ laps'[new].ended = Null /\ laps'[new].start = rep.at
    <3>1. \A i \in DOMAIN laps : i < new
      BY LenProperties DEF LapInv, TypeInv, TypeOK
    <3>2. QED
      BY <2>3, <3>1, InsertRow DEF LapInv, TypeInv, TypeOK
  <2>5. ASSUME NEW i \in DOMAIN laps, laps[i].veh = rep.veh
        PROVE  laps[i].ended # Null /\ laps[i].ended <= rep.at
    <3>1. laps[i].status # "IN_PROGRESS"
      BY <2>1, <2>5 DEF HoldsNoOpenLap
    <3>2. QED
      BY <2>2, <2>5, <3>1 DEF OrderInv, Time
  <2> HIDE DEF rep, new
  <2>6. ASSUME NEW i \in DOMAIN laps', NEW p \in Reports, p.veh = laps'[i].veh, p.at >= newest'[p.veh]
        PROVE  laps'[i].ended <= p.at
    <3>1. p.at \in Time
      BY ConstantsOK DEF Report
    <3>2. QED
      BY <1>1, <2>4, <2>6, <3>1 DEF OrderInv, Null, Time
  <2>7. \A i \in DOMAIN laps' : laps'[i].status = "IN_PROGRESS" <=> laps'[i].ended = Null
    BY <2>4 DEF OrderInv
  <2>8. LapsDisjoint'
    <3> SUFFICES ASSUME NEW i \in DOMAIN laps', NEW j \in DOMAIN laps',
                        laps'[i].veh = laps'[j].veh, i < j
                 PROVE  laps'[i].ended # Null /\ laps'[i].ended <= laps'[j].start
      BY DEF LapsDisjoint
    <3>1. i # new
      <4>1. DOMAIN laps \subseteq Nat /\ new \in Nat
        BY LenProperties, IdsArePositive DEF LapInv, TypeInv, TypeOK, new
      <4>2. QED
        BY <2>4, <4>1
    <3>2. CASE j = new
      BY <2>4, <2>5, <3>1, <3>2
    <3>3. CASE j # new
      BY <2>4, <3>1, <3>3 DEF OrderInv, LapsDisjoint
    <3>4. QED
      BY <3>2, <3>3
  <2>9. QED
    BY <1>1, <2>6, <2>7, <2>8 DEF OrderInv
<1>4. QED
  BY <1>2, <1>3

LEMMA NextKeepsOrder ==
  ASSUME ~Overlap, InOrder, LapInv, OrderInv, [Next]_vars
  PROVE  OrderInv'
<1>1. ASSUME NEW w \in Workers, Step(w)
      PROVE  OrderInv'
  <2>1. /\ newest' = newest
        /\ \A u \in Workers : Busy(u)' => Busy(u) /\ ev'[u].rep = ev[u].rep
    BY <1>1, ReportKept DEF LapInv
  <2>2. CASE MarkRival(w) \/ UpdateTracking(w) \/ CrossCheckpoint(w)
    BY <2>1, <2>2, RowStays, RowsKeepOrder DEF LapInv
  <2>3. CASE CloseLap(w) \/ OpenNextLap(w)
    BY <2>3, CloseKeepsOrder, OpenKeepsOrder
  <2>4. CASE UNCHANGED laps
    BY <2>1, <2>4, RowsKeepOrder
  <2>5. QED
    BY <1>1, <2>2, <2>3, <2>4 DEF Step, ReadOpenLap, EvaluateProlongedStop, EvaluateSpeeding,
       EvaluateOvertaking, FineRival, FineLateLap, ChargeLap, tables
<1>2. ASSUME NEW w \in Workers, ReadFails(w)
      PROVE  OrderInv'
  <2>1. /\ newest' = newest /\ laps' = laps
        /\ \A u \in Workers : Busy(u)' => Busy(u) /\ ev'[u].rep = ev[u].rep
    BY <1>2, ReportKept DEF LapInv, ReadFails, tables
  <2>2. QED
    BY <2>1, RowsKeepOrder
<1>3. ASSUME NEW w \in Workers, NEW p \in Reports, Receive(w, p)
      PROVE  OrderInv'
  BY <1>3, ReceiveKeepsOrder
<1>4. CASE Crash
  <2>1. /\ newest' = newest /\ laps' = laps
        /\ \A u \in Workers : ~Busy(u)'
    BY <1>4 DEF Crash, tables, environment, Busy
  <2>2. QED
    BY <2>1, RowsKeepOrder
<1>5. ASSUME UNCHANGED <<laps, ev, newest>>
      PROVE  OrderInv'
  <2>1. \A u \in Workers : Busy(u)' => Busy(u) /\ ev'[u].rep = ev[u].rep
    BY <1>5 DEF Busy
  <2>2. QED
    BY <1>5, <2>1, RowsKeepOrder
<1>6. CASE \E v \in Vehicles, r \in Routes \cup {NoRoute} : Reassign(v, r)
  BY <1>5, <1>6 DEF Reassign, tables
<1>7. CASE UNCHANGED vars
  BY <1>5, <1>7 DEF vars
<1>8. QED
  BY <1>1, <1>2, <1>3, <1>4, <1>6, <1>7 DEF Next

\* Two laps of a vehicle overlap at most in an instant, so that no stretch of a
\* drive is counted, charged and timed twice: CloseLap and OpenNextLap take their
\* times from reports that arrive in order, through failures, crashes and
\* reassignments.
THEOREM LapsFollowOneAnother ==
  ASSUME ~Overlap, InOrder, TablesInOrder
  PROVE  Spec => []LapsDisjoint
<1>1. Init => OrderInv
  <2> SUFFICES ASSUME Init PROVE OrderInv
    OBVIOUS
  <2>1. laps \in InitialLaps /\ \A w \in Workers : ~Busy(w)
    BY DEF Init, Busy
  <2>2. QED
    BY <2>1 DEF TablesInOrder, OrderInv, LapsDisjoint
<1>2. LapInv /\ OrderInv /\ [Next]_vars => OrderInv'
  BY NextKeepsOrder
<1>3. OrderInv => LapsDisjoint
  BY DEF OrderInv
<1>4. QED
  BY <1>1, <1>2, <1>3, Serialized, PTL DEF Spec

-----------------------------------------------------------------------------
(* One evaluation at a time.                                               *)

\* A single goroutine evaluates and no statement fails, which also rules out
\* that the process stops half-way.
Undisturbed == ~Overlap /\ MaxFaults = 0 /\ \A u, w \in Workers : u = w

LEMMA NoFault ==
  ASSUME Undisturbed, TypeInv
  PROVE  ~Fault
BY DEF Undisturbed, TypeInv, TypeOK, Fault

\* What each statement of the rolling part leaves in the goroutine's memory.
LEMMA ReadOpenLapLeaves ==
  ASSUME TypeInv, NEW w \in Workers, ReadOpenLap(w)
  PROVE  /\ UNCHANGED <<laps, fines>>
         /\ \/ ev'[w].pc = "gate"
            \/ /\ ev'[w].pc = "stop" /\ ev'[w].id \in DOMAIN laps
               /\ ev'[w].lap = laps[ev'[w].id]
<1>1. UNCHANGED <<laps, fines>> /\ ev[w].pc = "lap"
  BY DEF ReadOpenLap, tables
<1>2. ev[w] \in Evaluation
  BY <1>1, Evaluating DEF TypeInv, Label
<1>3. CASE Goto(w, "gate")
  <2> DEFINE e == [ev[w] EXCEPT !.pc = "gate"]
  <2>1. ev' = [ev EXCEPT ![w] = e] /\ e.pc = "gate"
    BY <1>2, <1>3 DEF Goto, Evaluation
  <2> HIDE DEF e
  <2>2. QED
    BY <1>1, <2>1 DEF TypeInv, TypeOK
<1>4. ASSUME NEW i \in LatestStarted(OpenLaps(ev[w].rep.veh)),
             Continue(w, [ev[w] EXCEPT !.pc = "stop", !.id = i, !.lap = laps[i]])
      PROVE  ev'[w].pc = "stop" /\ ev'[w].id = i /\ ev'[w].lap = laps[i] /\ i \in DOMAIN laps
  <2> DEFINE e == [ev[w] EXCEPT !.pc = "stop", !.id = i, !.lap = laps[i]]
  <2>1. ev' = [ev EXCEPT ![w] = e] /\ e.pc = "stop" /\ e.id = i /\ e.lap = laps[i]
    BY <1>2, <1>4 DEF Continue, Evaluation
  <2>2. i \in DOMAIN laps
    BY DEF LatestStarted, OpenLaps
  <2> HIDE DEF e
  <2>3. QED
    BY <2>1, <2>2 DEF TypeInv, TypeOK
<1>5. QED
  BY <1>1, <1>3, <1>4 DEF ReadOpenLap

LEMMA ProlongedStopLeaves ==
  ASSUME Undisturbed, TypeInv, NEW w \in Workers, EvaluateProlongedStop(w)
  PROVE  LET e == ev[w]
             g == ev'[w]
         IN  /\ e.pc = "stop" /\ g.pc = "speed" /\ g.id = e.id /\ g.rep = e.rep
             /\ laps' = laps
             /\ \/ /\ g.lap = Moved(e.lap, e.rep.at)
                   /\ ~g.dirty => g.lap = e.lap
                   /\ fines' = fines
                \/ /\ g.lap = e.lap /\ g.dirty = e.dirty
                   /\ fines' = fines
                \/ /\ StopFineDue(e)
                   /\ g.lap = [e.lap EXCEPT !.stopFine = e.rep.at] /\ g.dirty
                   /\ fines' = fines \cup {NewFine(e, "PROLONGED_STOP", e.id, e.lap.lastMove)}
<1> DEFINE e == ev[w]
<1>1. e.pc = "stop" /\ laps' = laps
  BY DEF EvaluateProlongedStop
<1>2. e \in Evaluation /\ e.lap \in Lap
  BY <1>1, InHand DEF Label
<1>3. CASE /\ fines' = fines
           /\ Continue(w, [e EXCEPT !.pc = "speed", !.lap = Moved(e.lap, e.rep.at),
                                    !.dirty = Moved(e.lap, e.rep.at) # e.lap])
  <2> DEFINE m == Moved(e.lap, e.rep.at)
             g == [e EXCEPT !.pc = "speed", !.lap = m, !.dirty = m # e.lap]
  <2> HIDE DEF m
  <2>1. /\ g.pc = "speed" /\ g.id = e.id /\ g.rep = e.rep
        /\ g.lap = m /\ g.dirty = (m # e.lap)
    BY <1>2 DEF Evaluation
  <2>2. ev' = [ev EXCEPT ![w] = g]
    BY <1>3 DEF Continue, m
  <2> HIDE DEF g
  <2>3. ev'[w] = g
    BY <2>2 DEF TypeInv, TypeOK
  <2>4. QED
    BY <1>1, <1>3, <2>1, <2>3 DEF m
<1>4. CASE Goto(w, "speed") /\ fines' = fines
  <2> DEFINE g == [e EXCEPT !.pc = "speed"]
  <2>1. /\ g.pc = "speed" /\ g.id = e.id /\ g.rep = e.rep
        /\ g.lap = e.lap /\ g.dirty = e.dirty
    BY <1>2 DEF Evaluation
  <2>2. ev' = [ev EXCEPT ![w] = g]
    BY <1>4 DEF Goto
  <2> HIDE DEF g
  <2>3. ev'[w] = g
    BY <2>2 DEF TypeInv, TypeOK
  <2>4. QED
    BY <1>1, <1>4, <2>1, <2>3
<1>5. CASE /\ StopFineDue(e)
           /\ fines' = fines \cup {NewFine(e, "PROLONGED_STOP", e.id, e.lap.lastMove)}
           /\ Continue(w, [e EXCEPT !.pc = "speed", !.dirty = TRUE,
                                    !.lap.stopFine = e.rep.at])
  <2> DEFINE g == [e EXCEPT !.pc = "speed", !.dirty = TRUE, !.lap.stopFine = e.rep.at]
  <2>1. /\ g.pc = "speed" /\ g.id = e.id /\ g.rep = e.rep
        /\ g.lap = [e.lap EXCEPT !.stopFine = e.rep.at] /\ g.dirty
    BY <1>2 DEF Evaluation
  <2>2. ev' = [ev EXCEPT ![w] = g]
    BY <1>5 DEF Continue
  <2> HIDE DEF g
  <2>3. ev'[w] = g
    BY <2>2 DEF TypeInv, TypeOK
  <2>4. QED
    BY <1>1, <1>5, <2>1, <2>3
<1>6. QED
  BY <1>3, <1>4, <1>5, NoFault DEF EvaluateProlongedStop

LEMMA SpeedingLeaves ==
  ASSUME Undisturbed, TypeInv, NEW w \in Workers, EvaluateSpeeding(w)
  PROVE  LET e == ev[w]
             g == ev'[w]
         IN  /\ e.pc = "speed" /\ g.pc = "overtake" /\ g.id = e.id /\ g.rep = e.rep
             /\ laps' = laps
             /\ \/ /\ g.lap = e.lap /\ g.dirty = e.dirty
                   /\ fines' = fines
                \/ /\ SpeedFineDue(e)
                   /\ g.lap = [e.lap EXCEPT !.speedFine = e.rep.at] /\ g.dirty
                   /\ fines' = fines \cup {NewFine(e, "SPEEDING", e.id, Null)}
<1> DEFINE e == ev[w]
<1>1. e.pc = "speed" /\ laps' = laps
  BY DEF EvaluateSpeeding
<1>2. e \in Evaluation /\ e.lap \in Lap
  BY <1>1, InHand DEF Label
<1>3. CASE Goto(w, "overtake") /\ fines' = fines
  <2> DEFINE g == [e EXCEPT !.pc = "overtake"]
  <2>1. /\ g.pc = "overtake" /\ g.id = e.id /\ g.rep = e.rep
        /\ g.lap = e.lap /\ g.dirty = e.dirty
    BY <1>2 DEF Evaluation
  <2>2. ev' = [ev EXCEPT ![w] = g]
    BY <1>3 DEF Goto
  <2> HIDE DEF g
  <2>3. ev'[w] = g
    BY <2>2 DEF TypeInv, TypeOK
  <2>4. QED
    BY <1>1, <1>3, <2>1, <2>3
<1>4. CASE /\ SpeedFineDue(e)
           /\ fines' = fines \cup {NewFine(e, "SPEEDING", e.id, Null)}
           /\ Continue(w, [e EXCEPT !.pc = "overtake", !.dirty = TRUE,
                                    !.lap.speedFine = e.rep.at])
  <2> DEFINE g == [e EXCEPT !.pc = "overtake", !.dirty = TRUE, !.lap.speedFine = e.rep.at]
  <2>1. /\ g.pc = "overtake" /\ g.id = e.id /\ g.rep = e.rep
        /\ g.lap = [e.lap EXCEPT !.speedFine = e.rep.at] /\ g.dirty
    BY <1>2 DEF Evaluation
  <2>2. ev' = [ev EXCEPT ![w] = g]
    BY <1>4 DEF Continue
  <2> HIDE DEF g
  <2>3. ev'[w] = g
    BY <2>2 DEF TypeInv, TypeOK
  <2>4. QED
    BY <1>1, <1>4, <2>1, <2>3
<1>5. QED
  BY <1>3, <1>4, NoFault DEF EvaluateSpeeding

LEMMA OvertakingLeaves ==
  ASSUME Undisturbed, TypeInv, NEW w \in Workers, EvaluateOvertaking(w)
  PROVE  LET e == ev[w]
             g == ev'[w]
         IN  /\ e.pc = "overtake" /\ g.id = e.id /\ g.rep = e.rep
             /\ laps' = laps /\ fines' = fines
             /\ \/ g.pc = (IF e.dirty THEN "track" ELSE "gate") /\ g.lap = e.lap /\ g.dirty = e.dirty
                \/ /\ g.lap = [e.lap EXCEPT !.line = e.rep.line, !.prog = e.rep.prog] /\ g.dirty
                   /\ \/ g.pc = "track"
                      \/ g.pc = "rival" /\ g.rivals = Overtakers(e)
<1> DEFINE e == ev[w]
<1>1. e.pc = "overtake" /\ laps' = laps /\ fines' = fines
  BY DEF EvaluateOvertaking, tables
<1>2. e \in Evaluation /\ e.lap \in Lap
  BY <1>1, InHand DEF Label
<1> DEFINE placed == [e EXCEPT !.lap.line = e.rep.line, !.lap.prog = e.rep.prog, !.dirty = TRUE]
<1>3. CASE Goto(w, AfterInfractions(e.dirty))
  <2> DEFINE g == [e EXCEPT !.pc = AfterInfractions(e.dirty)]
  <2>1. /\ g.pc = (IF e.dirty THEN "track" ELSE "gate") /\ g.id = e.id /\ g.rep = e.rep
        /\ g.lap = e.lap /\ g.dirty = e.dirty
    BY <1>2 DEF Evaluation, AfterInfractions
  <2>2. ev' = [ev EXCEPT ![w] = g]
    BY <1>3 DEF Goto
  <2> HIDE DEF g
  <2>3. ev'[w] = g
    BY <2>2 DEF TypeInv, TypeOK
  <2>4. QED
    BY <1>1, <2>1, <2>3
<1>4. CASE Continue(w, [placed EXCEPT !.pc = "track"])
  <2> DEFINE g == [placed EXCEPT !.pc = "track"]
  <2>1. /\ g.pc = "track" /\ g.id = e.id /\ g.rep = e.rep
        /\ g.lap = [e.lap EXCEPT !.line = e.rep.line, !.prog = e.rep.prog] /\ g.dirty
    BY <1>2 DEF Evaluation
  <2>2. ev' = [ev EXCEPT ![w] = g]
    BY <1>4 DEF Continue
  <2> HIDE DEF g
  <2>3. ev'[w] = g
    BY <2>2 DEF TypeInv, TypeOK
  <2>4. QED
    BY <1>1, <2>1, <2>3
<1>5. CASE Continue(w, [placed EXCEPT !.pc = "rival", !.rivals = Overtakers(e)])
  <2> DEFINE g == [placed EXCEPT !.pc = "rival", !.rivals = Overtakers(e)]
  <2>1. /\ g.pc = "rival" /\ g.id = e.id /\ g.rep = e.rep /\ g.rivals = Overtakers(e)
        /\ g.lap = [e.lap EXCEPT !.line = e.rep.line, !.prog = e.rep.prog] /\ g.dirty
    BY <1>2 DEF Evaluation
  <2>2. ev' = [ev EXCEPT ![w] = g]
    BY <1>5 DEF Continue
  <2> HIDE DEF g
  <2>3. ev'[w] = g
    BY <2>2 DEF TypeInv, TypeOK
  <2>4. QED
    BY <1>1, <2>1, <2>3
<1>6. QED
  BY <1>3, <1>4, <1>5 DEF EvaluateOvertaking

LEMMA FineRivalLeaves ==
  ASSUME Undisturbed, TypeInv, NEW w \in Workers, FineRival(w)
  PROVE  LET e == ev[w]
             g == ev'[w]
         IN  /\ e.pc = "rival" /\ g.pc = "mark" /\ g.id = e.id /\ g.rep = e.rep
             /\ g.lap = e.lap /\ g.dirty = e.dirty
             /\ laps' = laps
             /\ \E r \in e.rivals :
                  /\ g.rivals = (e.rivals \ {r}) \cup {[r EXCEPT !.row.overtaken = TRUE]}
                  /\ fines' = fines \cup {NewFine(e, "OVERTAKING", r.id, Null)}
<1> DEFINE e == ev[w]
<1>1. e.pc = "rival" /\ laps' = laps
  BY DEF FineRival
<1>2. e \in Evaluation
  BY <1>1, InHand DEF Label
<1>3. PICK r \in e.rivals :
        LET rest == [e EXCEPT !.rivals = @ \ {r}]
        IN  /\ fines' = fines \cup {NewFine(e, "OVERTAKING", r.id, Null)}
            /\ Continue(w, [rest EXCEPT !.pc = "mark",
                              !.rivals = @ \cup {[r EXCEPT !.row.overtaken = TRUE]}])
  BY NoFault DEF FineRival
<1> DEFINE marked == [r EXCEPT !.row.overtaken = TRUE]
           g == [[e EXCEPT !.rivals = @ \ {r}] EXCEPT !.pc = "mark", !.rivals = @ \cup {marked}]
<1> HIDE DEF marked
<1>4. /\ g.pc = "mark" /\ g.id = e.id /\ g.rep = e.rep /\ g.lap = e.lap /\ g.dirty = e.dirty
      /\ g.rivals = (e.rivals \ {r}) \cup {marked}
  BY <1>2 DEF Evaluation
<1>5. ev' = [ev EXCEPT ![w] = g]
  BY <1>3 DEF Continue, marked
<1> HIDE DEF g
<1>6. ev'[w] = g
  BY <1>5 DEF TypeInv, TypeOK
<1>7. QED
  BY <1>1, <1>3, <1>4, <1>6 DEF marked

LEMMA MarkRivalLeaves ==
  ASSUME Undisturbed, TypeInv, NEW w \in Workers, MarkRival(w)
  PROVE  LET e == ev[w]
             g == ev'[w]
         IN  /\ e.pc = "mark" /\ g.pc \in {"rival", "track"} /\ g.id = e.id /\ g.rep = e.rep
             /\ g.lap = e.lap /\ g.dirty = e.dirty
             /\ fines' = fines
             /\ \E r \in e.rivals :
                  /\ r.row.overtaken
                  /\ g.rivals = e.rivals \ {r}
                  /\ laps' = [laps EXCEPT ![r.id] = Tracked(laps[r.id], r.row)]
<1> DEFINE e == ev[w]
<1>1. e.pc = "mark" /\ fines' = fines
  BY DEF MarkRival
<1>2. e \in Evaluation
  BY <1>1, InHand DEF Label
<1>3. PICK r \in e.rivals :
        LET rest == [e EXCEPT !.rivals = @ \ {r}]
        IN  /\ r.row.overtaken
            /\ Continue(w, [rest EXCEPT !.pc = NextRival(rest)])
            /\ laps' = [laps EXCEPT ![r.id] = Tracked(@, r.row)]
  BY NoFault DEF MarkRival
<1> DEFINE rest == [e EXCEPT !.rivals = @ \ {r}]
           l == NextRival(rest)
           g == [rest EXCEPT !.pc = l]
<1>4. l \in {"rival", "track"}
  BY DEF NextRival
<1> HIDE DEF l
<1>5. /\ g.pc = l /\ g.id = e.id /\ g.rep = e.rep /\ g.lap = e.lap /\ g.dirty = e.dirty
      /\ g.rivals = e.rivals \ {r}
  BY <1>2 DEF Evaluation
<1>6. ev' = [ev EXCEPT ![w] = g]
  BY <1>3 DEF Continue, l
<1> HIDE DEF g
<1>7. ev'[w] = g
  BY <1>6 DEF TypeInv, TypeOK
<1>8. QED
  BY <1>1, <1>3, <1>4, <1>5, <1>7

LEMMA UpdateTrackingLeaves ==
  ASSUME Undisturbed, TypeInv, NEW w \in Workers, UpdateTracking(w)
  PROVE  /\ ev[w].pc = "track" /\ ev'[w].pc = "gate" /\ fines' = fines
         /\ laps' = [laps EXCEPT ![ev[w].id] = Tracked(laps[ev[w].id], ev[w].lap)]
<1>1. ev[w].pc = "track" /\ fines' = fines
  BY DEF UpdateTracking
<1>2. ev[w] \in Evaluation
  BY <1>1, InHand DEF Label
<1>3. laps' = [laps EXCEPT ![ev[w].id] = Tracked(@, ev[w].lap)]
  BY NoFault DEF UpdateTracking
<1>4. ev' = [ev EXCEPT ![w] = [ev[w] EXCEPT !.pc = "gate"]]
  BY DEF UpdateTracking, Goto
<1>5. ev'[w].pc = "gate"
  BY <1>2, <1>4 DEF TypeInv, TypeOK, Evaluation
<1>6. QED
  BY <1>1, <1>3, <1>5

\* The columns of a lap that say what was fined are the same in two rows.
SameMemory(a, b) ==
  /\ a.veh = b.veh
  /\ a.lastMove = b.lastMove
  /\ a.stopFine = b.stopFine
  /\ a.speedFine = b.speedFine
  /\ a.overtaken = b.overtaken

LEMMA OneRowMemory ==
  ASSUME TypeInv, NEW k \in DOMAIN laps, NEW row \in Lap, SameMemory(row, laps[k]),
         laps' = [laps EXCEPT ![k] = row]
  PROVE  \A i \in DOMAIN laps : i \in DOMAIN laps' /\ SameMemory(laps'[i], laps[i])
BY UpdateRow DEF TypeInv, TypeOK, SameMemory

\* At the checkpoint nothing changes what the laps remember.
LEMMA CheckpointLeaves ==
  ASSUME Undisturbed, TypeInv, NEW w \in Workers,
         \/ CrossCheckpoint(w) \/ CloseLap(w) \/ FineLateLap(w) \/ ChargeLap(w)
         \/ OpenNextLap(w)
  PROVE  /\ ev[w].pc \notin Rolling /\ ev'[w].pc \notin Rolling
         /\ \A i \in DOMAIN laps : i \in DOMAIN laps' /\ SameMemory(laps'[i], laps[i])
         /\ \A f \in fines' : f \in fines \/ f.type = "LAP_TIME"
<1>1. ev[w].pc \in Label \ Rolling
  BY DEF CrossCheckpoint, CloseLap, FineLateLap, ChargeLap, OpenNextLap, Label, Rolling
<1>2. ev[w] \in Evaluation
  BY <1>1, Evaluating DEF TypeInv
<1>3. ASSUME NEW l \in {"open", "close", "late", "charge"}, Goto(w, l)
      PROVE  ev'[w].pc \notin Rolling
  <2>1. ev'[w].pc = l
    BY <1>2, <1>3 DEF TypeInv, TypeOK, Goto, Evaluation
  <2>2. QED
    BY <2>1 DEF Rolling
<1>4. ASSUME Return(w)
      PROVE  ev'[w].pc \notin Rolling
  BY <1>4 DEF TypeInv, TypeOK, Return, Idle, Rolling
<1>5. \A i \in DOMAIN laps : laps[i] \in Lap
  BY RowIsLap DEF TypeInv, TypeOK
<1>6. ASSUME UNCHANGED laps
      PROVE  \A i \in DOMAIN laps : i \in DOMAIN laps' /\ SameMemory(laps'[i], laps[i])
  BY <1>6 DEF SameMemory
<1>7. CASE CrossCheckpoint(w)
  <2>1. ev'[w].pc \notin Rolling /\ fines' = fines
    BY <1>3, <1>4, <1>7 DEF CrossCheckpoint
  <2>2. CASE ev[w].id # 0 /\ laps' = [laps EXCEPT ![ev[w].id].toured = TRUE]
    <3> DEFINE row == [laps[ev[w].id] EXCEPT !.toured = TRUE]
    <3>1. ev[w].id \in DOMAIN laps
      BY <1>1, <2>2, MemoryIsGood DEF GoodMemory, Idle, Label
    <3>2. row \in Lap /\ SameMemory(row, laps[ev[w].id])
      BY <1>5, <3>1 DEF Lap, SameMemory
    <3>3. laps' = [laps EXCEPT ![ev[w].id] = row]
      BY <2>2
    <3> HIDE DEF row
    <3>4. QED
      BY <1>1, <2>1, <3>1, <3>2, <3>3, OneRowMemory
  <2>3. QED
    BY <1>1, <1>6, <1>7, <2>1, <2>2 DEF CrossCheckpoint
<1>8. CASE CloseLap(w)
  <2> DEFINE id == ev[w].id
             status == ComputeLapStatus(ev[w].rep.at - ev[w].lap.start, ev[w].lap.allowed)
             row == [laps[id] EXCEPT !.status = status, !.ended = ev[w].rep.at]
  <2>1. id \in DOMAIN laps /\ ev[w].rep.at \in Time /\ status \in Finished
    BY <1>8, InHand, LapStatusComputed DEF CloseLap, Label
  <2> HIDE DEF status
  <2>2. row \in Lap /\ SameMemory(row, laps[id])
    <3>1. row \in Lap
      BY <1>5, <2>1, WrittenRows
    <3>2. QED
      BY <1>5, <2>1, <3>1 DEF Lap, SameMemory
  <2>3. /\ laps' = [laps EXCEPT ![id].status = status, ![id].ended = ev[w].rep.at]
        /\ Goto(w, IF status = "LATE" THEN "late" ELSE "charge")
        /\ fines' = fines
    BY <1>8, NoFault DEF CloseLap, status
  <2>4. laps' = [laps EXCEPT ![id] = row]
    BY <2>1, <2>3 DEF TypeInv, TypeOK
  <2> HIDE DEF row
  <2>5. QED
    BY <1>1, <1>3, <2>1, <2>2, <2>3, <2>4, OneRowMemory
<1>9. CASE FineLateLap(w)
  <2>1. Goto(w, "charge") /\ laps' = laps
        /\ fines' = fines \cup {NewFine(ev[w], "LAP_TIME", ev[w].id, Null)}
    BY <1>9, NoFault DEF FineLateLap
  <2>2. NewFine(ev[w], "LAP_TIME", ev[w].id, Null).type = "LAP_TIME"
    BY DEF NewFine
  <2>3. QED
    BY <1>1, <1>3, <1>6, <2>1, <2>2
<1>10. CASE ChargeLap(w)
  BY <1>1, <1>3, <1>6, <1>10 DEF ChargeLap
<1>11. CASE OpenNextLap(w)
  <2>1. laps' = Append(laps, NewLap(ev[w])) /\ Return(w) /\ fines' = fines
    BY <1>11, NoFault DEF OpenNextLap
  <2>2. NewLap(ev[w]) \in Lap
    BY <1>11, NewLapIsLap DEF OpenNextLap
  <2>3. QED
    BY <1>1, <1>4, <2>1, <2>2, InsertRow DEF TypeInv, TypeOK, SameMemory
<1>12. QED
  BY <1>7, <1>8, <1>9, <1>10, <1>11

-----------------------------------------------------------------------------
(* Copies in hand.                                                         *)

\* The rivals found are other laps as the table has them, but for the flag of
\* the one that is being marked.
RivalsFresh(e, table) ==
  /\ \A r \in e.rivals :
       /\ r.id # e.id
       /\ r.row = [table[r.id] EXCEPT !.overtaken = r.row.overtaken]
       /\ r.row.overtaken => e.pc = "mark"
       /\ ~r.row.overtaken => ~table[r.id].overtaken
  /\ \A r, s \in e.rivals : r.id = s.id \/ (r.row.overtaken /\ s.row.overtaken) => r = s

\* The copy of the lap in hand is the row, but for what this evaluation has
\* changed and will write.
CopyFresh(e, table) ==
  /\ e.lap.veh = table[e.id].veh
  /\ e.lap.overtaken = table[e.id].overtaken
  /\ e.pc = "stop" => e.lap = table[e.id]
  /\ ~e.dirty => e.lap = table[e.id]
  /\ e.pc \in {"rival", "mark"} => RivalsFresh(e, table)

CopyInv == \A w \in Workers : ev[w].pc \in Rolling => CopyFresh(ev[w], laps)

\* With one goroutine there is one copy to look after.
LEMMA CopyByStep ==
  ASSUME Undisturbed, NEW w \in Workers, ev'[w].pc \in Rolling => CopyFresh(ev'[w], laps')
  PROVE  CopyInv'
<1>1. \A u \in Workers : u = w
  BY DEF Undisturbed
<1>2. QED
  BY <1>1 DEF CopyInv

LEMMA ProlongedStopKeepsCopy ==
  ASSUME Undisturbed, TypeInv, CopyInv, NEW w \in Workers, EvaluateProlongedStop(w)
  PROVE  CopyInv'
<1> DEFINE e == ev[w]
           g == ev'[w]
<1>1. /\ e.pc = "stop" /\ g.pc = "speed" /\ g.id = e.id /\ laps' = laps
      /\ \/ g.lap = Moved(e.lap, e.rep.at) /\ (~g.dirty => g.lap = e.lap)
         \/ g.lap = e.lap
         \/ g.lap = [e.lap EXCEPT !.stopFine = e.rep.at] /\ g.dirty
  BY ProlongedStopLeaves
<1>2. e.lap \in Lap /\ e.lap = laps[e.id]
  BY <1>1, InHand DEF Label, Rolling, CopyInv, CopyFresh
<1>3. /\ g.lap.veh = e.lap.veh /\ g.lap.overtaken = e.lap.overtaken
      /\ ~g.dirty => g.lap = e.lap
  BY <1>1, <1>2 DEF Moved, Lap
<1> HIDE DEF e, g
<1>4. CopyFresh(g, laps')
  BY <1>1, <1>2, <1>3 DEF CopyFresh
<1>5. QED
  BY <1>4, CopyByStep DEF g

LEMMA SpeedingKeepsCopy ==
  ASSUME Undisturbed, TypeInv, CopyInv, NEW w \in Workers, EvaluateSpeeding(w)
  PROVE  CopyInv'
<1> DEFINE e == ev[w]
           g == ev'[w]
<1>1. /\ e.pc = "speed" /\ g.pc = "overtake" /\ g.id = e.id /\ laps' = laps
      /\ \/ g.lap = e.lap /\ g.dirty = e.dirty
         \/ g.lap = [e.lap EXCEPT !.speedFine = e.rep.at] /\ g.dirty
  BY SpeedingLeaves
<1>2. e.lap \in Lap /\ CopyFresh(e, laps)
  BY <1>1, InHand DEF Label, Rolling, CopyInv
<1>3. /\ g.lap.veh = e.lap.veh /\ g.lap.overtaken = e.lap.overtaken
      /\ ~g.dirty => ~e.dirty /\ g.lap = e.lap
  BY <1>1, <1>2 DEF Lap
<1> HIDE DEF e, g
<1>4. CopyFresh(g, laps')
  BY <1>1, <1>2, <1>3 DEF CopyFresh
<1>5. QED
  BY <1>4, CopyByStep DEF g

LEMMA OvertakersAreFresh ==
  ASSUME TypeInv, NEW e, NEW g, e.lap.veh = laps[e.id].veh,
         g.rivals = Overtakers(e), g.id = e.id
  PROVE  RivalsFresh(g, laps)
<1>1. ASSUME NEW r \in g.rivals
      PROVE  /\ r.id \in DOMAIN laps /\ r.row = laps[r.id] /\ ~laps[r.id].overtaken
             /\ laps[r.id].veh # e.lap.veh /\ r = [id |-> r.id, row |-> laps[r.id]]
  BY <1>1 DEF Overtakers, OpenLapsByRoute
<1>2. \A r \in g.rivals : laps[r.id] \in Lap
  BY <1>1, RowIsLap DEF TypeInv, TypeOK
<1>3. \A r \in g.rivals : laps[r.id] = [laps[r.id] EXCEPT !.overtaken = laps[r.id].overtaken]
  BY <1>2 DEF Lap
<1>4. \A r \in g.rivals : r.id # g.id /\ ~r.row.overtaken
  BY <1>1
<1>5. \A r \in g.rivals : r.row = [laps[r.id] EXCEPT !.overtaken = r.row.overtaken]
  BY <1>1, <1>3
<1>6. \A r, s \in g.rivals : r.id = s.id => r = s
  BY <1>1
<1>7. QED
  BY <1>1, <1>4, <1>5, <1>6 DEF RivalsFresh

LEMMA OvertakingKeepsCopy ==
  ASSUME Undisturbed, TypeInv, CopyInv, NEW w \in Workers, EvaluateOvertaking(w)
  PROVE  CopyInv'
<1> DEFINE e == ev[w]
           g == ev'[w]
<1>1. /\ e.pc = "overtake" /\ g.id = e.id /\ laps' = laps
      /\ \/ g.pc \in {"track", "gate"} /\ g.lap = e.lap /\ g.dirty = e.dirty
         \/ /\ g.lap = [e.lap EXCEPT !.line = e.rep.line, !.prog = e.rep.prog] /\ g.dirty
            /\ g.pc = "track" \/ (g.pc = "rival" /\ g.rivals = Overtakers(e))
  BY OvertakingLeaves
<1>2. e.lap \in Lap /\ CopyFresh(e, laps)
  BY <1>1, InHand DEF Label, Rolling, CopyInv
<1>3. /\ g.lap.veh = e.lap.veh /\ g.lap.overtaken = e.lap.overtaken
      /\ ~g.dirty => ~e.dirty /\ g.lap = e.lap
  BY <1>1, <1>2 DEF Lap
<1> HIDE DEF e, g
<1>4. g.pc \in {"rival", "mark"} => RivalsFresh(g, laps)
  BY <1>1, <1>2, OvertakersAreFresh DEF CopyFresh
<1>5. g.pc # "stop"
  BY <1>1
<1>6. CopyFresh(g, laps')
  BY <1>1, <1>2, <1>3, <1>4, <1>5 DEF CopyFresh
<1>7. QED
  BY <1>6, CopyByStep DEF g

\* Flagging another row changes nothing that the rivals still to judge rely on.
LEMMA FineRivalKeepsCopy ==
  ASSUME Undisturbed, TypeInv, CopyInv, NEW w \in Workers, FineRival(w)
  PROVE  CopyInv'
<1> DEFINE e == ev[w]
           g == ev'[w]
<1>1. /\ e.pc = "rival" /\ g.pc = "mark" /\ g.id = e.id /\ laps' = laps
      /\ g.lap = e.lap /\ g.dirty = e.dirty
  BY FineRivalLeaves
<1>2. PICK r \in e.rivals : g.rivals = (e.rivals \ {r}) \cup {[r EXCEPT !.row.overtaken = TRUE]}
  BY FineRivalLeaves
<1>3. CopyFresh(e, laps) /\ \A s \in e.rivals : s \in Rival /\ laps[s.id] \in Lap
  BY <1>1, InHand, RowIsLap DEF Label, Rolling, CopyInv, TypeInv, TypeOK
<1> DEFINE m == [r EXCEPT !.row.overtaken = TRUE]
<1>4. m.id = r.id /\ m.row.overtaken = TRUE /\ m.row = [r.row EXCEPT !.overtaken = TRUE]
  BY <1>3 DEF Rival, Lap
<1>5. RivalsFresh(e, laps)
  BY <1>1, <1>3 DEF CopyFresh
<1>6. m.row = [laps[r.id] EXCEPT !.overtaken = TRUE]
  <2>1. r.row = [laps[r.id] EXCEPT !.overtaken = r.row.overtaken] /\ laps[r.id] \in Lap
    BY <1>3, <1>5 DEF RivalsFresh
  <2>2. QED
    BY <1>4, <2>1 DEF Lap
<1> HIDE DEF m
<1>7. \A s \in g.rivals : s = m \/ (s \in e.rivals /\ s # r)
  BY <1>2 DEF m
<1> HIDE DEF e, g
<1>8. \A s \in e.rivals : ~s.row.overtaken
  BY <1>1, <1>5 DEF RivalsFresh
<1>9. RivalsFresh(g, laps)
  <2>1. ASSUME NEW s \in g.rivals
        PROVE  /\ s.id # g.id
               /\ s.row = [laps[s.id] EXCEPT !.overtaken = s.row.overtaken]
               /\ s.row.overtaken => g.pc = "mark"
               /\ ~s.row.overtaken => ~laps[s.id].overtaken
    <3>1. CASE s = m
      BY <1>1, <1>4, <1>5, <1>6, <3>1 DEF RivalsFresh
    <3>2. CASE s \in e.rivals
      BY <1>1, <1>5, <3>2 DEF RivalsFresh
    <3>3. QED
      BY <1>7, <3>1, <3>2
  <2>2. ASSUME NEW s \in g.rivals, NEW t \in g.rivals,
               s.id = t.id \/ (s.row.overtaken /\ t.row.overtaken)
        PROVE  s = t
    BY <1>4, <1>5, <1>7, <1>8, <2>2 DEF RivalsFresh
  <2>3. QED
    BY <2>1, <2>2 DEF RivalsFresh
<1>10. CopyFresh(g, laps')
  BY <1>1, <1>3, <1>9 DEF CopyFresh
<1>11. QED
  BY <1>10, CopyByStep DEF g

\* MarkRival writes the row as it was, flagged: its copy is still fresh.
LEMMA MarkRivalFlags ==
  ASSUME Undisturbed, TypeInv, CopyInv, NEW w \in Workers, MarkRival(w)
  PROVE  \E r \in ev[w].rivals :
           /\ r.row.overtaken /\ r.id \in DOMAIN laps /\ r.id # ev[w].id
           /\ ev'[w].rivals = ev[w].rivals \ {r}
           /\ DOMAIN laps' = DOMAIN laps
           /\ laps'[r.id] = [laps[r.id] EXCEPT !.overtaken = TRUE]
           /\ \A i \in DOMAIN laps : i # r.id => laps'[i] = laps[i]
<1>1. ev[w].pc = "mark"
  BY MarkRivalLeaves
<1>2. PICK r \in ev[w].rivals :
        /\ r.row.overtaken
        /\ ev'[w].rivals = ev[w].rivals \ {r}
        /\ laps' = [laps EXCEPT ![r.id] = Tracked(laps[r.id], r.row)]
  BY MarkRivalLeaves
<1>3. CopyFresh(ev[w], laps) /\ r \in Rival /\ r.id \in DOMAIN laps /\ laps[r.id] \in Lap
  BY <1>1, InHand, RowIsLap DEF Label, Rolling, CopyInv, TypeInv, TypeOK
<1>4. r.id # ev[w].id /\ r.row = [laps[r.id] EXCEPT !.overtaken = TRUE]
  BY <1>1, <1>2, <1>3 DEF CopyFresh, RivalsFresh, Rival, Lap
<1> DEFINE row == [laps[r.id] EXCEPT !.overtaken = TRUE]
<1>5. Tracked(laps[r.id], r.row) = row /\ row \in Lap
  BY <1>3, <1>4 DEF Tracked, Lap
<1> HIDE DEF row
<1>6. laps' = [laps EXCEPT ![r.id] = row]
  BY <1>2, <1>5
<1>7. /\ DOMAIN laps' = DOMAIN laps
      /\ \A i \in DOMAIN laps : laps'[i] = IF i = r.id THEN row ELSE laps[i]
  BY <1>3, <1>5, <1>6, UpdateRow DEF TypeInv, TypeOK
<1>8. QED
  BY <1>2, <1>3, <1>4, <1>7 DEF row

LEMMA MarkRivalKeepsCopy ==
  ASSUME Undisturbed, TypeInv, CopyInv, NEW w \in Workers, MarkRival(w)
  PROVE  CopyInv'
<1> DEFINE e == ev[w]
           g == ev'[w]
<1>1. /\ e.pc = "mark" /\ g.pc \in {"rival", "track"} /\ g.id = e.id
      /\ g.lap = e.lap /\ g.dirty = e.dirty
  BY MarkRivalLeaves
<1>2. PICK r \in e.rivals :
        /\ r.row.overtaken /\ r.id # e.id
        /\ g.rivals = e.rivals \ {r}
        /\ \A i \in DOMAIN laps : i # r.id => laps'[i] = laps[i]
  BY MarkRivalFlags
<1>3. CopyFresh(e, laps) /\ e.id \in DOMAIN laps /\ \A s \in e.rivals : s.id \in DOMAIN laps
  BY <1>1, InHand DEF Label, Rolling, CopyInv
<1> HIDE DEF e, g
<1>4. RivalsFresh(e, laps) /\ laps'[e.id] = laps[e.id]
  BY <1>1, <1>2, <1>3 DEF CopyFresh
<1>5. \A s \in g.rivals : s \in e.rivals /\ ~s.row.overtaken /\ laps'[s.id] = laps[s.id]
  BY <1>2, <1>3, <1>4 DEF RivalsFresh
<1>6. RivalsFresh(g, laps')
  BY <1>1, <1>4, <1>5 DEF RivalsFresh
<1>7. CopyFresh(g, laps')
  BY <1>1, <1>3, <1>4, <1>6 DEF CopyFresh
<1>8. QED
  BY <1>7, CopyByStep DEF g

LEMMA NextKeepsCopy ==
  ASSUME Undisturbed, TypeInv, CopyInv, [Next]_vars
  PROVE  CopyInv'
<1>1. ASSUME NEW w \in Workers, Step(w)
      PROVE  CopyInv'
  <2>1. CASE ReadOpenLap(w)
    <3>1. /\ laps' = laps
          /\ ev'[w].pc = "gate" \/ (ev'[w].pc = "stop" /\ ev'[w].lap = laps[ev'[w].id])
      BY <2>1, ReadOpenLapLeaves
    <3>2. ev'[w].pc \in Rolling => CopyFresh(ev'[w], laps')
      BY <3>1 DEF CopyFresh, Rolling
    <3>3. QED
      BY <3>2, CopyByStep
  <2>2. CASE EvaluateProlongedStop(w) \/ EvaluateSpeeding(w) \/ EvaluateOvertaking(w)
    BY <2>2, ProlongedStopKeepsCopy, SpeedingKeepsCopy, OvertakingKeepsCopy
  <2>3. CASE FineRival(w) \/ MarkRival(w)
    BY <2>3, FineRivalKeepsCopy, MarkRivalKeepsCopy
  <2>4. CASE UpdateTracking(w)
    BY <2>4, UpdateTrackingLeaves, CopyByStep DEF Rolling
  <2>5. CASE \/ CrossCheckpoint(w) \/ CloseLap(w) \/ FineLateLap(w) \/ ChargeLap(w)
             \/ OpenNextLap(w)
    BY <2>5, CheckpointLeaves, CopyByStep
  <2>6. QED
    BY <1>1, <2>1, <2>2, <2>3, <2>4, <2>5 DEF Step
<1>2. ASSUME NEW w \in Workers, NEW p \in Reports, Receive(w, p)
      PROVE  CopyInv'
  <2>1. laps' = laps /\ (ev' = ev \/ ev'[w].pc = "lap")
    BY <1>2 DEF Receive, Continue, tables, TypeInv, TypeOK
  <2>2. CASE ev' = ev
    BY <2>1, <2>2 DEF CopyInv
  <2>3. CASE ev'[w].pc = "lap"
    BY <2>3, CopyByStep DEF Rolling
  <2>4. QED
    BY <2>1, <2>2, <2>3
<1>3. ASSUME laps' = laps, ev' = ev
      PROVE  CopyInv'
  BY <1>3 DEF CopyInv
<1>4. CASE \E v \in Vehicles, r \in Routes \cup {NoRoute} : Reassign(v, r)
  BY <1>3, <1>4 DEF Reassign, tables
<1>5. CASE UNCHANGED vars
  BY <1>3, <1>5 DEF vars
<1>6. ~Crash /\ \A w \in Workers : ~ReadFails(w)
  BY NoFault DEF Crash, ReadFails
<1>7. QED
  BY <1>1, <1>2, <1>4, <1>5, <1>6 DEF Next

-----------------------------------------------------------------------------
(* Fines for overtaking.                                                   *)

\* The lap of a rival just fined, which MarkRival flags next.
Marking(e, i) == e.pc = "mark" /\ \E r \in e.rivals : r.id = i /\ r.row.overtaken

OvertakeInv ==
  /\ \A f \in fines : f.type = "OVERTAKING" =>
       laps[f.lap].overtaken \/ \E w \in Workers : Marking(ev[w], f.lap)
  /\ OneOvertakingFinePerLap

\* What the invariants of the fines rest on.
RecordsInv == LapInv /\ CopyInv

LEMMA Alone ==
  ASSUME Undisturbed, NEW w \in Workers
  PROVE  \A u \in Workers : u = w
BY DEF Undisturbed

\* A step that fines nobody for overtaking and keeps the flags.
LEMMA QuietOvertaking ==
  ASSUME Undisturbed, TypeInv, OvertakeInv, NEW w \in Workers, ev[w].pc # "mark",
         \A i \in DOMAIN laps : laps'[i].overtaken = laps[i].overtaken,
         \A f \in fines' : f \in fines \/ f.type # "OVERTAKING"
  PROVE  OvertakeInv'
<1>1. \A f \in fines : f.lap \in DOMAIN laps
  BY DEF TypeInv, TypeOK
<1>2. \A u \in Workers : \A i : ~Marking(ev[u], i)
  BY Alone DEF Marking
<1>3. \A f \in fines' : f.type = "OVERTAKING" => laps'[f.lap].overtaken
  BY <1>1, <1>2 DEF OvertakeInv
<1>4. OneOvertakingFinePerLap'
  BY DEF OvertakeInv, OneOvertakingFinePerLap
<1>5. QED
  BY <1>3, <1>4 DEF OvertakeInv

\* A rival that is about to be fined has no such fine: if it had one its lap
\* would be flagged, and the query leaves flagged laps out.
LEMMA FineRivalKeepsOvertaking ==
  ASSUME Undisturbed, RecordsInv, OvertakeInv, NEW w \in Workers, FineRival(w)
  PROVE  OvertakeInv'
<1> DEFINE e == ev[w]
           g == ev'[w]
<1>1. e.pc = "rival" /\ g.pc = "mark" /\ laps' = laps
  BY FineRivalLeaves DEF RecordsInv, LapInv
<1>2. PICK r \in e.rivals :
        /\ g.rivals = (e.rivals \ {r}) \cup {[r EXCEPT !.row.overtaken = TRUE]}
        /\ fines' = fines \cup {NewFine(e, "OVERTAKING", r.id, Null)}
  BY FineRivalLeaves DEF RecordsInv, LapInv
<1> DEFINE n == NewFine(e, "OVERTAKING", r.id, Null)
           m == [r EXCEPT !.row.overtaken = TRUE]
<1>3. r \in Rival /\ CopyFresh(e, laps)
  BY <1>1, <1>2, InHand DEF Label, Rolling, RecordsInv, LapInv, CopyInv
<1>4. m.id = r.id /\ m.row.overtaken = TRUE
  BY <1>3 DEF Rival, Lap
<1>5. n.lap = r.id /\ n.type = "OVERTAKING"
  BY DEF NewFine
<1>6. ~laps[r.id].overtaken
  BY <1>1, <1>2, <1>3 DEF CopyFresh, RivalsFresh
<1>7. fines' = fines \cup {n} /\ m \in g.rivals
  BY <1>2
<1> HIDE DEF n, m
<1>8. \A f \in fines : f.type = "OVERTAKING" => laps[f.lap].overtaken
  BY <1>1, Alone DEF OvertakeInv, Marking
<1>9. OneOvertakingFinePerLap'
  BY <1>5, <1>6, <1>7, <1>8 DEF OneOvertakingFinePerLap, OvertakeInv
<1>10. Marking(g, r.id)
  BY <1>1, <1>4, <1>7 DEF Marking
<1> HIDE DEF e
<1>11. \A f \in fines' : f.type = "OVERTAKING" =>
         laps'[f.lap].overtaken \/ Marking(g, f.lap)
  BY <1>1, <1>5, <1>7, <1>8, <1>10
<1>12. QED
  BY <1>9, <1>11 DEF OvertakeInv

LEMMA MarkRivalKeepsOvertaking ==
  ASSUME Undisturbed, RecordsInv, OvertakeInv, NEW w \in Workers, MarkRival(w)
  PROVE  OvertakeInv'
<1>1. ev[w].pc = "mark" /\ fines' = fines
  BY MarkRivalLeaves DEF RecordsInv, LapInv
<1>2. PICK r \in ev[w].rivals :
        /\ r.row.overtaken /\ r.id \in DOMAIN laps
        /\ laps'[r.id] = [laps[r.id] EXCEPT !.overtaken = TRUE]
        /\ \A i \in DOMAIN laps : i # r.id => laps'[i] = laps[i]
  BY MarkRivalFlags DEF RecordsInv, LapInv
<1>3. CopyFresh(ev[w], laps) /\ laps[r.id] \in Lap
  BY <1>1, <1>2, RowIsLap DEF Rolling, RecordsInv, LapInv, CopyInv, TypeInv, TypeOK
<1>4. \A s \in ev[w].rivals : s.row.overtaken => s = r
  BY <1>1, <1>2, <1>3 DEF CopyFresh, RivalsFresh
<1>5. laps'[r.id].overtaken
  BY <1>2, <1>3 DEF Lap
<1>6. \A f \in fines : f.lap \in DOMAIN laps
  BY DEF RecordsInv, LapInv, TypeInv, TypeOK
<1>7. ASSUME NEW f \in fines, f.type = "OVERTAKING"
      PROVE  laps'[f.lap].overtaken
  <2>1. CASE f.lap = r.id
    BY <1>5, <2>1
  <2>2. CASE f.lap # r.id
    <3>1. ~ \E u \in Workers : Marking(ev[u], f.lap)
      BY <1>4, <2>2, Alone DEF Marking
    <3>2. laps[f.lap].overtaken
      BY <1>7, <3>1 DEF OvertakeInv
    <3>3. QED
      BY <1>2, <1>6, <2>2, <3>2
  <2>3. QED
    BY <2>1, <2>2
<1>8. OneOvertakingFinePerLap'
  BY <1>1 DEF OneOvertakingFinePerLap, OvertakeInv
<1>9. QED
  BY <1>1, <1>7, <1>8 DEF OvertakeInv

\* The row written by UpdateTracking.
LEMMA UpdateTrackingSaves ==
  ASSUME Undisturbed, RecordsInv, NEW w \in Workers, UpdateTracking(w)
  PROVE  LET id == ev[w].id
             lap == ev[w].lap
         IN  /\ id \in DOMAIN laps /\ DOMAIN laps' = DOMAIN laps
             /\ \A i \in DOMAIN laps : i # id => laps'[i] = laps[i]
             /\ SameMemory(laps'[id], lap)
             /\ laps'[id].veh = laps[id].veh
             /\ laps'[id].overtaken = laps[id].overtaken
<1> DEFINE id == ev[w].id
           lap == ev[w].lap
           row == Tracked(laps[id], lap)
<1>1. ev[w].pc = "track" /\ laps' = [laps EXCEPT ![id] = row]
  BY UpdateTrackingLeaves DEF RecordsInv, LapInv
<1>2. lap \in Lap /\ id \in DOMAIN laps /\ laps[id] \in Lap /\ CopyFresh(ev[w], laps)
  BY <1>1, InHand DEF Label, Rolling, RecordsInv, LapInv, CopyInv
<1>3. lap.veh = laps[id].veh /\ lap.overtaken = laps[id].overtaken
  BY <1>2 DEF CopyFresh
<1>4. row \in Lap
  BY <1>2, WrittenRows
<1> HIDE DEF id, lap
<1>5. SameMemory(row, lap) /\ row.veh = laps[id].veh /\ row.overtaken = laps[id].overtaken
  BY <1>2, <1>3 DEF Tracked, Lap, SameMemory
<1> HIDE DEF row
<1>6. /\ DOMAIN laps' = DOMAIN laps
      /\ \A i \in DOMAIN laps : laps'[i] = IF i = id THEN row ELSE laps[i]
  BY <1>1, <1>2, <1>4, UpdateRow DEF RecordsInv, LapInv, TypeInv, TypeOK
<1>7. QED
  BY <1>2, <1>5, <1>6 DEF id, lap

LEMMA NextKeepsOvertaking ==
  ASSUME Undisturbed, RecordsInv, OvertakeInv, [Next]_vars
  PROVE  OvertakeInv'
<1>0. TypeInv
  BY DEF RecordsInv, LapInv
<1>1. ASSUME NEW w \in Workers, Step(w)
      PROVE  OvertakeInv'
  <2>1. CASE ReadOpenLap(w)
    <3>1. ev[w].pc # "mark" /\ laps' = laps /\ fines' = fines
      BY <2>1 DEF ReadOpenLap, tables
    <3>2. QED
      BY <1>0, <3>1, QuietOvertaking
  <2>2. CASE EvaluateProlongedStop(w) \/ EvaluateSpeeding(w) \/ EvaluateOvertaking(w)
    <3>1. ev[w].pc # "mark" /\ laps' = laps
      BY <1>0, <2>2, ProlongedStopLeaves, SpeedingLeaves, OvertakingLeaves
    <3>2. \A f \in fines' : f \in fines \/ f.type # "OVERTAKING"
      <4>1. PICK type, id, since :
              /\ type \in {"PROLONGED_STOP", "SPEEDING"}
              /\ fines' = fines \/ fines' = fines \cup {NewFine(ev[w], type, id, since)}
        BY <2>2 DEF EvaluateProlongedStop, EvaluateSpeeding, EvaluateOvertaking, tables
      <4>2. NewFine(ev[w], type, id, since).type = type
        BY DEF NewFine
      <4>3. QED
        BY <4>1, <4>2
    <3>3. QED
      BY <1>0, <3>1, <3>2, QuietOvertaking
  <2>3. CASE FineRival(w) \/ MarkRival(w)
    BY <2>3, FineRivalKeepsOvertaking, MarkRivalKeepsOvertaking
  <2>4. CASE UpdateTracking(w)
    <3>1. ev[w].pc # "mark" /\ fines' = fines
      BY <1>0, <2>4, UpdateTrackingLeaves
    <3>2. \A i \in DOMAIN laps : laps'[i].overtaken = laps[i].overtaken
      BY <2>4, UpdateTrackingSaves
    <3>3. QED
      BY <1>0, <3>1, <3>2, QuietOvertaking
  <2>5. CASE \/ CrossCheckpoint(w) \/ CloseLap(w) \/ FineLateLap(w) \/ ChargeLap(w)
             \/ OpenNextLap(w)
    <3>1. ev[w].pc \notin Rolling
      BY <1>0, <2>5, CheckpointLeaves
    <3>2. /\ \A i \in DOMAIN laps : laps'[i].overtaken = laps[i].overtaken
          /\ \A f \in fines' : f \in fines \/ f.type # "OVERTAKING"
      BY <1>0, <2>5, CheckpointLeaves DEF SameMemory
    <3>3. QED
      BY <1>0, <3>1, <3>2, QuietOvertaking DEF Rolling
  <2>6. QED
    BY <1>1, <2>1, <2>2, <2>3, <2>4, <2>5 DEF Step
<1>2. ASSUME NEW w \in Workers, NEW p \in Reports, Receive(w, p)
      PROVE  OvertakeInv'
  <2>1. ev[w].pc # "mark" /\ laps' = laps /\ fines' = fines
    BY <1>2 DEF Receive, tables, Idle
  <2>2. QED
    BY <1>0, <2>1, QuietOvertaking
<1>3. ASSUME laps' = laps, ev' = ev, fines' = fines
      PROVE  OvertakeInv'
  BY <1>3 DEF OvertakeInv, OneOvertakingFinePerLap
<1>4. CASE \E v \in Vehicles, r \in Routes \cup {NoRoute} : Reassign(v, r)
  BY <1>3, <1>4 DEF Reassign, tables
<1>5. CASE UNCHANGED vars
  BY <1>3, <1>5 DEF vars
<1>6. ~Crash /\ \A w \in Workers : ~ReadFails(w)
  BY <1>0, NoFault DEF Crash, ReadFails
<1>7. QED
  BY <1>1, <1>2, <1>4, <1>5, <1>6 DEF Next

\* Whatever a goroutine has in hand when nothing disturbs it is fresh.
LEMMA Recorded == ASSUME Undisturbed PROVE Spec => []RecordsInv
<1>1. Init => RecordsInv
  <2>1. Init => \A w \in Workers : ev[w].pc \notin Rolling
    BY DEF Init, Idle, Rolling
  <2>2. QED
    BY <2>1, InitHasInv DEF RecordsInv, CopyInv
<1>2. RecordsInv /\ [Next]_vars => RecordsInv'
  BY NextKeepsInv, NextKeepsCopy DEF RecordsInv, LapInv, Undisturbed
<1>3. QED
  BY <1>1, <1>2, PTL DEF Spec

\* RF-18, a lap is fined for overtaking at most once: FineRival writes the fine
\* and MarkRival the flag, two statements that only an evaluation of another
\* report, or a fault, can part.
THEOREM OvertakingFinedOnce ==
  ASSUME Undisturbed
  PROVE  Spec => []OneOvertakingFinePerLap
<1>1. Init => OvertakeInv
  BY DEF Init, OvertakeInv, OneOvertakingFinePerLap
<1>2. RecordsInv /\ OvertakeInv /\ [Next]_vars => OvertakeInv'
  BY NextKeepsOvertaking
<1>3. OvertakeInv => OneOvertakingFinePerLap
  BY DEF OvertakeInv
<1>4. QED
  BY <1>1, <1>2, <1>3, Recorded, PTL DEF Spec

-----------------------------------------------------------------------------
(* Fines for stops and for speeding.                                       *)

\* The row remembers the fine: later fines of the same kind will see it.
RemembersSpeeding(row, f) ==
  f.type = "SPEEDING" => row.speedFine # Null /\ f.at <= row.speedFine

RemembersStop(row, f) ==
  f.type = "PROLONGED_STOP" =>
    row.lastMove > f.since \/ (row.lastMove = f.since /\ row.stopFine # Null)

Remembers(row, f) == RemembersSpeeding(row, f) /\ (InOrder => RemembersStop(row, f))

InHandOf(e, i) == e.pc \in Rolling /\ e.id = i

\* The lap remembers its fines: in the copy while it is in hand, in the table
\* otherwise.
MemoryInv ==
  \A f \in fines :
    /\ \A w \in Workers : InHandOf(ev[w], f.lap) => Remembers(ev[w].lap, f)
    /\ (\A w \in Workers : ~InHandOf(ev[w], f.lap)) => Remembers(laps[f.lap], f)

\* A stop is fined after its last movement, by a report already received.
StampInv ==
  InOrder =>
    /\ \A w \in Workers : Busy(w) => newest[ev[w].rep.veh] = ev[w].rep.at
    /\ \A f \in fines : f.type = "PROLONGED_STOP" =>
         f.since < f.at /\ f.at <= newest[laps[f.lap].veh]

FineInv == MemoryInv /\ StampInv /\ SpeedingSpaced /\ (InOrder => OncePerStop)

\* Where a fine is remembered when one goroutine evaluates.
Remembered(e, table, f) ==
  IF InHandOf(e, f.lap) THEN Remembers(e.lap, f) ELSE Remembers(table[f.lap], f)

LEMMA MemoryNow ==
  ASSUME Undisturbed, MemoryInv, NEW w \in Workers, NEW f \in fines
  PROVE  Remembered(ev[w], laps, f)
BY Alone DEF MemoryInv, Remembered

LEMMA MemoryByStep ==
  ASSUME Undisturbed, NEW w \in Workers, \A f \in fines' : Remembered(ev'[w], laps', f)
  PROVE  MemoryInv'
BY Alone DEF MemoryInv, Remembered

LEMMA SameMemoryRemembers ==
  ASSUME NEW a, NEW b, SameMemory(a, b), NEW f, Remembers(b, f)
  PROVE  Remembers(a, f)
BY DEF SameMemory, Remembers, RemembersSpeeding, RemembersStop

\* Fines of the other kinds need no memory.
LEMMA OthersNeedNone ==
  ASSUME NEW f, f.type \notin {"PROLONGED_STOP", "SPEEDING"}
  PROVE  \A row : Remembers(row, f)
BY DEF Remembers, RemembersSpeeding, RemembersStop

\* A movement after the fine only lets the lap remember it better.
LEMMA MovedRemembers ==
  ASSUME NEW lap \in Lap, NEW at \in Time, NEW f \in FineRow, Remembers(lap, f),
         InOrder /\ f.type = "PROLONGED_STOP" => f.since < at
  PROVE  Remembers(Moved(lap, at), f)
<1> DEFINE m == Moved(lap, at)
<1>1. m.speedFine = lap.speedFine /\ m.lastMove >= at
  <2>1. m.lastMove = IF lap.lastMove = Null \/ at > lap.lastMove THEN at ELSE lap.lastMove
    BY DEF Moved, Lap
  <2>2. lap.lastMove \in Int /\ at \in Int
    BY DEF Lap, OptTime, Time, Null
  <2>3. m.speedFine = lap.speedFine
    BY DEF Moved, Lap
  <2>4. QED
    BY <2>1, <2>2, <2>3
<1>2. m.lastMove \in Int /\ at \in Int /\ f.since \in Int
  <2>1. m \in Lap
    BY WrittenRows
  <2>2. QED
    BY <2>1 DEF Lap, FineRow, OptTime, Time, Null
<1> HIDE DEF m
<1>3. RemembersSpeeding(m, f)
  BY <1>1 DEF Remembers, RemembersSpeeding
<1>4. InOrder => RemembersStop(m, f)
  BY <1>1, <1>2 DEF RemembersStop
<1>5. QED
  BY <1>3, <1>4 DEF Remembers, m

\* So does the time of another fine for the stop.
LEMMA StopFineRemembers ==
  ASSUME NEW lap \in Lap, NEW at \in Time, NEW f, Remembers(lap, f)
  PROVE  Remembers([lap EXCEPT !.stopFine = at], f)
<1> DEFINE m == [lap EXCEPT !.stopFine = at]
<1>1. m.speedFine = lap.speedFine /\ m.lastMove = lap.lastMove /\ m.stopFine # Null
  BY DEF Lap, Time, Null
<1> HIDE DEF m
<1>2. QED
  BY <1>1 DEF Remembers, RemembersSpeeding, RemembersStop, m

LEMMA SpeedFineRemembers ==
  ASSUME NEW lap \in Lap, NEW at \in Time, NEW f \in FineRow, Remembers(lap, f),
         f.type = "SPEEDING" => f.at <= at
  PROVE  Remembers([lap EXCEPT !.speedFine = at], f)
<1> DEFINE m == [lap EXCEPT !.speedFine = at]
<1>1. m.speedFine = at /\ m.lastMove = lap.lastMove /\ m.stopFine = lap.stopFine /\ at # Null
  BY DEF Lap, Time, Null
<1> HIDE DEF m
<1>2. QED
  BY <1>1 DEF Remembers, RemembersSpeeding, RemembersStop, m

\* Steps that fine nobody for a stop or for speeding, and keep the vehicles.
LEMMA QuietFines ==
  ASSUME TypeInv, FineInv, MemoryInv', newest' = newest,
         \A u \in Workers : Busy(u)' => Busy(u) /\ ev'[u].rep = ev[u].rep,
         \A i \in DOMAIN laps : laps'[i].veh = laps[i].veh,
         \A f \in fines' : f \in fines \/ f.type \notin {"PROLONGED_STOP", "SPEEDING"}
  PROVE  FineInv'
<1>1. \A f \in fines : f.lap \in DOMAIN laps
  BY DEF TypeInv, TypeOK
<1>2. StampInv'
  BY <1>1 DEF FineInv, StampInv
<1>3. SpeedingSpaced'
  BY DEF FineInv, SpeedingSpaced
<1>4. (InOrder => OncePerStop)'
  BY DEF FineInv, OncePerStop
<1>5. QED
  BY <1>2, <1>3, <1>4 DEF FineInv

\* The report in hand is the newest of the vehicle whose lap is in hand.
LEMMA ReportInHand ==
  ASSUME RecordsInv, FineInv, NEW w \in Workers, ev[w].pc \in Rolling
  PROVE  LET e == ev[w]
         IN  /\ e.id \in DOMAIN laps /\ e.lap \in Lap /\ e.rep.at \in Time /\ e.route \in Routes
             /\ InOrder => newest[laps[e.id].veh] = e.rep.at
<1>1. ev[w] \in Evaluation /\ ev[w].id \in DOMAIN laps /\ ev[w].id # 0 /\ ev[w].lap \in Lap
      /\ ev[w].rep.at \in Time
  BY InHand DEF Rolling, Label, RecordsInv, LapInv
<1>2. Busy(w)
  BY Evaluating DEF Rolling, Label, RecordsInv, LapInv, TypeInv
<1>3. laps[ev[w].id].veh = ev[w].rep.veh
  BY <1>1, <1>2 DEF RecordsInv, LapInv, HoldsOpenLap, Rolling
<1>4. ev[w].route \in Routes
  BY <1>1 DEF Evaluation
<1>5. QED
  BY <1>1, <1>2, <1>3, <1>4 DEF FineInv, StampInv

\* A stop due has not been fined: a fine for it would have left its mark in the
\* copy, which only a later movement clears.
LEMMA StopKeepsFines ==
  ASSUME Undisturbed, RecordsInv, FineInv, NEW w \in Workers, EvaluateProlongedStop(w)
  PROVE  FineInv'
<1> DEFINE e == ev[w]
           g == ev'[w]
           n == NewFine(e, "PROLONGED_STOP", e.id, e.lap.lastMove)
<1>0. TypeInv
  BY DEF RecordsInv, LapInv
<1>1. /\ e.pc = "stop" /\ g.pc = "speed" /\ g.id = e.id /\ g.rep = e.rep /\ laps' = laps
      /\ \/ g.lap = Moved(e.lap, e.rep.at) /\ fines' = fines
         \/ g.lap = e.lap /\ fines' = fines
         \/ /\ StopFineDue(e) /\ g.lap = [e.lap EXCEPT !.stopFine = e.rep.at]
            /\ fines' = fines \cup {n}
  BY <1>0, ProlongedStopLeaves
<1>2. /\ e.id \in DOMAIN laps /\ e.lap \in Lap /\ e.rep.at \in Time /\ e.route \in Routes
      /\ InOrder => newest[laps[e.id].veh] = e.rep.at
  BY <1>1, ReportInHand DEF Rolling
<1>3. /\ newest' = newest
      /\ \A u \in Workers : Busy(u)' => Busy(u) /\ ev'[u].rep = ev[u].rep
  BY <1>0, ReportKept DEF Step
<1>4. \A f \in fines : f \in FineRow /\ f.lap \in DOMAIN laps /\ Remembered(e, laps, f)
  BY <1>0, MemoryNow DEF FineInv, TypeInv, TypeOK
<1>5. \A f \in fines : f.lap = e.id => Remembers(e.lap, f)
  BY <1>1, <1>4 DEF Remembered, InHandOf, Rolling
<1>6. \A f \in fines : f.lap # e.id => Remembered(g, laps', f)
  BY <1>1, <1>4 DEF Remembered, InHandOf
<1>7. \A f : f.lap = e.id => (Remembered(g, laps', f) <=> Remembers(g.lap, f))
  BY <1>1 DEF Remembered, InHandOf, Rolling
<1>8. ASSUME NEW f \in fines, InOrder, f.type = "PROLONGED_STOP", f.lap = e.id
      PROVE  f.since < e.rep.at
  <2>1. f.since < f.at /\ f.at <= e.rep.at
    BY <1>2, <1>8 DEF FineInv, StampInv
  <2>2. f.since \in Int /\ f.at \in Int /\ e.rep.at \in Int
    BY <1>2, <1>4 DEF FineRow, OptTime, Time, Null
  <2>3. QED
    BY <2>1, <2>2
<1> HIDE DEF e, g, n
<1>9. CASE fines' = fines /\ (g.lap = Moved(e.lap, e.rep.at) \/ g.lap = e.lap)
  <2>1. \A f \in fines : f.lap = e.id => Remembers(g.lap, f)
    BY <1>2, <1>4, <1>5, <1>8, <1>9, MovedRemembers
  <2>2. MemoryInv'
    BY <1>6, <1>7, <1>9, <2>1, MemoryByStep DEF g
  <2>3. QED
    BY <1>0, <1>1, <1>3, <1>9, <2>2, QuietFines
<1>10. CASE /\ StopFineDue(e) /\ g.lap = [e.lap EXCEPT !.stopFine = e.rep.at]
            /\ fines' = fines \cup {n}
  <2>1. /\ n.type = "PROLONGED_STOP" /\ n.lap = e.id /\ n.since = e.lap.lastMove
        /\ n.at = e.rep.at
    BY DEF n, NewFine
  <2>2. /\ e.lap.stopFine = Null /\ n.since \in Int /\ n.at \in Int
        /\ n.since < n.at
    <3>1. /\ e.lap.stopFine = Null /\ e.lap.lastMove # Null
          /\ e.rep.at - e.lap.lastMove > StopThreshold(e.route)
      BY <1>10 DEF StopFineDue
    <3>2. StopThreshold(e.route) \in Nat
      BY <1>2, ConstantsOK DEF StopThreshold
    <3>3. e.rep.at \in Int /\ e.lap.lastMove \in Int
      BY <1>2 DEF Lap, OptTime, Time, Null
    <3>4. QED
      BY <2>1, <3>1, <3>2, <3>3
  <2>3. Remembers(g.lap, n)
    <3>1. g.lap.lastMove = n.since /\ g.lap.stopFine # Null
      BY <1>2, <1>10, <2>1 DEF Lap, Time, Null
    <3>2. QED
      BY <2>1, <3>1 DEF Remembers, RemembersSpeeding, RemembersStop
  <2>4. \A f \in fines : f.lap = e.id => Remembers(g.lap, f)
    BY <1>2, <1>5, <1>10, StopFineRemembers
  <2>5. MemoryInv'
    <3>1. \A f \in fines' : Remembered(g, laps', f)
      BY <1>6, <1>7, <1>10, <2>1, <2>3, <2>4
    <3>2. QED
      BY <3>1, MemoryByStep DEF g
  <2>6. ASSUME NEW f \in fines, InOrder, f.type = "PROLONGED_STOP", f.lap = e.id
        PROVE  f.since # n.since
    <3>1. e.lap.lastMove > f.since
      BY <1>5, <2>2, <2>6 DEF Remembers, RemembersStop
    <3>2. f.since \in Int
      BY <1>4 DEF FineRow, OptTime, Time, Null
    <3>3. QED
      BY <2>1, <2>2, <3>1, <3>2
  <2>7. (InOrder => OncePerStop)'
    BY <1>10, <2>1, <2>6 DEF FineInv, OncePerStop
  <2>8. SpeedingSpaced'
    BY <1>10, <2>1 DEF FineInv, SpeedingSpaced
  <2>9. StampInv'
    <3>1. InOrder => n.at <= newest[laps[n.lap].veh]
      BY <1>2, <2>1, <2>2
    <3>2. QED
      BY <1>1, <1>3, <1>10, <2>2, <3>1 DEF FineInv, StampInv
  <2>10. QED
    BY <2>5, <2>7, <2>8, <2>9 DEF FineInv
<1>11. QED
  BY <1>1, <1>9, <1>10

\* A fine for speeding that is due comes a cooldown after the last one the copy
\* remembers, and that is the last one of the lap.
LEMMA SpeedingKeepsFines ==
  ASSUME Undisturbed, RecordsInv, FineInv, NEW w \in Workers, EvaluateSpeeding(w)
  PROVE  FineInv'
<1> DEFINE e == ev[w]
           g == ev'[w]
           n == NewFine(e, "SPEEDING", e.id, Null)
<1>0. TypeInv
  BY DEF RecordsInv, LapInv
<1>1. /\ e.pc = "speed" /\ g.pc = "overtake" /\ g.id = e.id /\ g.rep = e.rep /\ laps' = laps
      /\ \/ g.lap = e.lap /\ fines' = fines
         \/ /\ SpeedFineDue(e) /\ g.lap = [e.lap EXCEPT !.speedFine = e.rep.at]
            /\ fines' = fines \cup {n}
  BY <1>0, SpeedingLeaves
<1>2. /\ e.id \in DOMAIN laps /\ e.lap \in Lap /\ e.rep.at \in Time
  BY <1>1, ReportInHand DEF Rolling
<1>3. /\ newest' = newest
      /\ \A u \in Workers : Busy(u)' => Busy(u) /\ ev'[u].rep = ev[u].rep
  BY <1>0, ReportKept DEF Step
<1>4. \A f \in fines : f \in FineRow /\ f.lap \in DOMAIN laps /\ Remembered(e, laps, f)
  BY <1>0, MemoryNow DEF FineInv, TypeInv, TypeOK
<1>5. \A f \in fines : f.lap = e.id => Remembers(e.lap, f)
  BY <1>1, <1>4 DEF Remembered, InHandOf, Rolling
<1>6. \A f \in fines : f.lap # e.id => Remembered(g, laps', f)
  BY <1>1, <1>4 DEF Remembered, InHandOf
<1>7. \A f : f.lap = e.id => (Remembered(g, laps', f) <=> Remembers(g.lap, f))
  BY <1>1 DEF Remembered, InHandOf, Rolling
<1> HIDE DEF e, g, n
<1>8. CASE fines' = fines /\ g.lap = e.lap
  <2>1. MemoryInv'
    BY <1>5, <1>6, <1>7, <1>8, MemoryByStep DEF g
  <2>2. QED
    BY <1>0, <1>1, <1>3, <1>8, <2>1, QuietFines
<1>9. CASE /\ SpeedFineDue(e) /\ g.lap = [e.lap EXCEPT !.speedFine = e.rep.at]
           /\ fines' = fines \cup {n}
  <2>1. n.type = "SPEEDING" /\ n.lap = e.id /\ n.at = e.rep.at
    BY DEF n, NewFine
  <2>2. ASSUME NEW f \in fines, f.type = "SPEEDING", f.lap = e.id
        PROVE  n.at - f.at >= SpeedCooldown /\ f.at <= e.rep.at
    <3>1. e.lap.speedFine # Null /\ f.at <= e.lap.speedFine
      BY <1>5, <2>2 DEF Remembers, RemembersSpeeding
    <3>2. e.rep.at - e.lap.speedFine >= SpeedCooldown
      BY <1>9, <3>1 DEF SpeedFineDue
    <3>3. /\ e.rep.at \in Int /\ e.lap.speedFine \in Int /\ f.at \in Int
          /\ SpeedCooldown \in Nat
      BY <1>2, <1>4, ConstantsOK DEF Lap, FineRow, OptTime, Time, Null
    <3>4. QED
      BY <2>1, <3>1, <3>2, <3>3
  <2>3. Remembers(g.lap, n)
    <3>1. /\ g.lap.speedFine = n.at /\ n.at # Null /\ n.at \in Int
      BY <1>2, <1>9, <2>1 DEF Lap, Time, Null
    <3>2. QED
      BY <2>1, <3>1 DEF Remembers, RemembersSpeeding, RemembersStop
  <2>4. \A f \in fines : f.lap = e.id => Remembers(g.lap, f)
    BY <1>2, <1>4, <1>5, <1>9, <2>2, SpeedFineRemembers
  <2>5. MemoryInv'
    <3>1. \A f \in fines' : Remembered(g, laps', f)
      BY <1>6, <1>7, <1>9, <2>1, <2>3, <2>4
    <3>2. QED
      BY <3>1, MemoryByStep DEF g
  <2>6. SpeedingSpaced'
    BY <1>9, <2>1, <2>2 DEF FineInv, SpeedingSpaced
  <2>7. (InOrder => OncePerStop)'
    BY <1>9, <2>1 DEF FineInv, OncePerStop
  <2>8. StampInv'
    BY <1>1, <1>3, <1>9, <2>1 DEF FineInv, StampInv
  <2>9. QED
    BY <2>5, <2>6, <2>7, <2>8 DEF FineInv
<1>10. QED
  BY <1>1, <1>8, <1>9

\* The other steps move what a lap remembers between the copy and the row.
LEMMA OtherStepsKeepMemory ==
  ASSUME Undisturbed, RecordsInv, FineInv, NEW w \in Workers, Step(w),
         ~EvaluateProlongedStop(w), ~EvaluateSpeeding(w)
  PROVE  /\ MemoryInv'
         /\ \A i \in DOMAIN laps : laps'[i].veh = laps[i].veh
         /\ \A f \in fines' : f \in fines \/ f.type \notin {"PROLONGED_STOP", "SPEEDING"}
<1> DEFINE e == ev[w]
           g == ev'[w]
<1>0. TypeInv /\ CopyInv
  BY DEF RecordsInv, LapInv
<1>1. \A f \in fines : f.lap \in DOMAIN laps /\ Remembered(e, laps, f)
  BY <1>0, MemoryNow DEF FineInv, TypeInv, TypeOK
<1>2. CASE ReadOpenLap(w)
  <2>1. /\ laps' = laps /\ fines' = fines /\ e.pc = "lap"
        /\ g.pc = "gate" \/ (g.pc = "stop" /\ g.lap = laps[g.id])
    BY <1>0, <1>2, ReadOpenLapLeaves DEF ReadOpenLap
  <2> HIDE DEF e, g
  <2>2. \A f \in fines : Remembered(g, laps, f)
    BY <1>1, <2>1 DEF Remembered, InHandOf, Rolling
  <2>3. QED
    BY <2>1, <2>2, MemoryByStep DEF g
<1>3. CASE EvaluateOvertaking(w)
  <2>1. /\ e.pc = "overtake" /\ g.id = e.id /\ laps' = laps /\ fines' = fines
        /\ \/ g.pc = (IF e.dirty THEN "track" ELSE "gate") /\ g.lap = e.lap
           \/ /\ g.lap = [e.lap EXCEPT !.line = e.rep.line, !.prog = e.rep.prog]
              /\ g.pc \in {"track", "rival"}
    BY <1>0, <1>3, OvertakingLeaves
  <2>2. e.lap \in Lap /\ CopyFresh(e, laps)
    BY <1>0, <2>1, InHand DEF Label, Rolling, CopyInv
  <2>3. SameMemory(g.lap, e.lap)
    BY <2>1, <2>2 DEF SameMemory, Lap
  <2> HIDE DEF e, g
  <2>4. ASSUME NEW f \in fines
        PROVE  Remembered(g, laps, f)
    <3>1. CASE f.lap = e.id /\ g.pc = "gate"
      <4>1. Remembers(e.lap, f) /\ e.lap = laps[e.id]
        BY <1>1, <2>1, <2>2, <3>1 DEF Remembered, InHandOf, Rolling, CopyFresh
      <4>2. QED
        BY <3>1, <4>1 DEF Remembered, InHandOf, Rolling
    <3>2. CASE f.lap = e.id /\ g.pc # "gate"
      <4>1. Remembers(g.lap, f)
        BY <1>1, <2>1, <2>3, <3>2, SameMemoryRemembers DEF Remembered, InHandOf, Rolling
      <4>2. QED
        BY <2>1, <3>2, <4>1 DEF Remembered, InHandOf, Rolling
    <3>3. CASE f.lap # e.id
      BY <1>1, <2>1, <3>3 DEF Remembered, InHandOf
    <3>4. QED
      BY <3>1, <3>2, <3>3
  <2>5. QED
    BY <2>1, <2>4, MemoryByStep DEF g
<1>4. CASE FineRival(w)
  <2>1. /\ e.pc = "rival" /\ g.pc = "mark" /\ g.id = e.id /\ g.lap = e.lap /\ laps' = laps
    BY <1>0, <1>4, FineRivalLeaves
  <2>2. PICK n : n.type = "OVERTAKING" /\ fines' = fines \cup {n}
    <3>1. PICK id : fines' = fines \cup {NewFine(e, "OVERTAKING", id, Null)}
      BY <1>0, <1>4, FineRivalLeaves
    <3>2. NewFine(e, "OVERTAKING", id, Null).type = "OVERTAKING"
      BY DEF NewFine
    <3>3. QED
      BY <3>1, <3>2
  <2> HIDE DEF e, g
  <2>3. \A f \in fines : Remembered(g, laps, f)
    BY <1>1, <2>1 DEF Remembered, InHandOf, Rolling
  <2>4. Remembered(g, laps, n)
    BY <2>2, OthersNeedNone DEF Remembered
  <2>5. QED
    BY <2>1, <2>2, <2>3, <2>4, MemoryByStep DEF g
<1>5. CASE MarkRival(w)
  <2>1. /\ e.pc = "mark" /\ g.pc \in {"rival", "track"} /\ g.id = e.id /\ g.lap = e.lap
        /\ fines' = fines
    BY <1>0, <1>5, MarkRivalLeaves
  <2>2. PICK r \in e.rivals :
          /\ r.id \in DOMAIN laps
          /\ laps'[r.id] = [laps[r.id] EXCEPT !.overtaken = TRUE]
          /\ \A i \in DOMAIN laps : i # r.id => laps'[i] = laps[i]
          /\ r.id # e.id
    BY <1>0, <1>5, MarkRivalFlags
  <2>3. laps[r.id] \in Lap
    BY <1>0, <2>2, RowIsLap DEF TypeInv, TypeOK
  <2>4. /\ laps'[r.id].veh = laps[r.id].veh
        /\ laps'[r.id].lastMove = laps[r.id].lastMove
        /\ laps'[r.id].stopFine = laps[r.id].stopFine
        /\ laps'[r.id].speedFine = laps[r.id].speedFine
    BY <2>2, <2>3 DEF Lap
  <2> HIDE DEF e, g
  <2>5. ASSUME NEW f \in fines
        PROVE  Remembered(g, laps', f)
    <3>1. CASE f.lap = e.id
      BY <1>1, <2>1, <3>1 DEF Remembered, InHandOf, Rolling
    <3>2. CASE f.lap # e.id
      <4>1. Remembers(laps[f.lap], f)
        BY <1>1, <3>2 DEF Remembered, InHandOf
      <4>2. Remembers(laps'[f.lap], f)
        BY <1>1, <2>2, <2>4, <4>1 DEF Remembers, RemembersSpeeding, RemembersStop
      <4>3. QED
        BY <2>1, <3>2, <4>2 DEF Remembered, InHandOf
    <3>3. QED
      BY <3>1, <3>2
  <2>6. QED
    BY <2>1, <2>2, <2>4, <2>5, MemoryByStep DEF g
<1>6. CASE UpdateTracking(w)
  <2>1. e.pc = "track" /\ g.pc = "gate" /\ fines' = fines
    BY <1>0, <1>6, UpdateTrackingLeaves
  <2>2. /\ e.id \in DOMAIN laps
        /\ \A i \in DOMAIN laps : i # e.id => laps'[i] = laps[i]
        /\ SameMemory(laps'[e.id], e.lap) /\ laps'[e.id].veh = laps[e.id].veh
    BY <1>6, UpdateTrackingSaves
  <2> HIDE DEF e, g
  <2>3. ASSUME NEW f \in fines
        PROVE  Remembered(g, laps', f)
    <3>1. CASE f.lap = e.id
      <4>1. Remembers(e.lap, f)
        BY <1>1, <2>1, <3>1 DEF Remembered, InHandOf, Rolling
      <4>2. QED
        BY <2>1, <2>2, <3>1, <4>1, SameMemoryRemembers DEF Remembered, InHandOf, Rolling
    <3>2. CASE f.lap # e.id
      BY <1>1, <2>1, <2>2, <3>2 DEF Remembered, InHandOf, Rolling
    <3>3. QED
      BY <3>1, <3>2
  <2>4. QED
    BY <2>1, <2>2, <2>3, MemoryByStep DEF g
<1>7. CASE \/ CrossCheckpoint(w) \/ CloseLap(w) \/ FineLateLap(w) \/ ChargeLap(w)
           \/ OpenNextLap(w)
  <2>1. /\ e.pc \notin Rolling /\ g.pc \notin Rolling
        /\ \A i \in DOMAIN laps : SameMemory(laps'[i], laps[i])
        /\ \A f \in fines' : f \in fines \/ f.type = "LAP_TIME"
    BY <1>0, <1>7, CheckpointLeaves
  <2> HIDE DEF e, g
  <2>2. ASSUME NEW f \in fines'
        PROVE  Remembered(g, laps', f)
    <3>1. CASE f \in fines
      <4>1. Remembers(laps[f.lap], f) /\ f.lap \in DOMAIN laps
        BY <1>1, <2>1, <3>1 DEF Remembered, InHandOf
      <4>2. Remembers(laps'[f.lap], f)
        BY <2>1, <4>1, SameMemoryRemembers
      <4>3. QED
        BY <2>1, <4>2 DEF Remembered, InHandOf
    <3>2. CASE f.type = "LAP_TIME"
      BY <3>2, OthersNeedNone DEF Remembered
    <3>3. QED
      BY <2>1, <3>1, <3>2
  <2>3. QED
    BY <2>1, <2>2, MemoryByStep DEF g, SameMemory
<1>8. QED
  BY <1>2, <1>3, <1>4, <1>5, <1>6, <1>7 DEF Step

\* A report received is the newest one: no fine stamped before comes after it.
LEMMA ReceiveKeepsFines ==
  ASSUME Undisturbed, RecordsInv, FineInv, NEW w \in Workers, NEW p \in Reports, Receive(w, p)
  PROVE  FineInv'
<1>0. TypeInv
  BY DEF RecordsInv, LapInv
<1>1. /\ laps' = laps /\ fines' = fines /\ ev[w] = Idle
      /\ p.veh \in Vehicles /\ p.at \in Time
      /\ newest \in [Vehicles -> OptTime]
      /\ InOrder => newest' = [newest EXCEPT ![p.veh] = p.at] /\ p.at >= newest[p.veh]
  BY <1>0, ConstantsOK DEF Receive, MayStart, Report, TypeInv, TypeOK, tables
<1>2. ev'[w] = Idle \/ (ev'[w].pc = "lap" /\ ev'[w].rep = p)
  BY <1>0, <1>1 DEF Receive, Continue, TypeInv, TypeOK
<1>3. ev[w].pc \notin Rolling /\ ev'[w].pc \notin Rolling
  BY <1>1, <1>2 DEF Idle, Rolling
<1>4. MemoryInv'
  <2>1. \A f \in fines : Remembered(ev[w], laps, f)
    BY MemoryNow DEF FineInv
  <2>2. \A f \in fines : Remembered(ev'[w], laps, f)
    BY <1>3, <2>1 DEF Remembered, InHandOf
  <2>3. QED
    BY <1>1, <2>2, MemoryByStep
<1>5. StampInv'
  <2> SUFFICES ASSUME InOrder PROVE StampInv'
    BY DEF StampInv
  <2>1. \A u \in Workers : Busy(u)' => newest'[ev'[u].rep.veh] = ev'[u].rep.at
    BY <1>1, <1>2, Alone DEF Busy
  <2>2. ASSUME NEW f \in fines, f.type = "PROLONGED_STOP"
        PROVE  f.since < f.at /\ f.at <= newest'[laps[f.lap].veh]
    <3>1. f.since < f.at /\ f.at <= newest[laps[f.lap].veh]
      BY <2>2 DEF FineInv, StampInv
    <3>2. f.at \in Int /\ laps[f.lap] \in Lap
      BY <1>0, RowIsLap DEF TypeInv, TypeOK, FineRow, Time
    <3>3. laps[f.lap].veh \in Vehicles
      BY <3>2 DEF Lap
    <3>4. newest'[laps[f.lap].veh] >= newest[laps[f.lap].veh]
      BY <1>1, <3>3 DEF OptTime, Time, Null
    <3>5. newest'[laps[f.lap].veh] \in Int /\ newest[laps[f.lap].veh] \in Int
      BY <1>1, <3>3 DEF OptTime, Time, Null
    <3>6. QED
      BY <3>1, <3>2, <3>4, <3>5
  <2>3. QED
    BY <1>1, <2>1, <2>2 DEF StampInv
<1>6. SpeedingSpaced' /\ (InOrder => OncePerStop)'
  BY <1>1 DEF FineInv, SpeedingSpaced, OncePerStop
<1>7. QED
  BY <1>4, <1>5, <1>6 DEF FineInv

LEMMA NextKeepsFines ==
  ASSUME Undisturbed, RecordsInv, FineInv, [Next]_vars
  PROVE  FineInv'
<1>0. TypeInv
  BY DEF RecordsInv, LapInv
<1>1. ASSUME NEW w \in Workers, Step(w)
      PROVE  FineInv'
  <2>1. CASE EvaluateProlongedStop(w) \/ EvaluateSpeeding(w)
    BY <2>1, StopKeepsFines, SpeedingKeepsFines
  <2>2. CASE ~EvaluateProlongedStop(w) /\ ~EvaluateSpeeding(w)
    <3>1. /\ MemoryInv'
          /\ \A i \in DOMAIN laps : laps'[i].veh = laps[i].veh
          /\ \A f \in fines' : f \in fines \/ f.type \notin {"PROLONGED_STOP", "SPEEDING"}
      BY <1>1, <2>2, OtherStepsKeepMemory
    <3>2. /\ newest' = newest
          /\ \A u \in Workers : Busy(u)' => Busy(u) /\ ev'[u].rep = ev[u].rep
      BY <1>0, <1>1, ReportKept
    <3>3. QED
      BY <1>0, <3>1, <3>2, QuietFines
  <2>3. QED
    BY <2>1, <2>2
<1>2. ASSUME NEW w \in Workers, NEW p \in Reports, Receive(w, p)
      PROVE  FineInv'
  BY <1>2, ReceiveKeepsFines
<1>3. ASSUME UNCHANGED <<laps, ev, fines, newest>>
      PROVE  FineInv'
  BY <1>3 DEF FineInv, MemoryInv, StampInv, SpeedingSpaced, OncePerStop, Busy
<1>4. CASE \E v \in Vehicles, r \in Routes \cup {NoRoute} : Reassign(v, r)
  BY <1>3, <1>4 DEF Reassign, tables
<1>5. CASE UNCHANGED vars
  BY <1>3, <1>5 DEF vars
<1>6. ~Crash /\ \A w \in Workers : ~ReadFails(w)
  BY <1>0, NoFault DEF Crash, ReadFails
<1>7. QED
  BY <1>1, <1>2, <1>4, <1>5, <1>6 DEF Next

LEMMA FinesRemembered == ASSUME Undisturbed PROVE Spec => []FineInv
<1>1. Init => FineInv
  BY DEF Init, FineInv, MemoryInv, StampInv, SpeedingSpaced, OncePerStop, Busy
<1>2. RecordsInv /\ FineInv /\ [Next]_vars => FineInv'
  BY NextKeepsFines
<1>3. QED
  BY <1>1, <1>2, Recorded, PTL DEF Spec

\* RF-20: the fines for speeding of a lap are a cooldown apart, in whatever order
\* the reports arrive: the time of the last one travels from the copy to the row
\* and back, and neither MarkRival nor the checkpoint takes it away.
THEOREM SpeedingFinesSpaced ==
  ASSUME Undisturbed
  PROVE  Spec => []SpeedingSpaced
<1>1. FineInv => SpeedingSpaced
  BY DEF FineInv
<1>2. QED
  BY <1>1, FinesRemembered, PTL

\* RF-19, "once per stop": while reports arrive in order, only a movement later
\* than the fine clears the mark that EvaluateProlongedStop leaves, and it begins
\* another stop.
THEOREM StopsFinedOnce ==
  ASSUME Undisturbed, InOrder
  PROVE  Spec => []OncePerStop
<1>1. FineInv => OncePerStop
  BY DEF FineInv
<1>2. QED
  BY <1>1, FinesRemembered, PTL

-----------------------------------------------------------------------------
(* The ledger.                                                             *)

\* One route, no failures, and a process that starts on vehicles whose first lap
\* is in progress, if any is.
OneRoute ==
  /\ ~Overlap /\ MaxFaults = 0 /\ Routes = {TheRoute}
  /\ \A table \in InitialLaps : \A i \in DOMAIN table :
       /\ table[i].status = "IN_PROGRESS"
       /\ table[i].num = 1
       /\ table[i].allowed = AllowedLap[TheRoute]

TookTooLong(i) ==
  AllowedLap[TheRoute] # 0 /\ laps[i].ended - laps[i].start > AllowedLap[TheRoute]

Settling == {"late", "charge", "open"}

\* What a goroutine knows of the lap in hand, and what it has settled of it.
Accounts(w) ==
  LET e == ev[w]
      v == e.rep.veh
  IN  Busy(w) =>
        /\ e.id # 0 => /\ laps[e.id].veh = v
                       /\ e.lap.start = laps[e.id].start
                       /\ e.lap.num = laps[e.id].num
                       /\ e.lap.allowed = laps[e.id].allowed
        /\ e.id = 0 /\ e.pc \in {"gate", "open"} => LapsOf(v) = {}
        /\ e.id # 0 /\ e.pc \in {"close"} \cup Settling =>
             e.rep.at - laps[e.id].start >= MinLap
        /\ e.id # 0 /\ e.pc \in Settling =>
             /\ \A j \in LapsOf(v) : j <= e.id
             /\ laps[e.id].ended = e.rep.at
             /\ e.pc = "late" => TookTooLong(e.id)
             /\ e.pc # "late" => (LateFinesOf(e.id) # {} <=> TookTooLong(e.id))
             /\ e.pc = "open" =>
                  (ChargesOf(e.id) # {} <=> ActiveFares(TheRoute, e.rep.at) # {})

\* The last lap of a vehicle is open or being settled, and its number is one more
\* than the laps in the book.
BookInv ==
  /\ \A i \in DOMAIN laps : laps[i].allowed = AllowedLap[TheRoute]
  /\ \A i \in DOMAIN laps :
       i \in EarlierLaps(laps[i].veh) => laps[i].status # "IN_PROGRESS"
  /\ \A i \in DOMAIN laps :
       laps[i].status # "IN_PROGRESS" /\ i \notin EarlierLaps(laps[i].veh) =>
         \E w \in Workers : Busy(w) /\ ev[w].id = i /\ ev[w].pc \in Settling
  /\ \A i, j \in DOMAIN laps :
       laps[i].veh = laps[j].veh /\ i < j => laps[i].num < laps[j].num
  /\ \A v \in Vehicles : IsFiniteSet(LapsBooked[v])
  /\ \A v \in Vehicles : LapsOf(v) # {} =>
       \E i \in LapsOf(v) : /\ \A j \in LapsOf(v) : j <= i
                            /\ laps[i].num = Cardinality(LapsBooked[v]) + 1

LedgerInv == BookInv /\ \A w \in Workers : Accounts(w)

LEMMA LastIs ==
  ASSUME NEW ids \in SUBSET Nat, NEW i \in ids, \A j \in ids : j <= i
  PROVE  LastOf(ids) = i
<1>1. LastOf(ids) \in ids /\ \A j \in ids : j <= LastOf(ids)
  BY DEF LastOf
<1>2. LastOf(ids) <= i /\ i <= LastOf(ids)
  BY <1>1
<1>3. LastOf(ids) \in Nat /\ i \in Nat
  BY <1>1
<1>4. QED
  BY <1>2, <1>3

\* What no statement changes of a lap.
LapsKept ==
  /\ DOMAIN laps' = DOMAIN laps
  /\ \A i \in DOMAIN laps :
       /\ laps'[i].veh = laps[i].veh
       /\ laps'[i].start = laps[i].start
       /\ laps'[i].num = laps[i].num
       /\ laps'[i].allowed = laps[i].allowed

\* What CloseLap, FineLateLap and ChargeLap write of a lap.
Unwritten(i) ==
  /\ laps'[i].ended = laps[i].ended
  /\ LateFinesOf(i)' = LateFinesOf(i)
  /\ ChargesOf(i)' = ChargesOf(i)

LEMMA SameLaps ==
  ASSUME LapsKept
  PROVE  /\ \A v : LapsOf(v)' = LapsOf(v)
         /\ \A v : EarlierLaps(v)' = EarlierLaps(v)
<1>1. \A v : LapsOf(v)' = LapsOf(v)
  BY DEF LapsKept, LapsOf
<1>2. QED
  BY <1>1 DEF EarlierLaps

LEMMA BookStays ==
  ASSUME TypeInv, BookInv, LapsKept,
         \A v \in Vehicles : \A i \in EarlierLaps(v) : Unwritten(i)
  PROVE  LapsBegun' = LapsBegun /\ LapsBooked' = LapsBooked
<1>1. \A v : LapsOf(v)' = LapsOf(v) /\ EarlierLaps(v)' = EarlierLaps(v)
  BY SameLaps
<1>2. ASSUME NEW v \in Vehicles, LapsOf(v) # {}
      PROVE  laps'[LastOf(LapsOf(v))].start = laps[LastOf(LapsOf(v))].start
  <2>1. PICK i \in LapsOf(v) : \A j \in LapsOf(v) : j <= i
    BY <1>2 DEF BookInv
  <2>2. LapsOf(v) \in SUBSET Nat
    BY IdsArePositive DEF LapsOf, TypeInv, TypeOK
  <2>3. LastOf(LapsOf(v)) = i
    BY <2>1, <2>2, LastIs
  <2>4. QED
    BY <2>1, <2>3 DEF LapsKept, LapsOf
<1>3. LapsBegun' = LapsBegun
  BY <1>1, <1>2 DEF LapsBegun
<1>4. ASSUME NEW v \in Vehicles
      PROVE  {LedgerEntry(i) : i \in EarlierLaps(v)}' = {LedgerEntry(i) : i \in EarlierLaps(v)}
  <2>1. ASSUME NEW i \in EarlierLaps(v)
        PROVE  LedgerEntry(i)' = LedgerEntry(i)
    <3>1. i \in DOMAIN laps
      BY DEF EarlierLaps, LapsOf
    <3>2. QED
      BY <3>1 DEF LedgerEntry, LapsKept, Unwritten
  <2>2. QED
    BY <1>1, <2>1
<1>5. LapsBooked' = LapsBooked
  BY <1>4 DEF LapsBooked
<1>6. QED
  BY <1>3, <1>5

LEMMA BookInvStays ==
  ASSUME TypeInv, BookInv, LapsKept,
         \A v \in Vehicles : \A i \in EarlierLaps(v) : Unwritten(i),
         \A i \in DOMAIN laps :
           IF i \in EarlierLaps(laps[i].veh)
           THEN laps'[i].status # "IN_PROGRESS"
           ELSE laps'[i].status # "IN_PROGRESS" =>
                  \E w \in Workers : Busy(w)' /\ ev'[w].id = i /\ ev'[w].pc \in Settling
  PROVE  BookInv'
<1>1. \A v : LapsOf(v)' = LapsOf(v) /\ EarlierLaps(v)' = EarlierLaps(v)
  BY SameLaps
<1>2. LapsBooked' = LapsBooked
  BY BookStays
<1>3. \A i \in DOMAIN laps' : laps'[i].allowed = AllowedLap[TheRoute]
  BY DEF LapsKept, BookInv
<1>4. \A i \in DOMAIN laps' :
        i \in EarlierLaps(laps[i].veh)' => laps'[i].status # "IN_PROGRESS"
  BY <1>1 DEF LapsKept
<1>5. \A i \in DOMAIN laps' :
        laps'[i].status # "IN_PROGRESS" /\ i \notin EarlierLaps(laps[i].veh)' =>
          \E w \in Workers : Busy(w)' /\ ev'[w].id = i /\ ev'[w].pc \in Settling
  BY <1>1 DEF LapsKept
<1>6. \A i, j \in DOMAIN laps' :
        laps'[i].veh = laps'[j].veh /\ i < j => laps'[i].num < laps'[j].num
  BY DEF LapsKept, BookInv
<1>7. \A v \in Vehicles : IsFiniteSet(LapsBooked'[v])
  BY <1>2 DEF BookInv
<1>8. ASSUME NEW v \in Vehicles, LapsOf(v)' # {}
      PROVE  \E i \in LapsOf(v)' : /\ \A j \in LapsOf(v)' : j <= i
                                   /\ laps'[i].num = Cardinality(LapsBooked'[v]) + 1
  <2>1. PICK i \in LapsOf(v) : /\ \A j \in LapsOf(v) : j <= i
                               /\ laps[i].num = Cardinality(LapsBooked[v]) + 1
    BY <1>1, <1>8 DEF BookInv
  <2>2. laps'[i].num = laps[i].num
    BY DEF LapsOf, LapsKept
  <2>3. QED
    BY <1>1, <1>2, <2>1, <2>2
<1>9. \A i \in DOMAIN laps' : laps'[i].veh = laps[i].veh
  BY DEF LapsKept
<1>10. QED
  BY <1>3, <1>4, <1>5, <1>6, <1>7, <1>8, <1>9 DEF BookInv

\* What a goroutine knows of its vehicle's laps no other can change.
LEMMA OthersAccounts ==
  ASSUME LapInv, NEW w \in Workers, Busy(w), NEW v, v = ev[w].rep.veh,
         NEW u \in Workers, u # w, ev'[u] = ev[u], Accounts(u),
         \A i \in DOMAIN laps :
           /\ i \in DOMAIN laps'
           /\ laps'[i].veh = laps[i].veh
           /\ laps'[i].start = laps[i].start
           /\ laps'[i].num = laps[i].num
           /\ laps'[i].allowed = laps[i].allowed
           /\ laps[i].veh # v => Unwritten(i),
         \A i \in DOMAIN laps' : i \notin DOMAIN laps => laps'[i].veh = v
  PROVE  Accounts(u)'
<1> SUFFICES ASSUME Busy(u) PROVE Accounts(u)'
  BY DEF Accounts, Busy
<1>1. ev[u].rep.veh # v
  BY DEF LapInv, Exclusive
<1>2. LapsOf(ev[u].rep.veh)' = LapsOf(ev[u].rep.veh)
  BY <1>1 DEF LapsOf
<1>3. ev[u].id # 0 => ev[u].id \in DOMAIN laps
  BY DEF LapInv, TypeInv, Held
<1>4. ASSUME ev[u].id # 0
      PROVE  /\ laps[ev[u].id].veh = ev[u].rep.veh
             /\ Unwritten(ev[u].id)
             /\ TookTooLong(ev[u].id)' <=> TookTooLong(ev[u].id)
  <2>1. laps[ev[u].id].veh = ev[u].rep.veh
    BY <1>4 DEF Accounts
  <2>2. QED
    BY <1>1, <1>3, <1>4, <2>1 DEF Unwritten, TookTooLong
<1>5. QED
  BY <1>2, <1>3, <1>4 DEF Accounts, Unwritten, Busy

LEMMA StepKeepsLedger ==
  ASSUME LapInv, LedgerInv, NEW w \in Workers, Busy(w), NEW v, v = ev[w].rep.veh,
         \A u \in Workers : u # w => ev'[u] = ev[u],
         \A i \in DOMAIN laps :
           /\ i \in DOMAIN laps'
           /\ laps'[i].veh = laps[i].veh
           /\ laps'[i].start = laps[i].start
           /\ laps'[i].num = laps[i].num
           /\ laps'[i].allowed = laps[i].allowed
           /\ laps[i].veh # v => Unwritten(i),
         \A i \in DOMAIN laps' : i \notin DOMAIN laps => laps'[i].veh = v,
         Accounts(w)', BookInv'
  PROVE  LedgerInv'
<1>1. ASSUME NEW u \in Workers
      PROVE  Accounts(u)'
  BY <1>1, OthersAccounts DEF LedgerInv
<1>2. QED
  BY <1>1 DEF LedgerInv

LEMMA NoFailure ==
  ASSUME OneRoute, TypeInv
  PROVE  ~Fault
BY DEF OneRoute, TypeInv, TypeOK, Fault

\* Between the read of the open lap and the checkpoint nothing is settled.
LEMMA RollingSettlesNothing ==
  ASSUME TypeInv, NEW w \in Workers,
         \/ EvaluateProlongedStop(w) \/ EvaluateSpeeding(w) \/ EvaluateOvertaking(w)
         \/ FineRival(w) \/ MarkRival(w) \/ UpdateTracking(w)
  PROVE  /\ LapsKept
         /\ \A i \in DOMAIN laps : Unwritten(i) /\ laps'[i].status = laps[i].status
<1>1. LapsKept /\ \A i \in DOMAIN laps : /\ laps'[i].ended = laps[i].ended
                                      /\ laps'[i].status = laps[i].status
  <2>1. CASE UNCHANGED laps
    BY <2>1 DEF LapsKept
  <2>2. CASE MarkRival(w) \/ UpdateTracking(w)
    BY <2>2, MarkRivalWrites, UpdateTrackingWrites DEF LapsKept
  <2>3. QED
    BY <2>1, <2>2 DEF EvaluateProlongedStop, EvaluateSpeeding, EvaluateOvertaking,
       FineRival, tables
<1>2. charges' = charges
  BY DEF EvaluateProlongedStop, EvaluateSpeeding, EvaluateOvertaking,
     FineRival, MarkRival, UpdateTracking, tables
<1>3. PICK id, since :
        \/ UNCHANGED fines
        \/ fines' = fines \cup {NewFine(ev[w], "PROLONGED_STOP", id, since)}
        \/ fines' = fines \cup {NewFine(ev[w], "SPEEDING", id, since)}
        \/ fines' = fines \cup {NewFine(ev[w], "OVERTAKING", id, since)}
  <2>1. CASE EvaluateProlongedStop(w)
    BY <2>1 DEF EvaluateProlongedStop
  <2>2. CASE EvaluateSpeeding(w)
    BY <2>2 DEF EvaluateSpeeding
  <2>3. CASE FineRival(w)
    BY <2>3 DEF FineRival
  <2>4. CASE UNCHANGED fines
    BY <2>4
  <2>5. QED
    BY <2>1, <2>2, <2>3, <2>4 DEF EvaluateOvertaking, MarkRival, UpdateTracking, tables
<1>4. \A t, i, s : NewFine(ev[w], t, i, s).type = t
  BY DEF NewFine
<1>5. \A i : LateFinesOf(i)' = LateFinesOf(i) /\ ChargesOf(i)' = ChargesOf(i)
  BY <1>2, <1>3, <1>4 DEF LateFinesOf, ChargesOf
<1>6. QED
  BY <1>1, <1>5 DEF Unwritten

\* A step that settles and finishes nothing, of a goroutine that is not settling.
LEMMA QuietBook ==
  ASSUME LapInv, LedgerInv, NEW w \in Workers, ~(Busy(w) /\ ev[w].pc \in Settling),
         \A u \in Workers : u # w => ev'[u] = ev[u],
         LapsKept,
         \A i \in DOMAIN laps : Unwritten(i) /\ laps'[i].status = laps[i].status
  PROVE  BookInv' /\ UNCHANGED <<LapsBegun, LapsBooked>>
<1>1. \A v : EarlierLaps(v) \subseteq DOMAIN laps
  BY DEF EarlierLaps, LapsOf
<1>2. \A v \in Vehicles : \A i \in EarlierLaps(v) : Unwritten(i)
  BY <1>1
<1>3. ASSUME NEW i \in DOMAIN laps, i \in EarlierLaps(laps[i].veh)
      PROVE  laps'[i].status # "IN_PROGRESS"
  BY <1>3 DEF LedgerInv, BookInv
<1>4. ASSUME NEW i \in DOMAIN laps, i \notin EarlierLaps(laps[i].veh),
             laps'[i].status # "IN_PROGRESS"
      PROVE  \E u \in Workers : Busy(u)' /\ ev'[u].id = i /\ ev'[u].pc \in Settling
  <2>1. PICK u \in Workers : Busy(u) /\ ev[u].id = i /\ ev[u].pc \in Settling
    BY <1>4 DEF LedgerInv, BookInv
  <2>2. ev'[u] = ev[u]
    BY <2>1
  <2>3. QED
    BY <2>1, <2>2 DEF Busy
<1>5. BookInv /\ TypeInv
  BY DEF LedgerInv, LapInv
<1>6. QED
  BY <1>2, <1>3, <1>4, <1>5, BookInvStays, BookStays

LEMMA QuietStepKeepsLedger ==
  ASSUME LapInv, LedgerInv, NEW w \in Workers, Busy(w), ev[w].pc \notin Settling,
         \A u \in Workers : u # w => ev'[u] = ev[u],
         LapsKept,
         \A i \in DOMAIN laps : Unwritten(i) /\ laps'[i].status = laps[i].status,
         Accounts(w)'
  PROVE  LedgerInv' /\ UNCHANGED <<LapsBegun, LapsBooked>>
<1>1. BookInv' /\ UNCHANGED <<LapsBegun, LapsBooked>>
  BY QuietBook
<1>2. LedgerInv'
  BY <1>1, StepKeepsLedger DEF LapsKept
<1>3. QED
  BY <1>1, <1>2

LEMMA RollingKeepsLedger ==
  ASSUME LapInv, LedgerInv, NEW w \in Workers,
         \/ EvaluateProlongedStop(w) \/ EvaluateSpeeding(w) \/ EvaluateOvertaking(w)
         \/ FineRival(w) \/ MarkRival(w) \/ UpdateTracking(w)
  PROVE  LedgerInv' /\ UNCHANGED <<LapsBegun, LapsBooked>>
<1>1. TypeInv /\ ev[w].pc \in Rolling
  BY DEF LapInv, Rolling, EvaluateProlongedStop, EvaluateSpeeding, EvaluateOvertaking,
     FineRival, MarkRival, UpdateTracking
<1>2. Busy(w) /\ \A u \in Workers : u # w => ev'[u] = ev[u]
  BY <1>1, ReportKept DEF Step
<1>3. PICK e : ev' = [ev EXCEPT ![w] = e] /\ GoesOn(ev[w], e)
  BY <1>1, RollingMemory
<1>4. ev'[w] = e
  BY <1>1, <1>3 DEF TypeInv, TypeOK
<1>5. ev[w].id # 0 /\ ev[w].id \in DOMAIN laps
  BY <1>1, InHand DEF Rolling, Label
<1>6. LapsKept /\ \A i \in DOMAIN laps : Unwritten(i) /\ laps'[i].status = laps[i].status
  BY <1>1, RollingSettlesNothing
<1>7. Accounts(w)'
  <2>1. e.pc \notin {"close", "open"} \cup Settling
    BY <1>3 DEF GoesOn, Rolling, Settling
  <2>2. Accounts(w)
    BY DEF LedgerInv
  <2>3. QED
    BY <1>2, <1>3, <1>4, <1>5, <1>6, <2>1, <2>2 DEF Accounts, GoesOn, LapsKept, Settling
<1>8. ev[w].pc \notin Settling
  BY <1>1 DEF Rolling, Settling
<1>9. QED
  BY <1>2, <1>6, <1>7, <1>8, QuietStepKeepsLedger

\* FindOpenLap finds none only before the first lap of a vehicle: a lap that is
\* closed and not followed by another is being settled.
LEMMA ReadKeepsLedger ==
  ASSUME LapInv, LedgerInv, NEW w \in Workers, ReadOpenLap(w)
  PROVE  LedgerInv' /\ UNCHANGED <<LapsBegun, LapsBooked>>
<1> DEFINE v == ev[w].rep.veh
<1>1. TypeInv /\ ev[w].pc = "lap" /\ UNCHANGED <<laps, fines, charges>>
  BY DEF LapInv, ReadOpenLap, tables
<1>2. ev[w] \in Evaluation /\ Busy(w) /\ Held(w) /\ HoldsOpenLap(w)
  BY <1>1, Evaluating DEF Label, TypeInv, LapInv
<1>3. \A u \in Workers : u # w => ev'[u] = ev[u]
  BY <1>1, ReportKept DEF Step
<1>4. LapsKept /\ \A i \in DOMAIN laps : Unwritten(i) /\ laps'[i].status = laps[i].status
  BY <1>1 DEF LapsKept, Unwritten, LateFinesOf, ChargesOf
<1>5. CASE OpenLaps(v) = {} /\ Goto(w, "gate")
  <2> DEFINE e == [ev[w] EXCEPT !.pc = "gate"]
  <2>1. ev' = [ev EXCEPT ![w] = e] /\ e.rep = ev[w].rep /\ e.id = ev[w].id /\ e.pc = "gate"
    BY <1>2, <1>5 DEF Goto, Evaluation
  <2> HIDE DEF e
  <2>2. ev'[w] = e
    BY <1>1, <2>1 DEF TypeInv, TypeOK
  <2>3. ev[w].id = 0
    BY <1>1, <1>2, <1>5 DEF HoldsOpenLap, Held, OpenLaps
  <2>4. LapsOf(v) = {}
    <3> SUFFICES ASSUME LapsOf(v) # {} PROVE FALSE
      OBVIOUS
    <3>1. v \in Vehicles
      BY <1>2, ConstantsOK DEF Evaluation, Report
    <3>2. PICK i \in LapsOf(v) : \A j \in LapsOf(v) : j <= i
      BY <3>1 DEF LedgerInv, BookInv
    <3>3. i \in DOMAIN laps /\ laps[i].veh = v /\ laps[i].status # "IN_PROGRESS"
      BY <1>5, <3>2 DEF LapsOf, OpenLaps
    <3>4. LapsOf(v) \subseteq Nat
      BY <1>1, IdsArePositive DEF LapsOf, TypeInv, TypeOK
    <3>5. i \notin EarlierLaps(v)
      BY <3>2, <3>4 DEF EarlierLaps
    <3>6. PICK u \in Workers : Busy(u) /\ ev[u].id = i /\ ev[u].pc \in Settling
      BY <3>3, <3>5 DEF LedgerInv, BookInv
    <3>7. i # 0
      BY <1>1, <3>3, IdsArePositive DEF TypeInv, TypeOK
    <3>8. ev[u].rep.veh = v
      BY <3>3, <3>6, <3>7 DEF LedgerInv, Accounts
    <3>9. u = w
      BY <1>2, <3>6, <3>8 DEF LapInv, Exclusive
    <3>10. QED
      BY <1>1, <3>6, <3>9 DEF Settling
  <2>5. LapsOf(ev[w].rep.veh)' = {}
    BY <1>1, <2>1, <2>2, <2>4 DEF LapsOf
  <2>6. Accounts(w)'
    BY <2>1, <2>2, <2>3, <2>5 DEF Accounts, Settling
  <2>7. QED
    BY <1>1, <1>2, <1>3, <1>4, <2>6, QuietStepKeepsLedger DEF Settling
<1>6. ASSUME NEW i \in LatestStarted(OpenLaps(v)),
             Continue(w, [ev[w] EXCEPT !.pc = "stop", !.id = i, !.lap = laps[i]])
      PROVE  LedgerInv' /\ UNCHANGED <<LapsBegun, LapsBooked>>
  <2> DEFINE e == [ev[w] EXCEPT !.pc = "stop", !.id = i, !.lap = laps[i]]
  <2>1. /\ ev' = [ev EXCEPT ![w] = e] /\ e.rep = ev[w].rep /\ e.id = i /\ e.lap = laps[i]
        /\ e.pc = "stop"
    BY <1>2, <1>6 DEF Continue, Evaluation
  <2> HIDE DEF e
  <2>2. ev'[w] = e
    BY <1>1, <2>1 DEF TypeInv, TypeOK
  <2>3. laps[i].veh = v
    BY DEF LatestStarted, OpenLaps
  <2>4. Accounts(w)'
    BY <1>1, <2>1, <2>2, <2>3 DEF Accounts, Settling
  <2>5. QED
    BY <1>1, <1>2, <1>3, <1>4, <2>4, QuietStepKeepsLedger DEF Settling
<1>7. QED
  BY <1>5, <1>6 DEF ReadOpenLap

LEMMA CrossKeepsLedger ==
  ASSUME LapInv, LedgerInv, NEW w \in Workers, CrossCheckpoint(w)
  PROVE  LedgerInv' /\ UNCHANGED <<LapsBegun, LapsBooked>>
<1>1. TypeInv /\ ev[w].pc = "gate" /\ UNCHANGED <<fines, charges>>
  BY DEF LapInv, CrossCheckpoint
<1>2. ev[w] \in Evaluation /\ Busy(w) /\ Held(w) /\ Accounts(w)
  BY <1>1, Evaluating DEF Label, TypeInv, LedgerInv
<1>3. \A u \in Workers : u # w => ev'[u] = ev[u]
  BY <1>1, ReportKept DEF Step
<1>4. LapsKept /\ \A i \in DOMAIN laps : Unwritten(i) /\ laps'[i].status = laps[i].status
  BY <1>1, CrossCheckpointWrites DEF LapsKept, Unwritten, LateFinesOf, ChargesOf
<1>5. Accounts(w)'
  <2>1. CASE Return(w)
    <3>1. ~Busy(w)'
      BY <1>1, <2>1 DEF Return, Busy, TypeInv, TypeOK
    <3>2. QED
      BY <3>1 DEF Accounts
  <2>2. CASE ~TooSoon(ev[w]) /\ Goto(w, IF ev[w].id = 0 THEN "open" ELSE "close")
    <3> DEFINE l == IF ev[w].id = 0 THEN "open" ELSE "close"
               e == [ev[w] EXCEPT !.pc = l]
    <3>1. /\ ev' = [ev EXCEPT ![w] = e] /\ e.rep = ev[w].rep /\ e.id = ev[w].id
          /\ e.lap = ev[w].lap /\ e.pc = l
      BY <1>2, <2>2 DEF Goto, Evaluation
    <3> HIDE DEF e
    <3>2. ev'[w] = e
      BY <1>1, <3>1 DEF TypeInv, TypeOK
    <3>3. ASSUME e.id # 0
          PROVE  /\ e.id \in DOMAIN laps /\ e.pc = "close"
                 /\ e.rep.at - laps[e.id].start >= MinLap
      <4>1. e.id \in DOMAIN laps /\ laps[e.id] \in Lap /\ ev[w].rep.at \in Time
        BY <1>1, <1>2, <3>1, <3>3, RowIsLap, ConstantsOK DEF Held, TypeInv, TypeOK,
           Evaluation, Report
      <4>2. ev[w].lap.start = laps[e.id].start
        BY <1>2, <3>1, <3>3 DEF Accounts
      <4>3. ~(ev[w].rep.at - laps[e.id].start < MinLap)
        BY <2>2, <3>1, <3>3, <4>2 DEF TooSoon
      <4>4. QED
        BY <3>1, <3>3, <4>1, <4>3, ConstantsOK DEF Lap, Time
    <3>4. ASSUME e.id = 0
          PROVE  e.pc = "open" /\ LapsOf(ev[w].rep.veh)' = {}
      <4>1. LapsOf(ev[w].rep.veh) = {}
        BY <1>1, <1>2, <3>1, <3>4 DEF Accounts
      <4>2. QED
        BY <1>4, <3>1, <3>2, <3>4, <4>1 DEF LapsOf, LapsKept
    <3>5. e.id # 0 => /\ laps'[e.id].veh = e.rep.veh
                      /\ e.lap.start = laps'[e.id].start
                      /\ e.lap.num = laps'[e.id].num
                      /\ e.lap.allowed = laps'[e.id].allowed
                      /\ e.rep.at - laps'[e.id].start >= MinLap
      BY <1>2, <1>4, <3>1, <3>3 DEF Accounts, LapsKept
    <3>6. QED
      BY <3>2, <3>3, <3>4, <3>5 DEF Accounts, Settling
  <2>3. QED
    BY <2>1, <2>2 DEF CrossCheckpoint
<1>6. QED
  BY <1>1, <1>2, <1>3, <1>4, <1>5, QuietStepKeepsLedger DEF Settling

\* A step that writes of the last lap of its vehicle only, and goes on settling it.
LEMMA SettlingStep ==
  ASSUME LapInv, LedgerInv, NEW w \in Workers, Busy(w), NEW id \in DOMAIN laps,
         ev[w].id = id, \A j \in LapsOf(ev[w].rep.veh) : j <= id,
         \A u \in Workers : u # w => ev'[u] = ev[u],
         LapsKept,
         \A i \in DOMAIN laps :
           i # id => Unwritten(i) /\ laps'[i].status = laps[i].status,
         Busy(w)', ev'[w].id = id, ev'[w].pc \in Settling,
         Accounts(w)'
  PROVE  LedgerInv' /\ UNCHANGED <<LapsBegun, LapsBooked>>
<1>1. id # 0 /\ DOMAIN laps \subseteq Nat
  BY IdsArePositive DEF LapInv, TypeInv, TypeOK
<1>2. laps[id].veh = ev[w].rep.veh
  BY <1>1 DEF LedgerInv, Accounts
<1>3. \A v : EarlierLaps(v) \subseteq DOMAIN laps /\ id \notin EarlierLaps(v)
  <2> SUFFICES ASSUME NEW v, id \in EarlierLaps(v) PROVE FALSE
    BY DEF EarlierLaps, LapsOf
  <2>1. PICK j \in LapsOf(v) : id < j /\ laps[id].veh = v
    BY DEF EarlierLaps, LapsOf
  <2>2. j <= id /\ j \in Nat /\ id \in Nat
    BY <1>1, <1>2, <2>1 DEF LapsOf
  <2>3. QED
    BY <2>1, <2>2
<1>4. \A v \in Vehicles : \A i \in EarlierLaps(v) : Unwritten(i)
  BY <1>3
<1>5. ASSUME NEW i \in DOMAIN laps, i \in EarlierLaps(laps[i].veh)
      PROVE  laps'[i].status # "IN_PROGRESS"
  BY <1>3, <1>5 DEF LedgerInv, BookInv
<1>6. ASSUME NEW i \in DOMAIN laps, i \notin EarlierLaps(laps[i].veh),
             laps'[i].status # "IN_PROGRESS"
      PROVE  \E u \in Workers : Busy(u)' /\ ev'[u].id = i /\ ev'[u].pc \in Settling
  <2>1. CASE i = id
    BY <2>1
  <2>2. CASE i # id
    <3>1. PICK u \in Workers : Busy(u) /\ ev[u].id = i /\ ev[u].pc \in Settling
      BY <1>6, <2>2 DEF LedgerInv, BookInv
    <3>2. ev'[u] = ev[u]
      BY <2>2, <3>1
    <3>3. QED
      BY <3>1, <3>2 DEF Busy
  <2>3. QED
    BY <2>1, <2>2
<1>7. BookInv /\ TypeInv
  BY DEF LedgerInv, LapInv
<1>8. BookInv' /\ UNCHANGED <<LapsBegun, LapsBooked>>
  BY <1>4, <1>5, <1>6, <1>7, BookInvStays, BookStays
<1>9. LedgerInv'
  BY <1>2, <1>8, StepKeepsLedger DEF LapsKept
<1>10. QED
  BY <1>8, <1>9

\* What a goroutine has in hand while it closes and settles a lap.
LEMMA AtCheckpoint ==
  ASSUME LapInv, LedgerInv, NEW w \in Workers, ev[w].pc \in {"close", "late", "charge"}
  PROVE  /\ ev[w] \in Evaluation /\ Busy(w) /\ Accounts(w)
         /\ ev[w].id # 0 /\ ev[w].id \in DOMAIN laps /\ laps[ev[w].id] \in Lap
         /\ ev[w].rep.at \in Time
         /\ \A u \in Workers : Accounts(u)
<1>1. ev[w].pc \in Label \ {"lap", "gate", "open"}
  BY DEF Label
<1>2. TypeInv /\ TypeOK /\ \A u \in Workers : Accounts(u)
  BY DEF LapInv, TypeInv, LedgerInv
<1>3. Busy(w)
  BY <1>1, <1>2, Evaluating
<1>4. QED
  BY <1>1, <1>2, <1>3, InHand

LEMMA CloseKeepsLedger ==
  ASSUME OneRoute, LapInv, LedgerInv, NEW w \in Workers, CloseLap(w)
  PROVE  LedgerInv' /\ UNCHANGED <<LapsBegun, LapsBooked>>
<1>1. TypeInv /\ ev[w].pc = "close" /\ UNCHANGED <<fines, charges>>
  BY DEF LapInv, CloseLap
<1>2. /\ ev[w] \in Evaluation /\ Busy(w) /\ Accounts(w) /\ HoldsOpenLap(w)
      /\ ev[w].id # 0 /\ ev[w].id \in DOMAIN laps /\ ev[w].rep.at \in Time
      /\ laps[ev[w].id] \in Lap
  BY <1>1, AtCheckpoint DEF LapInv
<1>3. \A u \in Workers : u # w => ev'[u] = ev[u]
  BY <1>1, ReportKept DEF Step
<1>4. PICK id : id = ev[w].id
  OBVIOUS
<1>5. PICK status : status = ComputeLapStatus(ev[w].rep.at - ev[w].lap.start, ev[w].lap.allowed)
  OBVIOUS
<1>6. PICK l : l = IF status = "LATE" THEN "late" ELSE "charge"
  OBVIOUS
<1>7. /\ ev' = [ev EXCEPT ![w] = [ev[w] EXCEPT !.pc = l]]
      /\ [ev[w] EXCEPT !.pc = l].rep = ev[w].rep
      /\ [ev[w] EXCEPT !.pc = l].id = id
      /\ [ev[w] EXCEPT !.pc = l].lap = ev[w].lap
      /\ [ev[w] EXCEPT !.pc = l].pc = l
  BY <1>1, <1>2, <1>4, <1>5, <1>6, NoFailure DEF CloseLap, Goto, Evaluation
<1>8. ev'[w].rep = ev[w].rep /\ ev'[w].id = id /\ ev'[w].lap = ev[w].lap /\ ev'[w].pc = l
  BY <1>1, <1>7 DEF TypeInv, TypeOK
<1>9. l \in {"late", "charge"}
  BY <1>6
<1>10. ~Return(w)
  BY <1>1, <1>8, <1>9 DEF Return, TypeInv, TypeOK, Idle
<1>11. /\ DOMAIN laps' = DOMAIN laps
       /\ \A i \in DOMAIN laps : i # id => laps'[i] = laps[i]
       /\ laps'[id].veh = laps[id].veh
       /\ laps'[id].ended = ev[w].rep.at /\ laps'[id].start = laps[id].start
       /\ laps'[id].num = laps[id].num /\ laps'[id].allowed = laps[id].allowed
  BY <1>1, <1>4, <1>10, CloseLapWrites
<1>12. LapsKept
  BY <1>4, <1>11 DEF LapsKept
<1>13. \A i : LateFinesOf(i)' = LateFinesOf(i) /\ ChargesOf(i)' = ChargesOf(i)
  BY <1>1 DEF LateFinesOf, ChargesOf
<1>14. \A i \in DOMAIN laps : i # id => Unwritten(i) /\ laps'[i].status = laps[i].status
  BY <1>11, <1>13 DEF Unwritten
<1>15. laps[id].veh = ev[w].rep.veh /\ laps[id].status = "IN_PROGRESS"
  BY <1>1, <1>2, <1>4 DEF HoldsOpenLap
<1>16. \A j \in LapsOf(ev[w].rep.veh) : j <= id
  <2>1. id \notin EarlierLaps(laps[id].veh)
    BY <1>2, <1>4, <1>15 DEF LedgerInv, BookInv
  <2>2. DOMAIN laps \subseteq Nat
    BY <1>1, IdsArePositive DEF TypeInv, TypeOK
  <2>3. QED
    BY <1>2, <1>4, <1>15, <2>1, <2>2 DEF EarlierLaps, LapsOf
<1>17. LapsOf(ev[w].rep.veh)' = LapsOf(ev[w].rep.veh)
  BY <1>8, <1>12 DEF LapsOf, LapsKept
<1>18. status = "LATE" <=> TookTooLong(id)'
  <2>1. /\ ev[w].lap.start = laps[id].start
        /\ ev[w].lap.allowed = AllowedLap[TheRoute]
    BY <1>2, <1>4 DEF Accounts, LedgerInv, BookInv
  <2>2. AllowedLap[TheRoute] \in Nat
    BY <1>2, <1>4, <2>1 DEF Accounts, Lap
  <2>3. laps[id].start \in Nat /\ ev[w].rep.at \in Nat
    BY <1>2, <1>4 DEF Lap, Time
  <2>4. TookTooLong(id)' <=>
          AllowedLap[TheRoute] # 0 /\ ev[w].rep.at - laps[id].start > AllowedLap[TheRoute]
    BY <1>11 DEF TookTooLong
  <2>5. QED
    BY <1>5, <2>1, <2>2, <2>3, <2>4 DEF ComputeLapStatus
<1>19. LateFinesOf(id)' = {}
  BY <1>13, <1>15 DEF LateFinesOf, LapInv, SettledOnlyWhenFinished
<1>20. Busy(w)'
  BY <1>8, <1>9 DEF Busy, Idle
<1>21. Accounts(w)'
  <2>1. /\ ev[w].lap.start = laps'[id].start
        /\ ev[w].lap.num = laps'[id].num
        /\ ev[w].lap.allowed = laps'[id].allowed
        /\ ev[w].rep.at - laps'[id].start >= MinLap
    BY <1>1, <1>2, <1>4, <1>11 DEF Accounts
  <2>2. l = "late" <=> TookTooLong(id)'
    BY <1>6, <1>18
  <2>3. QED
    BY <1>2, <1>4, <1>8, <1>9, <1>11, <1>15, <1>16, <1>17, <1>19, <2>1, <2>2 DEF Accounts
<1>22. QED
  BY <1>2, <1>3, <1>4, <1>8, <1>9, <1>12, <1>14, <1>16, <1>20, <1>21, SettlingStep DEF Settling

\* The fine and the charge of the lap in hand.
LEMMA SettlingKeepsLedger ==
  ASSUME LapInv, LedgerInv, NEW w \in Workers, ev[w].pc \in {"late", "charge"},
         Step(w), NEW l \in {"charge", "open"}, Goto(w, l), laps' = laps,
         \A i : i # ev[w].id => /\ LateFinesOf(i)' = LateFinesOf(i)
                               /\ ChargesOf(i)' = ChargesOf(i),
         NEW id, id = ev[w].id,
         LateFinesOf(id)' # {} <=> TookTooLong(id),
         l = "open" =>
           (ChargesOf(id)' # {} <=> ActiveFares(TheRoute, ev[w].rep.at) # {})
  PROVE  LedgerInv' /\ UNCHANGED <<LapsBegun, LapsBooked>>
<1>1. TypeInv /\ Busy(w) /\ Accounts(w) /\ ev[w] \in Evaluation
      /\ id # 0 /\ id \in DOMAIN laps
  BY AtCheckpoint DEF LapInv
<1>2. \A u \in Workers : u # w => ev'[u] = ev[u]
  BY <1>1, ReportKept
<1>3. /\ ev' = [ev EXCEPT ![w] = [ev[w] EXCEPT !.pc = l]]
      /\ [ev[w] EXCEPT !.pc = l].rep = ev[w].rep
      /\ [ev[w] EXCEPT !.pc = l].id = id
      /\ [ev[w] EXCEPT !.pc = l].lap = ev[w].lap
      /\ [ev[w] EXCEPT !.pc = l].pc = l
  BY <1>1 DEF Goto, Evaluation
<1>4. ev'[w].rep = ev[w].rep /\ ev'[w].id = id /\ ev'[w].lap = ev[w].lap /\ ev'[w].pc = l
  BY <1>1, <1>3 DEF TypeInv, TypeOK
<1>5. Busy(w)'
  BY <1>4 DEF Busy, Idle
<1>6. LapsKept
  BY DEF LapsKept
<1>7. \A i \in DOMAIN laps : i # id => Unwritten(i) /\ laps'[i].status = laps[i].status
  BY DEF Unwritten
<1>8. ev[w].pc \in Settling /\ l \in Settling /\ l # "late"
  BY DEF Settling
<1>9. LapsOf(ev[w].rep.veh)' = LapsOf(ev[w].rep.veh) /\ TookTooLong(id)' = TookTooLong(id)
  BY <1>4 DEF LapsOf, TookTooLong
<1>10. Accounts(w)'
  BY <1>1, <1>4, <1>8, <1>9 DEF Accounts
<1>11. \A j \in LapsOf(ev[w].rep.veh) : j <= id
  BY <1>1, <1>8 DEF Accounts
<1>12. QED
  BY <1>1, <1>2, <1>4, <1>5, <1>6, <1>7, <1>8, <1>10, <1>11, SettlingStep

LEMMA FineLateKeepsLedger ==
  ASSUME OneRoute, LapInv, LedgerInv, NEW w \in Workers, FineLateLap(w)
  PROVE  LedgerInv' /\ UNCHANGED <<LapsBegun, LapsBooked>>
<1>1. /\ ev[w].pc = "late" /\ Goto(w, "charge") /\ laps' = laps /\ charges' = charges
      /\ fines' = fines \cup {NewFine(ev[w], "LAP_TIME", ev[w].id, Null)}
      /\ Step(w)
  BY NoFailure DEF FineLateLap, LapInv, Step
<1>2. PICK f : f = NewFine(ev[w], "LAP_TIME", ev[w].id, Null)
  OBVIOUS
<1>3. f.lap = ev[w].id /\ f.type = "LAP_TIME" /\ fines' = fines \cup {f}
  BY <1>1, <1>2 DEF NewFine
<1>4. \A i : i # ev[w].id => /\ LateFinesOf(i)' = LateFinesOf(i)
                            /\ ChargesOf(i)' = ChargesOf(i)
  BY <1>1, <1>3 DEF LateFinesOf, ChargesOf
<1>5. PICK id : id = ev[w].id
  OBVIOUS
<1>6. f \in LateFinesOf(id)'
  BY <1>3, <1>5 DEF LateFinesOf
<1>7. TookTooLong(id)
  BY <1>1, <1>5, AtCheckpoint DEF Accounts, Settling
<1>8. LateFinesOf(id)' # {} <=> TookTooLong(id)
  BY <1>6, <1>7
<1>9. QED
  BY <1>1, <1>4, <1>5, <1>8, SettlingKeepsLedger

LEMMA ChargeKeepsLedger ==
  ASSUME OneRoute, LapInv, LedgerInv, NEW w \in Workers, ChargeLap(w)
  PROVE  LedgerInv' /\ UNCHANGED <<LapsBegun, LapsBooked>>
<1>1. /\ ev[w].pc = "charge" /\ Goto(w, "open") /\ laps' = laps /\ fines' = fines
      /\ Step(w)
  BY DEF ChargeLap, Step
<1>2. ev[w] \in Evaluation /\ Busy(w) /\ Accounts(w) /\ ev[w].id # 0
  BY <1>1, AtCheckpoint
<1>3. PICK id : id = ev[w].id
  OBVIOUS
<1>4. ev[w].route = TheRoute
  BY <1>2 DEF Evaluation, OneRoute
<1>5. ~Fault /\ Unsettled(w)
  BY NoFailure DEF LapInv
<1>6. ChargesOf(id) = {}
  BY <1>1, <1>2, <1>3, <1>5 DEF ChargesOf, Unsettled
<1>7. LateFinesOf(id) # {} <=> TookTooLong(id)
  BY <1>1, <1>2, <1>3 DEF Accounts, Settling
<1>8. \A i : LateFinesOf(i)' = LateFinesOf(i)
  BY <1>1 DEF LateFinesOf
<1>9. /\ \A i : i # id => ChargesOf(i)' = ChargesOf(i)
      /\ ChargesOf(id)' # {} <=> ActiveFares(TheRoute, ev[w].rep.at) # {}
  <2>1. CASE ActiveFares(ev[w].route, ev[w].rep.at) = {} /\ charges' = charges
    BY <1>4, <1>6, <2>1 DEF ChargesOf
  <2>2. ASSUME NEW f \in ActiveFares(ev[w].route, ev[w].rep.at), NEW c,
               c = [lap |-> id, amount |-> f.amount, route |-> ev[w].route, by |-> ev[w].by],
               charges' = charges \cup {c}
        PROVE  /\ \A i : i # id => ChargesOf(i)' = ChargesOf(i)
               /\ ChargesOf(id)' # {} <=> ActiveFares(TheRoute, ev[w].rep.at) # {}
    <3>1. c.lap = id
      BY <2>2
    <3>2. c \in ChargesOf(id)'
      BY <2>2, <3>1 DEF ChargesOf
    <3>3. \A i : i # id => ChargesOf(i)' = ChargesOf(i)
      BY <2>2, <3>1 DEF ChargesOf
    <3>4. QED
      BY <1>4, <2>2, <3>2, <3>3
  <2>3. QED
    BY <1>3, <1>5, <2>1, <2>2 DEF ChargeLap
<1>10. QED
  BY <1>1, <1>3, <1>7, <1>8, <1>9, SettlingKeepsLedger

\* The next lap goes last, and every lap the vehicle had is in the book.
OpensLap(w, v, new) ==
  /\ fines' = fines /\ charges' = charges
  /\ Busy(w) /\ ~Busy(w)' /\ \A u \in Workers : u # w => ev'[u] = ev[u]
  /\ new \in Nat /\ DOMAIN laps' = DOMAIN laps \cup {new}
  /\ \A i \in DOMAIN laps : i < new /\ laps'[i] = laps[i] /\ Unwritten(i)
  /\ laps'[new].veh = v /\ laps'[new].start = ev[w].rep.at
  /\ laps'[new].status = "IN_PROGRESS"
  /\ laps'[new].allowed = AllowedLap[TheRoute]
  /\ laps'[new].num = IF ev[w].id = 0 THEN 1 ELSE ev[w].lap.num + 1
  /\ \A u : LapsOf(u)' = IF u = v THEN LapsOf(u) \cup {new} ELSE LapsOf(u)
  /\ \A u : EarlierLaps(u)' = IF u = v THEN LapsOf(u) ELSE EarlierLaps(u)

LEMMA OpenWrites ==
  ASSUME OneRoute, LapInv, LedgerInv, NEW w \in Workers, OpenNextLap(w),
         NEW v, v = ev[w].rep.veh, NEW new, new = Len(laps) + 1
  PROVE  OpensLap(w, v, new)
<1>1. /\ TypeInv /\ ev[w].pc = "open" /\ Return(w)
      /\ laps' = Append(laps, NewLap(ev[w])) /\ fines' = fines /\ charges' = charges
  BY NoFailure DEF LapInv, OpenNextLap
<1>2. ev[w] \in Evaluation /\ Busy(w)
  BY <1>1, Evaluating DEF Label, TypeInv
<1>3. v \in Vehicles /\ ev[w].rep.at \in Time /\ ev[w].route = TheRoute
  BY <1>2, ConstantsOK DEF Evaluation, Report, OneRoute
<1>4. ~Busy(w)' /\ \A u \in Workers : u # w => ev'[u] = ev[u]
  BY <1>1 DEF Return, Busy, TypeInv, TypeOK
<1>5. PICK row : row = NewLap(ev[w])
  OBVIOUS
<1>6. /\ row \in Lap /\ row.veh = v /\ row.status = "IN_PROGRESS"
      /\ row.start = ev[w].rep.at /\ row.allowed = AllowedLap[TheRoute]
      /\ row.num = IF ev[w].id = 0 THEN 1 ELSE ev[w].lap.num + 1
  BY <1>1, <1>3, <1>5, NewLapIsLap DEF NewLap
<1>7. laps' = Append(laps, row) /\ laps \in Seq(Lap)
  BY <1>1, <1>5 DEF TypeInv, TypeOK
<1>8. /\ DOMAIN laps' = DOMAIN laps \cup {new}
      /\ \A i \in DOMAIN laps : laps'[i] = laps[i]
      /\ laps'[new] = row
  BY <1>6, <1>7, InsertRow
<1>9. new \in Nat /\ \A i \in DOMAIN laps : i \in Nat /\ i < new
  BY <1>7, LenProperties
<1>10. \A i : LateFinesOf(i)' = LateFinesOf(i) /\ ChargesOf(i)' = ChargesOf(i)
  BY <1>1 DEF LateFinesOf, ChargesOf
<1>11. \A i \in DOMAIN laps : Unwritten(i)
  BY <1>8, <1>10 DEF Unwritten
<1>12. \A u : LapsOf(u)' = IF u = v THEN LapsOf(u) \cup {new} ELSE LapsOf(u)
  BY <1>6, <1>8, <1>9 DEF LapsOf
<1>13. ASSUME NEW u
       PROVE  EarlierLaps(u)' = IF u = v THEN LapsOf(u) ELSE EarlierLaps(u)
  <2>1. EarlierLaps(u)' = {i \in LapsOf(u)' : \E j \in LapsOf(u)' : i < j}
    BY DEF EarlierLaps
  <2>2. LapsOf(u) \subseteq DOMAIN laps
    BY DEF LapsOf
  <2>3. QED
    BY <1>9, <1>12, <2>1, <2>2 DEF EarlierLaps
<1>14. QED
  BY <1>1, <1>2, <1>4, <1>6, <1>8, <1>9, <1>11, <1>12, <1>13 DEF OpensLap

\* The vehicle and the instant of the next lap.
LEMMA OpensAt ==
  ASSUME LapInv, NEW w \in Workers, OpenNextLap(w)
  PROVE  /\ ev[w].rep.veh \in Vehicles
         /\ ev[w].rep.at \in Instants /\ ev[w].rep.at \in Time
<1>1. ev[w] \in Evaluation
  BY Evaluating DEF OpenNextLap, Label, LapInv, TypeInv
<1>2. QED
  BY <1>1, ConstantsOK DEF Evaluation, Report, Instants

\* What is settled of the lap in hand when the next one opens.
Settled(id, v, t) ==
  /\ id \in DOMAIN laps /\ LapsOf(v) = EarlierLaps(v) \cup {id}
  /\ LapsBegun[v] \in Nat /\ t - LapsBegun[v] >= MinLap
  /\ laps[id].num = Cardinality(LapsBooked[v]) + 1
  /\ LedgerEntry(id) \notin LapsBooked[v]
  /\ LedgerEntry(id) =
       [num |-> Cardinality(LapsBooked[v]) + 1, from |-> LapsBegun[v], to |-> t,
        fines |-> IF /\ AllowedLap[TheRoute] # 0
                     /\ t - LapsBegun[v] > AllowedLap[TheRoute] THEN 1 ELSE 0,
        charges |-> IF t \in {s \in Instants : ActiveFares(TheRoute, s) # {}}
                    THEN 1 ELSE 0]

LEMMA EntryIs ==
  ASSUME LapInv, LedgerInv, NEW w \in Workers, ev[w].pc = "open",
         NEW id, id = ev[w].id, id # 0, NEW v \in Vehicles, v = ev[w].rep.veh,
         NEW t \in Instants, t = ev[w].rep.at
  PROVE  Settled(id, v, t) /\ laps[id].num = ev[w].lap.num
<1>1. TypeInv /\ BookInv /\ Accounts(w) /\ Busy(w) /\ Held(w)
  <2>1. TypeInv /\ TypeOK /\ Held(w) /\ BookInv /\ Accounts(w)
    BY DEF LapInv, TypeInv, LedgerInv
  <2>2. QED
    BY <2>1, Evaluating DEF Label
<1>2. /\ id \in DOMAIN laps /\ laps[id].veh = v /\ ev[w].lap.num = laps[id].num
      /\ t - laps[id].start >= MinLap /\ laps[id].ended = t
      /\ \A j \in LapsOf(v) : j <= id
      /\ LateFinesOf(id) # {} <=> TookTooLong(id)
      /\ ChargesOf(id) # {} <=> ActiveFares(TheRoute, t) # {}
  BY <1>1 DEF Held, Accounts, Settling
<1>3. laps[id] \in Lap /\ LapsOf(v) \subseteq Nat /\ id \in LapsOf(v)
      /\ DOMAIN laps \subseteq Nat
  BY <1>1, <1>2, RowIsLap, IdsArePositive DEF LapsOf, TypeInv, TypeOK
<1>4. LapsOf(v) = EarlierLaps(v) \cup {id} /\ id \notin EarlierLaps(v)
  BY <1>2, <1>3 DEF EarlierLaps
<1>5. LapsBegun[v] = laps[id].start
  <2>1. LastOf(LapsOf(v)) = id
    BY <1>2, <1>3, LastIs
  <2>2. QED
    BY <1>3, <2>1 DEF LapsBegun
<1>6. laps[id].num = Cardinality(LapsBooked[v]) + 1
  <2>1. PICK i \in LapsOf(v) : /\ \A j \in LapsOf(v) : j <= i
                               /\ laps[i].num = Cardinality(LapsBooked[v]) + 1
    BY <1>1, <1>3 DEF BookInv
  <2>2. i = id
    BY <1>2, <1>3, <2>1
  <2>3. QED
    BY <2>1, <2>2
<1>7. LedgerEntry(id) \notin LapsBooked[v]
  <2> SUFFICES ASSUME NEW i \in EarlierLaps(v), LedgerEntry(id) = LedgerEntry(i)
               PROVE  FALSE
    BY DEF LapsBooked
  <2>1. i \in DOMAIN laps /\ laps[i].veh = v /\ i < id
    BY <1>2, <1>3, <1>4 DEF EarlierLaps, LapsOf
  <2>2. laps[i].num < laps[id].num /\ laps[i].num \in Nat /\ laps[id].num \in Nat
    BY <1>1, <1>2, <2>1, RowIsLap DEF BookInv, TypeInv, TypeOK, Lap
  <2>3. LedgerEntry(id).num = LedgerEntry(i).num
    OBVIOUS
  <2>4. QED
    BY <2>2, <2>3 DEF LedgerEntry
<1>8. Cardinality(LateFinesOf(id)) = IF TookTooLong(id) THEN 1 ELSE 0
  <2>1. CASE LateFinesOf(id) = {}
    BY <1>2, <2>1, FS_EmptySet
  <2>2. ASSUME NEW f \in LateFinesOf(id)
        PROVE  Cardinality(LateFinesOf(id)) = 1
    <3>1. LateFinesOf(id) = {f}
      BY DEF LateFinesOf, LapInv, OneLateFinePerLap
    <3>2. QED
      BY <3>1, FS_Singleton
  <2>3. QED
    BY <1>2, <2>1, <2>2
<1>9. Cardinality(ChargesOf(id)) = IF ActiveFares(TheRoute, t) # {} THEN 1 ELSE 0
  <2>1. CASE ChargesOf(id) = {}
    BY <1>2, <2>1, FS_EmptySet
  <2>2. ASSUME NEW c \in ChargesOf(id)
        PROVE  Cardinality(ChargesOf(id)) = 1
    <3>1. ChargesOf(id) = {c}
      BY DEF ChargesOf, LapInv, OneChargePerLap
    <3>2. QED
      BY <3>1, FS_Singleton
  <2>3. QED
    BY <1>2, <2>1, <2>2
<1>10. LapsBegun[v] \in Nat
  BY <1>3, <1>5 DEF Lap, Time
<1>11. QED
  BY <1>2, <1>4, <1>5, <1>6, <1>7, <1>8, <1>9, <1>10 DEF LedgerEntry, TookTooLong, Settled

\* OpenNextLap enters the lap in hand, if there is one, and begins the next.
Enters(id, v, t) ==
  /\ LapsBegun' = [LapsBegun EXCEPT ![v] = t]
  /\ LapsBooked' = [LapsBooked EXCEPT
       ![v] = IF id = 0 THEN {} ELSE @ \cup {LedgerEntry(id)}]
  /\ id = 0 => LapsOf(v) = {}

LEMMA OpenEnters ==
  ASSUME OneRoute, LapInv, LedgerInv, NEW w \in Workers, OpenNextLap(w),
         NEW v \in Vehicles, v = ev[w].rep.veh, NEW t \in Instants, t = ev[w].rep.at,
         NEW id, id = ev[w].id
  PROVE  Enters(id, v, t)
<1>1. TypeInv /\ BookInv /\ Accounts(w) /\ ev[w].pc = "open"
  BY DEF LapInv, LedgerInv, OpenNextLap
<1>2. PICK new : OpensLap(w, v, new)
  BY OpenWrites
<1>3. /\ new \in Nat /\ DOMAIN laps' = DOMAIN laps \cup {new}
      /\ \A i \in DOMAIN laps : i < new /\ laps'[i] = laps[i] /\ Unwritten(i)
      /\ laps'[new].start = t
      /\ \A u : LapsOf(u)' = IF u = v THEN LapsOf(u) \cup {new} ELSE LapsOf(u)
      /\ \A u : EarlierLaps(u)' = IF u = v THEN LapsOf(u) ELSE EarlierLaps(u)
      /\ Busy(w)
  BY <1>2 DEF OpensLap
<1>4. DOMAIN laps \subseteq Nat /\ \A u : LapsOf(u) \subseteq DOMAIN laps
  BY <1>1, IdsArePositive DEF LapsOf, TypeInv, TypeOK
<1>5. LapsBegun' = [LapsBegun EXCEPT ![v] = t]
  <2>1. LastOf(LapsOf(v)') = new
    <3>1. LapsOf(v)' \subseteq Nat /\ new \in LapsOf(v)' /\ \A j \in LapsOf(v)' : j <= new
      BY <1>3, <1>4
    <3>2. QED
      BY <3>1, LastIs
  <2>2. LapsBegun'[v] = t
    BY <1>3, <2>1 DEF LapsBegun
  <2>3. ASSUME NEW u \in Vehicles, u # v
        PROVE  LapsBegun'[u] = LapsBegun[u]
    <3>1. LapsOf(u)' = LapsOf(u)
      BY <1>3, <2>3
    <3>2. ASSUME LapsOf(u) # {}
          PROVE  laps'[LastOf(LapsOf(u))] = laps[LastOf(LapsOf(u))]
      <4>1. PICK i \in LapsOf(u) : \A j \in LapsOf(u) : j <= i
        BY <1>1, <3>2 DEF BookInv
      <4>2. LastOf(LapsOf(u)) = i
        BY <1>4, <4>1, LastIs
      <4>3. QED
        BY <1>3, <1>4, <4>1, <4>2
    <3>3. QED
      BY <3>1, <3>2 DEF LapsBegun
  <2>4. QED
    BY <2>2, <2>3 DEF LapsBegun
<1>6. \A i \in DOMAIN laps : LedgerEntry(i)' = LedgerEntry(i)
  BY <1>3 DEF LedgerEntry, Unwritten
<1>7. id = 0 => LapsOf(v) = {}
  BY <1>1, <1>3 DEF Accounts
<1>8. LapsBooked' = [LapsBooked EXCEPT
        ![v] = IF id = 0 THEN {} ELSE @ \cup {LedgerEntry(id)}]
  <2>1. ASSUME NEW u \in Vehicles, u # v
        PROVE  LapsBooked'[u] = LapsBooked[u]
    <3>1. EarlierLaps(u)' = EarlierLaps(u) /\ EarlierLaps(u) \subseteq DOMAIN laps
      BY <1>3, <2>1 DEF EarlierLaps, LapsOf
    <3>2. {LedgerEntry(i) : i \in EarlierLaps(u)}' = {LedgerEntry(i) : i \in EarlierLaps(u)}
      BY <1>6, <3>1
    <3>3. QED
      BY <3>2 DEF LapsBooked
  <2>2. LapsBooked'[v] = {LedgerEntry(i) : i \in LapsOf(v)}
    <3>1. EarlierLaps(v)' = LapsOf(v) /\ LapsOf(v) \subseteq DOMAIN laps
      BY <1>3, <1>4
    <3>2. {LedgerEntry(i) : i \in EarlierLaps(v)}' = {LedgerEntry(i) : i \in LapsOf(v)}
      BY <1>6, <3>1
    <3>3. QED
      BY <3>2 DEF LapsBooked
  <2>3. id # 0 => LapsOf(v) = EarlierLaps(v) \cup {id}
    BY <1>1, EntryIs DEF Settled
  <2>4. LapsBooked'[v] = IF id = 0 THEN {} ELSE LapsBooked[v] \cup {LedgerEntry(id)}
    <3>1. CASE id = 0
      BY <1>7, <2>2, <3>1
    <3>2. CASE id # 0
      <4>1. LapsBooked[v] = {LedgerEntry(i) : i \in EarlierLaps(v)}
        BY DEF LapsBooked
      <4>2. {LedgerEntry(i) : i \in EarlierLaps(v) \cup {id}}
              = {LedgerEntry(i) : i \in EarlierLaps(v)} \cup {LedgerEntry(id)}
        OBVIOUS
      <4>3. QED
        BY <2>2, <2>3, <3>2, <4>1, <4>2
    <3>3. QED
      BY <3>1, <3>2
  <2>5. QED
    BY <2>1, <2>4 DEF LapsBooked
<1>9. QED
  BY <1>5, <1>7, <1>8 DEF Enters

LEMMA OpenImplements ==
  ASSUME OneRoute, LapInv, LedgerInv, NEW w \in Workers, OpenNextLap(w)
  PROVE  Ledger!Next
<1>1. PICK v \in Vehicles, t \in Instants : v = ev[w].rep.veh /\ t = ev[w].rep.at
  BY OpensAt
<1>2. PICK id : id = ev[w].id
  OBVIOUS
<1>3. Enters(id, v, t)
  BY <1>1, <1>2, OpenEnters
<1>4. CASE id = 0
  <2>1. LapsBegun[v] = Null /\ LapsBooked[v] = {}
    BY <1>3, <1>4 DEF Enters, LapsBegun, LapsBooked, EarlierLaps
  <2>2. LapsBooked' = LapsBooked
    BY <1>3, <1>4, <2>1 DEF Enters, LapsBooked
  <2>3. Ledger!Begin(v, t)
    BY <1>3, <2>1, <2>2 DEF Ledger!Begin, Enters
  <2>4. QED
    BY <2>3 DEF Ledger!Next
<1>5. CASE id # 0
  <2>1. Settled(id, v, t)
    BY <1>1, <1>2, <1>5, EntryIs DEF OpenNextLap
  <2>2. LapsBegun[v] # Null
    BY <2>1 DEF Null, Settled
  <2>3. Ledger!Cardinality(LapsBooked[v]) = Cardinality(LapsBooked[v])
    BY DEF Ledger!Cardinality, Cardinality
  <2>4. LapsBooked' = [LapsBooked EXCEPT ![v] = @ \cup {LedgerEntry(id)}]
    BY <1>3, <1>5 DEF Enters
  <2>5. Ledger!Complete(v, t)
    BY <1>3, <2>1, <2>2, <2>3, <2>4 DEF Ledger!Complete, Enters, Settled
  <2>6. QED
    BY <2>5 DEF Ledger!Next
<1>6. QED
  BY <1>4, <1>5

LEMMA OpenKeepsLedger ==
  ASSUME OneRoute, LapInv, LedgerInv, NEW w \in Workers, OpenNextLap(w)
  PROVE  LedgerInv'
<1>1. PICK v \in Vehicles, t \in Instants : v = ev[w].rep.veh /\ t = ev[w].rep.at
  BY OpensAt
<1>2. PICK id, new : id = ev[w].id /\ OpensLap(w, v, new) /\ Enters(id, v, t)
  BY <1>1, OpenWrites, OpenEnters
<1>3. /\ fines' = fines /\ charges' = charges
      /\ Busy(w) /\ ~Busy(w)' /\ \A u \in Workers : u # w => ev'[u] = ev[u]
      /\ new \in Nat /\ DOMAIN laps' = DOMAIN laps \cup {new}
      /\ \A i \in DOMAIN laps : i < new /\ laps'[i] = laps[i] /\ Unwritten(i)
      /\ laps'[new].veh = v /\ laps'[new].status = "IN_PROGRESS"
      /\ laps'[new].allowed = AllowedLap[TheRoute]
      /\ laps'[new].num = IF id = 0 THEN 1 ELSE ev[w].lap.num + 1
      /\ \A u : LapsOf(u)' = IF u = v THEN LapsOf(u) \cup {new} ELSE LapsOf(u)
      /\ \A u : EarlierLaps(u)' = IF u = v THEN LapsOf(u) ELSE EarlierLaps(u)
  BY <1>2 DEF OpensLap
<1>4. /\ ev[w].pc = "open" /\ TypeInv /\ BookInv /\ HoldsNoOpenLap(w)
      /\ \A u \in Workers : Accounts(u)
  BY DEF OpenNextLap, LapInv, LedgerInv
<1>5. /\ DOMAIN laps \subseteq Nat \ {0} /\ \A u : LapsOf(u) \subseteq DOMAIN laps
      /\ \A i \in DOMAIN laps : laps[i].num \in Nat
  BY <1>4, IdsArePositive, RowIsLap DEF LapsOf, TypeInv, TypeOK, Lap
<1>6. /\ LapsBooked' = [LapsBooked EXCEPT
           ![v] = IF id = 0 THEN {} ELSE @ \cup {LedgerEntry(id)}]
      /\ id = 0 => LapsOf(v) = {}
  BY <1>2 DEF Enters
<1>7. id # 0 => /\ id \in DOMAIN laps /\ LapsOf(v) = EarlierLaps(v) \cup {id}
                /\ laps[id].num = Cardinality(LapsBooked[v]) + 1
                /\ laps[id].num = ev[w].lap.num
                /\ LedgerEntry(id) \notin LapsBooked[v]
  BY <1>1, <1>2, <1>4, EntryIs DEF Settled
<1>8. \A i \in LapsOf(v) : laps[i].num < laps'[new].num
  <2> SUFFICES ASSUME NEW i \in LapsOf(v) PROVE laps[i].num < laps'[new].num
    OBVIOUS
  <2>1. id # 0 /\ laps'[new].num = laps[id].num + 1 /\ id \in DOMAIN laps
    BY <1>3, <1>6, <1>7
  <2>2. i <= id /\ id \in LapsOf(v)
    BY <1>1, <1>2, <1>3, <1>4, <1>7, <2>1 DEF Accounts, Settling
  <2>3. laps[i].num <= laps[id].num
    <3>1. i = id \/ i < id
      BY <1>5, <2>1, <2>2
    <3>2. laps[i].veh = laps[id].veh /\ i \in DOMAIN laps
      BY <2>2 DEF LapsOf
    <3>3. QED
      BY <1>4, <1>5, <2>1, <3>1, <3>2 DEF BookInv
  <2>4. laps[i].num \in Nat /\ laps[id].num \in Nat
    BY <1>5, <2>1
  <2>5. QED
    BY <2>1, <2>3, <2>4
<1>9. \A i \in DOMAIN laps' : laps'[i].allowed = AllowedLap[TheRoute]
  BY <1>3, <1>4 DEF BookInv
<1>10. ASSUME NEW i \in DOMAIN laps', i \in EarlierLaps(laps[i].veh)'
       PROVE  laps'[i].status # "IN_PROGRESS"
  <2>1. PICK u : u = laps'[i].veh /\ i \in EarlierLaps(u)'
    BY <1>10
  <2>2. i \in LapsOf(u) /\ i \in DOMAIN laps
    BY <1>3, <1>5, <2>1 DEF EarlierLaps
  <2>3. laps'[i] = laps[i] /\ laps[i].veh = u
    BY <1>3, <2>2 DEF LapsOf
  <2>4. CASE u = v
    BY <1>1, <1>3, <1>4, <2>2, <2>3, <2>4 DEF HoldsNoOpenLap
  <2>5. CASE u # v
    BY <1>3, <1>4, <2>1, <2>2, <2>3, <2>5 DEF BookInv
  <2>6. QED
    BY <2>4, <2>5
<1>11. ASSUME NEW i \in DOMAIN laps', laps'[i].status # "IN_PROGRESS",
              i \notin EarlierLaps(laps[i].veh)'
       PROVE  \E u \in Workers : Busy(u)' /\ ev'[u].id = i /\ ev'[u].pc \in Settling
  <2>1. i \in DOMAIN laps /\ laps'[i] = laps[i]
    BY <1>3, <1>11
  <2>2. laps[i].veh # v /\ i \notin EarlierLaps(laps[i].veh)
    <3>1. i \notin (IF laps[i].veh = v THEN LapsOf(v) ELSE EarlierLaps(laps[i].veh))
      BY <1>3, <1>11, <2>1
    <3>2. QED
      BY <2>1, <3>1 DEF LapsOf
  <2>3. PICK u \in Workers : Busy(u) /\ ev[u].id = i /\ ev[u].pc \in Settling
    BY <1>4, <1>11, <2>1, <2>2 DEF BookInv
  <2>4. ev[u].rep.veh = laps[i].veh
    BY <1>4, <1>5, <2>1, <2>3 DEF Accounts
  <2>5. u # w /\ ev'[u] = ev[u]
    BY <1>1, <1>3, <2>2, <2>4
  <2>6. QED
    BY <2>3, <2>5 DEF Busy
<1>12. ASSUME NEW i \in DOMAIN laps', NEW j \in DOMAIN laps',
              laps'[i].veh = laps'[j].veh, i < j
       PROVE  laps'[i].num < laps'[j].num
  <2>1. i \in DOMAIN laps
    <3>1. i # new
      BY <1>3, <1>5, <1>12
    <3>2. QED
      BY <1>3, <3>1
  <2>2. CASE j \in DOMAIN laps
    BY <1>3, <1>4, <1>12, <2>1, <2>2 DEF BookInv
  <2>3. CASE j = new
    BY <1>3, <1>8, <1>12, <2>1, <2>3 DEF LapsOf
  <2>4. QED
    BY <1>3, <2>2, <2>3
<1>13. LapsBooked \in [Vehicles -> SUBSET {LedgerEntry(i) : i \in DOMAIN laps}]
       /\ \A u \in Vehicles : IsFiniteSet(LapsBooked[u])
  BY <1>4 DEF BookInv, LapsBooked, EarlierLaps, LapsOf
<1>14. /\ \A u \in Vehicles : IsFiniteSet(LapsBooked'[u])
       /\ laps'[new].num = Cardinality(LapsBooked'[v]) + 1
  <2>1. \A u \in Vehicles : u # v => LapsBooked'[u] = LapsBooked[u]
    BY <1>6, <1>13
  <2>2. IsFiniteSet(LapsBooked'[v]) /\ laps'[new].num = Cardinality(LapsBooked'[v]) + 1
    <3>1. CASE id = 0
      BY <1>3, <1>6, <1>13, <3>1, FS_EmptySet
    <3>2. CASE id # 0
      <4>1. LapsBooked'[v] = LapsBooked[v] \cup {LedgerEntry(id)}
        BY <1>6, <1>13, <3>2
      <4>2. PICK book, entry : /\ book = LapsBooked[v] /\ entry = LedgerEntry(id)
                               /\ IsFiniteSet(book) /\ entry \notin book
                               /\ LapsBooked'[v] = book \cup {entry}
        BY <1>7, <1>13, <3>2, <4>1
      <4>3. /\ IsFiniteSet(LapsBooked'[v])
            /\ Cardinality(LapsBooked'[v]) = Cardinality(book) + 1
        BY <4>2, FS_AddElement
      <4>4. QED
        BY <1>3, <1>7, <3>2, <4>2, <4>3
    <3>3. QED
      BY <3>1, <3>2
  <2>3. QED
    BY <1>13, <2>1, <2>2
<1>15. ASSUME NEW u \in Vehicles, LapsOf(u)' # {}
       PROVE  \E i \in LapsOf(u)' : /\ \A j \in LapsOf(u)' : j <= i
                                    /\ laps'[i].num = Cardinality(LapsBooked'[u]) + 1
  <2>1. CASE u = v
    BY <1>3, <1>5, <1>14, <2>1
  <2>2. CASE u # v
    <3>1. LapsOf(u)' = LapsOf(u) /\ LapsBooked'[u] = LapsBooked[u]
      BY <1>3, <1>6, <1>13, <2>2
    <3>2. PICK i \in LapsOf(u) : /\ \A j \in LapsOf(u) : j <= i
                                 /\ laps[i].num = Cardinality(LapsBooked[u]) + 1
      BY <1>4, <1>15, <3>1 DEF BookInv
    <3>3. laps'[i] = laps[i]
      BY <1>3, <1>5
    <3>4. QED
      BY <3>1, <3>2, <3>3
  <2>3. QED
    BY <2>1, <2>2
<1>16. BookInv'
  BY <1>9, <1>10, <1>11, <1>12, <1>14, <1>15 DEF BookInv
<1>17. Accounts(w)'
  BY <1>3 DEF Accounts
<1>18. \A i \in DOMAIN laps :
         /\ i \in DOMAIN laps'
         /\ laps'[i].veh = laps[i].veh
         /\ laps'[i].start = laps[i].start
         /\ laps'[i].num = laps[i].num
         /\ laps'[i].allowed = laps[i].allowed
         /\ laps[i].veh # v => Unwritten(i)
  BY <1>3
<1>19. \A i \in DOMAIN laps' : i \notin DOMAIN laps => laps'[i].veh = v
  BY <1>3
<1>20. QED
  BY <1>1, <1>3, <1>16, <1>17, <1>18, <1>19, StepKeepsLedger

LEMMA ReceiveKeepsLedger ==
  ASSUME LapInv, LedgerInv, NEW w \in Workers, NEW p \in Reports, Receive(w, p)
  PROVE  LedgerInv' /\ UNCHANGED <<LapsBegun, LapsBooked>>
<1>1. UNCHANGED <<laps, fines, charges>> /\ ~Busy(w)
  BY DEF Receive, tables, Busy
<1>2. \A u \in Workers : u # w => ev'[u] = ev[u]
  BY DEF Receive, Continue, LapInv, TypeInv, TypeOK
<1>3. LapsKept /\ \A i \in DOMAIN laps : Unwritten(i) /\ laps'[i].status = laps[i].status
  BY <1>1 DEF LapsKept, Unwritten, LateFinesOf, ChargesOf
<1>4. BookInv' /\ UNCHANGED <<LapsBegun, LapsBooked>>
  BY <1>1, <1>2, <1>3, QuietBook
<1>5. ASSUME NEW u \in Workers, u # w
      PROVE  Accounts(u)'
  <2>1. Accounts(u) /\ ev'[u] = ev[u]
    BY <1>2, <1>5 DEF LedgerInv
  <2>2. QED
    BY <1>1, <2>1 DEF Accounts, Busy, LapsOf, LateFinesOf, ChargesOf, TookTooLong
<1>6. Accounts(w)'
  <2>1. CASE UNCHANGED ev
    BY <1>1, <2>1 DEF Accounts, Busy
  <2>2. CASE Continue(w, [pc |-> "lap", rep |-> p, by |-> received + 1,
                          route |-> routeOf[p.veh], id |-> 0, lap |-> NoLap,
                          dirty |-> FALSE, rivals |-> {}])
    <3>1. ev'[w].id = 0 /\ ev'[w].pc = "lap"
      BY <2>2 DEF Continue, LapInv, TypeInv, TypeOK
    <3>2. QED
      BY <3>1 DEF Accounts
  <2>3. QED
    BY <2>1, <2>2 DEF Receive
<1>7. QED
  BY <1>4, <1>5, <1>6 DEF LedgerInv

LEMMA IdleStepKeepsLedger ==
  ASSUME LedgerInv, UNCHANGED <<laps, fines, charges, ev>>
  PROVE  LedgerInv' /\ UNCHANGED <<LapsBegun, LapsBooked>>
<1>1. /\ \A v : LapsOf(v)' = LapsOf(v) /\ EarlierLaps(v)' = EarlierLaps(v)
      /\ \A i : /\ LateFinesOf(i)' = LateFinesOf(i) /\ ChargesOf(i)' = ChargesOf(i)
               /\ LedgerEntry(i)' = LedgerEntry(i)
               /\ TookTooLong(i)' = TookTooLong(i)
  BY DEF LapsOf, EarlierLaps, LateFinesOf, ChargesOf, LedgerEntry, TookTooLong
<1>2. LapsBegun' = LapsBegun /\ LapsBooked' = LapsBooked
  BY <1>1 DEF LapsBegun, LapsBooked
<1>3. BookInv'
  BY <1>1, <1>2 DEF LedgerInv, BookInv, Busy
<1>4. ASSUME NEW w \in Workers PROVE Accounts(w)'
  BY <1>1, <1>4 DEF LedgerInv, Accounts, Busy
<1>5. QED
  BY <1>2, <1>3, <1>4 DEF LedgerInv

LEMMA InitOpensLedger ==
  ASSUME OneRoute, Init
  PROVE  LedgerInv /\ Ledger!Init
<1>1. /\ laps \in InitialLaps /\ fines = {} /\ \A w \in Workers : ~Busy(w)
      /\ \A i \in DOMAIN laps : /\ laps[i].status = "IN_PROGRESS" /\ laps[i].num = 1
                               /\ laps[i].allowed = AllowedLap[TheRoute]
  BY DEF OneRoute, Init, Busy
<1>2. LapInv /\ DOMAIN laps \subseteq Nat
  BY InitHasInv, IdsArePositive DEF LapInv, TypeInv, TypeOK
<1>3. \A i, j \in DOMAIN laps : laps[i].veh = laps[j].veh => i = j
  BY <1>1, <1>2 DEF LapInv, OneOpenLap
<1>4. \A v : EarlierLaps(v) = {}
  BY <1>2, <1>3 DEF EarlierLaps, LapsOf
<1>5. \A v \in Vehicles : LapsBooked[v] = {}
  BY <1>4 DEF LapsBooked
<1>6. ASSUME NEW v \in Vehicles, LapsOf(v) # {}
      PROVE  \E i \in LapsOf(v) : /\ \A j \in LapsOf(v) : j <= i
                                  /\ laps[i].num = Cardinality(LapsBooked[v]) + 1
  <2>1. PICK i \in LapsOf(v) : i \in DOMAIN laps /\ laps[i].veh = v
    BY <1>6 DEF LapsOf
  <2>2. \A j \in LapsOf(v) : j = i
    BY <1>3, <2>1 DEF LapsOf
  <2>3. laps[i].num = Cardinality(LapsBooked[v]) + 1
    BY <1>1, <1>5, <2>1, FS_EmptySet
  <2>4. QED
    BY <1>2, <2>1, <2>2, <2>3
<1>7. LedgerInv
  <2>1. \A v \in Vehicles : IsFiniteSet(LapsBooked[v])
    BY <1>5, FS_EmptySet
  <2>2. \A i, j \in DOMAIN laps :
          laps[i].veh = laps[j].veh /\ i < j => laps[i].num < laps[j].num
    BY <1>2, <1>3
  <2>3. BookInv
    BY <1>1, <1>4, <1>6, <2>1, <2>2 DEF BookInv
  <2>4. QED
    BY <1>1, <2>3 DEF LedgerInv, Accounts
<1>8. ASSUME NEW v \in Vehicles, LapsOf(v) # {}
      PROVE  laps[LastOf(LapsOf(v))].start \in Instants
  <2>1. PICK i \in LapsOf(v) : \A j \in LapsOf(v) : j <= i
    BY <1>6, <1>8
  <2>2. LastOf(LapsOf(v)) = i
    BY <1>2, <2>1, LastIs DEF LapsOf
  <2>3. laps[i].start \in {laps[j].start : j \in DOMAIN laps}
    BY <2>1 DEF LapsOf
  <2>4. QED
    BY <1>1, <2>2, <2>3 DEF Instants
<1>9. LapsBegun \in [Vehicles -> Instants \cup {Null}]
  BY <1>8 DEF LapsBegun
<1>10. LapsBooked = [v \in Vehicles |-> {}]
  BY <1>5 DEF LapsBooked
<1>11. QED
  BY <1>7, <1>9, <1>10 DEF Ledger!Init

LEMMA NextKeepsLedger ==
  ASSUME OneRoute, LapInv, LedgerInv, [Next]_vars
  PROVE  LedgerInv' /\ [Ledger!Next]_<<LapsBegun, LapsBooked>>
<1>1. ~Fault
  BY NoFailure DEF LapInv
<1>2. ASSUME NEW w \in Workers, Step(w)
      PROVE  LedgerInv' /\ [Ledger!Next]_<<LapsBegun, LapsBooked>>
  <2>1. CASE OpenNextLap(w)
    BY <2>1, OpenKeepsLedger, OpenImplements
  <2>2. CASE ~OpenNextLap(w)
    BY <1>2, <2>2, ReadKeepsLedger, RollingKeepsLedger, CrossKeepsLedger,
       CloseKeepsLedger, FineLateKeepsLedger, ChargeKeepsLedger DEF Step
  <2>3. QED
    BY <2>1, <2>2
<1>3. ASSUME NEW w \in Workers, NEW p \in Reports, Receive(w, p)
      PROVE  LedgerInv' /\ [Ledger!Next]_<<LapsBegun, LapsBooked>>
  BY <1>3, ReceiveKeepsLedger
<1>4. ~Crash /\ \A w \in Workers : ~ReadFails(w)
  BY <1>1 DEF Crash, ReadFails
<1>5. ASSUME NEW v \in Vehicles, NEW r \in Routes \cup {NoRoute}, Reassign(v, r)
      PROVE  LedgerInv' /\ [Ledger!Next]_<<LapsBegun, LapsBooked>>
  BY <1>5, IdleStepKeepsLedger DEF Reassign, tables
<1>6. CASE UNCHANGED vars
  BY <1>6, IdleStepKeepsLedger DEF vars
<1>7. QED
  BY <1>2, <1>3, <1>4, <1>5, <1>6 DEF Next

\* The engine implements the ledger: whatever the order in which the reports of
\* any number of vehicles arrive and their goroutines interleave, the close, the
\* fine, the charge and the opening of the next lap amount to one entry, with its
\* number, its times, a fine exactly when late and a charge exactly when priced.
THEOREM EngineKeepsLedger == ASSUME OneRoute PROVE Spec => KeepsLedger
<1>1. Init => LedgerInv /\ Ledger!Init
  BY InitOpensLedger
<1>2. LapInv /\ LedgerInv /\ [Next]_vars =>
        LedgerInv' /\ [Ledger!Next]_<<LapsBegun, LapsBooked>>
  BY NextKeepsLedger
<1>3. Spec => []LapInv
  BY Serialized DEF OneRoute
<1>4. QED
  BY <1>1, <1>2, <1>3, PTL DEF Spec, KeepsLedger, Ledger!Spec
=============================================================================
