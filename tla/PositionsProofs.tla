-------------------------- MODULE PositionsProofs --------------------------
(***************************************************************************)
(* Proofs about Positions for any trackers, reports handled at once, times *)
(* and numbers of failures and restarts: the types, and that only a fault  *)
(* or overlapping reports part the copy in Redis from the row.             *)
(***************************************************************************)
EXTENDS Positions, TLAPS

Request == [pc: {"idle", "notify"} \cup Storing,
            dev: Devices \cup {Nobody}, time: Times \cup {None}]
WarmUp == [pc: {"read", "copy", "index"}, rows: [Devices -> Times \cup {None}],
           todo: SUBSET Devices, at: Devices \cup {Nobody}]

\* A report that is being handled is a device's, and has a time until it is stored.
Handled(h) ==
  /\ req[h].pc # "idle" => req[h].dev \in Devices
  /\ req[h].pc \in Storing => req[h].time \in Times

TypeInv == TypeOK /\ \A h \in Handlers : Handled(h)

\* The report that a handler is storing is one of d.
Stores(h, d) == req[h].dev = d /\ req[h].pc \in Storing

\* What holds of a device that nothing has split: one report of it at most is
\* being stored, the copy is that report's from SetKey to Upsert, and without a
\* report the copy is the row's or absent; and if it is absent, the row that
\* the warm-up has yet to copy is still the row.
Agrees(d) ==
  /\ \A g, h \in Handlers : Stores(g, d) /\ Stores(h, d) => g = h
  /\ \A h \in Handlers : Stores(h, d) /\ req[h].pc # "set" => cache[d] = req[h].time
  /\ ~Busy(d) /\ cache[d] # None => cache[d] = last[d]
  /\ ~Busy(d) /\ cache[d] = None /\ d \in warm.todo => warm.rows[d] = last[d]

CopiesInv == \A d \in Devices \ split : Agrees(d)

IInv == TypeInv /\ CopiesInv

-----------------------------------------------------------------------------
(* Types.                                                                  *)

LEMMA Typed ==
  ASSUME TypeOK
  PROVE  /\ cache \in [Devices -> Times \cup {None}] /\ last \in [Devices -> Times \cup {None}]
         /\ req \in [Handlers -> Request] /\ warm \in WarmUp
         /\ since \in [Devices -> 0..Window] /\ faults \in 0..MaxFaults
         /\ restarts \in 0..MaxRestarts
         /\ Window \in Nat \ {0} /\ MaxFaults \in Nat /\ MaxRestarts \in Nat
         /\ Trackers \subseteq Devices /\ Nobody \notin Devices /\ None \notin Times
BY ConstantsOK DEF TypeOK, Request, WarmUp, None, Times

LEMMA FaultTyped ==
  ASSUME TypeOK, Fault
  PROVE  faults' \in 0..MaxFaults
BY Typed DEF Fault

\* One handler goes on with another record; the others keep theirs.
LEMMA HandlerMoves ==
  ASSUME TypeInv, NEW h \in Handlers, NEW q \in Request, req' = [req EXCEPT ![h] = q],
         q.pc # "idle" => q.dev \in Devices, q.pc \in Storing => q.time \in Times
  PROVE  /\ req' \in [Handlers -> Request] /\ req'[h] = q
         /\ \A g \in Handlers \ {h} : req'[g] = req[g]
         /\ \A g \in Handlers : Handled(g)'
<1>1. req \in [Handlers -> Request]
  BY Typed DEF TypeInv
<1>2. /\ req' \in [Handlers -> Request] /\ req'[h] = q
      /\ \A g \in Handlers \ {h} : req'[g] = req[g]
  BY <1>1
<1>3. ASSUME NEW g \in Handlers PROVE Handled(g)'
  <2>1. CASE g = h
    BY <1>2, <2>1 DEF Handled, Storing
  <2>2. CASE g # h
    BY <1>2, <2>2 DEF Handled, TypeInv, Storing
  <2>3. QED
    BY <2>1, <2>2
<1>4. QED
  BY <1>2, <1>3

\* What the request of a handler becomes when only its step, or its step and
\* its time, change.
LEMMA Advanced ==
  ASSUME TypeInv, NEW h \in Handlers, req[h].pc \in Storing, NEW pc \in {"notify"} \cup Storing
  PROVE  LET on == [req[h] EXCEPT !.pc = pc]
             off == [req[h] EXCEPT !.pc = pc, !.time = None]
         IN  /\ on \in Request /\ off \in Request /\ req[h].dev \in Devices
             /\ on.pc = pc /\ on.dev = req[h].dev /\ on.time = req[h].time
             /\ off.pc = pc /\ off.dev = req[h].dev
             /\ req[h].time \in Times
<1>1. req[h] \in Request /\ Handled(h)
  BY Typed DEF TypeInv
<1>2. req[h].dev \in Devices /\ req[h].time \in Times
  BY <1>1 DEF Handled, Storing
<1>3. QED
  BY <1>1, <1>2 DEF Request

LEMMA IdleTyped == Idle \in Request /\ Idle.pc = "idle"
BY DEF Idle, Request

\* A step of a handler keeps the types.
LEMMA HandlerKeepsTypes ==
  ASSUME TypeInv, NEW h \in Handlers, NEW q \in Request, req' = [req EXCEPT ![h] = q],
         q.pc # "idle" => q.dev \in Devices, q.pc \in Storing => q.time \in Times,
         cache' \in [Devices -> Times \cup {None}], last' \in [Devices -> Times \cup {None}],
         index' \subseteq Devices, split' \subseteq Devices, hidden' \subseteq Devices,
         since' \in [Devices -> 0..Window], faults' \in 0..MaxFaults,
         warm' = warm, restarts' = restarts
  PROVE  TypeInv'
<1>1. req' \in [Handlers -> Request] /\ \A g \in Handlers : Handled(g)'
  BY HandlerMoves
<1>2. TypeOK'
  BY <1>1 DEF TypeInv, TypeOK, Request
<1>3. QED
  BY <1>1, <1>2 DEF TypeInv

\* A step of the warm-up keeps them as well.
LEMMA WarmKeepsTypes ==
  ASSUME TypeInv, req' = req, last' = last, since' = since, split' \subseteq Devices,
         restarts' = restarts, cache' \in [Devices -> Times \cup {None}],
         index' \subseteq Devices, hidden' \subseteq Devices, faults' \in 0..MaxFaults,
         warm' \in WarmUp, \A d \in warm'.todo : warm'.rows[d] # None,
         warm'.pc = "index" <=> warm'.at # Nobody
  PROVE  TypeInv'
<1>1. \A g \in Handlers : Handled(g)'
  BY DEF TypeInv, Handled
<1>2. TypeOK'
  BY DEF TypeInv, TypeOK, WarmUp
<1>3. QED
  BY <1>1, <1>2 DEF TypeInv

LEMMA CopiedTyped ==
  ASSUME TypeInv, NEW d \in Devices, Copied(d)
  PROVE  /\ warm' \in WarmUp /\ warm'.pc = "copy" /\ warm'.at = Nobody
         /\ \A e \in warm'.todo : e \in warm.todo /\ e # d /\ warm'.rows[e] = warm.rows[e]
         /\ \A e \in warm'.todo : warm'.rows[e] # None
<1>1. warm \in WarmUp /\ \A e \in warm.todo : warm.rows[e] # None
  BY Typed DEF TypeInv, TypeOK
<1>2. warm.rows \in [Devices -> Times \cup {None}] /\ warm.todo \subseteq Devices
  BY <1>1 DEF WarmUp
<1> DEFINE rows == [warm.rows EXCEPT ![d] = None]
<1>3. rows \in [Devices -> Times \cup {None}] /\ \A e \in Devices \ {d} : rows[e] = warm.rows[e]
  BY <1>2
<1> HIDE DEF rows
<1>4. warm' = [pc |-> "copy", rows |-> rows, at |-> Nobody, todo |-> warm.todo \ {d}]
  BY DEF Copied, rows
<1>5. warm' \in WarmUp /\ warm'.pc = "copy" /\ warm'.at = Nobody
  BY <1>2, <1>3, <1>4 DEF WarmUp
<1>6. QED
  BY <1>1, <1>2, <1>3, <1>4, <1>5

-----------------------------------------------------------------------------
(* Every action keeps the types.                                           *)

LEMMA ReportKeepsTypes ==
  ASSUME TypeInv, NEW h \in Handlers, NEW d \in Trackers, NEW t \in Times, Report(h, d, t)
  PROVE  TypeInv'
<1> DEFINE q == [pc |-> "set", dev |-> d, time |-> t]
<1>1. d \in Devices
  BY Typed DEF TypeInv
<1>2. q \in Request /\ q.dev \in Devices /\ q.time \in Times
  BY <1>1 DEF Request, Storing
<1>3. req' = [req EXCEPT ![h] = q]
  BY DEF Report
<1> HIDE DEF q
<1>4. split' \subseteq Devices
  BY <1>1 DEF Report, TypeInv, TypeOK
<1>5. UNCHANGED <<cache, index, last, since, warm, hidden, faults, restarts>>
  BY DEF Report
<1>6. QED
  BY <1>2, <1>3, <1>4, <1>5, Typed, HandlerKeepsTypes DEF TypeInv, TypeOK

LEMMA SetKeyKeepsTypes ==
  ASSUME TypeInv, NEW h \in Handlers, SetKey(h)
  PROVE  TypeInv'
<1> DEFINE q == [req[h] EXCEPT !.pc = "index"]
<1>1. req[h].pc \in Storing
  BY DEF SetKey, At, Storing
<1>2. /\ q \in Request /\ q.dev \in Devices /\ q.time \in Times
      /\ req[h].dev \in Devices /\ req[h].time \in Times
  <2>1. "index" \in {"notify"} \cup Storing
    BY DEF Storing
  <2>2. QED
    BY <1>1, <2>1, Advanced
<1>3. req' = [req EXCEPT ![h] = q]
  BY DEF SetKey, Goto
<1> HIDE DEF q
<1>4. cache' \in [Devices -> Times \cup {None}]
  BY <1>2, Typed DEF SetKey, Dev, TypeInv
<1>5. UNCHANGED <<index, last, since, warm, split, hidden, faults, restarts>>
  BY DEF SetKey
<1>6. QED
  BY <1>2, <1>3, <1>4, <1>5, Typed, HandlerKeepsTypes DEF TypeInv, TypeOK

LEMMA AddIndexKeepsTypes ==
  ASSUME TypeInv, NEW h \in Handlers, AddIndex(h)
  PROVE  TypeInv'
<1> DEFINE q == [req[h] EXCEPT !.pc = "upsert"]
<1>1. req[h].pc \in Storing
  BY DEF AddIndex, At, Storing
<1>2. /\ q \in Request /\ q.dev \in Devices /\ q.time \in Times
      /\ req[h].dev \in Devices
  BY <1>1, Advanced DEF Storing
<1>3. req' = [req EXCEPT ![h] = q]
  BY DEF AddIndex, Goto
<1> HIDE DEF q
<1>4. index' \subseteq Devices /\ hidden' \subseteq Devices
  BY <1>2 DEF AddIndex, Indexed, Dev, TypeInv, TypeOK
<1>5. UNCHANGED <<cache, last, since, warm, split, faults, restarts>>
  BY DEF AddIndex
<1>6. QED
  BY <1>2, <1>3, <1>4, <1>5, Typed, HandlerKeepsTypes DEF TypeInv, TypeOK

LEMMA UpsertKeepsTypes ==
  ASSUME TypeInv, NEW h \in Handlers, Upsert(h)
  PROVE  TypeInv'
<1> DEFINE q == [req[h] EXCEPT !.pc = "notify", !.time = None]
<1>1. req[h].pc \in Storing
  BY DEF Upsert, At, Storing
<1>2. /\ q \in Request /\ q.dev \in Devices /\ q.pc = "notify"
      /\ req[h].dev \in Devices /\ req[h].time \in Times
  BY <1>1, Advanced
<1>3. req' = [req EXCEPT ![h] = q]
  BY DEF Upsert
<1> HIDE DEF q
<1>4. last' \in [Devices -> Times \cup {None}]
  BY <1>2, Typed DEF Upsert, Dev, TypeInv
<1>5. UNCHANGED <<cache, index, since, warm, split, hidden, faults, restarts>>
  BY DEF Upsert
<1>6. QED
  BY <1>2, <1>3, <1>4, <1>5, Typed, HandlerKeepsTypes DEF TypeInv, TypeOK, Storing

LEMMA StoreFailsKeepsTypes ==
  ASSUME TypeInv, NEW h \in Handlers, StoreFails(h)
  PROVE  TypeInv'
<1> DEFINE on == [req[h] EXCEPT !.pc = "upsert"]
           off == [req[h] EXCEPT !.pc = "notify", !.time = None]
<1>1. req[h].pc \in Storing
  BY DEF StoreFails, At, Storing
<1>2. /\ on \in Request /\ on.dev \in Devices /\ on.time \in Times
      /\ off \in Request /\ off.dev \in Devices /\ off.pc = "notify"
      /\ req[h].dev \in Devices
  <2>1. "upsert" \in {"notify"} \cup Storing /\ "notify" \in {"notify"} \cup Storing
    BY DEF Storing
  <2>2. on \in Request /\ on.dev \in Devices /\ on.time \in Times /\ req[h].dev \in Devices
    BY <1>1, <2>1, Advanced
  <2>3. off \in Request /\ off.dev \in Devices /\ off.pc = "notify"
    BY <1>1, <2>1, Advanced
  <2>4. QED
    BY <2>2, <2>3
<1>3. req' = [req EXCEPT ![h] = on] \/ req' = [req EXCEPT ![h] = off]
  BY DEF StoreFails, Goto
<1> HIDE DEF on, off
<1>4. split' \subseteq Devices /\ hidden' \subseteq Devices /\ faults' \in 0..MaxFaults
  BY <1>2, FaultTyped DEF StoreFails, Dev, TypeInv, TypeOK
<1>5. UNCHANGED <<cache, index, last, since, warm, restarts>>
  BY DEF StoreFails
<1>6. QED
  BY <1>2, <1>3, <1>4, <1>5, Typed, HandlerKeepsTypes DEF TypeInv, TypeOK, Storing

LEMMA NotifyKeepsTypes ==
  ASSUME TypeInv, NEW h \in Handlers, NotifyStep(h)
  PROVE  TypeInv'
<1>1. req' = [req EXCEPT ![h] = Idle]
      /\ UNCHANGED <<cache, index, last, warm, split, hidden, faults, restarts>>
  BY DEF NotifyStep, Send, Drop
<1>2. since' \in [Devices -> 0..Window]
  BY Typed DEF NotifyStep, Send, Drop, TypeInv
<1>3. QED
  BY <1>1, <1>2, IdleTyped, Typed, HandlerKeepsTypes DEF TypeInv, TypeOK, Storing

LEMMA ReadRowsKeepsTypes ==
  ASSUME TypeInv, ReadRows
  PROVE  TypeInv'
<1>1. warm' = [pc |-> "copy", rows |-> last, at |-> Nobody,
               todo |-> {d \in Devices : last[d] # None}]
  BY DEF ReadRows
<1>2. warm' \in WarmUp /\ warm'.pc = "copy" /\ warm'.at = Nobody
      /\ \A d \in warm'.todo : warm'.rows[d] # None
  BY <1>1, Typed DEF WarmUp, TypeInv
<1>3. QED
  BY <1>2, Typed, WarmKeepsTypes DEF ReadRows, TypeInv, TypeOK

\* The warm-up's turn to copy d: it is copied, and indexed next, or passed over.
LEMMA CopyRowMoves ==
  ASSUME TypeInv, NEW d \in Devices, CopyRow(d)
  PROVE  /\ warm' \in WarmUp /\ d \in warm.todo
         /\ warm'.pc = "index" <=> warm'.at # Nobody
         /\ \A e \in warm'.todo : /\ e \in warm.todo /\ warm'.rows[e] = warm.rows[e]
                                 /\ warm'.rows[e] # None
         /\ \/ cache[d] = None /\ cache' = [cache EXCEPT ![d] = warm.rows[d]]
            \/ cache[d] # None /\ cache' = cache
         /\ cache' \in [Devices -> Times \cup {None}] /\ cache'[d] # None
<1>1. /\ warm \in WarmUp /\ \A e \in warm.todo : warm.rows[e] # None
      /\ warm.pc = "copy" /\ d \in warm.todo /\ warm.at = Nobody
      /\ cache \in [Devices -> Times \cup {None}] /\ Nobody \notin Devices
  BY Typed DEF TypeInv, TypeOK, CopyRow
<1>2. warm.rows \in [Devices -> Times \cup {None}] /\ warm.todo \subseteq Devices
  BY <1>1 DEF WarmUp
<1>3. CASE cache[d] = None
  <2>1. warm' = [warm EXCEPT !.pc = "index", !.at = d] /\ cache' = [cache EXCEPT ![d] = warm.rows[d]]
    BY <1>3 DEF CopyRow
  <2>2. warm' \in WarmUp /\ warm'.pc = "index" /\ warm'.at = d
        /\ warm'.todo = warm.todo /\ warm'.rows = warm.rows
    BY <1>1, <2>1 DEF WarmUp
  <2>3. QED
    BY <1>1, <1>2, <1>3, <2>1, <2>2
<1>4. CASE cache[d] # None
  <2>1. warm' = [warm EXCEPT !.todo = @ \ {d}, !.rows[d] = None] /\ cache' = cache
    BY <1>4 DEF CopyRow
  <2> DEFINE rows == [warm.rows EXCEPT ![d] = None]
  <2>2. rows \in [Devices -> Times \cup {None}] /\ \A e \in Devices \ {d} : rows[e] = warm.rows[e]
    BY <1>2
  <2>3. warm'.todo = warm.todo \ {d} /\ warm'.rows = rows
        /\ warm'.pc = "copy" /\ warm'.at = Nobody
    BY <1>1, <2>1 DEF WarmUp
  <2>4. warm' \in WarmUp
    BY <1>1, <1>2, <2>1, <2>2 DEF WarmUp
  <2> HIDE DEF rows
  <2>5. QED
    BY <1>1, <1>2, <1>4, <2>1, <2>2, <2>3, <2>4
<1>5. QED
  BY <1>3, <1>4

LEMMA CopyRowKeepsTypes ==
  ASSUME TypeInv, NEW d \in Devices, CopyRow(d)
  PROVE  TypeInv'
<1>1. UNCHANGED <<index, last, since, req, split, hidden, faults, restarts>>
  BY DEF CopyRow
<1>2. QED
  BY <1>1, CopyRowMoves, WarmKeepsTypes DEF TypeInv, TypeOK

LEMMA CopyIndexKeepsTypes ==
  ASSUME TypeInv, CopyIndex
  PROVE  TypeInv'
<1>1. warm.at \in Devices /\ Copied(warm.at)
  BY Typed DEF CopyIndex, TypeInv, TypeOK, WarmUp
<1>2. index' \subseteq Devices /\ hidden' \subseteq Devices
  BY <1>1 DEF CopyIndex, Indexed, TypeInv, TypeOK
<1>3. UNCHANGED <<cache, last, since, req, split, faults, restarts>>
  BY DEF CopyIndex
<1>4. QED
  BY <1>1, <1>2, <1>3, CopiedTyped, WarmKeepsTypes DEF TypeInv, TypeOK

LEMMA WarmFailsKeepsTypes ==
  ASSUME TypeInv, WarmFails
  PROVE  TypeInv'
<1>1. faults' \in 0..MaxFaults /\ UNCHANGED <<cache, index, last, since, req, split, restarts>>
  BY FaultTyped DEF WarmFails, TypeInv
<1>2. CASE warm' = [Cold EXCEPT !.pc = "copy"] /\ hidden' = Devices
  <2>1. warm' \in WarmUp /\ warm'.pc = "copy" /\ warm'.at = Nobody /\ warm'.todo = {}
    BY <1>2 DEF Cold, WarmUp
  <2>2. QED
    BY <1>1, <1>2, <2>1, WarmKeepsTypes DEF TypeInv, TypeOK
<1>3. ASSUME NEW d \in warm.todo, Copied(d), hidden' = hidden \cup {d}
      PROVE  TypeInv'
  <2>1. d \in Devices
    BY Typed DEF TypeInv, WarmUp
  <2>2. QED
    BY <1>1, <1>3, <2>1, CopiedTyped, WarmKeepsTypes DEF TypeInv, TypeOK
<1>4. QED
  BY <1>2, <1>3 DEF WarmFails

LEMMA TickKeepsTypes ==
  ASSUME TypeInv, Tick
  PROVE  TypeInv'
<1>1. since' \in [Devices -> 0..Window]
  BY Typed DEF Tick, TypeInv
<1>2. UNCHANGED <<cache, index, last, req, warm, split, hidden, faults, restarts>>
  BY DEF Tick
<1>3. QED
  BY <1>1, <1>2, Typed, WarmKeepsTypes DEF TypeInv, TypeOK, Handled

LEMMA LoseRedisKeepsTypes ==
  ASSUME TypeInv, LoseRedis
  PROVE  TypeInv'
<1>1. /\ faults' \in 0..MaxFaults /\ cache' \in [Devices -> Times \cup {None}]
      /\ index' \subseteq Devices /\ hidden' \subseteq Devices
  BY FaultTyped DEF LoseRedis, TypeInv
<1>2. split' \subseteq Devices
  BY Typed DEF LoseRedis, TypeInv, TypeOK, WarmUp
<1>3. UNCHANGED <<last, since, req, warm, restarts>>
  BY DEF LoseRedis
<1>4. QED
  BY <1>1, <1>2, <1>3 DEF TypeInv, TypeOK, Handled

LEMMA RestartKeepsTypes ==
  ASSUME TypeInv, Restart
  PROVE  TypeInv'
<1>1. /\ restarts' \in 0..MaxRestarts /\ since' \in [Devices -> 0..Window]
      /\ req' \in [Handlers -> Request] /\ \A h \in Handlers : req'[h] = Idle
  BY Typed, IdleTyped DEF Restart, TypeInv
<1>2. split' \subseteq Devices /\ hidden' \subseteq Devices
  BY Typed DEF Restart, TypeInv, TypeOK, WarmUp
<1>3. warm' = Cold /\ UNCHANGED <<cache, index, last, faults>>
  BY DEF Restart
<1>4. /\ warm' \in WarmUp /\ warm'.todo = {} /\ warm'.pc = "read" /\ warm'.at = Nobody
  BY <1>3 DEF Cold, WarmUp
<1>5. \A h \in Handlers : Handled(h)'
  BY <1>1, IdleTyped DEF Handled, Storing
<1>6. TypeOK'
  BY <1>1, <1>2, <1>3, <1>4 DEF TypeInv, TypeOK, Request, WarmUp
<1>7. QED
  BY <1>5, <1>6 DEF TypeInv

LEMMA NextKeepsTypes == TypeInv /\ [Next]_vars => TypeInv'
<1> SUFFICES ASSUME TypeInv, [Next]_vars PROVE TypeInv'
  OBVIOUS
<1>1. CASE UNCHANGED vars
  BY <1>1 DEF vars, TypeInv, TypeOK, Handled
<1>2. CASE Next
  BY <1>2, ReportKeepsTypes, SetKeyKeepsTypes, AddIndexKeepsTypes, UpsertKeepsTypes,
     StoreFailsKeepsTypes, NotifyKeepsTypes, ReadRowsKeepsTypes, CopyRowKeepsTypes,
     CopyIndexKeepsTypes, WarmFailsKeepsTypes, TickKeepsTypes, LoseRedisKeepsTypes,
     RestartKeepsTypes DEF Next, StoreStep, WarmStep
<1>3. QED
  BY <1>1, <1>2

LEMMA InitHasTypes == Init => TypeInv
<1> SUFFICES ASSUME Init PROVE TypeInv
  OBVIOUS
<1>1. /\ cache \in [Devices -> Times \cup {None}] /\ last \in [Devices -> Times \cup {None}]
      /\ since \in [Devices -> 0..Window]
  BY ConstantsOK DEF Init, Times, None
<1>2. req \in [Handlers -> Request] /\ \A h \in Handlers : req[h].pc = "idle"
  BY IdleTyped DEF Init
<1>3. warm \in WarmUp /\ warm.todo = {} /\ warm.pc = "read" /\ warm.at = Nobody
  BY DEF Init, Cold, WarmUp
<1>4. faults \in 0..MaxFaults /\ restarts \in 0..MaxRestarts
  BY ConstantsOK DEF Init
<1>5. index = {} /\ split = {} /\ hidden = {}
  BY DEF Init
<1>6. TypeOK
  BY <1>1, <1>2, <1>3, <1>4, <1>5 DEF TypeOK, Request, WarmUp
<1>7. QED
  BY <1>2, <1>6 DEF TypeInv, Handled, Storing

\* The copies, the rows, the reports and the warm-up keep their types.
THEOREM TypeCorrect == Spec => []TypeOK
<1>1. TypeInv => TypeOK
  BY DEF TypeInv
<1>2. QED
  BY <1>1, InitHasTypes, NextKeepsTypes, PTL DEF Spec

-----------------------------------------------------------------------------
(* The copies and the rows agree.                                          *)

\* A step of a handler leaves a device alone that it neither was nor is about.
LEMMA OtherDevice ==
  ASSUME TypeInv, NEW h \in Handlers, NEW d \in Devices, Agrees(d),
         req' \in [Handlers -> Request], \A g \in Handlers \ {h} : req'[g] = req[g],
         ~Stores(h, d), ~Stores(h, d)', cache'[d] = cache[d], last'[d] = last[d], warm' = warm
  PROVE  Agrees(d)'
<1>1. \A g \in Handlers : Stores(g, d)' <=> Stores(g, d)
  BY DEF Stores
<1>2. \A g \in Handlers : Stores(g, d) => req'[g] = req[g]
  OBVIOUS
<1>3. Busy(d)' <=> Busy(d)
  BY <1>1 DEF Busy, Dev, Stores
<1>4. QED
  BY <1>1, <1>2, <1>3 DEF Agrees

\* A step that moves no report leaves a device alone whose copy and row it keeps.
LEMMA NoReportMoves ==
  ASSUME req' = req, NEW d \in Devices, Agrees(d), cache'[d] = cache[d], last'[d] = last[d],
         d \in warm'.todo => d \in warm.todo /\ warm'.rows[d] = warm.rows[d]
  PROVE  Agrees(d)'
BY DEF Agrees, Stores, Busy, Dev

\* While a report is stored, the copy and the report agree, and nothing else counts.
LEMMA BeingStored ==
  ASSUME NEW h \in Handlers, NEW d \in Devices, Stores(h, d)',
         \A g \in Handlers : Stores(g, d)' => g = h,
         req'[h].pc # "set" => cache'[d] = req'[h].time
  PROVE  Agrees(d)'
<1>1. Busy(d)'
  BY DEF Busy, Stores, Dev
<1>2. QED
  BY <1>1 DEF Agrees

LEMMA ReportKeepsAgreement ==
  ASSUME TypeInv, CopiesInv, NEW h \in Handlers, NEW e \in Trackers, NEW t \in Times,
         Report(h, e, t), NEW d \in Devices \ split'
  PROVE  Agrees(d)'
<1> DEFINE q == [pc |-> "set", dev |-> e, time |-> t]
<1>1. e \in Devices /\ req' = [req EXCEPT ![h] = q] /\ req[h].pc = "idle"
  BY Typed DEF Report, At, TypeInv
<1>2. q \in Request /\ q.pc = "set" /\ q.dev = e /\ q.time = t
  BY <1>1 DEF Request, Storing
<1> HIDE DEF q
<1>3. /\ req' \in [Handlers -> Request] /\ req'[h] = q
      /\ \A g \in Handlers \ {h} : req'[g] = req[g]
  BY <1>1, <1>2, HandlerMoves DEF Storing
<1>4. ~Stores(h, d)
  BY <1>1 DEF Stores, Storing
<1>5. UNCHANGED <<cache, last, warm>>
  BY DEF Report
<1>6. CASE d = e
  <2>1. ~Busy(d)
    BY <1>6 DEF Report
  <2>2. \A g \in Handlers : ~Stores(g, d)
    BY <2>1 DEF Busy, Stores, Dev
  <2>3. Stores(h, d)' /\ \A g \in Handlers : Stores(g, d)' => g = h
    BY <1>2, <1>3, <1>6, <2>2 DEF Stores, Storing
  <2>4. QED
    BY <1>2, <1>3, <2>3, BeingStored
<1>7. CASE d # e
  <2>1. d \notin split
    BY <1>7 DEF Report
  <2>2. ~Stores(h, d)'
    BY <1>2, <1>3, <1>7 DEF Stores
  <2>3. QED
    BY <1>3, <1>4, <1>5, <2>1, <2>2, OtherDevice DEF CopiesInv
<1>8. QED
  BY <1>6, <1>7

\* A handler that goes on storing, its copy in place.
LEMMA StoringOn ==
  ASSUME TypeInv, CopiesInv, NEW h \in Handlers, req[h].pc \in Storing,
         NEW pc \in {"index", "upsert"}, req' = [req EXCEPT ![h].pc = pc],
         last' = last, warm' = warm,
         \A d \in Devices \ {Dev(h)} : cache'[d] = cache[d],
         cache'[Dev(h)] = req[h].time \/ (req[h].pc # "set" /\ cache' = cache),
         NEW d \in Devices \ split
  PROVE  Agrees(d)'
<1> DEFINE q == [req[h] EXCEPT !.pc = pc]
<1>1. pc \in {"notify"} \cup Storing /\ pc \in Storing /\ pc # "set" /\ pc # "idle"
  BY DEF Storing
<1>2. q \in Request /\ q.pc = pc /\ q.dev = req[h].dev /\ q.time = req[h].time
      /\ q.dev \in Devices /\ q.time \in Times
  BY <1>1, Advanced
<1>3. req' = [req EXCEPT ![h] = q]
  OBVIOUS
<1> HIDE DEF q
<1>4. /\ req' \in [Handlers -> Request] /\ req'[h] = q
      /\ \A g \in Handlers \ {h} : req'[g] = req[g]
  BY <1>2, <1>3, HandlerMoves
<1>5. Agrees(d)
  BY DEF CopiesInv
<1>6. CASE d = Dev(h)
  <2>1. Stores(h, d) /\ Stores(h, d)'
    BY <1>1, <1>2, <1>4, <1>6 DEF Stores, Dev
  <2>2. \A g \in Handlers : Stores(g, d)' => g = h
    <3>1. \A g \in Handlers \ {h} : Stores(g, d)' => Stores(g, d)
      BY <1>4 DEF Stores
    <3>2. QED
      BY <1>5, <2>1, <3>1 DEF Agrees
  <2>3. cache'[d] = req[h].time
    BY <1>5, <1>6, <2>1 DEF Agrees
  <2>4. QED
    BY <1>2, <1>4, <2>1, <2>2, <2>3, BeingStored
<1>7. CASE d # Dev(h)
  <2>1. ~Stores(h, d) /\ ~Stores(h, d)'
    BY <1>2, <1>4, <1>7 DEF Stores, Dev
  <2>2. QED
    BY <1>4, <1>5, <1>7, <2>1, OtherDevice
<1>8. QED
  BY <1>6, <1>7

LEMMA UpsertKeepsAgreement ==
  ASSUME TypeInv, CopiesInv, NEW h \in Handlers, Upsert(h), NEW d \in Devices \ split
  PROVE  Agrees(d)'
<1> DEFINE q == [req[h] EXCEPT !.pc = "notify", !.time = None]
<1>1. req[h].pc = "upsert" /\ req[h].pc \in Storing /\ "notify" \in {"notify"} \cup Storing
  BY DEF Upsert, At, Storing
<1>2. /\ q \in Request /\ q.pc = "notify" /\ q.dev \in Devices
      /\ req[h].dev \in Devices /\ req[h].time \in Times
  BY <1>1, Advanced
<1>3. req' = [req EXCEPT ![h] = q]
  BY DEF Upsert
<1> HIDE DEF q
<1>4. /\ req' \in [Handlers -> Request] /\ req'[h] = q
      /\ \A g \in Handlers \ {h} : req'[g] = req[g]
  BY <1>2, <1>3, HandlerMoves DEF Storing
<1>5. Agrees(d) /\ cache' = cache /\ warm' = warm
  BY DEF CopiesInv, Upsert
<1>6. last' \in [Devices -> Times \cup {None}] /\ last'[req[h].dev] = req[h].time
      /\ \A e \in Devices \ {req[h].dev} : last'[e] = last[e]
  BY <1>2, Typed DEF Upsert, Dev, TypeInv
<1>7. ~Stores(h, d)'
  BY <1>2, <1>4 DEF Stores, Storing
<1>8. CASE d = req[h].dev
  <2>1. Stores(h, d) /\ cache[d] = req[h].time
    BY <1>1, <1>5, <1>8 DEF Stores, Agrees
  <2>2. \A g \in Handlers : ~Stores(g, d)'
    <3>1. \A g \in Handlers \ {h} : ~Stores(g, d)
      BY <1>5, <2>1 DEF Agrees
    <3>2. QED
      BY <1>4, <1>7, <3>1 DEF Stores
  <2>3. cache'[d] = last'[d] /\ cache'[d] # None
    BY <1>2, <1>5, <1>6, <1>8, <2>1, Typed DEF TypeInv
  <2>4. QED
    BY <2>2, <2>3 DEF Agrees
<1>9. CASE d # req[h].dev
  <2>1. ~Stores(h, d)
    BY <1>9 DEF Stores
  <2>2. QED
    BY <1>4, <1>5, <1>6, <1>7, <1>9, <2>1, OtherDevice
<1>10. QED
  BY <1>8, <1>9

LEMMA StoreStepKeepsAgreement ==
  ASSUME TypeInv, CopiesInv, NEW h \in Handlers, StoreStep(h)
  PROVE  CopiesInv'
<1>1. split' = split
  BY DEF StoreStep, SetKey, AddIndex, Upsert
<1> SUFFICES ASSUME NEW d \in Devices \ split PROVE Agrees(d)'
  BY <1>1 DEF CopiesInv
<1>2. CASE SetKey(h)
  <2>1. req[h].pc \in Storing /\ Dev(h) \in Devices
    BY <1>2 DEF SetKey, At, Storing, TypeInv, Handled, Dev
  <2>2. cache' \in [Devices -> Times \cup {None}] /\ cache'[Dev(h)] = req[h].time
        /\ \A e \in Devices \ {Dev(h)} : cache'[e] = cache[e]
    BY <1>2, <2>1, Typed, SetKeyKeepsTypes DEF SetKey, TypeInv, TypeOK
  <2>3. req' = [req EXCEPT ![h].pc = "index"] /\ last' = last /\ warm' = warm
    BY <1>2 DEF SetKey, Goto
  <2>4. QED
    BY <2>1, <2>2, <2>3, StoringOn
<1>3. CASE AddIndex(h)
  <2>1. req[h].pc \in Storing /\ req[h].pc # "set" /\ req' = [req EXCEPT ![h].pc = "upsert"]
        /\ UNCHANGED <<last, warm, cache>>
    BY <1>3 DEF AddIndex, At, Storing, Goto
  <2>2. QED
    BY <2>1, StoringOn
<1>4. CASE Upsert(h)
  BY <1>4, UpsertKeepsAgreement
<1>5. QED
  BY <1>2, <1>3, <1>4 DEF StoreStep

LEMMA StoreFailsKeepsAgreement ==
  ASSUME TypeInv, CopiesInv, NEW h \in Handlers, StoreFails(h)
  PROVE  CopiesInv'
<1> SUFFICES ASSUME NEW d \in Devices \ split' PROVE Agrees(d)'
  BY DEF CopiesInv
<1>1. d \notin split /\ req[h].pc \in Storing /\ UNCHANGED <<cache, last, warm>>
  BY DEF StoreFails, At, Storing
<1>2. CASE At(h, "index")
  <2>1. req[h].pc # "set" /\ req' = [req EXCEPT ![h].pc = "upsert"]
    BY <1>2 DEF StoreFails, At, Goto
  <2>2. QED
    BY <1>1, <2>1, StoringOn
<1>3. CASE ~At(h, "index")
  <2> DEFINE on == [req[h] EXCEPT !.pc = "upsert"]
             off == [req[h] EXCEPT !.pc = "notify", !.time = None]
  <2>1. d # Dev(h)
    BY <1>3 DEF StoreFails
  <2>2. req' = [req EXCEPT ![h] = on] \/ req' = [req EXCEPT ![h] = off]
    BY DEF StoreFails, Goto
  <2>3. "upsert" \in {"notify"} \cup Storing /\ "notify" \in {"notify"} \cup Storing
    BY DEF Storing
  <2>4. on \in Request /\ on.dev = req[h].dev /\ on.dev \in Devices /\ on.time \in Times
    BY <1>1, <2>3, Advanced
  <2>5. off \in Request /\ off.dev = req[h].dev /\ off.dev \in Devices /\ off.pc = "notify"
    BY <1>1, <2>3, Advanced
  <2> HIDE DEF on, off
  <2>6. /\ req' \in [Handlers -> Request] /\ req'[h] \in {on, off}
        /\ \A g \in Handlers \ {h} : req'[g] = req[g]
    BY <2>2, <2>4, <2>5, HandlerMoves DEF Storing
  <2>7. ~Stores(h, d) /\ ~Stores(h, d)'
    BY <2>1, <2>4, <2>5, <2>6 DEF Stores, Dev
  <2>8. QED
    BY <1>1, <2>6, <2>7, OtherDevice DEF CopiesInv
<1>4. QED
  BY <1>2, <1>3

LEMMA NotifyKeepsAgreement ==
  ASSUME TypeInv, CopiesInv, NEW h \in Handlers, NotifyStep(h)
  PROVE  CopiesInv'
<1>1. /\ req[h].pc = "notify" /\ req' = [req EXCEPT ![h] = Idle]
      /\ UNCHANGED <<cache, last, warm, split>>
  BY DEF NotifyStep, Send, Drop, At
<1>2. /\ req' \in [Handlers -> Request] /\ req'[h] = Idle
      /\ \A g \in Handlers \ {h} : req'[g] = req[g]
  BY <1>1, IdleTyped, HandlerMoves DEF Storing
<1>3. \A d \in Devices : ~Stores(h, d) /\ ~Stores(h, d)'
  BY <1>1, <1>2, IdleTyped DEF Stores, Storing
<1>4. QED
  BY <1>1, <1>2, <1>3, OtherDevice DEF CopiesInv

\* SETNX writes the row only where there is no copy, and then the row is the
\* one in the table still, or a report is about to write its own copy.
LEMMA CopyRowKeepsAgreement ==
  ASSUME TypeInv, CopiesInv, NEW e \in Devices, CopyRow(e)
  PROVE  CopiesInv'
<1>1. UNCHANGED <<last, req, split>>
  BY DEF CopyRow
<1> SUFFICES ASSUME NEW d \in Devices \ split PROVE Agrees(d)'
  BY <1>1 DEF CopiesInv
<1>2. Agrees(d) /\ cache \in [Devices -> Times \cup {None}]
  BY Typed DEF CopiesInv, TypeInv
<1>3. d \in warm'.todo => d \in warm.todo /\ warm'.rows[d] = warm.rows[d]
  BY CopyRowMoves
<1>4. CASE d # e \/ cache[e] # None
  <2>1. cache'[d] = cache[d]
    BY <1>2, <1>4, CopyRowMoves
  <2>2. QED
    BY <1>1, <1>2, <1>3, <2>1, NoReportMoves
<1>5. CASE d = e /\ cache[e] = None
  <2>1. d \in warm.todo /\ cache'[d] = warm.rows[d] /\ cache'[d] # None
    BY <1>2, <1>5, CopyRowMoves
  <2>2. \A h \in Handlers : Stores(h, d) => req[h].pc = "set"
    <3>1. \A h \in Handlers : Stores(h, d) => req[h].time # None
      BY Typed DEF Stores, TypeInv, Handled
    <3>2. QED
      BY <1>2, <1>5, <3>1 DEF Agrees
  <2>3. ~Busy(d) => cache'[d] = last[d]
    BY <1>2, <1>5, <2>1 DEF Agrees
  <2>4. QED
    BY <1>1, <1>2, <2>1, <2>2, <2>3 DEF Agrees, Stores, Busy, Dev
<1>6. QED
  BY <1>4, <1>5

LEMMA WarmStepKeepsAgreement ==
  ASSUME TypeInv, CopiesInv, WarmStep \/ WarmFails
  PROVE  CopiesInv'
<1>1. CASE ReadRows
  <2>1. warm' = [pc |-> "copy", rows |-> last, at |-> Nobody,
                 todo |-> {d \in Devices : last[d] # None}]
        /\ UNCHANGED <<cache, last, req, split>>
    BY <1>1 DEF ReadRows
  <2>2. QED
    BY <2>1 DEF CopiesInv, Agrees, Stores, Busy, Dev
<1>2. ASSUME NEW d \in Devices, Copied(d), UNCHANGED <<cache, last, req, split>>
      PROVE  CopiesInv'
  BY <1>2, CopiedTyped, NoReportMoves DEF CopiesInv
<1>3. CASE CopyIndex
  <2>1. warm.at \in Devices /\ Copied(warm.at)
    BY <1>3, Typed DEF CopyIndex, TypeInv, TypeOK, WarmUp
  <2>2. QED
    BY <1>2, <1>3, <2>1 DEF CopyIndex
<1>4. CASE WarmFails
  <2>1. UNCHANGED <<cache, last, req, split>>
    BY <1>4 DEF WarmFails
  <2>2. CASE warm' = [Cold EXCEPT !.pc = "copy"]
    <3>1. warm'.todo = {}
      BY <2>2 DEF Cold
    <3>2. QED
      BY <2>1, <3>1, NoReportMoves DEF CopiesInv
  <2>3. CASE \E d \in warm.todo : Copied(d)
    BY <1>2, <2>1, <2>3, Typed DEF TypeInv, WarmUp
  <2>4. QED
    BY <1>4, <2>2, <2>3 DEF WarmFails
<1>5. QED
  BY <1>1, <1>3, <1>4, CopyRowKeepsAgreement DEF WarmStep

LEMMA LoseRedisKeepsAgreement ==
  ASSUME TypeInv, CopiesInv, LoseRedis
  PROVE  CopiesInv'
<1> SUFFICES ASSUME NEW d \in Devices \ split' PROVE Agrees(d)'
  BY DEF CopiesInv
<1>1. /\ d \notin warm.todo /\ ~Busy(d) /\ cache'[d] = None
      /\ UNCHANGED <<last, req, warm>>
  BY DEF LoseRedis
<1>2. QED
  BY <1>1 DEF Agrees, Stores, Busy, Dev

LEMMA RestartKeepsAgreement ==
  ASSUME TypeInv, CopiesInv, Restart
  PROVE  CopiesInv'
<1> SUFFICES ASSUME NEW d \in Devices \ split' PROVE Agrees(d)'
  BY DEF CopiesInv
<1>1. /\ d \notin split /\ ~Busy(d) /\ UNCHANGED <<cache, last>>
      /\ \A h \in Handlers : req'[h] = Idle
  BY DEF Restart
<1>2. \A h \in Handlers : ~Stores(h, d)'
  BY <1>1, IdleTyped DEF Stores, Storing
<1>3. warm'.todo = {}
  BY DEF Restart, Cold
<1>4. QED
  BY <1>1, <1>2, <1>3 DEF Agrees, CopiesInv

LEMMA NextKeepsInv == IInv /\ [Next]_vars => IInv'
<1> SUFFICES ASSUME IInv, [Next]_vars PROVE CopiesInv'
  BY NextKeepsTypes DEF IInv
<1>1. TypeInv /\ CopiesInv
  BY DEF IInv
<1>2. ASSUME UNCHANGED <<cache, last, req, warm, split>> PROVE CopiesInv'
  BY <1>1, <1>2, NoReportMoves DEF CopiesInv
<1>3. CASE UNCHANGED vars \/ Tick
  BY <1>2, <1>3 DEF vars, Tick
<1>4. ASSUME NEW h \in Handlers, NEW e \in Trackers, NEW t \in Times, Report(h, e, t)
      PROVE  CopiesInv'
  BY <1>1, <1>4, ReportKeepsAgreement DEF CopiesInv
<1>5. QED
  BY <1>1, <1>3, <1>4, StoreStepKeepsAgreement, StoreFailsKeepsAgreement,
     NotifyKeepsAgreement, WarmStepKeepsAgreement, LoseRedisKeepsAgreement,
     RestartKeepsAgreement DEF Next

\* Redis and the table hold the same last position: no interleaving of reports of
\* different trackers, of the warm-up and of restarts parts them, only a failed
\* call or reports of one tracker that are stored at the same time.
THEOREM AgreeingCopies == Spec => []CopiesAgree
<1>1. Init => IInv
  <2> SUFFICES ASSUME Init PROVE IInv
    OBVIOUS
  <2>1. TypeInv
    BY InitHasTypes
  <2>2. \A d \in Devices : cache[d] = None /\ \A h \in Handlers : ~Stores(h, d)
    BY DEF Init, Idle, Stores, Storing
  <2>3. warm.todo = {}
    BY DEF Init, Cold
  <2>4. QED
    BY <2>1, <2>2, <2>3 DEF IInv, CopiesInv, Agrees
<1>2. IInv => CopiesAgree
  BY DEF IInv, CopiesInv, Agrees, CopiesAgree
<1>3. QED
  BY <1>1, <1>2, NextKeepsInv, PTL DEF Spec
=============================================================================
