--------------------------- MODULE AccountsProofs ---------------------------
(***************************************************************************)
(* Proofs about Accounts for any number of requests, any limit, window and *)
(* number of failures: the guesses are bounded, and saves take no flag     *)
(* back.                                                                   *)
(***************************************************************************)
EXTENDS Accounts, FiniteSetTheorems, TLAPS

Pcs == {"idle", "find", "count", "clear", "checkemail", "insert", "link", "save",
        "setcode", "reread", "forget", "setblock", "setstatus"}
Ops == {"none", "login", "signup", "google", "profile", "send", "verify", "block",
        "unblock", "toggle"}
Request == [pc: Pcs, op: Ops, copy: Row]

\* A request that will write the row has seen that there is one.
Sees(r) ==
  /\ req[r].pc \in {"link", "save", "setcode", "setblock", "setstatus"} => registered
  /\ req[r].pc = "setblock" => req[r].op \in {"block", "unblock"}

RowInv == TypeOK /\ \A r \in Requests : Sees(r)

-----------------------------------------------------------------------------
(* Requests.                                                               *)

Same(r) == \A s \in Requests \ {r} : req'[s] = req[s]

\* The step leaves the other requests alone and r with this request.
Turns(r, pc, op) ==
  /\ req' \in [Requests -> Request] /\ Same(r)
  /\ req'[r].pc = pc /\ req'[r].op = op

LEMMA Typed ==
  ASSUME TypeOK
  PROVE  req \in [Requests -> Request]
BY DEF TypeOK, Request, Pcs, Ops

LEMMA NoRowTyped == NoRow \in Row
BY DEF NoRow, Row

LEMMA IdleTyped == Idle \in Request /\ Idle.pc = "idle" /\ Idle.op = "none"
BY NoRowTyped DEF Idle, Request, Pcs, Ops

LEMMA Becomes ==
  ASSUME TypeOK, NEW r \in Requests, NEW q \in Request, req' = [req EXCEPT ![r] = q]
  PROVE  Turns(r, q.pc, q.op)
<1>1. req \in [Requests -> Request]
  BY Typed
<1>2. req' \in [Requests -> Request] /\ req'[r] = q /\ Same(r)
  BY <1>1 DEF Same
<1>3. QED
  BY <1>2 DEF Turns

LEMMA GotoTurns ==
  ASSUME TypeOK, NEW r \in Requests, NEW pc \in Pcs, Goto(r, pc)
  PROVE  Turns(r, pc, req[r].op)
<1> DEFINE q == [req[r] EXCEPT !.pc = pc]
<1>1. req[r] \in Request
  BY Typed
<1>2. q \in Request /\ q.pc = pc /\ q.op = req[r].op
  BY <1>1 DEF Request
<1>3. req' = [req EXCEPT ![r] = q]
  BY DEF Goto
<1> HIDE DEF q
<1>4. QED
  BY <1>2, <1>3, Becomes

LEMMA FinishTurns ==
  ASSUME TypeOK, NEW r \in Requests, Finish(r)
  PROVE  Turns(r, "idle", "none")
BY IdleTyped, Becomes DEF Finish

\* A request that begins, with a copy or without.
LEMMA BeginTurns ==
  ASSUME TypeOK, NEW r \in Requests, NEW pc \in Pcs, NEW op \in Ops, NEW copy \in Row,
         req' = [req EXCEPT ![r] = [pc |-> pc, op |-> op, copy |-> copy]]
  PROVE  Turns(r, pc, op)
<1> DEFINE q == [pc |-> pc, op |-> op, copy |-> copy]
<1>1. q \in Request /\ q.pc = pc /\ q.op = op
  BY DEF Request
<1> HIDE DEF q
<1>2. QED
  BY <1>1, Becomes DEF q

LEMMA OpensTurns ==
  ASSUME TypeOK, NEW r \in Requests, NEW pc \in Pcs, NEW op \in Ops,
         req' = [req EXCEPT ![r] = [Idle EXCEPT !.pc = pc, !.op = op]]
  PROVE  Turns(r, pc, op)
<1> DEFINE q == [Idle EXCEPT !.pc = pc, !.op = op]
<1>1. q \in Request /\ q.pc = pc /\ q.op = op
  BY NoRowTyped DEF Idle, Request
<1> HIDE DEF q
<1>2. QED
  BY <1>1, Becomes DEF q

LEMMA ReadsTurns ==
  ASSUME TypeOK, NEW r \in Requests, NEW copy \in Row,
         req' = [req EXCEPT ![r].pc = "save", ![r].copy = copy]
  PROVE  Turns(r, "save", req[r].op)
<1> DEFINE q == [req[r] EXCEPT !.pc = "save", !.copy = copy]
<1>1. req[r] \in Request
  BY Typed
<1>2. q \in Request /\ q.pc = "save" /\ q.op = req[r].op
  BY <1>1 DEF Request, Pcs
<1>3. req' = [req EXCEPT ![r] = q]
  OBVIOUS
<1> HIDE DEF q
<1>4. QED
  BY <1>2, <1>3, Becomes

-----------------------------------------------------------------------------
(* The row.                                                                *)

LEMMA MergedTyped ==
  ASSUME NEW old \in Row, NEW copy \in Row
  PROVE  /\ Merged(old, copy) \in Row
         /\ old.verified => Merged(old, copy).verified
         /\ old.linked => Merged(old, copy).linked
         /\ old.blocked => Merged(old, copy).blocked
<1>1. DOMAIN old = {"status", "blocked", "verified", "linked"}
  BY DEF Row
<1>2. Merged(old, copy) = [status |-> old.status \/ copy.status,
                           blocked |-> old.blocked \/ copy.blocked,
                           verified |-> old.verified \/ copy.verified,
                           linked |-> old.linked \/ copy.linked]
  BY <1>1 DEF Merged
<1>3. QED
  BY <1>2 DEF Row

-----------------------------------------------------------------------------
(* The row and what is known of it.                                        *)

\* A step that is no request's keeps RowInv if it keeps the row.
LEMMA RowKept ==
  ASSUME RowInv, NEW r \in Requests, NEW pc, NEW op, Turns(r, pc, op),
         attempts' \in Nat, age' \in 0..(Window - 1), guesses' \in Nat,
         lost' \in 0..MaxFaults, code' \in BOOLEAN,
         registered' \in BOOLEAN, registered => registered',
         row' \in Row, ~registered' => row' = NoRow /\ ~code',
         pc \in {"link", "save", "setcode", "setblock", "setstatus"} => registered',
         pc = "setblock" => op \in {"block", "unblock"}
  PROVE  RowInv'
<1>1. TypeOK'
  BY DEF Turns, TypeOK, Request, Pcs, Ops
<1>2. ASSUME NEW s \in Requests PROVE Sees(s)'
  <2>1. CASE s = r
    BY <2>1 DEF Sees, Turns
  <2>2. CASE s # r
    <3>1. req'[s] = req[s] /\ Sees(s)
      BY <2>2 DEF Turns, Same, RowInv
    <3>2. QED
      BY <3>1 DEF Sees
  <2>3. QED
    BY <2>1, <2>2
<1>3. QED
  BY <1>1, <1>2 DEF RowInv

LEMMA ParametersKept ==
  ASSUME RowInv
  PROVE  /\ attempts \in Nat /\ age \in 0..(Window - 1) /\ guesses \in Nat
         /\ lost \in 0..MaxFaults /\ code \in BOOLEAN /\ registered \in BOOLEAN
         /\ row \in Row /\ (~registered => row = NoRow /\ ~code)
         /\ 0 \in 0..(Window - 1)
BY ConstantsOK DEF RowInv, TypeOK

\* What one request may do, as its proofs need it.
LEMMA CountingTyped == Counting \in Nat
<1>1. IsFiniteSet(Requests)
  BY ConstantsOK
<1>2. {r \in Requests : At(r, "count")} \subseteq Requests
  OBVIOUS
<1>3. QED
  BY <1>1, <1>2, FS_Subset, FS_CardinalityType DEF Counting

LEMMA LoginKeepsRow ==
  ASSUME RowInv, NEW r \in Requests, LoginStep(r)
  PROVE  RowInv' /\ registered' = registered /\ row' = row
<1>1. TypeOK /\ registered' = registered /\ row' = row /\ code' = code
  BY DEF RowInv, LoginStep, CheckLimit, CheckFails, Guess, TurnAway, RightPassword,
         Count, CountFails, Clear, store
<1>2. /\ attempts' \in Nat /\ age' \in 0..(Window - 1) /\ guesses' \in Nat
      /\ lost' \in 0..MaxFaults
  <2>1. CASE CheckLimit(r) \/ TurnAway(r) \/ RightPassword(r)
    BY <2>1, ParametersKept DEF CheckLimit, TurnAway, RightPassword, limiter
  <2>2. CASE CheckFails(r) \/ CountFails(r)
    BY <2>2, ParametersKept, ConstantsOK DEF CheckFails, CountFails
  <2>3. CASE Guess(r)
    BY <2>3, ParametersKept DEF Guess
  <2>4. CASE Count(r)
    BY <2>4, ParametersKept DEF Count
  <2>5. CASE Clear(r)
    BY <2>5, ParametersKept, CountingTyped DEF Clear
  <2>6. QED
    BY <2>1, <2>2, <2>3, <2>4, <2>5 DEF LoginStep
<1>3. \E pc \in {"idle", "find", "count", "clear"}, op \in Ops : Turns(r, pc, op)
  <2>1. req[r].op \in Ops
    BY <1>1, Typed DEF Request
  <2>2. CASE CheckLimit(r) \/ CheckFails(r)
    BY <1>1, <2>2, OpensTurns DEF CheckLimit, CheckFails, Pcs, Ops
  <2>3. CASE Guess(r)
    BY <1>1, <2>1, <2>3, GotoTurns DEF Guess, Pcs
  <2>4. CASE RightPassword(r)
    BY <1>1, <2>1, <2>4, GotoTurns DEF RightPassword, Pcs
  <2>5. CASE TurnAway(r) \/ Count(r) \/ CountFails(r) \/ Clear(r)
    BY <1>1, <2>5, FinishTurns DEF TurnAway, Count, CountFails, Clear, Ops
  <2>6. QED
    BY <2>2, <2>3, <2>4, <2>5 DEF LoginStep
<1>4. RowInv'
  BY <1>1, <1>2, <1>3, ParametersKept, RowKept
<1>5. QED
  BY <1>1, <1>4

\* A step that writes the row takes nothing back but by UpdateBlockStatus.
FlagsKept(r) ==
  /\ row.verified => row'.verified
  /\ row.linked => row'.linked
  /\ row.blocked /\ ~row'.blocked => SetBlock(r) /\ req[r].op = "unblock"

LEMMA SameFlags ==
  ASSUME NEW r \in Requests, row' = row
  PROVE  FlagsKept(r)
BY DEF FlagsKept

\* A step that leaves the row and the limiter alone and goes on to another
\* step of the same request, or ends it.
LEMMA QuietKeepsRow ==
  ASSUME RowInv, NEW r \in Requests, NEW pc, NEW op, Turns(r, pc, op),
         UNCHANGED <<registered, row, limiter>>,
         code' \in BOOLEAN, code' => registered,
         pc \in {"link", "save", "setcode", "setblock", "setstatus"} => registered,
         pc = "setblock" => op \in {"block", "unblock"}
  PROVE  RowInv' /\ FlagsKept(r)
<1>1. /\ registered' = registered /\ row' = row /\ attempts' = attempts /\ age' = age
      /\ guesses' = guesses /\ lost' = lost
  BY DEF limiter
<1>2. RowInv'
  BY <1>1, ParametersKept, RowKept
<1>3. QED
  BY <1>1, <1>2, SameFlags

LEMMA SignUpKeeps ==
  ASSUME RowInv, NEW r \in Requests, SignUp(r)
  PROVE  RowInv' /\ FlagsKept(r)
<1>1. Turns(r, "checkemail", "signup")
  BY OpensTurns DEF SignUp, Start, RowInv, Pcs, Ops
<1>2. QED
  BY <1>1, QuietKeepsRow, ParametersKept DEF SignUp, store

LEMMA GoogleKeeps ==
  ASSUME RowInv, NEW r \in Requests, Google(r)
  PROVE  RowInv' /\ FlagsKept(r)
<1>1. Turns(r, "checkemail", "google")
  BY OpensTurns DEF Google, RowInv, Pcs, Ops
<1>2. QED
  BY <1>1, QuietKeepsRow, ParametersKept DEF Google, store

LEMMA CheckEmailKeeps ==
  ASSUME RowInv, NEW r \in Requests, CheckEmail(r)
  PROVE  RowInv' /\ FlagsKept(r)
<1>1. UNCHANGED <<registered, row, limiter>> /\ TypeOK
      /\ code' \in BOOLEAN /\ (code' => registered)
  BY ParametersKept DEF CheckEmail, store, RowInv
<1>2. CASE ~(registered /\ row.status)
  <2>1. Turns(r, "insert", req[r].op)
    BY <1>1, <1>2, GotoTurns DEF CheckEmail, Pcs
  <2>2. QED
    BY <1>1, <2>1, QuietKeepsRow
<1>3. CASE registered /\ row.status /\ req[r].op = "google"
  <2>1. Turns(r, "link", req[r].op)
    BY <1>1, <1>3, GotoTurns DEF CheckEmail, Pcs
  <2>2. QED
    BY <1>1, <1>3, <2>1, QuietKeepsRow
<1>4. CASE registered /\ row.status /\ req[r].op # "google"
  <2>1. Turns(r, "idle", "none")
    BY <1>1, <1>4, FinishTurns DEF CheckEmail
  <2>2. QED
    BY <1>1, <2>1, QuietKeepsRow
<1>5. QED
  BY <1>2, <1>3, <1>4

\* A step that ends its request and writes the row.
LEMMA WriteKeeps ==
  ASSUME RowInv, NEW r \in Requests, NEW pc, NEW op, Turns(r, pc, op),
         pc \in {"idle", "forget"}, UNCHANGED <<code, limiter>>,
         registered' \in BOOLEAN, registered => registered',
         row' \in Row, ~registered' => row' = NoRow
  PROVE  RowInv'
<1>1. /\ code' = code /\ attempts' = attempts /\ age' = age
      /\ guesses' = guesses /\ lost' = lost
  BY DEF limiter
<1>2. QED
  BY <1>1, ParametersKept, RowKept

LEMMA InsertKeeps ==
  ASSUME RowInv, NEW r \in Requests, Insert(r)
  PROVE  RowInv' /\ FlagsKept(r)
<1>1. Turns(r, "idle", "none") /\ UNCHANGED <<code, limiter>>
  BY FinishTurns DEF Insert, RowInv
<1>2. CASE registered
  <2>1. registered' = registered /\ row' = row
    BY <1>2 DEF Insert
  <2>2. QED
    BY <1>1, <2>1, ParametersKept, WriteKeeps, SameFlags
<1>3. CASE ~registered
  <2>1. PICK v \in BOOLEAN :
          row' = [status |-> TRUE, blocked |-> FALSE, verified |-> v,
                  linked |-> req[r].op = "google"]
    BY <1>3 DEF Insert
  <2>2. row' \in Row /\ registered'
    BY <1>3, <2>1 DEF Row, Insert
  <2>3. RowInv'
    BY <1>1, <2>2, WriteKeeps DEF Insert
  <2>4. row = NoRow
    BY <1>3, ParametersKept
  <2>5. FlagsKept(r)
    BY <2>4 DEF FlagsKept, NoRow
  <2>6. QED
    BY <2>3, <2>5
<1>4. QED
  BY <1>2, <1>3

LEMMA LinkKeeps ==
  ASSUME RowInv, NEW r \in Requests, Link(r)
  PROVE  RowInv' /\ FlagsKept(r)
<1>1. Turns(r, "idle", "none") /\ UNCHANGED <<code, limiter>> /\ registered' = registered
  BY FinishTurns DEF Link, RowInv
<1>2. registered
  BY DEF RowInv, Sees, Link, At
<1>3. row \in Row /\ row' = [row EXCEPT !.linked = TRUE]
  BY ParametersKept DEF Link
<1>4. row' \in Row /\ row'.verified = row.verified /\ row'.blocked = row.blocked /\ row'.linked
  BY <1>3 DEF Row
<1>5. RowInv'
  BY <1>1, <1>2, <1>4, ParametersKept, WriteKeeps
<1>6. QED
  BY <1>4, <1>5 DEF FlagsKept

LEMMA ReadProfileKeeps ==
  ASSUME RowInv, NEW r \in Requests, ReadProfile(r)
  PROVE  RowInv' /\ FlagsKept(r)
<1>1. Turns(r, "save", "profile")
  BY BeginTurns, ParametersKept DEF ReadProfile, RowInv, Pcs, Ops
<1>2. QED
  BY <1>1, QuietKeepsRow, ParametersKept DEF ReadProfile, store

LEMMA SaveRowKeeps ==
  ASSUME RowInv, NEW r \in Requests, SaveRow(r)
  PROVE  RowInv' /\ FlagsKept(r)
<1>1. UNCHANGED <<code, limiter>> /\ registered' = registered /\ TypeOK
  BY DEF SaveRow, RowInv
<1>2. registered
  BY DEF RowInv, Sees, SaveRow, At
<1>3. row \in Row /\ req[r].copy \in Row /\ row' = Merged(row, req[r].copy)
  BY <1>1, ParametersKept, Typed DEF SaveRow, Request
<1>4. row' \in Row /\ FlagsKept(r)
  BY <1>3, MergedTyped DEF FlagsKept
<1>5. Turns(r, "forget", req[r].op) \/ Turns(r, "idle", "none")
  BY <1>1, GotoTurns, FinishTurns DEF SaveRow, Pcs
<1>6. RowInv'
  BY <1>1, <1>2, <1>4, <1>5, ParametersKept, WriteKeeps
<1>7. QED
  BY <1>4, <1>6

LEMMA AskCodeKeeps ==
  ASSUME RowInv, NEW r \in Requests, AskCode(r)
  PROVE  RowInv' /\ FlagsKept(r)
<1>1. Turns(r, "setcode", "send")
  BY OpensTurns DEF AskCode, Start, RowInv, Pcs, Ops
<1>2. QED
  BY <1>1, QuietKeepsRow, ParametersKept DEF AskCode, store

LEMMA MatchCodeKeeps ==
  ASSUME RowInv, NEW r \in Requests, MatchCode(r)
  PROVE  RowInv' /\ FlagsKept(r)
<1>1. Turns(r, "reread", "verify")
  BY OpensTurns DEF MatchCode, Start, RowInv, Pcs, Ops
<1>2. QED
  BY <1>1, QuietKeepsRow, ParametersKept DEF MatchCode, store

LEMMA CodeWritten ==
  ASSUME RowInv, NEW r \in Requests, SetCode(r) \/ ForgetCode(r)
  PROVE  RowInv' /\ FlagsKept(r)
<1>1. /\ Turns(r, "idle", "none") /\ code' \in BOOLEAN /\ (code' => registered)
      /\ UNCHANGED <<registered, row, limiter>>
  BY FinishTurns DEF SetCode, ForgetCode, RowInv, Sees, At
<1>2. QED
  BY <1>1, QuietKeepsRow

\* Only an account that is registered is active.
LEMMA ReadVerifiedKeeps ==
  ASSUME RowInv, NEW r \in Requests, ReadVerified(r)
  PROVE  RowInv' /\ FlagsKept(r)
<1>1. UNCHANGED <<registered, row, limiter>> /\ TypeOK
      /\ code' \in BOOLEAN /\ (code' => registered)
  BY ParametersKept DEF ReadVerified, store, RowInv
<1>2. CASE row.status
  <2>1. registered
    BY <1>2, ParametersKept DEF NoRow
  <2>2. row \in Row
    BY ParametersKept
  <2>3. [row EXCEPT !.verified = TRUE] \in Row
    BY <2>2 DEF Row
  <2>4. Turns(r, "save", req[r].op)
    BY <1>1, <1>2, <2>3, ReadsTurns DEF ReadVerified
  <2>5. QED
    BY <1>1, <2>1, <2>4, QuietKeepsRow
<1>3. CASE ~row.status
  <2>1. Turns(r, "idle", "none")
    BY <1>1, <1>3, FinishTurns DEF ReadVerified
  <2>2. QED
    BY <1>1, <2>1, QuietKeepsRow
<1>4. QED
  BY <1>2, <1>3

LEMMA FindUserKeeps ==
  ASSUME RowInv, NEW r \in Requests, FindUser(r)
  PROVE  RowInv' /\ FlagsKept(r)
<1>1. PICK op \in {"block", "unblock"} :
        registered /\ Start(r, "setblock", op) /\ UNCHANGED <<store, limiter>>
  BY DEF FindUser
<1>2. Turns(r, "setblock", op)
  BY <1>1, OpensTurns DEF Start, RowInv, Pcs, Ops
<1>3. QED
  BY <1>1, <1>2, QuietKeepsRow, ParametersKept DEF store

LEMMA SetBlockKeeps ==
  ASSUME RowInv, NEW r \in Requests, SetBlock(r)
  PROVE  RowInv' /\ FlagsKept(r)
<1>1. Turns(r, "idle", "none") /\ UNCHANGED <<code, limiter>> /\ registered' = registered
  BY FinishTurns DEF SetBlock, RowInv
<1>2. registered /\ req[r].op \in {"block", "unblock"}
  BY DEF RowInv, Sees, SetBlock, At
<1>3. row \in Row /\ row' = [row EXCEPT !.blocked = (req[r].op = "block")]
  BY ParametersKept DEF SetBlock
<1>4. /\ row' \in Row /\ row'.verified = row.verified /\ row'.linked = row.linked
      /\ row'.blocked = (req[r].op = "block")
  BY <1>3 DEF Row
<1>5. RowInv'
  BY <1>1, <1>2, <1>4, ParametersKept, WriteKeeps
<1>6. QED
  BY <1>2, <1>4, <1>5 DEF FlagsKept

LEMMA ReadStatusKeeps ==
  ASSUME RowInv, NEW r \in Requests, ReadStatus(r)
  PROVE  RowInv' /\ FlagsKept(r)
<1>1. Turns(r, "setstatus", "toggle")
  BY BeginTurns, ParametersKept DEF ReadStatus, RowInv, Pcs, Ops
<1>2. QED
  BY <1>1, QuietKeepsRow, ParametersKept DEF ReadStatus, store

LEMMA SetStatusKeeps ==
  ASSUME RowInv, NEW r \in Requests, SetStatus(r)
  PROVE  RowInv' /\ FlagsKept(r)
<1>1. Turns(r, "idle", "none") /\ UNCHANGED <<code, limiter>> /\ registered' = registered
  BY FinishTurns DEF SetStatus, RowInv
<1>2. registered
  BY DEF RowInv, Sees, SetStatus, At
<1>3. row \in Row /\ row' = [row EXCEPT !.status = ~req[r].copy.status]
  BY ParametersKept DEF SetStatus
<1>4. /\ row' \in Row /\ row'.verified = row.verified /\ row'.linked = row.linked
      /\ row'.blocked = row.blocked
  BY <1>3 DEF Row
<1>5. RowInv'
  BY <1>1, <1>2, <1>4, ParametersKept, WriteKeeps
<1>6. QED
  BY <1>4, <1>5 DEF FlagsKept

LEMMA RowStepKeeps ==
  ASSUME RowInv, NEW r \in Requests, RowStep(r)
  PROVE  RowInv' /\ FlagsKept(r)
BY SignUpKeeps, CheckEmailKeeps, InsertKeeps, GoogleKeeps, LinkKeeps, ReadProfileKeeps,
   SaveRowKeeps, AskCodeKeeps, CodeWritten, MatchCodeKeeps, ReadVerifiedKeeps,
   FindUserKeeps, SetBlockKeeps, ReadStatusKeeps, SetStatusKeeps DEF RowStep

-----------------------------------------------------------------------------
(* The limiter.                                                            *)

\* The requests that may still guess, and those whose guess is to be counted.
Finding == {r \in Requests : At(r, "find")}
ToCount == {r \in Requests : At(r, "count")}

\* Every guess is counted, will be, or was lost; and what was let in below the
\* limit is not more than the limit and what else is under way.
LimiterInv ==
  /\ guesses <= attempts + Cardinality(ToCount) + lost
  /\ guesses + Cardinality(Finding) <= MaxAttempts + (Cardinality(Requests) - 1) + lost

LEMMA Finite ==
  /\ IsFiniteSet(Requests) /\ IsFiniteSet(Finding) /\ IsFiniteSet(ToCount)
  /\ Cardinality(Requests) \in Nat /\ Cardinality(Finding) \in Nat
  /\ Cardinality(ToCount) \in Nat
<1>1. Finding \subseteq Requests /\ ToCount \subseteq Requests
  BY DEF Finding, ToCount
<1>2. QED
  BY <1>1, ConstantsOK, FS_Subset, FS_CardinalityType

\* A request is at one step only.
LEMMA Apart ==
  Cardinality(Finding \cup ToCount) = Cardinality(Finding) + Cardinality(ToCount)
<1>1. Finding \cap ToCount = {}
  BY DEF Finding, ToCount, At
<1>2. Cardinality(Finding \cap ToCount) = 0
  BY <1>1, FS_EmptySet
<1>3. Cardinality(Finding \cup ToCount) =
        Cardinality(Finding) + Cardinality(ToCount) - Cardinality(Finding \cap ToCount)
  BY Finite, FS_Union
<1>4. QED
  BY <1>2, <1>3, Finite

LEMMA Together == Cardinality(Finding) + Cardinality(ToCount) <= Cardinality(Requests)
<1>1. Finding \cup ToCount \subseteq Requests
  BY DEF Finding, ToCount
<1>2. Cardinality(Finding \cup ToCount) <= Cardinality(Requests)
  BY <1>1, Finite, FS_Subset
<1>3. QED
  BY <1>2, Apart

\* What one step of a request does to the two sets.
LEMMA FindingMoves ==
  ASSUME NEW r \in Requests, NEW pc, NEW op, Turns(r, pc, op)
  PROVE  /\ Cardinality(Finding') = Cardinality(Finding)
              + (IF pc = "find" THEN 1 ELSE 0) - (IF At(r, "find") THEN 1 ELSE 0)
         /\ Cardinality(ToCount') = Cardinality(ToCount)
              + (IF pc = "count" THEN 1 ELSE 0) - (IF At(r, "count") THEN 1 ELSE 0)
<1>1. ASSUME NEW step, NEW S, S = {s \in Requests : At(s, step)},
             NEW T, T = {s \in Requests : req'[s].pc = step}
      PROVE  Cardinality(T) = Cardinality(S)
               + (IF pc = step THEN 1 ELSE 0) - (IF At(r, step) THEN 1 ELSE 0)
  <2>1. IsFiniteSet(S) /\ IsFiniteSet(T) /\ Cardinality(S) \in Nat
    <3>1. S \subseteq Requests /\ T \subseteq Requests
      BY <1>1
    <3>2. QED
      BY <3>1, ConstantsOK, FS_Subset, FS_CardinalityType
  <2>2. \A s \in Requests \ {r} : s \in S <=> s \in T
    BY <1>1 DEF Turns, Same, At
  <2>3. (r \in S <=> At(r, step)) /\ (r \in T <=> pc = step)
    BY <1>1 DEF Turns
  <2>4. S \subseteq Requests /\ T \subseteq Requests
    BY <1>1
  <2>5. CASE At(r, step) /\ pc = step
    <3>1. S = T
      BY <2>2, <2>3, <2>4, <2>5
    <3>2. QED
      BY <2>1, <2>5, <3>1
  <2>6. CASE At(r, step) /\ pc # step
    <3>1. T = S \ {r} /\ r \in S
      BY <2>2, <2>3, <2>4, <2>6
    <3>2. QED
      BY <2>1, <2>6, <3>1, FS_RemoveElement
  <2>7. CASE ~At(r, step) /\ pc = step
    <3>1. T = S \cup {r} /\ r \notin S
      BY <2>2, <2>3, <2>4, <2>7
    <3>2. QED
      BY <2>1, <2>7, <3>1, FS_AddElement
  <2>8. CASE ~At(r, step) /\ pc # step
    <3>1. S = T
      BY <2>2, <2>3, <2>4, <2>8
    <3>2. QED
      BY <2>1, <2>8, <3>1
  <2>9. QED
    BY <2>5, <2>6, <2>7, <2>8
<1>2. Finding' = {s \in Requests : req'[s].pc = "find"}
  BY DEF Finding, At
<1>3. ToCount' = {s \in Requests : req'[s].pc = "count"}
  BY DEF ToCount, At
<1>4. QED
  BY <1>1, <1>2, <1>3 DEF Finding, ToCount

LEMMA Amounts ==
  ASSUME RowInv
  PROVE  /\ attempts \in Nat /\ guesses \in Nat /\ lost \in Nat /\ MaxAttempts \in Nat \ {0}
         /\ Cardinality(Requests) \in Nat /\ Cardinality(Finding) \in Nat
         /\ Cardinality(ToCount) \in Nat
BY ParametersKept, Finite, ConstantsOK

\* The steps of a login, one by one.
LEMMA LoginKeepsLimit ==
  ASSUME RowInv, LimiterInv, NEW r \in Requests, LoginStep(r)
  PROVE  LimiterInv'
<1> USE Amounts
<1>1. TypeOK
  BY DEF RowInv
<1>2. CASE CheckLimit(r)
  <2>1. Turns(r, "find", "login") /\ At(r, "idle") /\ attempts < MaxAttempts
        /\ attempts' = attempts /\ guesses' = guesses /\ lost' = lost
    BY <1>1, <1>2, OpensTurns DEF CheckLimit, limiter, Pcs, Ops
  <2>2. /\ Cardinality(Finding') = Cardinality(Finding) + 1
        /\ Cardinality(ToCount') = Cardinality(ToCount)
    BY <2>1, FindingMoves DEF At
  <2>3. Cardinality(Finding') + Cardinality(ToCount') <= Cardinality(Requests)
    <3>1. r \notin Finding \cup ToCount
      BY <2>1 DEF Finding, ToCount, At
    <3>2. Finding \cup ToCount \subseteq Requests \ {r}
      BY <3>1 DEF Finding, ToCount
    <3>3. Cardinality(Requests \ {r}) = Cardinality(Requests) - 1
          /\ IsFiniteSet(Requests \ {r})
      BY Finite, FS_RemoveElement
    <3>4. Cardinality(Finding \cup ToCount) <= Cardinality(Requests) - 1
      BY <3>2, <3>3, FS_Subset
    <3>5. QED
      BY <2>2, <3>4, Apart
  <2>4. QED
    BY <2>1, <2>2, <2>3 DEF LimiterInv
<1>3. CASE CheckFails(r)
  <2>1. Turns(r, "find", "login") /\ At(r, "idle")
        /\ attempts' = attempts /\ guesses' = guesses /\ lost' = lost + 1
    BY <1>1, <1>3, OpensTurns DEF CheckFails, Pcs, Ops
  <2>2. /\ Cardinality(Finding') = Cardinality(Finding) + 1
        /\ Cardinality(ToCount') = Cardinality(ToCount)
    BY <2>1, FindingMoves DEF At
  <2>3. QED
    BY <2>1, <2>2 DEF LimiterInv
<1>4. CASE Guess(r)
  <2>1. Turns(r, "count", req[r].op) /\ At(r, "find")
        /\ attempts' = attempts /\ guesses' = guesses + 1 /\ lost' = lost
    BY <1>1, <1>4, GotoTurns DEF Guess, Pcs
  <2>2. /\ Cardinality(Finding') = Cardinality(Finding) - 1
        /\ Cardinality(ToCount') = Cardinality(ToCount) + 1
    BY <2>1, FindingMoves DEF At
  <2>3. QED
    BY <2>1, <2>2 DEF LimiterInv
<1>5. CASE TurnAway(r) \/ RightPassword(r)
  <2>1. (Turns(r, "idle", "none") \/ Turns(r, "clear", req[r].op)) /\ At(r, "find")
        /\ attempts' = attempts /\ guesses' = guesses /\ lost' = lost
    BY <1>1, <1>5, FinishTurns, GotoTurns DEF TurnAway, RightPassword, limiter, Pcs
  <2>2. /\ Cardinality(Finding') = Cardinality(Finding) - 1
        /\ Cardinality(ToCount') = Cardinality(ToCount)
    BY <2>1, FindingMoves DEF At
  <2>3. QED
    BY <2>1, <2>2 DEF LimiterInv
<1>6. CASE Count(r)
  <2>1. Turns(r, "idle", "none") /\ At(r, "count")
        /\ attempts' = attempts + 1 /\ guesses' = guesses /\ lost' = lost
    BY <1>1, <1>6, FinishTurns DEF Count
  <2>2. /\ Cardinality(Finding') = Cardinality(Finding)
        /\ Cardinality(ToCount') = Cardinality(ToCount) - 1
    BY <2>1, FindingMoves DEF At
  <2>3. QED
    BY <2>1, <2>2 DEF LimiterInv
<1>7. CASE CountFails(r)
  <2>1. Turns(r, "idle", "none") /\ (At(r, "count") \/ At(r, "clear"))
        /\ attempts' = attempts /\ guesses' = guesses /\ lost' = lost + 1
    BY <1>1, <1>7, FinishTurns DEF CountFails
  <2>2. /\ Cardinality(Finding') = Cardinality(Finding)
        /\ \/ Cardinality(ToCount') = Cardinality(ToCount) - 1
           \/ Cardinality(ToCount') = Cardinality(ToCount)
    BY <2>1, FindingMoves DEF At
  <2>3. QED
    BY <2>1, <2>2 DEF LimiterInv
<1>8. CASE Clear(r)
  <2>1. Turns(r, "idle", "none") /\ At(r, "clear")
        /\ attempts' = 0 /\ guesses' = Cardinality(ToCount) /\ lost' = lost
    BY <1>1, <1>8, FinishTurns DEF Clear, Counting, ToCount
  <2>2. /\ Cardinality(Finding') = Cardinality(Finding)
        /\ Cardinality(ToCount') = Cardinality(ToCount)
    BY <2>1, FindingMoves DEF At
  <2>3. QED
    BY <2>1, <2>2, Together DEF LimiterInv
<1>9. QED
  BY <1>2, <1>3, <1>4, <1>5, <1>6, <1>7, <1>8 DEF LoginStep

\* The other requests are none of the limiter's.
LEMMA RowStepTurns ==
  ASSUME RowInv, NEW r \in Requests, RowStep(r)
  PROVE  /\ UNCHANGED limiter /\ ~At(r, "find") /\ ~At(r, "count")
         /\ \E pc \in Pcs \ {"find", "count"}, op \in Ops : Turns(r, pc, op)
<1>1. TypeOK /\ req[r].op \in Ops /\ row \in Row
  BY Typed, ParametersKept DEF RowInv, Request
<1>2. CASE SignUp(r) \/ AskCode(r) \/ MatchCode(r) \/ Google(r) \/ FindUser(r)
  <2>1. UNCHANGED limiter /\ At(r, "idle")
    BY <1>2 DEF SignUp, AskCode, MatchCode, Google, FindUser, Start
  <2>2. \E pc \in {"checkemail", "setcode", "reread", "setblock"},
           op \in {"signup", "send", "verify", "google", "block", "unblock"} :
          req' = [req EXCEPT ![r] = [Idle EXCEPT !.pc = pc, !.op = op]]
    BY <1>2 DEF SignUp, AskCode, MatchCode, Google, FindUser, Start
  <2>3. QED
    BY <1>1, <2>1, <2>2, OpensTurns DEF Pcs, Ops, At
<1>3. CASE ReadProfile(r) \/ ReadStatus(r)
  <2>1. UNCHANGED limiter /\ At(r, "idle")
    BY <1>3 DEF ReadProfile, ReadStatus
  <2>2. Turns(r, "save", "profile") \/ Turns(r, "setstatus", "toggle")
    BY <1>1, <1>3, BeginTurns DEF ReadProfile, ReadStatus, Pcs, Ops
  <2>3. QED
    BY <2>1, <2>2 DEF At, Pcs, Ops
<1>4. CASE CheckEmail(r) \/ SaveRow(r)
  <2>1. UNCHANGED limiter /\ (At(r, "checkemail") \/ At(r, "save"))
    BY <1>4 DEF CheckEmail, SaveRow
  <2>2. Finish(r) \/ \E pc \in {"insert", "link", "forget"} : Goto(r, pc)
    BY <1>4 DEF CheckEmail, SaveRow
  <2>3. Turns(r, "idle", "none") \/ \E pc \in {"insert", "link", "forget"} :
                                      Turns(r, pc, req[r].op)
    BY <1>1, <2>2, FinishTurns, GotoTurns DEF Pcs
  <2>4. QED
    BY <1>1, <2>1, <2>3 DEF At, Pcs, Ops
<1>5. CASE Insert(r) \/ Link(r) \/ SetCode(r) \/ ForgetCode(r) \/ SetBlock(r) \/ SetStatus(r)
  <2>1. UNCHANGED limiter /\ Finish(r) /\ ~At(r, "find") /\ ~At(r, "count")
    BY <1>5 DEF Insert, Link, SetCode, ForgetCode, SetBlock, SetStatus, At
  <2>2. QED
    BY <1>1, <2>1, FinishTurns DEF Pcs, Ops
<1>6. CASE ReadVerified(r)
  <2>1. UNCHANGED limiter /\ At(r, "reread")
    BY <1>6 DEF ReadVerified
  <2>2. [row EXCEPT !.verified = TRUE] \in Row
    BY <1>1 DEF Row
  <2>3. Turns(r, "idle", "none") \/ Turns(r, "save", req[r].op)
    BY <1>1, <1>6, <2>2, FinishTurns, ReadsTurns DEF ReadVerified
  <2>4. QED
    BY <1>1, <2>1, <2>3 DEF At, Pcs, Ops
<1>7. QED
  BY <1>2, <1>3, <1>4, <1>5, <1>6 DEF RowStep

LEMMA RowKeepsLimit ==
  ASSUME RowInv, LimiterInv, NEW r \in Requests, RowStep(r)
  PROVE  LimiterInv'
<1>1. /\ attempts' = attempts /\ guesses' = guesses /\ lost' = lost
      /\ ~At(r, "find") /\ ~At(r, "count")
  BY RowStepTurns DEF limiter
<1>2. PICK pc \in Pcs \ {"find", "count"}, op \in Ops : Turns(r, pc, op)
  BY RowStepTurns
<1>3. /\ Cardinality(Finding') = Cardinality(Finding)
      /\ Cardinality(ToCount') = Cardinality(ToCount)
  BY <1>1, <1>2, FindingMoves, Finite
<1>4. QED
  BY <1>1, <1>3 DEF LimiterInv

-----------------------------------------------------------------------------
IInv == RowInv /\ LimiterInv

LEMMA Beginning == Init => IInv
<1> SUFFICES ASSUME Init PROVE IInv
  OBVIOUS
<1>1. /\ registered = FALSE /\ row = NoRow /\ code = FALSE
      /\ attempts = 0 /\ age = 0 /\ guesses = 0 /\ lost = 0
      /\ req = [r \in Requests |-> Idle]
  BY DEF Init
<1>2. req \in [Requests -> Request]
  BY <1>1, IdleTyped
<1>3. TypeOK
  <2>1. age \in 0..(Window - 1) /\ lost \in 0..MaxFaults /\ attempts \in Nat /\ guesses \in Nat
    BY <1>1, ConstantsOK
  <2>2. registered \in BOOLEAN /\ row \in Row /\ code \in BOOLEAN
    BY <1>1, NoRowTyped
  <2>3. ~registered => row = NoRow /\ ~code
    BY <1>1
  <2>4. QED
    BY <1>2, <2>1, <2>2, <2>3, Zenon DEF TypeOK, Request, Pcs, Ops
<1>4. \A r \in Requests : req[r].pc = "idle"
  BY <1>1, IdleTyped
<1>5. RowInv
  BY <1>3, <1>4 DEF RowInv, Sees
<1>6. Cardinality(Finding) = 0 /\ Cardinality(ToCount) = 0
  <2>1. Finding = {} /\ ToCount = {}
    BY <1>4 DEF Finding, ToCount, At
  <2>2. QED
    BY <2>1, FS_EmptySet
<1>7. Cardinality(Requests) \in Nat /\ MaxAttempts \in Nat \ {0}
  BY Finite, ConstantsOK
<1>8. LimiterInv
  BY <1>1, <1>6, <1>7 DEF LimiterInv
<1>9. QED
  BY <1>5, <1>8 DEF IInv

\* A step in which no request moves.
LEMMA Standing ==
  ASSUME RowInv, req' = req, registered' = registered, row' = row, TypeOK'
  PROVE  RowInv' /\ Finding' = Finding /\ ToCount' = ToCount
BY DEF RowInv, Sees, Finding, ToCount, At

LEMMA TickKeeps ==
  ASSUME IInv, Tick
  PROVE  IInv'
<1>1. /\ registered' = registered /\ row' = row /\ code' = code /\ req' = req /\ lost' = lost
  BY DEF Tick, store
<1>2. \/ age + 1 < Window /\ age' = age + 1 /\ attempts' = attempts /\ guesses' = guesses
      \/ age' = 0 /\ attempts' = 0 /\ guesses' = Cardinality(ToCount)
  BY DEF Tick, Counting, ToCount
<1>3. /\ RowInv /\ age \in 0..(Window - 1) /\ Window \in Nat \ {0}
  BY ParametersKept, ConstantsOK DEF IInv
<1>4. age' \in 0..(Window - 1) /\ attempts' \in Nat /\ guesses' \in Nat
  BY <1>2, <1>3, Amounts
<1>5. TypeOK'
  BY <1>1, <1>3, <1>4 DEF RowInv, TypeOK
<1>6. RowInv' /\ Finding' = Finding /\ ToCount' = ToCount
  BY <1>1, <1>3, <1>5, Standing
<1>7. LimiterInv'
  BY <1>1, <1>2, <1>3, <1>6, Amounts, Together DEF IInv, LimiterInv
<1>8. QED
  BY <1>6, <1>7 DEF IInv

LEMMA Stepping == IInv /\ [Next]_vars => IInv'
<1> SUFFICES ASSUME IInv, [Next]_vars PROVE IInv'
  OBVIOUS
<1>1. ASSUME NEW r \in Requests, LoginStep(r) PROVE IInv'
  BY <1>1, LoginKeepsRow, LoginKeepsLimit DEF IInv
<1>2. ASSUME NEW r \in Requests, RowStep(r) PROVE IInv'
  BY <1>2, RowStepKeeps, RowKeepsLimit DEF IInv
<1>3. CASE Tick
  BY <1>3, TickKeeps
<1>4. CASE CodeExpires \/ UNCHANGED vars
  <2>1. /\ registered' = registered /\ row' = row /\ req' = req
        /\ attempts' = attempts /\ age' = age /\ guesses' = guesses /\ lost' = lost
    BY <1>4 DEF CodeExpires, vars, limiter
  <2>2. TypeOK'
    <3>1. CASE CodeExpires
      <4>1. code' = FALSE
        BY <3>1 DEF CodeExpires
      <4>2. QED
        BY <2>1, <4>1 DEF IInv, RowInv, TypeOK
    <3>2. CASE UNCHANGED vars
      <4>1. code' = code
        BY <3>2 DEF vars
      <4>2. QED
        BY <2>1, <4>1 DEF IInv, RowInv, TypeOK
    <3>3. QED
      BY <1>4, <3>1, <3>2
  <2>3. RowInv' /\ Finding' = Finding /\ ToCount' = ToCount
    BY <2>1, <2>2, Standing DEF IInv
  <2>4. QED
    BY <2>1, <2>3 DEF IInv, LimiterInv
<1>5. QED
  BY <1>1, <1>2, <1>3, <1>4 DEF Next

\* The inductive invariant holds at all times.
THEOREM Inductive == Spec => []IInv
<1>1. Init => IInv
  BY Beginning
<1>2. IInv /\ [Next]_vars => IInv'
  BY Stepping
<1>3. QED
  BY <1>1, <1>2, PTL DEF Spec

\* The row, the counter, the code and the requests keep their types, and there
\* is neither a row nor a code before the address is registered.
THEOREM TypeCorrect == Spec => []TypeOK
<1>1. IInv => TypeOK
  BY DEF IInv, RowInv
<1>2. QED
  BY <1>1, Inductive, PTL

\* No more passwords are tried between two resets of the counter than the limit,
\* the other requests and the failures of Redis account for.
THEOREM BoundedGuesses == Spec => []GuessesBounded
<1>1. IInv => GuessesBounded
  BY Amounts DEF IInv, LimiterInv, GuessesBounded
<1>2. QED
  BY <1>1, Inductive, PTL

\* No save of an old copy takes back a verification, a Google link or a block.
THEOREM SurvivingFlags == Spec => FlagsSurviveSaves
<1> DEFINE Keeps == /\ row.verified => row'.verified
                    /\ row.linked => row'.linked
                    /\ row.blocked /\ ~row'.blocked =>
                         \E r \in Requests : SetBlock(r) /\ req[r].op = "unblock"
<1>1. IInv /\ [Next]_vars => [Keeps]_row
  <2> SUFFICES ASSUME IInv, [Next]_vars, row' # row PROVE Keeps
    OBVIOUS
  <2>1. PICK r \in Requests : RowStep(r)
    <3>1. ASSUME NEW s \in Requests, LoginStep(s) PROVE FALSE
      BY <3>1, LoginKeepsRow DEF IInv
    <3>2. ~Tick /\ ~CodeExpires /\ ~UNCHANGED vars
      BY DEF Tick, CodeExpires, vars, store
    <3>3. QED
      BY <3>1, <3>2 DEF Next
  <2>2. FlagsKept(r)
    BY <2>1, RowStepKeeps DEF IInv
  <2>3. QED
    BY <2>2 DEF FlagsKept
<1>2. Spec => [][Keeps]_row
  BY <1>1, Inductive, PTL DEF Spec
<1>3. QED
  BY <1>2 DEF FlagsSurviveSaves
=============================================================================
