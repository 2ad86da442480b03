------------------------------ MODULE Accounts ------------------------------
(***************************************************************************)
(* One e-mail address and the account behind it: the row in users, the     *)
(* counter of failed logins and the verification code in Redis, and the    *)
(* requests that read and write them.                                      *)
(*                                                                         *)
(* Each call to Postgres or Redis is a step, and requests interleave       *)
(* between them.  The profile operations read the whole row, change it in  *)
(* memory and save it with GORM's Updates, which writes the fields that    *)
(* are not zero; the administrator's operations write one column.          *)
(***************************************************************************)
EXTENDS Naturals, FiniteSets

CONSTANTS
  Requests,
  MaxAttempts,  \* loginMaxAttempts
  Window,       \* bound: ticks a counter lives without a new failure (15 min)
  MaxFaults     \* bound: calls to Redis that fail

ASSUME ConstantsOK ==
  /\ IsFiniteSet(Requests)
  /\ MaxAttempts \in Nat \ {0} /\ Window \in Nat \ {0} /\ MaxFaults \in Nat

VARIABLES
  registered, \* whether users has a row with this address
  row,        \* the row
  code,       \* otp:verification:<email> holds a code
  attempts,   \* login:attempts:<email>, 0 when the key is absent
  age,        \* ticks since its TTL was last renewed
  req,        \* the requests
  guesses,    \* passwords refused since the counter was last absent
  lost        \* failures of Redis that let a guess go uncounted

vars == <<registered, row, code, attempts, age, req, guesses, lost>>
limiter == <<attempts, age, guesses, lost>>
store == <<registered, row, code>>

Row == [status: BOOLEAN, blocked: BOOLEAN, verified: BOOLEAN, linked: BOOLEAN]
NoRow == [status |-> FALSE, blocked |-> FALSE, verified |-> FALSE, linked |-> FALSE]
Idle == [pc |-> "idle", op |-> "none", copy |-> NoRow]

Init ==
  /\ registered = FALSE /\ row = NoRow /\ code = FALSE
  /\ attempts = 0 /\ age = 0 /\ guesses = 0 /\ lost = 0
  /\ req = [r \in Requests |-> Idle]

At(r, pc) == req[r].pc = pc
Goto(r, pc) == req' = [req EXCEPT ![r].pc = pc]
Finish(r) == req' = [req EXCEPT ![r] = Idle]
Start(r, pc, op) ==
  At(r, "idle") /\ req' = [req EXCEPT ![r] = [Idle EXCEPT !.pc = pc, !.op = op]]

-----------------------------------------------------------------------------
\* Mutant: one guess too many is let through.
CheckLimitLate(r) ==
  /\ At(r, "idle") /\ attempts <= MaxAttempts
  /\ req' = [req EXCEPT ![r] = [Idle EXCEPT !.pc = "find", !.op = "login"]]
  /\ UNCHANGED <<store, limiter>>

\* Mutant: an attempt that is refused renews the TTL as well.
CheckLimitRenews(r) ==
  /\ At(r, "idle")
  /\ IF attempts < MaxAttempts
     THEN /\ req' = [req EXCEPT ![r] = [Idle EXCEPT !.pc = "find", !.op = "login"]]
          /\ UNCHANGED age
     ELSE age' = 0 /\ UNCHANGED req
  /\ UNCHANGED <<store, attempts, guesses, lost>>

\* Login.  The limit is checked before the database is touched.
CheckLimit(r) ==
  /\ At(r, "idle") /\ attempts < MaxAttempts
  /\ req' = [req EXCEPT ![r] = [Idle EXCEPT !.pc = "find", !.op = "login"]]
  /\ UNCHANGED <<store, limiter>>

\* checkLoginRateLimit fails open.
CheckFails(r) ==
  /\ At(r, "idle") /\ lost < MaxFaults
  /\ lost' = lost + 1
  /\ req' = [req EXCEPT ![r] = [Idle EXCEPT !.pc = "find", !.op = "login"]]
  /\ UNCHANGED <<store, attempts, age, guesses>>

\* The password is wrong, or there is no such user.
Guess(r) ==
  /\ At(r, "find") /\ (registered => row.status /\ ~row.blocked)
  /\ guesses' = guesses + 1
  /\ Goto(r, "count")
  /\ UNCHANGED <<store, attempts, age, lost>>

\* A user who is disabled or blocked is turned away uncounted.
TurnAway(r) ==
  /\ At(r, "find") /\ registered /\ (~row.status \/ row.blocked)
  /\ Finish(r)
  /\ UNCHANGED <<store, limiter>>

RightPassword(r) ==
  /\ At(r, "find") /\ registered /\ row.status /\ ~row.blocked
  /\ Goto(r, "clear")
  /\ UNCHANGED <<store, limiter>>

\* IncrWithTTL adds one and renews the TTL.
Count(r) ==
  /\ At(r, "count")
  /\ attempts' = attempts + 1 /\ age' = 0
  /\ Finish(r)
  /\ UNCHANGED <<store, guesses, lost>>

\* Redis fails to count or to clear; the answer to the client is the same.
CountFails(r) ==
  /\ At(r, "count") \/ At(r, "clear")
  /\ lost < MaxFaults
  /\ lost' = lost + 1
  /\ Finish(r)
  /\ UNCHANGED <<store, attempts, age, guesses>>

\* What is still to be counted once the key is gone.
Counting == Cardinality({r \in Requests : At(r, "count")})

Clear(r) ==
  /\ At(r, "clear")
  /\ attempts' = 0 /\ age' = 0 /\ guesses' = Counting
  /\ Finish(r)
  /\ UNCHANGED <<store, lost>>

Tick ==
  /\ attempts > 0
  /\ IF age + 1 < Window
     THEN age' = age + 1 /\ UNCHANGED <<attempts, guesses>>
     ELSE age' = 0 /\ attempts' = 0 /\ guesses' = Counting
  /\ UNCHANGED <<store, req, lost>>

-----------------------------------------------------------------------------
\* Register, Signup and the users' Create, or the last resort of GoogleCallback:
\* CheckEmail looks at active rows only, the unique index at all of them.
SignUp(r) == Start(r, "checkemail", "signup") /\ UNCHANGED <<store, limiter>>

CheckEmail(r) ==
  /\ At(r, "checkemail")
  /\ IF ~(registered /\ row.status) THEN Goto(r, "insert")
     ELSE IF req[r].op = "google" THEN Goto(r, "link") ELSE Finish(r)
  /\ UNCHANGED <<store, limiter>>

\* The INSERT, which the unique index refuses when the address has a row.
Insert(r) ==
  /\ At(r, "insert")
  /\ IF registered THEN UNCHANGED <<registered, row>>
     ELSE /\ registered' = TRUE
          /\ \E v \in BOOLEAN :
               /\ v => req[r].op = "google"
               /\ row' = [status |-> TRUE, blocked |-> FALSE, verified |-> v,
                          linked |-> req[r].op = "google"]
  /\ Finish(r)
  /\ UNCHANGED <<code, limiter>>

\* GoogleCallback: by google_id, then by e-mail.
Google(r) ==
  /\ At(r, "idle") /\ ~(registered /\ row.linked)
  /\ req' = [req EXCEPT ![r] = [Idle EXCEPT !.pc = "checkemail", !.op = "google"]]
  /\ UNCHANGED <<store, limiter>>

Link(r) ==
  /\ At(r, "link")
  /\ row' = [row EXCEPT !.linked = TRUE]
  /\ Finish(r)
  /\ UNCHANGED <<registered, code, limiter>>

-----------------------------------------------------------------------------
\* Update, UpdateMe, ResetPassword: read the row; none of the flags is changed.
ReadProfile(r) ==
  /\ At(r, "idle") /\ registered
  /\ req' = [req EXCEPT ![r] = [pc |-> "save", op |-> "profile", copy |-> row]]
  /\ UNCHANGED <<store, limiter>>

\* Mutant: Save, which writes every field of the copy.
Overwritten(old, copy) == copy

\* GORM's Updates: a field that is zero in the copy keeps its value in the row.
Merged(old, copy) == [f \in DOMAIN old |-> old[f] \/ copy[f]]

SaveRow(r) ==
  /\ At(r, "save")
  /\ row' = Merged(row, req[r].copy)
  /\ IF req[r].op = "verify" THEN Goto(r, "forget") ELSE Finish(r)
  /\ UNCHANGED <<registered, code, limiter>>

\* Mutant: the account is not looked up, so any address gets a code.
AskCodeUnchecked(r) == Start(r, "setcode", "send") /\ UNCHANGED <<store, limiter>>

\* SendVerificationEmail: an active account that is not verified gets a code.
AskCode(r) ==
  /\ registered /\ row.status /\ ~row.verified
  /\ Start(r, "setcode", "send")
  /\ UNCHANGED <<store, limiter>>

SetCode(r) ==
  /\ At(r, "setcode")
  /\ code' = TRUE
  /\ Finish(r)
  /\ UNCHANGED <<registered, row, limiter>>

\* VerifyEmail with the right code.
MatchCode(r) ==
  /\ code
  /\ Start(r, "reread", "verify")
  /\ UNCHANGED <<store, limiter>>

ReadVerified(r) ==
  /\ At(r, "reread")
  /\ IF row.status
     THEN req' = [req EXCEPT ![r].pc = "save", ![r].copy = [row EXCEPT !.verified = TRUE]]
     ELSE Finish(r)
  /\ UNCHANGED <<store, limiter>>

ForgetCode(r) ==
  /\ At(r, "forget")
  /\ code' = FALSE
  /\ Finish(r)
  /\ UNCHANGED <<registered, row, limiter>>

\* Ten minutes have passed.
CodeExpires == code /\ code' = FALSE /\ UNCHANGED <<registered, row, req, limiter>>

-----------------------------------------------------------------------------
\* UpdateBlockStatus looks whether the user exists, then writes is_blocked.
FindUser(r) ==
  \E op \in {"block", "unblock"} :
    /\ registered /\ Start(r, "setblock", op)
    /\ UNCHANGED <<store, limiter>>

SetBlock(r) ==
  /\ At(r, "setblock")
  /\ row' = [row EXCEPT !.blocked = (req[r].op = "block")]
  /\ Finish(r)
  /\ UNCHANGED <<registered, code, limiter>>

\* ChangeStatus reads the status and writes its opposite.
ReadStatus(r) ==
  /\ At(r, "idle") /\ registered
  /\ req' = [req EXCEPT ![r] = [pc |-> "setstatus", op |-> "toggle", copy |-> row]]
  /\ UNCHANGED <<store, limiter>>

SetStatus(r) ==
  /\ At(r, "setstatus")
  /\ row' = [row EXCEPT !.status = ~req[r].copy.status]
  /\ Finish(r)
  /\ UNCHANGED <<registered, code, limiter>>

LoginStep(r) ==
  \/ CheckLimit(r) \/ CheckFails(r) \/ Guess(r) \/ TurnAway(r) \/ RightPassword(r)
  \/ Count(r) \/ CountFails(r) \/ Clear(r)

RowStep(r) ==
  \/ SignUp(r) \/ CheckEmail(r) \/ Insert(r) \/ Google(r) \/ Link(r)
  \/ ReadProfile(r) \/ SaveRow(r)
  \/ AskCode(r) \/ SetCode(r) \/ MatchCode(r) \/ ReadVerified(r) \/ ForgetCode(r)
  \/ FindUser(r) \/ SetBlock(r) \/ ReadStatus(r) \/ SetStatus(r)

Next ==
  \/ \E r \in Requests : LoginStep(r) \/ RowStep(r)
  \/ Tick \/ CodeExpires

Spec == Init /\ [][Next]_vars

\* Time passes, so a key that nobody renews expires.
FairSpec == Spec /\ WF_vars(Tick)

-----------------------------------------------------------------------------
\* Types; an address that is not registered has an empty row and no code.
TypeOK ==
  /\ registered \in BOOLEAN /\ row \in Row /\ code \in BOOLEAN
  /\ attempts \in Nat /\ age \in 0..(Window - 1)
  /\ guesses \in Nat /\ lost \in 0..MaxFaults
  /\ req \in [Requests ->
       [pc: {"idle", "find", "count", "clear", "checkemail", "insert", "link", "save",
             "setcode", "reread", "forget", "setblock", "setstatus"},
        op: {"none", "login", "signup", "google", "profile", "send", "verify", "block",
             "unblock", "toggle"},
        copy: Row]]
  /\ ~registered => row = NoRow /\ ~code

\* Between two resets of the counter no more passwords are tried than the
\* limit allows, plus what the other requests had under way when it was
\* reached and what Redis failed to count.
GuessesBounded ==
  guesses <= MaxAttempts + (Cardinality(Requests) - 1) + lost

\* An address that is locked out is let in again: refused attempts do not
\* renew the TTL, so persistent wrong logins cannot lock it for ever.
LockEnds == (attempts >= MaxAttempts) ~> (attempts = 0)

\* Saving a profile that was read before somebody else changed the row takes
\* nothing back that the other granted or imposed: verification and the Google
\* link last, and a block ends only by UpdateBlockStatus.
FlagsSurviveSaves ==
  [][ /\ row.verified => row'.verified
      /\ row.linked => row'.linked
      /\ row.blocked /\ ~row'.blocked =>
           \E r \in Requests : SetBlock(r) /\ req[r].op = "unblock" ]_row
=============================================================================
