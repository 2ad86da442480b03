--------------------------- MODULE SessionsProofs ---------------------------
(***************************************************************************)
(* Proofs about Sessions for any number of users, requests, tokens and     *)
(* failures: a token that was spent is refused, and a token that a client  *)
(* holds is stored.                                                        *)
(***************************************************************************)
EXTENDS Sessions, TLAPS

\* The steps of a refresh until the new token is created.
Refreshing == {"lookup", "select", "warm", "index", "whose", "delete", "evict", "unindex"}

\* A request works for a user, and a refresh with a token that was generated
\* and that its client has given up.
Serves(r) ==
  /\ req[r].pc # "idle" => req[r].user \in Users
  /\ req[r].pc \in Refreshing => req[r].tok \in 1..issued /\ req[r].tok \notin held

AllServe == \A r \in Requests : Serves(r)

\* Request r will delete the copy of t that it found or made.
Answers(r, t) ==
  /\ req[r].tok = t
  /\ \/ req[r].pc \in {"whose", "delete", "evict"}
     \/ req[r].pc = "index" /\ req[r].saw = "open"

\* A copy that lets its token in belongs to a request that will delete it,
\* unless one failed to.
CopiesAnswered ==
  \A t \in Tokens : cache[t] = "open" /\ t \notin adrift => \E r \in Requests : Answers(r, t)

IInv == TypeOK /\ AllServe /\ CopiesAnswered /\ HeldIsStored

-----------------------------------------------------------------------------
(* Requests.                                                               *)

Same(r) == \A s \in Requests \ {r} : req'[s] = req[s]

LEMMA IdleTyped == Idle \in Request
BY DEF Idle, Request, Verdict

LEMMA Becomes ==
  ASSUME TypeOK, NEW r \in Requests, NEW q \in Request, req' = [req EXCEPT ![r] = q]
  PROVE  req' \in [Requests -> Request] /\ req'[r] = q /\ Same(r)
BY DEF TypeOK, Same

LEMMA RequestFields ==
  ASSUME TypeOK, NEW r \in Requests
  PROVE  /\ req[r] \in Request
         /\ req[r].tok \in Tokens \cup {NoToken} /\ req[r].user \in Users \cup {Nobody}
         /\ req[r].saw \in Verdict /\ req[r].names \in SUBSET Tokens
BY DEF TypeOK, Request

LEMMA GotoBecomes ==
  ASSUME TypeOK, NEW r \in Requests, NEW pc, Goto(r, pc),
         pc \in Refreshing \cup {"create", "drop"}
  PROVE  /\ req' \in [Requests -> Request] /\ Same(r)
         /\ req'[r].pc = pc /\ req'[r].tok = req[r].tok
         /\ req'[r].user = req[r].user /\ req'[r].saw = req[r].saw
<1> DEFINE q == [req[r] EXCEPT !.pc = pc]
<1>1. /\ q \in Request /\ q.pc = pc /\ q.tok = req[r].tok
      /\ q.user = req[r].user /\ q.saw = req[r].saw
  BY RequestFields DEF Request, Refreshing
<1>2. req' = [req EXCEPT ![r] = q]
  BY DEF Goto
<1> HIDE DEF q
<1>3. QED
  BY <1>1, <1>2, Becomes

LEMMA FinishBecomes ==
  ASSUME TypeOK, NEW r \in Requests, Finish(r)
  PROVE  /\ req' \in [Requests -> Request] /\ Same(r) /\ req'[r].pc = "idle"
<1>1. Idle.pc = "idle"
  BY DEF Idle
<1>2. QED
  BY <1>1, IdleTyped, Becomes DEF Finish

\* The request goes on to delete its token, or it ends.
LEMMA JudgeBecomes ==
  ASSUME TypeOK, NEW r \in Requests, NEW verdict, Judge(r, verdict)
  PROVE  /\ req' \in [Requests -> Request] /\ Same(r)
         /\ \/ /\ verdict = "open" /\ req'[r].pc = "whose"
               /\ req'[r].tok = req[r].tok /\ req'[r].user = req[r].user
            \/ verdict # "open" /\ req'[r].pc = "idle"
<1>1. CASE verdict = "open"
  <2> DEFINE q == [req[r] EXCEPT !.pc = "whose", !.saw = "shut"]
  <2>1. q \in Request /\ q.pc = "whose" /\ q.tok = req[r].tok /\ q.user = req[r].user
    BY RequestFields DEF Request, Verdict
  <2>2. req' = [req EXCEPT ![r] = q]
    BY <1>1 DEF Judge
  <2> HIDE DEF q
  <2>3. QED
    BY <1>1, <2>1, <2>2, Becomes
<1>2. CASE verdict # "open"
  BY <1>2, FinishBecomes DEF Judge
<1>3. QED
  BY <1>1, <1>2

\* Steps that change one more field of a request.
LEMMA SawBecomes ==
  ASSUME TypeOK, NEW r \in Requests, NEW saw \in Verdict,
         req' = [req EXCEPT ![r].pc = "warm", ![r].saw = saw]
  PROVE  /\ req' \in [Requests -> Request] /\ Same(r)
         /\ req'[r].pc = "warm" /\ req'[r].tok = req[r].tok /\ req'[r].user = req[r].user
<1> DEFINE q == [req[r] EXCEPT !.pc = "warm", !.saw = saw]
<1>1. q \in Request /\ q.pc = "warm" /\ q.tok = req[r].tok /\ q.user = req[r].user
  BY RequestFields DEF Request
<1>2. req' = [req EXCEPT ![r] = q]
  OBVIOUS
<1> HIDE DEF q
<1>3. QED
  BY <1>1, <1>2, Becomes

LEMMA KnownBecomes ==
  ASSUME TypeOK, NEW r \in Requests, NEW known \in BOOLEAN, NEW pc \in {"delete", "create"},
         req' = [req EXCEPT ![r].pc = pc, ![r].known = known]
  PROVE  /\ req' \in [Requests -> Request] /\ Same(r)
         /\ req'[r].pc = pc /\ req'[r].tok = req[r].tok /\ req'[r].user = req[r].user
<1> DEFINE q == [req[r] EXCEPT !.pc = pc, !.known = known]
<1>1. q \in Request /\ q.pc = pc /\ q.tok = req[r].tok /\ q.user = req[r].user
  BY RequestFields DEF Request
<1>2. req' = [req EXCEPT ![r] = q]
  OBVIOUS
<1> HIDE DEF q
<1>3. QED
  BY <1>1, <1>2, Becomes

LEMMA NamesBecomes ==
  ASSUME TypeOK, NEW r \in Requests, NEW t,
         req' = [req EXCEPT ![r].names = @ \ {t}]
  PROVE  /\ req' \in [Requests -> Request] /\ Same(r)
         /\ req'[r].pc = req[r].pc /\ req'[r].tok = req[r].tok
         /\ req'[r].user = req[r].user
<1> DEFINE q == [req[r] EXCEPT !.names = @ \ {t}]
<1>1. q \in Request /\ q.pc = req[r].pc /\ q.tok = req[r].tok /\ q.user = req[r].user
  BY RequestFields DEF Request
<1>2. req' = [req EXCEPT ![r] = q]
  OBVIOUS
<1> HIDE DEF q
<1>3. QED
  BY <1>1, <1>2, Becomes

-----------------------------------------------------------------------------
(* What it takes to keep each part of the invariant.                       *)

\* The step of a request keeps AllServe if the request itself still serves,
\* and no token in use is given to a client.
LEMMA ServingKept ==
  ASSUME TypeOK, AllServe, NEW r \in Requests, Same(r), Serves(r)',
         issued \in Nat, issued' \in Nat, issued <= issued',
         \A t \in 1..issued : t \in held' => t \in held
  PROVE  AllServe'
<1>1. SUFFICES ASSUME NEW s \in Requests PROVE Serves(s)'
  BY DEF AllServe
<1>2. CASE s = r
  BY <1>2
<1>3. CASE s # r
  <2>1. req'[s] = req[s] /\ Serves(s)
    BY <1>3 DEF Same, AllServe
  <2>2. req'[s].pc # "idle" => req'[s].user \in Users
    BY <2>1 DEF Serves
  <2>3. ASSUME req'[s].pc \in Refreshing
        PROVE  req'[s].tok \in 1..issued' /\ req'[s].tok \notin held'
    <3>1. req[s].tok \in 1..issued /\ req[s].tok \notin held
      BY <2>1, <2>3 DEF Serves
    <3>2. QED
      BY <2>1, <3>1
  <2>4. QED
    BY <2>2, <2>3 DEF Serves
<1>4. QED
  BY <1>2, <1>3

\* It keeps CopiesAnswered if it answers itself for every copy that it made,
\* and lets none go that it answered for.
LEMMA AnswersKept ==
  ASSUME CopiesAnswered, NEW r \in Requests, Same(r),
         \A t \in Tokens : cache'[t] = "open" /\ t \notin adrift' =>
           \/ Answers(r, t)'
           \/ cache[t] = "open" /\ t \notin adrift /\ ~Answers(r, t)
  PROVE  CopiesAnswered'
<1>1. SUFFICES ASSUME NEW t \in Tokens, cache'[t] = "open", t \notin adrift'
               PROVE  \E s \in Requests : Answers(s, t)'
  BY DEF CopiesAnswered
<1>2. CASE Answers(r, t)'
  BY <1>2
<1>3. CASE cache[t] = "open" /\ t \notin adrift /\ ~Answers(r, t)
  <2>1. PICK s \in Requests : Answers(s, t)
    BY <1>3 DEF CopiesAnswered
  <2>2. req'[s] = req[s]
    BY <1>3, <2>1 DEF Same
  <2>3. Answers(s, t)'
    BY <2>1, <2>2 DEF Answers
  <2>4. QED
    BY <2>3
<1>4. QED
  BY <1>1, <1>2, <1>3

\* A step of a lookup or a deletion that leaves the tokens themselves alone.
LEMMA LookupKeepsTypes ==
  ASSUME TypeOK, UNCHANGED world, rows' \subseteq rows, adrift' \subseteq Tokens,
         cache' \in [Tokens -> Verdict \cup {"none"}],
         index' \in [Users -> SUBSET Tokens],
         lease' \in [Users -> Tokens \cup {NoToken}],
         req' \in [Requests -> Request]
  PROVE  TypeOK'
<1>1. /\ issued' = issued /\ owner' = owner /\ expired' = expired
      /\ access' = access /\ held' = held /\ faults' = faults
  BY DEF world
<1>2. QED
  BY <1>1 DEF TypeOK

\* All of the invariant, for a step of a request that stays with its token and
\* its user or ends, and changes neither rows nor tokens nor copies.
LEMMA QuietKeeps ==
  ASSUME IInv, NEW r \in Requests, UNCHANGED <<world, rows, cache>>,
         index' \in [Users -> SUBSET Tokens],
         lease' \in [Users -> Tokens \cup {NoToken}],
         adrift' \subseteq Tokens, adrift \subseteq adrift',
         req' \in [Requests -> Request], Same(r), Serves(r)',
         \A t \in Tokens : t \notin adrift' /\ Answers(r, t) => Answers(r, t)'
  PROVE  IInv'
<1>1. /\ issued' = issued /\ held' = held /\ rows' = rows /\ cache' = cache
      /\ expired' = expired /\ issued \in Nat /\ UNCHANGED world
  BY DEF world, IInv, TypeOK
<1>2. TypeOK'
  <2>1. rows' \subseteq rows /\ cache' \in [Tokens -> Verdict \cup {"none"}]
    BY <1>1 DEF IInv, TypeOK
  <2>2. QED
    BY <1>1, <2>1, LookupKeepsTypes DEF IInv
<1>3. AllServe'
  BY <1>1, ServingKept DEF IInv
<1>4. CopiesAnswered'
  BY <1>1, AnswersKept DEF IInv
<1>5. HeldIsStored'
  BY <1>1 DEF IInv, HeldIsStored, Alive
<1>6. QED
  BY <1>2, <1>3, <1>4, <1>5 DEF IInv

LEMMA GeneratedAreTokens ==
  ASSUME TypeOK
  PROVE  1..issued \subseteq Tokens
BY ConstantsOK DEF TypeOK, Tokens

-----------------------------------------------------------------------------
(* The steps of a refresh.                                                 *)

LEMMA LoginKeeps ==
  ASSUME IInv, NEW r \in Requests, NEW u \in Users, Login(r, u)
  PROVE  IInv'
<1> DEFINE q == [Idle EXCEPT !.pc = "create", !.user = u]
<1>1. q \in Request /\ q.pc = "create" /\ q.user = u
  BY DEF Idle, Request, Verdict
<1>2. req' = [req EXCEPT ![r] = q]
  BY DEF Login
<1> HIDE DEF q
<1>3. req' \in [Requests -> Request] /\ Same(r) /\ req'[r] = q
  BY <1>1, <1>2, Becomes DEF IInv
<1>4. Serves(r)'
  BY <1>1, <1>3 DEF Serves, Refreshing
<1>5. \A t \in Tokens : ~Answers(r, t)
  BY DEF Answers, Login
<1>6. UNCHANGED <<world, rows, cache, index, lease, adrift>>
  BY DEF Login
<1>7. QED
  BY <1>3, <1>4, <1>5, <1>6, QuietKeeps DEF IInv, TypeOK

LEMMA LogoutKeeps ==
  ASSUME IInv, NEW r \in Requests, NEW u \in Users, Logout(r, u)
  PROVE  IInv'
<1> DEFINE q == [Idle EXCEPT !.pc = "purge", !.user = u, !.names = index[u]]
<1>1. q \in Request /\ q.pc = "purge" /\ q.user = u
  BY DEF Idle, Request, Verdict, IInv, TypeOK
<1>2. req' = [req EXCEPT ![r] = q]
  BY DEF Logout
<1> HIDE DEF q
<1>3. req' \in [Requests -> Request] /\ Same(r) /\ req'[r] = q
  BY <1>1, <1>2, Becomes DEF IInv
<1>4. Serves(r)'
  BY <1>1, <1>3 DEF Serves, Refreshing
<1>5. \A t \in Tokens : ~Answers(r, t)
  BY DEF Answers, Logout
<1>6. UNCHANGED <<world, rows, cache, index, lease, adrift>>
  BY DEF Logout
<1>7. QED
  BY <1>3, <1>4, <1>5, <1>6, QuietKeeps DEF IInv, TypeOK

\* The client gives up the token that it presents.
LEMMA RefreshKeeps ==
  ASSUME IInv, NEW r \in Requests, NEW t \in Tokens, Refresh(r, t)
  PROVE  IInv'
<1> DEFINE q == [Idle EXCEPT !.pc = "lookup", !.tok = t, !.user = owner[t]]
<1>1. t \in 1..issued /\ owner[t] \in Users
  BY DEF Refresh, IInv, TypeOK
<1>2. q \in Request /\ q.pc = "lookup" /\ q.tok = t /\ q.user \in Users
  BY <1>1 DEF Idle, Request, Verdict
<1>3. req' = [req EXCEPT ![r] = q]
  BY DEF Refresh
<1> HIDE DEF q
<1>4. req' \in [Requests -> Request] /\ Same(r) /\ req'[r] = q
  BY <1>2, <1>3, Becomes DEF IInv
<1>5. /\ held' = held \ {t} /\ issued' = issued /\ rows' = rows /\ expired' = expired
      /\ owner' = owner /\ cache' = cache /\ index' = index /\ lease' = lease
      /\ access' = access /\ adrift' = adrift /\ faults' = faults
  BY DEF Refresh
<1>6. TypeOK'
  BY <1>4, <1>5 DEF IInv, TypeOK
<1>7. Serves(r)'
  BY <1>1, <1>2, <1>4, <1>5 DEF Serves
<1>8. AllServe'
  <2>1. issued \in Nat /\ \A k \in 1..issued : k \in held' => k \in held
    BY <1>5 DEF IInv, TypeOK
  <2>2. QED
    BY <1>4, <1>5, <1>7, <2>1, ServingKept DEF IInv
<1>9. CopiesAnswered'
  <2>1. \A k \in Tokens : ~Answers(r, k)
    BY DEF Answers, Refresh
  <2>2. QED
    BY <1>4, <1>5, <2>1, AnswersKept DEF IInv
<1>10. HeldIsStored'
  BY <1>5 DEF IInv, HeldIsStored, Alive
<1>11. QED
  BY <1>6, <1>8, <1>9, <1>10 DEF IInv

\* A request that serves, at a step of a refresh, and goes on to another.
LEMMA ServesOn ==
  ASSUME IInv, NEW r \in Requests, req[r].pc \in Refreshing, UNCHANGED world,
         req'[r].tok = req[r].tok, req'[r].user = req[r].user
  PROVE  Serves(r)'
<1>1. Serves(r) /\ issued' = issued /\ held' = held
  BY DEF IInv, AllServe, world
<1>2. req[r].pc # "idle"
  BY DEF Refreshing
<1>3. QED
  BY <1>1, <1>2 DEF Serves

LEMMA IdleServes ==
  ASSUME NEW r \in Requests, req'[r].pc = "idle"
  PROVE  Serves(r)'
BY DEF Serves, Refreshing

LEMMA JudgeServes ==
  ASSUME IInv, NEW r \in Requests, NEW verdict, Judge(r, verdict),
         req[r].pc \in Refreshing, UNCHANGED world
  PROVE  Serves(r)'
BY JudgeBecomes, ServesOn, IdleServes DEF IInv

LEMMA LookupCacheKeeps ==
  ASSUME IInv, NEW r \in Requests, LookupCache(r)
  PROVE  IInv'
<1>1. req[r].pc \in Refreshing /\ UNCHANGED <<world, rows, cache, index, lease, adrift>>
  BY DEF LookupCache, Refreshing
<1>2. \/ Judge(r, cache[req[r].tok])
      \/ Goto(r, "select")
  BY DEF LookupCache
<1>3. req' \in [Requests -> Request] /\ Same(r) /\ Serves(r)'
  <2>1. CASE Judge(r, cache[req[r].tok])
    BY <1>1, <2>1, JudgeBecomes, JudgeServes DEF IInv
  <2>2. CASE Goto(r, "select")
    BY <1>1, <2>2, GotoBecomes, ServesOn DEF IInv, Refreshing
  <2>3. QED
    BY <1>2, <2>1, <2>2
<1>4. \A t \in Tokens : ~Answers(r, t)
  BY DEF Answers, LookupCache
<1>5. QED
  BY <1>1, <1>3, <1>4, QuietKeeps DEF IInv, TypeOK

LEMMA SelectRowKeeps ==
  ASSUME IInv, NEW r \in Requests, SelectRow(r)
  PROVE  IInv'
<1>1. req[r].pc \in Refreshing /\ UNCHANGED <<world, rows, cache, index, lease, adrift>>
  BY DEF SelectRow, Refreshing
<1>2. req' \in [Requests -> Request] /\ Same(r) /\ Serves(r)'
  <2>1. CASE Finish(r)
    BY <2>1, FinishBecomes, IdleServes DEF IInv
  <2>2. CASE ~Finish(r)
    <3>1. req' = [req EXCEPT ![r].pc = "warm", ![r].saw = access[req[r].user]]
      BY <2>2 DEF SelectRow
    <3>2. access[req[r].user] \in Verdict
      BY <1>1 DEF IInv, AllServe, Serves, TypeOK, Refreshing
    <3>3. QED
      BY <1>1, <3>1, <3>2, SawBecomes, ServesOn DEF IInv
  <2>3. QED
    BY <2>1, <2>2
<1>3. \A t \in Tokens : ~Answers(r, t)
  BY DEF Answers, SelectRow
<1>4. QED
  BY <1>1, <1>2, <1>3, QuietKeeps DEF IInv, TypeOK

\* The copy that is made is answered for until it is judged.
LEMMA WarmKeyKeeps ==
  ASSUME IInv, NEW r \in Requests, WarmKey(r)
  PROVE  IInv'
<1>1. /\ req[r].pc = "warm" /\ req[r].pc \in Refreshing
      /\ UNCHANGED <<world, rows, index, lease, adrift>>
  BY DEF WarmKey, Refreshing
<1>2. \A t \in Tokens : ~Answers(r, t)
  BY <1>1 DEF Answers
<1>3. CASE Judge(r, req[r].saw) /\ UNCHANGED cache
  <2>1. req' \in [Requests -> Request] /\ Same(r) /\ Serves(r)'
    BY <1>1, <1>3, JudgeBecomes, JudgeServes DEF IInv
  <2>2. QED
    BY <1>1, <1>2, <1>3, <2>1, QuietKeeps DEF IInv, TypeOK
<1>4. CASE /\ cache' = [cache EXCEPT ![req[r].tok] = req[r].saw]
           /\ Goto(r, "index")
  <2>1. /\ req' \in [Requests -> Request] /\ Same(r) /\ Serves(r)'
        /\ req'[r].pc = "index" /\ req'[r].tok = req[r].tok /\ req'[r].saw = req[r].saw
    BY <1>1, <1>4, GotoBecomes, ServesOn DEF IInv, Refreshing
  <2>2. req[r].saw \in Verdict
    BY RequestFields DEF IInv
  <2>3. cache' \in [Tokens -> Verdict \cup {"none"}]
    BY <1>4, <2>2 DEF IInv, TypeOK
  <2>4. TypeOK'
    BY <1>1, <2>1, <2>3, LookupKeepsTypes DEF IInv, TypeOK
  <2>5. /\ issued' = issued /\ held' = held /\ rows' = rows /\ expired' = expired
        /\ issued \in Nat
    BY <1>1 DEF world, IInv, TypeOK
  <2>6. AllServe'
    BY <2>1, <2>5, ServingKept DEF IInv
  <2>7. ASSUME NEW t \in Tokens, cache'[t] = "open", t \notin adrift'
        PROVE  Answers(r, t)' \/ (cache[t] = "open" /\ t \notin adrift /\ ~Answers(r, t))
    <3>1. CASE t = req[r].tok
      BY <1>4, <2>1, <2>7, <3>1 DEF Answers, IInv, TypeOK
    <3>2. CASE t # req[r].tok
      BY <1>1, <1>2, <1>4, <2>7, <3>2 DEF IInv, TypeOK
    <3>3. QED
      BY <3>1, <3>2
  <2>8. CopiesAnswered'
    BY <2>1, <2>7, AnswersKept DEF IInv
  <2>9. HeldIsStored'
    BY <2>5 DEF IInv, HeldIsStored, Alive
  <2>10. QED
    BY <2>4, <2>6, <2>8, <2>9 DEF IInv
<1>5. QED
  BY <1>3, <1>4 DEF WarmKey

LEMMA WarmIndexKeeps ==
  ASSUME IInv, NEW r \in Requests, WarmIndex(r)
  PROVE  IInv'
<1>1. /\ req[r].pc = "index" /\ req[r].pc \in Refreshing /\ Judge(r, req[r].saw)
      /\ UNCHANGED <<world, rows, cache, adrift>>
  BY DEF WarmIndex, Refreshing
<1>2. req[r].user \in Users /\ req[r].tok \in Tokens
  BY <1>1, GeneratedAreTokens DEF IInv, AllServe, Serves
<1>3. index' \in [Users -> SUBSET Tokens] /\ lease' \in [Users -> Tokens \cup {NoToken}]
  <2>1. /\ index' = [index EXCEPT ![req[r].user] = @ \cup {req[r].tok}]
        /\ lease' = [lease EXCEPT ![req[r].user] =
                        IF @ = NoToken THEN req[r].tok ELSE @]
    BY DEF WarmIndex
  <2>2. /\ index \in [Users -> SUBSET Tokens]
        /\ lease \in [Users -> Tokens \cup {NoToken}]
    BY DEF IInv, TypeOK
  <2>3. index' \in [Users -> SUBSET Tokens]
    BY <1>2, <2>1, <2>2
  <2>4. lease' \in [Users -> Tokens \cup {NoToken}]
    BY <1>2, <2>1, <2>2
  <2>5. QED
    BY <2>3, <2>4
<1>4. req' \in [Requests -> Request] /\ Same(r) /\ Serves(r)'
  BY <1>1, JudgeBecomes, JudgeServes DEF IInv
<1>5. \A t \in Tokens : Answers(r, t) => Answers(r, t)'
  BY <1>1, JudgeBecomes DEF Answers, IInv
<1>6. QED
  BY <1>1, <1>3, <1>4, <1>5, QuietKeeps DEF IInv, TypeOK

LEMMA ReadOwnerKeeps ==
  ASSUME IInv, NEW r \in Requests, ReadOwner(r)
  PROVE  IInv'
<1>1. /\ req[r].pc = "whose" /\ req[r].pc \in Refreshing
      /\ UNCHANGED <<world, rows, cache, index, lease, adrift>>
  BY DEF ReadOwner, Refreshing
<1>2. /\ req' \in [Requests -> Request] /\ Same(r) /\ req'[r].pc = "delete"
      /\ req'[r].tok = req[r].tok /\ req'[r].user = req[r].user
  BY KnownBecomes DEF IInv, ReadOwner
<1>3. Serves(r)'
  BY <1>1, <1>2, ServesOn
<1>4. \A t \in Tokens : Answers(r, t) => Answers(r, t)'
  BY <1>2 DEF Answers
<1>5. QED
  BY <1>1, <1>2, <1>3, <1>4, QuietKeeps DEF IInv, TypeOK

\* The row that is deleted is of a token that no client holds.
LEMMA DeleteRowKeeps ==
  ASSUME IInv, NEW r \in Requests, DeleteRow(r)
  PROVE  IInv'
<1>1. /\ req[r].pc = "delete" /\ req[r].pc \in Refreshing /\ Goto(r, "evict")
      /\ rows' = rows \ {req[r].tok} /\ UNCHANGED <<world, cache, index, lease, adrift>>
  BY DEF DeleteRow, Refreshing
<1>2. /\ req' \in [Requests -> Request] /\ Same(r) /\ req'[r].pc = "evict"
      /\ req'[r].tok = req[r].tok /\ req'[r].user = req[r].user
  BY <1>1, GotoBecomes DEF IInv, Refreshing
<1>3. /\ issued' = issued /\ held' = held /\ expired' = expired /\ cache' = cache
      /\ adrift' = adrift /\ issued \in Nat
  BY <1>1 DEF world, IInv, TypeOK
<1>4. TypeOK'
  BY <1>1, <1>2, LookupKeepsTypes DEF IInv, TypeOK
<1>5. Serves(r)'
  BY <1>1, <1>2, ServesOn
<1>6. AllServe'
  BY <1>2, <1>3, <1>5, ServingKept DEF IInv
<1>7. \A t \in Tokens : Answers(r, t) => Answers(r, t)'
  BY <1>2 DEF Answers
<1>8. CopiesAnswered'
  BY <1>2, <1>3, <1>7, AnswersKept DEF IInv
<1>9. HeldIsStored'
  <2>1. req[r].tok \notin held
    BY <1>1 DEF IInv, AllServe, Serves
  <2>2. QED
    BY <1>1, <1>3, <2>1 DEF IInv, HeldIsStored, Alive
<1>10. QED
  BY <1>4, <1>6, <1>8, <1>9 DEF IInv

\* A step of a request that deletes copies, and maybe their names, and keeps its
\* own token only if its copy is not deleted.
LEMMA DroppingKeeps ==
  ASSUME IInv, NEW r \in Requests, NEW t \in Tokens,
         UNCHANGED <<world, rows, index, lease>>,
         cache' = [cache EXCEPT ![t] = "none"], adrift' = adrift \ {t},
         req' \in [Requests -> Request], Same(r), Serves(r)',
         \A k \in Tokens \ {t} : ~Answers(r, k)
  PROVE  IInv'
<1>1. /\ issued' = issued /\ held' = held /\ expired' = expired /\ rows' = rows
      /\ issued \in Nat
  BY DEF world, IInv, TypeOK
<1>2. cache \in [Tokens -> Verdict \cup {"none"}]
  BY DEF IInv, TypeOK
<1>3. TypeOK'
  <2>1. cache' \in [Tokens -> Verdict \cup {"none"}]
    BY <1>2
  <2>2. QED
    BY <2>1, LookupKeepsTypes DEF IInv, TypeOK
<1>4. AllServe'
  BY <1>1, ServingKept DEF IInv
<1>5. \A k \in Tokens : cache'[k] = "open" /\ k \notin adrift' =>
        cache[k] = "open" /\ k \notin adrift /\ ~Answers(r, k)
  BY <1>2
<1>6. CopiesAnswered'
  BY <1>5, AnswersKept DEF IInv
<1>7. HeldIsStored'
  BY <1>1 DEF IInv, HeldIsStored, Alive
<1>8. QED
  BY <1>3, <1>4, <1>6, <1>7 DEF IInv

LEMMA EvictKeyKeeps ==
  ASSUME IInv, NEW r \in Requests, EvictKey(r)
  PROVE  IInv'
<1>1. /\ req[r].pc = "evict" /\ req[r].pc \in Refreshing
      /\ Goto(r, IF req[r].known THEN "unindex" ELSE "create")
      /\ cache' = [cache EXCEPT ![req[r].tok] = "none"]
      /\ adrift' = adrift \ {req[r].tok} /\ UNCHANGED <<world, rows, index, lease>>
  BY DEF EvictKey, Refreshing
<1>2. req[r].tok \in Tokens
  BY <1>1, GeneratedAreTokens DEF IInv, AllServe, Serves
<1>3. /\ req' \in [Requests -> Request] /\ Same(r)
      /\ req'[r].tok = req[r].tok /\ req'[r].user = req[r].user
  BY <1>1, GotoBecomes DEF IInv, Refreshing
<1>4. Serves(r)'
  BY <1>1, <1>3, ServesOn
<1>5. \A k \in Tokens \ {req[r].tok} : ~Answers(r, k)
  BY DEF Answers
<1>6. QED
  BY <1>1, <1>2, <1>3, <1>4, <1>5, DroppingKeeps

LEMMA UnindexKeeps ==
  ASSUME IInv, NEW r \in Requests, Unindex(r)
  PROVE  IInv'
<1>1. /\ req[r].pc = "unindex" /\ req[r].pc \in Refreshing
      /\ UNCHANGED <<world, rows, cache, adrift>>
  BY DEF Unindex, Refreshing
<1>2. /\ req' \in [Requests -> Request] /\ Same(r)
      /\ req'[r].tok = req[r].tok /\ req'[r].user = req[r].user
  BY KnownBecomes DEF IInv, Unindex
<1>3. Serves(r)'
  BY <1>1, <1>2, ServesOn
<1>4. index' \in [Users -> SUBSET Tokens] /\ lease' \in [Users -> Tokens \cup {NoToken}]
  <2> DEFINE left == index[req[r].user] \ {req[r].tok}
  <2>1. /\ index' = [index EXCEPT ![req[r].user] = left]
        /\ lease' = [lease EXCEPT ![req[r].user] = IF left = {} THEN NoToken ELSE @]
    BY DEF Unindex
  <2>2. /\ index \in [Users -> SUBSET Tokens] /\ req[r].user \in Users
        /\ lease \in [Users -> Tokens \cup {NoToken}]
    BY <1>1 DEF IInv, TypeOK, AllServe, Serves
  <2>3. left \in SUBSET Tokens
    BY <2>2
  <2> HIDE DEF left
  <2>4. index' \in [Users -> SUBSET Tokens]
    BY <2>1, <2>2, <2>3
  <2>5. lease' \in [Users -> Tokens \cup {NoToken}]
    BY <2>1, <2>2
  <2>6. QED
    BY <2>4, <2>5
<1>5. \A t \in Tokens : ~Answers(r, t)
  BY <1>1 DEF Answers
<1>6. QED
  BY <1>1, <1>2, <1>3, <1>4, <1>5, QuietKeeps DEF IInv, TypeOK

\* The new token is stored before a client holds it.
LEMMA CreateRowKeeps ==
  ASSUME IInv, NEW r \in Requests, CreateRow(r)
  PROVE  IInv'
<1> DEFINE t == issued + 1
<1>1. /\ req[r].pc = "create" /\ issued < MaxTokens /\ Finish(r)
      /\ issued' = t /\ owner' = [owner EXCEPT ![t] = req[r].user]
      /\ rows' = rows \cup {t} /\ held' = held \cup {t}
      /\ expired' = expired /\ cache' = cache /\ index' = index /\ lease' = lease
      /\ access' = access /\ adrift' = adrift /\ faults' = faults
  BY DEF CreateRow
<1>2. /\ issued \in Nat /\ issued <= MaxTokens /\ expired \in 0..issued
      /\ rows \subseteq 1..issued /\ held \subseteq 1..issued
      /\ owner \in [Tokens -> Users \cup {Nobody}]
      /\ \A k \in 1..issued : owner[k] \in Users
  BY ConstantsOK DEF IInv, TypeOK
<1>3. req[r].user \in Users
  BY <1>1 DEF IInv, AllServe, Serves
<1>4. t \in Tokens /\ t \in Nat /\ issued <= t /\ t \notin 1..issued
  BY <1>1, <1>2, ConstantsOK DEF Tokens
<1>5. \A k \in 1..t : k \in 1..issued \/ k = t
  BY <1>2
<1>6. 1..issued \subseteq 1..t /\ t \in 1..t /\ t \in 0..MaxTokens /\ expired \in 0..t
  BY <1>1, <1>2, ConstantsOK
<1> HIDE DEF t
<1>7. req' \in [Requests -> Request] /\ Same(r) /\ req'[r].pc = "idle"
  BY <1>1, FinishBecomes DEF IInv
<1>8. TypeOK'
  <2>1. owner' \in [Tokens -> Users \cup {Nobody}]
    BY <1>1, <1>2, <1>3, <1>4
  <2>2. \A k \in 1..t : owner'[k] \in Users
    BY <1>1, <1>2, <1>3, <1>4, <1>5
  <2>3. rows' \subseteq 1..t /\ held' \subseteq 1..t
    BY <1>1, <1>2, <1>6
  <2>4. QED
    BY <1>1, <1>6, <1>7, <2>1, <2>2, <2>3 DEF IInv, TypeOK
<1>9. AllServe'
  <2>1. \A k \in 1..issued : k \in held' => k \in held
    BY <1>1, <1>4
  <2>2. Serves(r)'
    BY <1>7, IdleServes
  <2>3. QED
    BY <1>1, <1>2, <1>4, <1>7, <2>1, <2>2, ServingKept DEF IInv
<1>10. CopiesAnswered'
  <2>1. \A k \in Tokens : ~Answers(r, k)
    BY <1>1 DEF Answers
  <2>2. QED
    BY <1>1, <1>7, <2>1, AnswersKept DEF IInv
<1>11. HeldIsStored'
  BY <1>1 DEF IInv, HeldIsStored, Alive
<1>12. QED
  BY <1>8, <1>9, <1>10, <1>11 DEF IInv

-----------------------------------------------------------------------------
(* The steps of a logout.                                                  *)

LEMMA PurgeRowsKeeps ==
  ASSUME IInv, NEW r \in Requests, PurgeRows(r)
  PROVE  IInv'
<1> DEFINE others == {t \in Tokens : owner[t] # req[r].user}
<1>1. /\ req[r].pc = "purge" /\ Goto(r, "drop")
      /\ rows' = rows \cap others /\ held' = held \cap others
      /\ issued' = issued /\ owner' = owner /\ expired' = expired /\ access' = access
      /\ cache' = cache /\ index' = index /\ lease' = lease
      /\ adrift' = adrift /\ faults' = faults
  BY DEF PurgeRows
<1> HIDE DEF others
<1>2. /\ req' \in [Requests -> Request] /\ Same(r) /\ req'[r].pc = "drop"
      /\ req'[r].user = req[r].user
  BY <1>1, GotoBecomes DEF IInv
<1>3. rows' \subseteq rows /\ held' \subseteq held
  BY <1>1
<1>4. TypeOK'
  BY <1>1, <1>2, <1>3 DEF IInv, TypeOK
<1>5. Serves(r)'
  BY <1>1, <1>2 DEF IInv, AllServe, Serves, Refreshing
<1>6. AllServe'
  <2>1. issued \in Nat
    BY DEF IInv, TypeOK
  <2>2. QED
    BY <1>1, <1>2, <1>3, <1>5, <2>1, ServingKept DEF IInv
<1>7. CopiesAnswered'
  <2>1. \A k \in Tokens : ~Answers(r, k)
    BY <1>1 DEF Answers
  <2>2. QED
    BY <1>1, <1>2, <2>1, AnswersKept DEF IInv
<1>8. HeldIsStored'
  BY <1>1 DEF IInv, HeldIsStored, Alive
<1>9. QED
  BY <1>4, <1>6, <1>7, <1>8 DEF IInv

LEMMA DropKeyKeeps ==
  ASSUME IInv, NEW r \in Requests, NEW t \in Tokens, DropKey(r, t)
  PROVE  IInv'
<1>1. /\ req[r].pc = "drop" /\ UNCHANGED <<world, rows, index, lease>>
      /\ cache' = [cache EXCEPT ![t] = "none"] /\ adrift' = adrift \ {t}
      /\ req' = [req EXCEPT ![r].names = @ \ {t}]
  BY DEF DropKey
<1>2. /\ req' \in [Requests -> Request] /\ Same(r)
      /\ req'[r].pc = req[r].pc /\ req'[r].user = req[r].user
  BY <1>1, NamesBecomes DEF IInv
<1>3. Serves(r)'
  BY <1>1, <1>2 DEF IInv, AllServe, Serves, Refreshing
<1>4. \A k \in Tokens \ {t} : ~Answers(r, k)
  BY <1>1 DEF Answers
<1>5. QED
  BY <1>1, <1>2, <1>3, <1>4, DroppingKeeps

LEMMA DropIndexKeeps ==
  ASSUME IInv, NEW r \in Requests, DropIndex(r)
  PROVE  IInv'
<1>1. /\ req[r].pc = "drop" /\ Finish(r) /\ UNCHANGED <<world, rows, cache, adrift>>
      /\ index' = [index EXCEPT ![req[r].user] = {}]
      /\ lease' = [lease EXCEPT ![req[r].user] = NoToken]
  BY DEF DropIndex
<1>2. req' \in [Requests -> Request] /\ Same(r) /\ Serves(r)'
  BY <1>1, FinishBecomes, IdleServes DEF IInv
<1>3. index' \in [Users -> SUBSET Tokens] /\ lease' \in [Users -> Tokens \cup {NoToken}]
  BY <1>1 DEF IInv, TypeOK
<1>4. \A t \in Tokens : ~Answers(r, t)
  BY <1>1 DEF Answers
<1>5. QED
  BY <1>1, <1>2, <1>3, <1>4, QuietKeeps DEF IInv, TypeOK

-----------------------------------------------------------------------------
(* Failures and the passing of time.                                       *)

LEMMA WorldButFaults ==
  ASSUME IInv, NEW r \in Requests,
         faults' \in 0..MaxFaults,
         UNCHANGED <<issued, owner, expired, access, held, rows, cache, index, lease>>,
         adrift' \subseteq Tokens, adrift \subseteq adrift',
         req' \in [Requests -> Request], Same(r), Serves(r)',
         \A t \in Tokens : t \notin adrift' /\ Answers(r, t) => Answers(r, t)'
  PROVE  IInv'
<1>1. /\ issued' = issued /\ owner' = owner /\ expired' = expired /\ access' = access
      /\ held' = held /\ rows' = rows /\ cache' = cache /\ index' = index /\ lease' = lease
  OBVIOUS
<1>2. TypeOK'
  BY <1>1 DEF IInv, TypeOK
<1>3. AllServe'
  <2>1. issued \in Nat
    BY DEF IInv, TypeOK
  <2>2. QED
    BY <1>1, <2>1, ServingKept DEF IInv
<1>4. CopiesAnswered'
  BY <1>1, AnswersKept DEF IInv
<1>5. HeldIsStored'
  BY <1>1 DEF IInv, HeldIsStored, Alive
<1>6. QED
  BY <1>2, <1>3, <1>4, <1>5 DEF IInv

\* A request that serves a user, and goes on with the same token and user.
LEMMA ServesSame ==
  ASSUME IInv, NEW r \in Requests, req[r].pc # "idle",
         req'[r].tok = req[r].tok, req'[r].user = req[r].user,
         req'[r].pc \in Refreshing => req[r].pc \in Refreshing,
         issued' = issued, held' = held
  PROVE  Serves(r)'
BY DEF IInv, AllServe, Serves

LEMMA RedisFailsKeeps ==
  ASSUME IInv, NEW r \in Requests, RedisFails(r)
  PROVE  IInv'
<1>1. /\ UNCHANGED <<issued, owner, expired, access, held, rows, cache, index, lease>>
      /\ issued' = issued /\ held' = held
      /\ faults' \in 0..MaxFaults
      /\ adrift' = IF req[r].pc = "evict" THEN adrift \cup {req[r].tok} ELSE adrift
  BY ConstantsOK DEF RedisFails, IInv, TypeOK
<1>2. adrift' \subseteq Tokens /\ adrift \subseteq adrift'
  <2>1. CASE req[r].pc = "evict"
    <3>1. req[r].tok \in Tokens
      BY <2>1, GeneratedAreTokens DEF IInv, AllServe, Serves, Refreshing
    <3>2. QED
      BY <1>1, <2>1, <3>1 DEF IInv, TypeOK
  <2>2. CASE req[r].pc # "evict"
    BY <1>1, <2>2 DEF IInv, TypeOK
  <2>3. QED
    BY <2>1, <2>2
<1>3. /\ req' \in [Requests -> Request] /\ Same(r) /\ Serves(r)'
      /\ \A t \in Tokens : t \notin adrift' /\ Answers(r, t) => Answers(r, t)'
  <2>1. CASE req[r].pc = "lookup" /\ Goto(r, "select")
    <3>1. /\ req' \in [Requests -> Request] /\ Same(r) /\ req'[r].pc = "select"
          /\ req'[r].tok = req[r].tok /\ req'[r].user = req[r].user
      BY <2>1, GotoBecomes DEF IInv, Refreshing
    <3>2. Serves(r)'
      BY <1>1, <2>1, <3>1, ServesSame DEF Refreshing
    <3>3. QED
      BY <2>1, <3>1, <3>2 DEF Answers
  <2>2. CASE req[r].pc \in {"warm", "index"} /\ Judge(r, req[r].saw)
    <3>1. /\ req' \in [Requests -> Request] /\ Same(r)
          /\ \/ /\ req[r].saw = "open" /\ req'[r].pc = "whose"
                /\ req'[r].tok = req[r].tok /\ req'[r].user = req[r].user
             \/ req[r].saw # "open" /\ req'[r].pc = "idle"
      BY <2>2, JudgeBecomes DEF IInv
    <3>2. Serves(r)'
      BY <1>1, <2>2, <3>1, ServesSame, IdleServes DEF Refreshing
    <3>3. QED
      BY <2>2, <3>1, <3>2 DEF Answers
  <2>3. CASE /\ req[r].pc = "whose"
             /\ req' = [req EXCEPT ![r].pc = "delete", ![r].known = FALSE]
    <3>1. /\ req' \in [Requests -> Request] /\ Same(r) /\ req'[r].pc = "delete"
          /\ req'[r].tok = req[r].tok /\ req'[r].user = req[r].user
      BY <2>3, KnownBecomes DEF IInv
    <3>2. Serves(r)'
      BY <1>1, <2>3, <3>1, ServesSame DEF Refreshing
    <3>3. QED
      BY <3>1, <3>2 DEF Answers
  <2>4. CASE /\ req[r].pc = "evict"
             /\ Goto(r, IF req[r].known THEN "unindex" ELSE "create")
    <3>1. /\ req' \in [Requests -> Request] /\ Same(r)
          /\ req'[r].tok = req[r].tok /\ req'[r].user = req[r].user
      BY <2>4, GotoBecomes DEF IInv, Refreshing
    <3>2. Serves(r)'
      BY <1>1, <2>4, <3>1, ServesSame DEF Refreshing
    <3>3. \A t \in Tokens : t \notin adrift' => ~Answers(r, t)
      BY <1>1, <2>4 DEF Answers
    <3>4. QED
      BY <3>1, <3>2, <3>3
  <2>5. CASE /\ req[r].pc = "unindex"
             /\ req' = [req EXCEPT ![r].pc = "create", ![r].known = FALSE]
    <3>1. /\ req' \in [Requests -> Request] /\ Same(r) /\ req'[r].pc = "create"
          /\ req'[r].tok = req[r].tok /\ req'[r].user = req[r].user
      BY <2>5, KnownBecomes DEF IInv
    <3>2. Serves(r)'
      BY <1>1, <2>5, <3>1, ServesSame DEF Refreshing
    <3>3. QED
      BY <2>5, <3>1, <3>2 DEF Answers
  <2>6. CASE req[r].pc = "drop" /\ \E t \in req[r].names :
               req' = [req EXCEPT ![r].names = @ \ {t}]
    <3>1. /\ req' \in [Requests -> Request] /\ Same(r) /\ req'[r].pc = req[r].pc
          /\ req'[r].tok = req[r].tok /\ req'[r].user = req[r].user
      BY <2>6, NamesBecomes DEF IInv
    <3>2. Serves(r)'
      BY <1>1, <2>6, <3>1, ServesSame
    <3>3. QED
      BY <2>6, <3>1, <3>2 DEF Answers
  <2>7. CASE req[r].pc = "drop" /\ Finish(r)
    BY <2>7, FinishBecomes, IdleServes DEF IInv, Answers
  <2>8. QED
    BY <2>1, <2>2, <2>3, <2>4, <2>5, <2>6, <2>7 DEF RedisFails
<1>4. QED
  BY <1>1, <1>2, <1>3, WorldButFaults

LEMMA AbandonKeeps ==
  ASSUME IInv, NEW r \in Requests, Abandon(r)
  PROVE  IInv'
<1>1. /\ UNCHANGED <<issued, owner, expired, access, held, rows, cache, index, lease>>
      /\ faults' \in 0..MaxFaults /\ Finish(r)
      /\ adrift' = IF req[r].pc \in Cleaning THEN adrift \cup {req[r].tok} ELSE adrift
  BY ConstantsOK DEF Abandon, IInv, TypeOK
<1>2. adrift' \subseteq Tokens /\ adrift \subseteq adrift'
  <2>1. CASE req[r].pc \in Cleaning
    <3>1. req[r].tok \in Tokens
      BY <2>1, GeneratedAreTokens DEF IInv, AllServe, Serves, Refreshing, Cleaning
    <3>2. QED
      BY <1>1, <2>1, <3>1 DEF IInv, TypeOK
  <2>2. CASE req[r].pc \notin Cleaning
    BY <1>1, <2>2 DEF IInv, TypeOK
  <2>3. QED
    BY <2>1, <2>2
<1>3. req' \in [Requests -> Request] /\ Same(r) /\ Serves(r)'
  BY <1>1, FinishBecomes, IdleServes DEF IInv
<1>4. \A t \in Tokens : t \notin adrift' => ~Answers(r, t)
  BY <1>1 DEF Answers, Cleaning
<1>5. QED
  BY <1>1, <1>2, <1>3, <1>4, WorldButFaults

\* A step that takes no part in a request.
LEMMA Outside ==
  ASSUME IInv, TypeOK', req' = req, issued' = issued, held' = held, adrift' = adrift,
         \A t \in Tokens : cache'[t] = "open" => cache[t] = "open",
         HeldIsStored'
  PROVE  IInv'
<1>1. AllServe'
  BY DEF IInv, AllServe, Serves
<1>2. CopiesAnswered'
  BY DEF IInv, CopiesAnswered, Answers
<1>3. QED
  BY <1>1, <1>2 DEF IInv

LEMMA ExpireKeeps ==
  ASSUME IInv, Expire
  PROVE  IInv'
<1> DEFINE t == expired + 1
<1>1. /\ t <= issued /\ expired' = t /\ cache' = [cache EXCEPT ![t] = "none"]
      /\ index' = [u \in Users |-> IF lease[u] = t THEN {} ELSE index[u]]
      /\ lease' = [u \in Users |-> IF lease[u] = t THEN NoToken ELSE lease[u]]
      /\ issued' = issued /\ owner' = owner /\ rows' = rows /\ access' = access
      /\ req' = req /\ held' = held /\ adrift' = adrift /\ faults' = faults
  BY DEF Expire
<1>2. t \in 0..issued /\ expired <= t /\ expired \in Nat /\ t \in Nat /\ issued \in Nat
  BY <1>1 DEF IInv, TypeOK
<1> HIDE DEF t
<1>3. /\ cache \in [Tokens -> Verdict \cup {"none"}]
      /\ index \in [Users -> SUBSET Tokens] /\ lease \in [Users -> Tokens \cup {NoToken}]
  BY DEF IInv, TypeOK
<1>4. /\ cache' \in [Tokens -> Verdict \cup {"none"}]
      /\ index' \in [Users -> SUBSET Tokens] /\ lease' \in [Users -> Tokens \cup {NoToken}]
  BY <1>1, <1>3
<1>5. TypeOK'
  BY <1>1, <1>2, <1>4 DEF IInv, TypeOK
<1>6. HeldIsStored'
  <2>1. \A k \in held : k \in Nat
    BY DEF IInv, TypeOK
  <2>2. QED
    BY <1>1, <1>2, <2>1 DEF IInv, HeldIsStored, Alive
<1>7. \A k \in Tokens : cache'[k] = "open" => cache[k] = "open"
  BY <1>1, <1>3
<1>8. QED
  BY <1>1, <1>5, <1>6, <1>7, Outside

LEMMA SweepKeeps ==
  ASSUME IInv, Sweep
  PROVE  IInv'
<1>1. /\ rows' = {t \in rows : Alive(t)}
      /\ UNCHANGED world /\ cache' = cache /\ index' = index /\ lease' = lease
      /\ req' = req /\ adrift' = adrift
  BY DEF Sweep
<1>2. issued' = issued /\ held' = held /\ expired' = expired
  BY <1>1 DEF world
<1>3. TypeOK'
  BY <1>1, LookupKeepsTypes DEF IInv, TypeOK
<1>4. HeldIsStored'
  BY <1>1, <1>2 DEF IInv, HeldIsStored, Alive
<1>5. QED
  BY <1>1, <1>2, <1>3, <1>4, Outside

LEMMA SetAccessKeeps ==
  ASSUME IInv, NEW u \in Users, SetAccess(u)
  PROVE  IInv'
<1>1. /\ access' = [access EXCEPT ![u] = CHOOSE v \in Verdict : v # @]
      /\ issued' = issued /\ owner' = owner /\ expired' = expired /\ held' = held
      /\ rows' = rows /\ cache' = cache /\ index' = index /\ lease' = lease
      /\ req' = req /\ adrift' = adrift /\ faults' = faults
  BY DEF SetAccess
<1>2. access' \in [Users -> Verdict]
  <2> DEFINE other == CHOOSE v \in Verdict : v # access[u]
  <2>1. \E v \in Verdict : v # access[u]
    BY DEF Verdict
  <2>2. other \in Verdict
    BY <2>1
  <2>3. access' = [access EXCEPT ![u] = other] /\ access \in [Users -> Verdict]
    BY <1>1 DEF IInv, TypeOK
  <2> HIDE DEF other
  <2>4. QED
    BY <2>2, <2>3
<1>3. TypeOK'
  BY <1>1, <1>2 DEF IInv, TypeOK
<1>4. HeldIsStored'
  BY <1>1 DEF IInv, HeldIsStored, Alive
<1>5. QED
  BY <1>1, <1>3, <1>4, Outside

-----------------------------------------------------------------------------
LEMMA Beginning == Init => IInv
<1> SUFFICES ASSUME Init PROVE IInv
  OBVIOUS
<1>1. /\ issued = 0 /\ expired = 0 /\ owner = [t \in Tokens |-> Nobody]
      /\ rows = {} /\ held = {} /\ adrift = {} /\ faults = 0
      /\ cache = [t \in Tokens |-> "none"] /\ index = [u \in Users |-> {}]
      /\ lease = [u \in Users |-> NoToken] /\ access = [u \in Users |-> "open"]
      /\ req = [r \in Requests |-> Idle]
  BY DEF Init
<1>2. issued \in 0..MaxTokens /\ expired \in 0..issued /\ faults \in 0..MaxFaults
  BY <1>1, ConstantsOK
<1>3. \A t \in 1..issued : owner[t] \in Users
  BY <1>1
<1>4. req \in [Requests -> Request]
  BY <1>1, IdleTyped
<1>5. TypeOK
  BY <1>1, <1>2, <1>3, <1>4 DEF TypeOK, Verdict
<1>6. \A r \in Requests : req[r].pc = "idle"
  BY <1>1 DEF Idle
<1>7. AllServe
  BY <1>6 DEF AllServe, Serves, Refreshing
<1>8. CopiesAnswered /\ HeldIsStored
  BY <1>1 DEF CopiesAnswered, HeldIsStored
<1>9. QED
  BY <1>5, <1>7, <1>8 DEF IInv

LEMMA Stepping == IInv /\ [Next]_vars => IInv'
<1> SUFFICES ASSUME IInv, [Next]_vars PROVE IInv'
  OBVIOUS
<1>1. ASSUME NEW r \in Requests, RefreshStep(r)
      PROVE  IInv'
  BY <1>1, LookupCacheKeeps, SelectRowKeeps, WarmKeyKeeps, WarmIndexKeeps, ReadOwnerKeeps,
     DeleteRowKeeps, EvictKeyKeeps, UnindexKeeps, CreateRowKeeps DEF RefreshStep
<1>2. ASSUME NEW r \in Requests, LogoutStep(r)
      PROVE  IInv'
  BY <1>2, PurgeRowsKeeps, DropIndexKeeps, DropKeyKeeps DEF LogoutStep
<1>3. ASSUME NEW r \in Requests, RedisFails(r) \/ Abandon(r)
      PROVE  IInv'
  BY <1>3, RedisFailsKeeps, AbandonKeeps
<1>4. ASSUME NEW r \in Requests, NEW t \in Tokens, Refresh(r, t)
      PROVE  IInv'
  BY <1>4, RefreshKeeps
<1>5. ASSUME NEW r \in Requests, NEW u \in Users, Login(r, u) \/ Logout(r, u)
      PROVE  IInv'
  BY <1>5, LoginKeeps, LogoutKeeps
<1>6. ASSUME NEW u \in Users, SetAccess(u)
      PROVE  IInv'
  BY <1>6, SetAccessKeeps
<1>7. CASE Expire \/ Sweep
  BY <1>7, ExpireKeeps, SweepKeeps
<1>8. CASE UNCHANGED vars
  <2>1. /\ issued' = issued /\ owner' = owner /\ rows' = rows /\ cache' = cache
        /\ index' = index /\ lease' = lease /\ expired' = expired /\ access' = access
        /\ req' = req /\ held' = held /\ adrift' = adrift /\ faults' = faults
    BY <1>8 DEF vars
  <2>2. TypeOK' /\ HeldIsStored'
    BY <2>1 DEF IInv, TypeOK, HeldIsStored, Alive
  <2>3. QED
    BY <2>1, <2>2, Outside
<1>9. QED
  BY <1>1, <1>2, <1>3, <1>4, <1>5, <1>6, <1>7, <1>8 DEF Next

\* The inductive invariant holds at all times.
THEOREM Inductive == Spec => []IInv
<1>1. Init => IInv
  BY Beginning
<1>2. IInv /\ [Next]_vars => IInv'
  BY Stepping
<1>3. QED
  BY <1>1, <1>2, PTL DEF Spec

\* Tokens, rows, copies and requests keep their types, and every token that was
\* generated has an owner.
THEOREM TypeCorrect == Spec => []TypeOK
<1>1. IInv => TypeOK
  BY DEF IInv
<1>2. QED
  BY <1>1, Inductive, PTL

\* A token that was refreshed or logged out is refused from then on: whoever
\* copies it to Redis deletes the copy, or has failed to.
THEOREM SpentRefused == Spec => []SpentIsRefused
<1>1. IInv => SpentIsRefused
  <2> SUFFICES ASSUME IInv, NEW t \in 1..issued,
                      t \notin rows, t \notin adrift, ~InUse(t), Accepted(t)
               PROVE  FALSE
    BY DEF SpentIsRefused
  <2>1. t \in Tokens
    BY GeneratedAreTokens DEF IInv
  <2>2. cache[t] = "open"
    BY DEF Accepted
  <2>3. PICK r \in Requests : Answers(r, t)
    BY <2>1, <2>2 DEF IInv, CopiesAnswered
  <2>4. QED
    BY <2>3 DEF Answers, InUse, Cleaning
<1>2. QED
  BY <1>1, Inductive, PTL

\* The row of a token that a client holds is deleted by nobody before the
\* client presents it, logs out or lets it expire.
THEOREM HeldStored == Spec => []HeldIsStored
<1>1. IInv => HeldIsStored
  BY DEF IInv
<1>2. QED
  BY <1>1, Inductive, PTL
=============================================================================
