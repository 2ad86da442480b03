------------------------------ MODULE Sessions ------------------------------
(***************************************************************************)
(* Refresh tokens: the requests that log in, refresh and log out, over the *)
(* refresh_tokens table of Postgres and the copies in Redis.               *)
(*                                                                         *)
(* A request runs in a goroutine of its own and each of its calls to       *)
(* Postgres or Redis is one step; nothing makes two calls one transaction. *)
(* Tokens are numbered as they are generated: all of them live seven days, *)
(* so they also expire in that order.                                      *)
(***************************************************************************)
EXTENDS Naturals

CONSTANTS
  Users,
  Requests,   \* requests that may run at once
  Nobody,     \* the user of no request
  MaxTokens,  \* bound: tokens generated
  MaxFaults   \* bound: calls that fail and requests that end half-way

ASSUME ConstantsOK == Nobody \notin Users /\ MaxTokens \in Nat /\ MaxFaults \in Nat

VARIABLES
  issued,  \* tokens generated so far
  owner,   \* whom each of them was generated for
  rows,    \* table refresh_tokens
  cache,   \* auth:rt:<token>: the user's access as the copy has it
  index,   \* auth:rt:user:<id>: the tokens cached for a user
  lease,   \* the token whose expiry is the TTL of that set
  expired, \* the tokens up to this one have expired
  access,  \* users: "shut" while disabled or blocked
  req,     \* the requests
  held,    \* tokens a client has received, not presented and not logged out
  adrift,  \* tokens whose copy a failed request or a failed Del left behind
  faults   \* failures so far

vars == <<issued, owner, rows, cache, index, lease, expired, access, req, held, adrift, faults>>
world == <<issued, owner, expired, access, held, faults>>  \* what no step of a lookup changes

Tokens == 1..MaxTokens
NoToken == 0
Verdict == {"open", "shut"}

Idle == [pc |-> "idle", tok |-> NoToken, user |-> Nobody, saw |-> "shut",
         known |-> FALSE, names |-> {}]

Init ==
  /\ issued = 0 /\ expired = 0
  /\ owner = [t \in Tokens |-> Nobody]
  /\ rows = {} /\ held = {} /\ adrift = {} /\ faults = 0
  /\ cache = [t \in Tokens |-> "none"]
  /\ index = [u \in Users |-> {}]
  /\ lease = [u \in Users |-> NoToken]
  /\ access = [u \in Users |-> "open"]
  /\ req = [r \in Requests |-> Idle]

Alive(t) == t > expired
Goto(r, pc) == req' = [req EXCEPT ![r].pc = pc]
Finish(r) == req' = [req EXCEPT ![r] = Idle]

\* RefreshToken goes on only for a user who is enabled and not blocked.
Judge(r, verdict) ==
  IF verdict = "open" THEN req' = [req EXCEPT ![r].pc = "whose", ![r].saw = "shut"]
                      ELSE Finish(r)

-----------------------------------------------------------------------------
\* Login, GoogleCallback: the user's row allows it; the token comes next.
Login(r, u) ==
  /\ req[r].pc = "idle" /\ access[u] = "open"
  /\ req' = [req EXCEPT ![r] = [Idle EXCEPT !.pc = "create", !.user = u]]
  /\ UNCHANGED <<world, rows, cache, index, lease, adrift>>

\* A client presents a token it has, perhaps not for the first time.
Refresh(r, t) ==
  /\ req[r].pc = "idle" /\ t \in 1..issued
  /\ req' = [req EXCEPT ![r] = [Idle EXCEPT !.pc = "lookup", !.tok = t, !.user = owner[t]]]
  /\ held' = held \ {t}
  /\ UNCHANGED <<issued, owner, expired, access, rows, cache, index, lease, adrift, faults>>

LookupCache(r) ==
  /\ req[r].pc = "lookup"
  /\ LET t == req[r].tok IN
     IF cache[t] # "none" /\ Alive(t) THEN Judge(r, cache[t]) ELSE Goto(r, "select")
  /\ UNCHANGED <<world, rows, cache, index, lease, adrift>>

\* The row, and with it the user as it is now.
SelectRow(r) ==
  /\ req[r].pc = "select"
  /\ IF req[r].tok \in rows /\ Alive(req[r].tok)
     THEN req' = [req EXCEPT ![r].pc = "warm", ![r].saw = access[req[r].user]]
     ELSE Finish(r)
  /\ UNCHANGED <<world, rows, cache, index, lease, adrift>>

\* Mutant: the copy is made even when its token has just expired, so it has no TTL.
WarmKeyLate(r) ==
  /\ req[r].pc = "warm"
  /\ cache' = [cache EXCEPT ![req[r].tok] = req[r].saw]
  /\ Goto(r, "index")
  /\ UNCHANGED <<world, rows, index, lease, adrift>>

\* warmCache: a copy of what was read, unless the token has expired meanwhile.
WarmKey(r) ==
  /\ req[r].pc = "warm"
  /\ IF Alive(req[r].tok)
     THEN /\ cache' = [cache EXCEPT ![req[r].tok] = req[r].saw]
          /\ Goto(r, "index")
     ELSE Judge(r, req[r].saw) /\ UNCHANGED cache
  /\ UNCHANGED <<world, rows, index, lease, adrift>>

\* SAdd, and ExpireNX: the set keeps the TTL of the first token put in it.
WarmIndex(r) ==
  LET u == req[r].user IN
  /\ req[r].pc = "index"
  /\ index' = [index EXCEPT ![u] = @ \cup {req[r].tok}]
  /\ lease' = [lease EXCEPT ![u] = IF @ = NoToken THEN req[r].tok ELSE @]
  /\ Judge(r, req[r].saw)
  /\ UNCHANGED <<world, rows, cache, adrift>>

\* DeleteByToken asks the copy whose token it is, deletes the row and only
\* then the copy.  No row to delete is not an error.
ReadOwner(r) ==
  /\ req[r].pc = "whose"
  /\ req' = [req EXCEPT ![r].pc = "delete", ![r].known = cache[req[r].tok] # "none"]
  /\ UNCHANGED <<world, rows, cache, index, lease, adrift>>

\* Mutant: all the sessions of the user end with the token refreshed.
DeleteRowsOfUser(r) ==
  /\ req[r].pc = "delete"
  /\ rows' = {t \in rows : owner[t] # req[r].user}
  /\ Goto(r, "evict")
  /\ UNCHANGED <<world, cache, index, lease, adrift>>

DeleteRow(r) ==
  /\ req[r].pc = "delete"
  /\ rows' = rows \ {req[r].tok}
  /\ Goto(r, "evict")
  /\ UNCHANGED <<world, cache, index, lease, adrift>>

\* Mutant: only a copy whose user is known is deleted.
EvictKnown(r) ==
  /\ req[r].pc = "evict"
  /\ cache' = IF req[r].known THEN [cache EXCEPT ![req[r].tok] = "none"] ELSE cache
  /\ adrift' = adrift \ {req[r].tok}
  /\ Goto(r, IF req[r].known THEN "unindex" ELSE "create")
  /\ UNCHANGED <<world, rows, index, lease>>

EvictKey(r) ==
  /\ req[r].pc = "evict"
  /\ cache' = [cache EXCEPT ![req[r].tok] = "none"]
  /\ adrift' = adrift \ {req[r].tok}
  /\ Goto(r, IF req[r].known THEN "unindex" ELSE "create")
  /\ UNCHANGED <<world, rows, index, lease>>

Unindex(r) ==
  LET u == req[r].user
      left == index[u] \ {req[r].tok} IN
  /\ req[r].pc = "unindex"
  /\ index' = [index EXCEPT ![u] = left]
  /\ lease' = [lease EXCEPT ![u] = IF left = {} THEN NoToken ELSE @]
  /\ req' = [req EXCEPT ![r].pc = "create", ![r].known = FALSE]
  /\ UNCHANGED <<world, rows, cache, adrift>>

\* Mutant: the new token is stored without its user.
CreateRowUnowned(r) ==
  LET t == issued + 1 IN
  /\ req[r].pc = "create" /\ issued < MaxTokens
  /\ issued' = t
  /\ rows' = rows \cup {t} /\ held' = held \cup {t}
  /\ Finish(r)
  /\ UNCHANGED <<cache, index, lease, expired, access, adrift, faults, owner>>

\* Create stores the new token without a copy: its User was not loaded.
CreateRow(r) ==
  LET t == issued + 1 IN
  /\ req[r].pc = "create" /\ issued < MaxTokens
  /\ issued' = t
  /\ owner' = [owner EXCEPT ![t] = req[r].user]
  /\ rows' = rows \cup {t}
  /\ held' = held \cup {t}
  /\ Finish(r)
  /\ UNCHANGED <<cache, index, lease, expired, access, adrift, faults>>

-----------------------------------------------------------------------------
\* Logout: DeleteByUserID takes the names of the copies from the set, deletes
\* the rows, then the copies one by one and at last the set.
Logout(r, u) ==
  /\ req[r].pc = "idle"
  /\ req' = [req EXCEPT ![r] = [Idle EXCEPT !.pc = "purge", !.user = u, !.names = index[u]]]
  /\ UNCHANGED <<world, rows, cache, index, lease, adrift>>

PurgeRows(r) ==
  LET others == {t \in Tokens : owner[t] # req[r].user} IN
  /\ req[r].pc = "purge"
  /\ rows' = rows \cap others /\ held' = held \cap others
  /\ Goto(r, "drop")
  /\ UNCHANGED <<issued, owner, expired, access, cache, index, lease, adrift, faults>>

DropKey(r, t) ==
  /\ req[r].pc = "drop" /\ t \in req[r].names
  /\ cache' = [cache EXCEPT ![t] = "none"]
  /\ adrift' = adrift \ {t}
  /\ req' = [req EXCEPT ![r].names = @ \ {t}]
  /\ UNCHANGED <<world, rows, index, lease>>

DropIndex(r) ==
  /\ req[r].pc = "drop" /\ req[r].names = {}
  /\ index' = [index EXCEPT ![req[r].user] = {}]
  /\ lease' = [lease EXCEPT ![req[r].user] = NoToken]
  /\ Finish(r)
  /\ UNCHANGED <<world, rows, cache, adrift>>

-----------------------------------------------------------------------------
\* A call to Redis fails: a Get is a miss, the others are only logged or ignored.
RedisFails(r) ==
  LET q == req[r] IN
  /\ faults < MaxFaults /\ faults' = faults + 1
  /\ \/ q.pc = "lookup" /\ Goto(r, "select")
     \/ q.pc \in {"warm", "index"} /\ Judge(r, q.saw)
     \/ q.pc = "whose" /\ req' = [req EXCEPT ![r].pc = "delete", ![r].known = FALSE]
     \/ q.pc = "evict" /\ Goto(r, IF q.known THEN "unindex" ELSE "create")
     \/ q.pc = "unindex" /\ req' = [req EXCEPT ![r].pc = "create", ![r].known = FALSE]
     \/ q.pc = "drop" /\ \E t \in q.names : req' = [req EXCEPT ![r].names = @ \ {t}]
     \/ q.pc = "drop" /\ q.names = {} /\ Finish(r)
  /\ adrift' = IF q.pc = "evict" THEN adrift \cup {q.tok} ELSE adrift
  /\ UNCHANGED <<issued, owner, expired, access, held, rows, cache, index, lease>>

\* The steps at which a request may have left a copy it would still delete.
Cleaning == {"index", "whose", "delete", "evict"}

\* A call to Postgres fails, the client hangs up or the process dies.
Abandon(r) ==
  /\ req[r].pc # "idle"
  /\ faults < MaxFaults /\ faults' = faults + 1
  /\ adrift' = IF req[r].pc \in Cleaning THEN adrift \cup {req[r].tok} ELSE adrift
  /\ Finish(r)
  /\ UNCHANGED <<issued, owner, expired, access, held, rows, cache, index, lease>>

\* Seven days have passed: Redis drops the copy, and the set that lives as long.
Expire ==
  LET t == expired + 1 IN
  /\ t <= issued
  /\ expired' = t
  /\ cache' = [cache EXCEPT ![t] = "none"]
  /\ index' = [u \in Users |-> IF lease[u] = t THEN {} ELSE index[u]]
  /\ lease' = [u \in Users |-> IF lease[u] = t THEN NoToken ELSE lease[u]]
  /\ UNCHANGED <<issued, owner, rows, access, req, held, adrift, faults>>

\* The daily DeleteExpired.
Sweep ==
  /\ \E t \in rows : ~Alive(t)
  /\ rows' = {t \in rows : Alive(t)}
  /\ UNCHANGED <<world, cache, index, lease, req, adrift>>

\* UpdateBlockStatus, ChangeStatus: they write the user's row and no copy.
SetAccess(u) ==
  /\ access' = [access EXCEPT ![u] = CHOOSE v \in Verdict : v # @]
  /\ UNCHANGED <<issued, owner, expired, held, rows, cache, index, lease, req, adrift, faults>>

RefreshStep(r) ==
  \/ LookupCache(r) \/ SelectRow(r) \/ WarmKey(r) \/ WarmIndex(r)
  \/ ReadOwner(r) \/ DeleteRow(r) \/ EvictKey(r) \/ Unindex(r) \/ CreateRow(r)

LogoutStep(r) ==
  \/ PurgeRows(r) \/ DropIndex(r)
  \/ \E t \in Tokens : DropKey(r, t)

Next ==
  \/ \E r \in Requests :
       \/ RefreshStep(r) \/ LogoutStep(r) \/ RedisFails(r) \/ Abandon(r)
       \/ \E t \in Tokens : Refresh(r, t)
       \/ \E u \in Users : Login(r, u) \/ Logout(r, u)
  \/ \E u \in Users : SetAccess(u)
  \/ Expire \/ Sweep

Spec == Init /\ [][Next]_vars

\* Time passes; nothing else has to happen.
FairSpec == Spec /\ WF_vars(Expire)

-----------------------------------------------------------------------------
Request ==
  [pc: {"idle", "lookup", "select", "warm", "index", "whose", "delete", "evict",
        "unindex", "create", "purge", "drop"},
   tok: Tokens \cup {NoToken}, user: Users \cup {Nobody}, saw: Verdict,
   known: BOOLEAN, names: SUBSET Tokens]

\* Types; a token has an owner from the moment it is generated.
TypeOK ==
  /\ issued \in 0..MaxTokens /\ expired \in 0..issued
  /\ owner \in [Tokens -> Users \cup {Nobody}]
  /\ \A t \in 1..issued : owner[t] \in Users
  /\ rows \subseteq 1..issued /\ held \subseteq 1..issued /\ adrift \subseteq Tokens
  /\ cache \in [Tokens -> Verdict \cup {"none"}]
  /\ index \in [Users -> SUBSET Tokens]
  /\ lease \in [Users -> Tokens \cup {NoToken}]
  /\ access \in [Users -> Verdict]
  /\ req \in [Requests -> Request]
  /\ faults \in 0..MaxFaults

\* Whether a refresh with t that starts now can get as far as a new token.
Accepted(t) ==
  /\ Alive(t)
  /\ IF cache[t] = "none" THEN t \in rows /\ access[owner[t]] = "open"
                          ELSE cache[t] = "open"

InUse(t) == \E r \in Requests : req[r].tok = t /\ req[r].pc \in Cleaning

\* A token that was refreshed or logged out is refused: once its row is gone
\* no copy brings it back, whatever lookups and deletions interleaved, except
\* while a refresh with it is still under way, or after one failed half-way.
SpentIsRefused ==
  \A t \in 1..issued : t \notin rows /\ t \notin adrift /\ ~InUse(t) => ~Accepted(t)

\* The token a client holds works: until the client uses it, logs out or lets
\* it expire, its row is there, whatever other requests of the user do.
HeldIsStored == \A t \in held : Alive(t) => t \in rows

\* A copy that disagrees with Postgres about the token or its user.
Stale(t) ==
  cache[t] # "none" /\ (t \notin rows \/ cache[t] # access[owner[t]])

\* Redis does not stay wrong: a copy left behind by a failure, or taken while
\* the user was blocked, is gone at the latest when the token expires.
StaleCopiesEnd == \A t \in Tokens : Stale(t) ~> ~Stale(t)

=============================================================================
