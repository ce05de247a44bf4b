----------------------------- MODULE LoginGate ------------------------------
(***************************************************************************)
(* auth.LoginGate, the throttle of httpapi.login.  A request reads the     *)
(* clock, enters the mutex, and is allowed if its key has fewer than       *)
(* MaxFails failures in the window; then it compares the password, and     *)
(* fails or clears the key.                                                *)
(*                                                                         *)
(* A time is kept as an age, how many ticks ago it was, so that the model  *)
(* needs no last moment.  Ages stop at Window + Wait: no comparison of two *)
(* of them tells older ones apart.  The slice of a key is a function from  *)
(* the numbers of its failures to their ages: nothing depends on where in  *)
(* the slice a time stands, only on how many there are.                    *)
(***************************************************************************)
EXTENDS Integers, FiniteSets, Functions

CONSTANTS
  Key,      (* address and e-mail                                          *)
  Request,  (* goroutines that serve a login; each comes again and again   *)
  MaxFails, (* failures that are allowed; 8 in the code                    *)
  Window,   (* how long one counts; 15 minutes                             *)
  Wait,     (* bound: ticks between reading the clock and having the mutex *)
  MaxKeys,  (* maxGateKeys                                                 *)
  NoKey

ASSUME LoginGateAssumption ==
  /\ {MaxFails, Window, MaxKeys} \subseteq Nat \ {0}
  /\ Wait \in Nat /\ Wait < Window /\ NoKey \notin Key
  /\ IsFiniteSet(Request)

VARIABLES
  fails,     (* LoginGate.fails: what is stored for a key, its hits         *)
  lastSeen,  (* LoginGate.lastSeen                                          *)
  sweptAt,   (* LoginGate.sweptAt                                           *)
  login,     (* each request: how far it is, for which key, its "now"       *)
  wrong      (* history: the failures of each key that were not cleared     *)

loginVars == <<fails, lastSeen, sweptAt, login, wrong>>

Horizon == Window + Wait
Age == 0 .. Horizon

\* now.Sub(at) for two ages.
Since(now, at) == at - now

NoHits == [i \in {} |-> 0]
Count(hits) == Cardinality(DOMAIN hits)

\* The number of a new failure.
Fresh(hits) == CHOOSE i \in 1 .. Count(hits) + 1 : i \notin DOMAIN hits

NoLogin == [pc |-> "away", key |-> NoKey, now |-> 0]

LoginInit ==
  /\ fails = [k \in {} |-> NoHits] /\ lastSeen = [k \in {} |-> 0]
  /\ sweptAt = Horizon
  /\ login = [r \in Request |-> NoLogin]
  /\ wrong = [k \in Key |-> NoHits]

Without(table, K) == Restrict(table, DOMAIN table \ K)
With(table, k, v) == [j \in DOMAIN table \cup {k} |-> IF j = k THEN v ELSE table[j]]
HitsOf(table, k) == IF k \in DOMAIN table THEN table[k] ELSE NoHits

\* Fault: a key without failures is kept.
StoreAlways(hits0, seen0, k, hits, now) ==
  fails' = With(hits0, k, hits) /\ lastSeen' = With(seen0, k, now)

\* LoginGate.store, on tables that may have been swept before.
Store(hits0, seen0, k, hits, now) ==
  IF hits = NoHits
  THEN fails' = Without(hits0, {k}) /\ lastSeen' = Without(seen0, {k})
  ELSE fails' = With(hits0, k, hits) /\ lastSeen' = With(seen0, k, now)

\* sweepLocked: once a window, or when the table is full.
Sweeps(now) == Cardinality(DOMAIN fails) >= MaxKeys \/ Since(now, sweptAt) >= Window

\* The keys it drops.
Swept(now) == {k \in DOMAIN lastSeen : Sweeps(now) /\ Since(now, lastSeen[k]) >= Window}

Live(hits, now) == Restrict(hits, {i \in DOMAIN hits : Since(now, hits[i]) < Window})

LoginArrives(r, k) ==
  /\ login[r].pc = "away"
  /\ login' = [login EXCEPT ![r] = [pc |-> "allow", key |-> k, now |-> 0]]
  /\ UNCHANGED <<fails, lastSeen, sweptAt, wrong>>

Allow(r) ==
  LET k    == login[r].key
      now  == login[r].now
      kept == Live(HitsOf(Without(fails, Swept(now)), k), now)
  IN /\ login[r].pc = "allow"
     /\ sweptAt' = IF Sweeps(now) THEN now ELSE sweptAt
     /\ Store(Without(fails, Swept(now)), Without(lastSeen, Swept(now)), k, kept, now)
     /\ login' = [login EXCEPT ![r] = IF Count(kept) < MaxFails
                                      THEN [pc |-> "compare", key |-> k, now |-> 0] ELSE NoLogin]
     /\ UNCHANGED wrong

\* Authenticate fails, Fail reads the clock.
Mistaken(r) ==
  /\ login[r].pc = "compare"
  /\ login' = [login EXCEPT ![r].pc = "fail"]
  /\ UNCHANGED <<fails, lastSeen, sweptAt, wrong>>

\* Fault: the failures that Allow had seen are lost.
RecordOneFail(r) ==
  LET k == login[r].key
      now == login[r].now
  IN /\ login[r].pc = "fail"
     /\ Store(fails, lastSeen, k, With(NoHits, 1, now), now)
     /\ wrong' = [wrong EXCEPT ![k] = With(@, Fresh(@), now)]
     /\ login' = [login EXCEPT ![r] = NoLogin]
     /\ UNCHANGED sweptAt

RecordFail(r) ==
  LET k == login[r].key
      now == login[r].now
      new == Fresh(HitsOf(fails, k))
  IN /\ login[r].pc = "fail"
     /\ Store(fails, lastSeen, k, With(HitsOf(fails, k), new, now), now)
     /\ wrong' = [wrong EXCEPT ![k] = With(@, new, now)]
     /\ login' = [login EXCEPT ![r] = NoLogin]
     /\ UNCHANGED sweptAt

\* Authenticate succeeds.
Clear(r) ==
  LET k == login[r].key
  IN /\ login[r].pc = "compare"
     /\ fails' = Without(fails, {k}) /\ lastSeen' = Without(lastSeen, {k})
     /\ wrong' = [wrong EXCEPT ![k] = NoHits]
     /\ login' = [login EXCEPT ![r] = NoLogin]
     /\ UNCHANGED sweptAt

Older(a) == IF a < Horizon THEN a + 1 ELSE a

\* A request that has read the clock waits no longer than Wait for the mutex.
\* History forgets what is too old for any property.
Tick ==
  /\ \A r \in Request : login[r].pc \in {"allow", "fail"} => login[r].now < Wait
  /\ fails' = [k \in DOMAIN fails |-> [i \in DOMAIN fails[k] |-> Older(fails[k][i])]]
  /\ lastSeen' = [k \in DOMAIN lastSeen |-> Older(lastSeen[k])]
  /\ sweptAt' = Older(sweptAt)
  /\ login' = [r \in Request |-> IF login[r].pc \in {"allow", "fail"}
                                 THEN [login[r] EXCEPT !.now = @ + 1] ELSE login[r]]
  /\ wrong' = [k \in Key |-> [i \in {j \in DOMAIN wrong[k] : wrong[k][j] + 1 < Window - Wait}
                                |-> wrong[k][i] + 1]]

LoginNext ==
  \/ \E r \in Request : \/ \E k \in Key : LoginArrives(r, k)
                        \/ Allow(r) \/ Mistaken(r) \/ RecordFail(r) \/ Clear(r)
  \/ Tick

LoginSpec == LoginInit /\ [][LoginNext]_loginVars

(***************************************************************************)
(* Properties.                                                             *)
(***************************************************************************)
Comparing(k) == {r \in Request : login[r].key = k /\ login[r].pc \in {"compare", "fail"}}

\* However the requests of a key interleave, and although a request may use a
\* time that is older than what others stored meanwhile: within a window (less
\* the wait for the mutex) the key has at most MaxFails - 1 wrong passwords behind
\* it or being compared, and one for each request that runs at once.
GuessesBounded ==
  \A k \in Key : Count(wrong[k]) + Cardinality(Comparing(k)) <= MaxFails - 1 + Cardinality(Request)

\* Each entry of the table can be dropped one day, and none too early: it has
\* a hit, and the time a sweep looks at, lastSeen, is behind the last hit by
\* the wait for the mutex at most.
TableSweepable ==
  /\ DOMAIN fails = DOMAIN lastSeen
  /\ \A k \in DOMAIN fails : /\ fails[k] # NoHits
                            /\ \A i \in DOMAIN fails[k] : fails[k][i] >= lastSeen[k] - Wait
=============================================================================
