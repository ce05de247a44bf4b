---------------------------- MODULE ServicesProofs ----------------------------
(***************************************************************************)
(* Disabling ends sessions and an administrator remains, one notice asks   *)
(* for a review, migrations are applied once and in order, a handle is     *)
(* never closed while callers take it, and wrong passwords are bounded:    *)
(* for any number of users, sessions, requests, documents, processes,      *)
(* scripts, outages and shutdowns.                                         *)
(***************************************************************************)
EXTENDS Accounts, Notices, Postgres, LoginGate, FiniteSetTheorems, TLAPS

RequestState == [pc : RequestPC, user : User \cup {Nobody}, token : Token \cup {Nobody},
            target : User \cup {Nobody}]

\* Who a request is for exists; one that disables is an administrator's, and
\* about somebody else.
Sound(r) ==
  /\ r.pc \in {"login", "handler", "disable", "delete"} => r.user \in users
  /\ r.pc \in {"disable", "delete"} => r.user \in Admin /\ r.target # r.user
  /\ r.pc = "check" => r.token \in Token

AccountsInv ==
  /\ users \subseteq User /\ disabled \subseteq users
  /\ session \in [Token -> users \cup {Nobody}]
  /\ request \in [Client -> RequestState]
  /\ \A c \in Client : Sound(request[c])
  /\ AdminRemains

\* What the handlers write to the state of a request.
LEMMA RequestTypes ==
  /\ NoRequest \in RequestState
  /\ \A u \in User : [NoRequest EXCEPT !.pc = "login", !.user = u] \in RequestState
  /\ \A t \in Token : [NoRequest EXCEPT !.pc = "check", !.token = t] \in RequestState
  /\ \A r \in RequestState : [r EXCEPT !.pc = "delete"] \in RequestState
  /\ \A r \in RequestState, u \in User : /\ [r EXCEPT !.pc = "handler", !.user = u] \in RequestState
                                    /\ [r EXCEPT !.pc = "disable", !.target = u] \in RequestState
BY DEF NoRequest, RequestState, RequestPC

\* The requests stay sound when one of them goes on and no user goes.
LEMMA RequestStep ==
  ASSUME AccountsInv, NEW c \in Client, NEW r \in RequestState, To(c, r),
         users \subseteq users', Sound(r)'
  PROVE  request' \in [Client -> RequestState] /\ \A d \in Client : Sound(request[d])'
<1>1. request' \in [Client -> RequestState]
  BY DEF To, AccountsInv
<1>2. \A d \in Client : request'[d] = IF d = c THEN r ELSE request[d]
  BY DEF To, AccountsInv
<1>3. \A d \in Client : Sound(request[d])'
  BY <1>2 DEF Sound, AccountsInv
<1>4. QED
  BY <1>1, <1>3

\* A request that is over is sound.
LEMMA NoRequestSound == Sound(NoRequest)
BY DEF Sound, NoRequest

\* Only disabling takes an administrator away, and its actor remains.
LEMMA DisableKeepsAdmin ==
  ASSUME AccountsInv, NEW c \in Client, Disable(c)
  PROVE  AdminRemains'
<1>1. /\ request[c].user \in users \cap Admin /\ request[c].target # request[c].user
      /\ users' = users /\ disabled' = disabled \cup ({request[c].target} \cap users)
      /\ late' = (late \/ (request[c].target \in users /\ request[c].user \in disabled))
  BY DEF Disable, AccountsInv, Sound
<1>2. CASE request[c].target \in users
  BY <1>1, <1>2 DEF AdminRemains
<1>3. CASE request[c].target \notin users
  BY <1>1, <1>3 DEF AdminRemains, AccountsInv
<1>4. QED
  BY <1>2, <1>3

\* Every statement of every request keeps the invariant.
LEMMA AccountsStep == AccountsInv /\ [AccountsNext]_accountVars => AccountsInv'
<1> SUFFICES ASSUME AccountsInv, [AccountsNext]_accountVars PROVE AccountsInv'
  OBVIOUS
<1>1. /\ users \subseteq User /\ disabled \subseteq users
      /\ session \in [Token -> users \cup {Nobody}] /\ AdminRemains
  BY DEF AccountsInv
<1>2. \A c \in Client : request[c] \in RequestState /\ Sound(request[c])
  BY DEF AccountsInv
<1>3. ASSUME NEW c \in Client, NEW r \in RequestState, To(c, r), UNCHANGED Rows, Sound(r)
      PROVE  AccountsInv'
  <2>1. request' \in [Client -> RequestState] /\ \A d \in Client : Sound(request[d])'
    BY <1>3, RequestStep DEF Rows, Sound
  <2>2. QED
    BY <1>1, <1>3, <2>1 DEF Rows, AccountsInv, AdminRemains
<1>4. ASSUME NEW c \in Client, To(c, NoRequest), users \subseteq users'
      PROVE  request' \in [Client -> RequestState] /\ \A d \in Client : Sound(request[d])'
  <2>1. Sound(NoRequest)'
    BY DEF Sound, NoRequest
  <2>2. QED
    BY <1>4, <2>1, RequestTypes, RequestStep
<1>5. CASE EnsureAdmin
  <2>1. request' = request /\ users' = users \cup {Seeded} /\ Seeded \in User \cap Admin
    BY <1>5, AccountsAssumption DEF EnsureAdmin
  <2>2. \A c \in Client : Sound(request[c])'
    BY <1>2, <2>1 DEF Sound
  <2>3. AdminRemains'
    BY <1>1, <1>5, <2>1 DEF EnsureAdmin, AdminRemains
  <2>4. QED
    BY <1>1, <1>5, <2>1, <2>2, <2>3 DEF EnsureAdmin, AccountsInv
<1>6. ASSUME NEW c \in Client, NEW u \in User, Authenticate(c, u)
      PROVE  AccountsInv'
  <2>1. Sound([NoRequest EXCEPT !.pc = "login", !.user = u])
    BY <1>6 DEF Authenticate, Sound, NoRequest
  <2>2. QED
    BY <1>3, <1>6, <2>1, RequestTypes DEF Authenticate
<1>7. ASSUME NEW c \in Client, NEW t \in Token, CreateSession(c, t)
      PROVE  AccountsInv'
  <2>1. request[c].user \in users
    BY <1>2, <1>7 DEF CreateSession, Sound
  <2>2. session' \in [Token -> users' \cup {Nobody}]
    BY <1>1, <1>7, <2>1 DEF CreateSession
  <2>3. QED
    BY <1>1, <1>4, <1>7, <2>2 DEF CreateSession, AccountsInv, AdminRemains
<1>8. ASSUME NEW c \in Client, NEW t \in Token, Comes(c, t)
      PROVE  AccountsInv'
  <2>1. Sound([NoRequest EXCEPT !.pc = "check", !.token = t])
    BY DEF Sound, NoRequest
  <2>2. QED
    BY <1>3, <1>8, <2>1, RequestTypes DEF Comes
<1>9. ASSUME NEW c \in Client, RequireAuth(c)
      PROVE  AccountsInv'
  <2>1. CASE Known(request[c].token)
    <3> DEFINE u == session[request[c].token]
               r == [request[c] EXCEPT !.pc = "handler", !.user = u]
    <3>1. request[c].token \in Token
      BY <1>2, <1>9 DEF RequireAuth, Sound
    <3>2. u \in users
      BY <1>1, <2>1, <3>1 DEF Known
    <3>3. r \in RequestState
      BY <1>1, <1>2, <3>2, RequestTypes
    <3>4. Sound(r)
      BY <1>2, <3>2 DEF Sound, RequestState
    <3>5. To(c, r) /\ UNCHANGED Rows
      BY <1>9, <2>1 DEF RequireAuth
    <3>6. QED
      BY <1>3, <3>3, <3>4, <3>5
  <2>2. CASE ~Known(request[c].token)
    BY <1>3, <1>9, <2>2, RequestTypes, NoRequestSound DEF RequireAuth
  <2>3. QED
    BY <2>1, <2>2
<1>10. ASSUME NEW c \in Client, Logout(c)
       PROVE  AccountsInv'
  <2>1. session' \in [Token -> users' \cup {Nobody}]
    BY <1>1, <1>10 DEF Logout
  <2>2. QED
    BY <1>1, <1>4, <1>10, <2>1 DEF Logout, AccountsInv, AdminRemains
<1>11. ASSUME NEW c \in Client, Handled(c)
       PROVE  AccountsInv'
  BY <1>3, <1>11, RequestTypes, NoRequestSound DEF Handled
<1>12. ASSUME NEW c \in Client, NEW u \in User, CreateUser(c, u)
       PROVE  AccountsInv'
  <2>1. session' \in [Token -> users' \cup {Nobody}]
    BY <1>1, <1>12 DEF CreateUser
  <2>2. AdminRemains'
    BY <1>1, <1>12 DEF CreateUser, AdminRemains
  <2>3. QED
    BY <1>1, <1>4, <1>12, <2>1, <2>2 DEF CreateUser, AccountsInv
<1>13. ASSUME NEW c \in Client, NEW u \in User, SetUserDisabled(c, u)
       PROVE  AccountsInv'
  <2>1. Sound([request[c] EXCEPT !.pc = "disable", !.target = u])
    BY <1>2, <1>13 DEF SetUserDisabled, RequireAdmin, Sound, RequestState
  <2>2. QED
    BY <1>2, <1>3, <1>13, <2>1, RequestTypes DEF SetUserDisabled
<1>14. ASSUME NEW c \in Client, Disable(c)
       PROVE  AccountsInv'
  <2>1. /\ disabled' \subseteq users' /\ users' = users /\ session' = session
    BY <1>1, <1>14 DEF Disable
  <2>2. CASE request[c].target \in users
    <3>1. PICK r \in RequestState : r = [request[c] EXCEPT !.pc = "delete"]
      BY <1>2, RequestTypes
    <3>2. Sound(r)'
      BY <1>2, <1>14, <2>1, <3>1 DEF Disable, Sound, RequestState
    <3>3. request' \in [Client -> RequestState] /\ \A d \in Client : Sound(request[d])'
      BY <1>14, <2>1, <2>2, <3>1, <3>2, RequestStep DEF Disable
    <3>4. QED
      BY <1>1, <1>14, <2>1, <3>3, DisableKeepsAdmin DEF AccountsInv
  <2>3. CASE request[c].target \notin users
    <3>1. To(c, NoRequest)
      BY <1>14, <2>3 DEF Disable
    <3>2. QED
      BY <1>1, <1>4, <1>14, <2>1, <3>1, DisableKeepsAdmin DEF AccountsInv
  <2>4. QED
    BY <2>2, <2>3
<1>15. ASSUME NEW c \in Client, Enable(c)
       PROVE  AccountsInv'
  BY <1>1, <1>4, <1>15 DEF Enable, AccountsInv, AdminRemains
<1>16. ASSUME NEW c \in Client, DeleteUserSessions(c)
       PROVE  AccountsInv'
  <2>1. session' \in [Token -> users' \cup {Nobody}]
    BY <1>1, <1>16 DEF DeleteUserSessions, Ended
  <2>2. QED
    BY <1>1, <1>4, <1>16, <2>1 DEF DeleteUserSessions, AccountsInv, AdminRemains
<1>17. CASE SweepExpired \/ (\E t \in Token : Expire(t)) \/ UNCHANGED accountVars
  <2>1. /\ users' = users /\ disabled' = disabled /\ request' = request /\ late' = late
        /\ session' \in [Token -> users' \cup {Nobody}]
    BY <1>1, <1>17 DEF SweepExpired, Expire, Ended, accountVars
  <2>2. QED
    BY <1>1, <1>2, <2>1 DEF AccountsInv, AdminRemains, Sound
<1>18. QED
  BY <1>5, <1>6, <1>7, <1>8, <1>9, <1>10, <1>11, <1>12, <1>13, <1>14, <1>15, <1>16, <1>17
     DEF AccountsNext

\* The invariant holds at first, and thus always.
THEOREM AccountsInductive == AccountsSpec => []AccountsInv
<1>1. AccountsInit => AccountsInv
  BY RequestTypes, NoRequestSound DEF AccountsInit, AccountsInv, AdminRemains
<1>2. QED
  BY <1>1, AccountsStep, PTL DEF AccountsSpec

\* Administrators never lock each other out, but for a request that was let in
\* before its actor was disabled.
THEOREM AdminAlwaysRemains == AccountsSpec => []AdminRemains
<1>1. AccountsInv => AdminRemains
  BY DEF AccountsInv
<1>2. QED
  BY <1>1, AccountsInductive, PTL

\* What else must hold of the sessions, beside AccountsInv.
SessionsInv == doomed \subseteq Token /\ DisablingEndsSessions

\* A DELETE that is to come stays so while another request takes a step.
LEMMA DeletesKept ==
  ASSUME AccountsInv, NEW c \in Client, NEW r, To(c, r), NEW u, NEW d \in Client,
         d # c \/ request[c].pc # "delete",
         request[d].pc = "delete" /\ request[d].target = u
  PROVE  StillDeletes(u)'
<1>1. d # c
  OBVIOUS
<1>2. request'[d] = request[d]
  BY <1>1 DEF To, AccountsInv
<1> QED
  BY <1>2 DEF StillDeletes

\* No step but that of the DELETE itself, or of another disabling, concerns it.
LEMMA SessionsKept ==
  ASSUME AccountsInv, SessionsInv, doomed' = doomed,
         \A t \in Token : session'[t] = session[t] \/ session'[t] = Nobody,
         \/ request' = request
         \/ \E c \in Client : \E r : To(c, r) /\ request[c].pc # "delete"
  PROVE  SessionsInv'
<1> SUFFICES ASSUME NEW t \in doomed, session'[t] # Nobody
             PROVE  StillDeletes(session[t])'
  BY DEF SessionsInv, DisablingEndsSessions
<1>1. session'[t] = session[t] /\ StillDeletes(session[t])
  BY DEF SessionsInv, DisablingEndsSessions
<1>2. PICK u : u = session[t]
  OBVIOUS
<1>3. PICK d \in Client : request[d].pc = "delete" /\ request[d].target = u
  BY <1>1, <1>2 DEF StillDeletes
<1>4. StillDeletes(u)'
  <2>1. CASE request' = request
    BY <1>3, <2>1 DEF StillDeletes
  <2>2. ASSUME NEW c \in Client, NEW r, To(c, r), request[c].pc # "delete"
        PROVE  StillDeletes(u)'
    BY <1>3, <2>2, DeletesKept
  <2> QED
    BY <2>1, <2>2
<1> QED
  BY <1>1, <1>2, <1>4 DEF StillDeletes

\* A login that inserts its session.
LEMMA CreateSessionStep ==
  ASSUME AccountsInv, SessionsInv, NEW c \in Client, NEW t \in Token, CreateSession(c, t)
  PROVE  SessionsInv'
<1>1. /\ session \in [Token -> users \cup {Nobody}]
      /\ request[c].pc = "login" /\ To(c, NoRequest)
      /\ session' = [session EXCEPT ![t] = request[c].user]
      /\ doomed' = IF StillDeletes(request[c].user) /\ request[c].user \in disabled
                   THEN doomed \cup {t} ELSE doomed \ {t}
  BY DEF CreateSession, AccountsInv
<1>2. doomed' \subseteq Token
  BY <1>1 DEF SessionsInv
<1>3. ASSUME NEW s \in doomed', session'[s] # Nobody
      PROVE  StillDeletes(session[s])'
  <2>1. PICK u : u = session'[s]
    OBVIOUS
  <2>2. StillDeletes(u)
    <3>1. CASE s = t
      BY <1>1, <1>3, <2>1, <3>1
    <3>2. CASE s # t
      <4>1. s \in doomed /\ session'[s] = session[s]
        BY <1>1, <1>2, <1>3, <3>2
      <4> QED
        BY <1>3, <2>1, <4>1 DEF SessionsInv, DisablingEndsSessions
    <3> QED
      BY <3>1, <3>2
  <2>3. PICK d \in Client : request[d].pc = "delete" /\ request[d].target = u
    BY <2>2 DEF StillDeletes
  <2>4. StillDeletes(u)'
    BY <1>1, <2>3, DeletesKept
  <2> QED
    BY <2>1, <2>4 DEF StillDeletes
<1> QED
  BY <1>2, <1>3 DEF SessionsInv, DisablingEndsSessions

\* The UPDATE of a disabling: its request goes on to the DELETE.
LEMMA DisableStep ==
  ASSUME AccountsInv, SessionsInv, NEW c \in Client, Disable(c)
  PROVE  SessionsInv'
<1> DEFINE v == request[c].target
<1>1. /\ session \in [Token -> users \cup {Nobody}] /\ request \in [Client -> RequestState]
      /\ request[c].pc = "disable" /\ session' = session
      /\ doomed' = doomed \cup SessionsOf(v)
      /\ To(c, IF v \in users THEN [request[c] EXCEPT !.pc = "delete"] ELSE NoRequest)
  BY DEF Disable, AccountsInv
<1>2. doomed' \subseteq Token
  BY <1>1 DEF SessionsInv, SessionsOf
<1>3. ASSUME NEW s \in doomed', session'[s] # Nobody
      PROVE  StillDeletes(session[s])'
  <2>1. PICK u : u = session'[s]
    OBVIOUS
  <2>2. CASE u = v
    <3>1. v \in users
      BY <1>1, <1>2, <1>3, <2>1, <2>2
    <3>2. request'[c] = [request[c] EXCEPT !.pc = "delete"]
      BY <1>1, <3>1 DEF To
    <3>3. request'[c].pc = "delete" /\ request'[c].target = v
      BY <1>1, <3>2 DEF RequestState
    <3>4. StillDeletes(u)'
      BY <2>2, <3>3 DEF StillDeletes
    <3> QED
      BY <2>1, <3>4 DEF StillDeletes
  <2>3. CASE u # v
    <3>1. s \in doomed /\ session[s] = u
      BY <1>1, <1>3, <2>1, <2>3 DEF SessionsOf
    <3>2. PICK d \in Client : request[d].pc = "delete" /\ request[d].target = u
      BY <1>3, <2>1, <3>1 DEF SessionsInv, DisablingEndsSessions, StillDeletes
    <3>3. StillDeletes(u)'
      BY <1>1, <3>2, DeletesKept
    <3> QED
      BY <2>1, <3>3 DEF StillDeletes
  <2> QED
    BY <2>2, <2>3
<1> QED
  BY <1>2, <1>3 DEF SessionsInv, DisablingEndsSessions

\* The DELETE, which may fail.
LEMMA DeleteSessionsStep ==
  ASSUME AccountsInv, SessionsInv, NEW c \in Client, DeleteUserSessions(c)
  PROVE  SessionsInv'
<1> DEFINE v == request[c].target
<1>1. /\ session \in [Token -> users \cup {Nobody}] /\ To(c, NoRequest)
      /\ \/ session' = Ended(SessionsOf(v)) /\ doomed' = doomed
         \/ session' = session /\ doomed' = doomed \ SessionsOf(v)
  BY DEF DeleteUserSessions, AccountsInv
<1>2. doomed' \subseteq doomed /\ doomed \subseteq Token
  BY <1>1 DEF SessionsInv
<1>3. ASSUME NEW s \in doomed', session'[s] # Nobody
      PROVE  StillDeletes(session[s])'
  <2>1. session'[s] = session[s] /\ session[s] # v
    BY <1>1, <1>2, <1>3 DEF Ended, SessionsOf
  <2>2. PICK u : u = session[s]
    OBVIOUS
  <2>3. PICK d \in Client : request[d].pc = "delete" /\ request[d].target = u
    BY <1>2, <1>3, <2>1, <2>2 DEF SessionsInv, DisablingEndsSessions, StillDeletes
  <2>4. StillDeletes(u)'
    BY <1>1, <2>1, <2>2, <2>3, DeletesKept
  <2> QED
    BY <2>1, <2>2, <2>4 DEF StillDeletes
<1> QED
  BY <1>2, <1>3 DEF SessionsInv, DisablingEndsSessions

\* Every statement of every request keeps the invariant of the sessions.
LEMMA SessionsStep ==
  AccountsInv /\ SessionsInv /\ [AccountsNext]_accountVars => SessionsInv'
<1> SUFFICES ASSUME AccountsInv, SessionsInv, [AccountsNext]_accountVars PROVE SessionsInv'
  OBVIOUS
<1>1. CASE EnsureAdmin \/ (\E t \in Token : Expire(t)) \/ UNCHANGED accountVars
  BY <1>1, SessionsKept DEF EnsureAdmin, Expire, accountVars
<1>2. CASE SweepExpired
  BY <1>2, SessionsKept DEF SweepExpired, Ended
<1>3. ASSUME NEW c \in Client, NEW t \in Token, Comes(c, t)
      PROVE  SessionsInv'
  BY <1>3, SessionsKept DEF Comes, Rows
<1>4. ASSUME NEW c \in Client, NEW u \in User,
             Authenticate(c, u) \/ CreateUser(c, u) \/ SetUserDisabled(c, u)
      PROVE  SessionsInv'
  BY <1>4, SessionsKept DEF Authenticate, CreateUser, SetUserDisabled, RequireAdmin, Rows
<1>5. ASSUME NEW c \in Client, RequireAuth(c) \/ Handled(c) \/ Enable(c)
      PROVE  SessionsInv'
  <2>1. /\ session' = session /\ doomed' = doomed /\ request[c].pc # "delete"
        /\ \E r : To(c, r)
    BY <1>5 DEF RequireAuth, Handled, Enable, Rows
  <2> QED
    BY <2>1, SessionsKept
<1>6. ASSUME NEW c \in Client, Logout(c)
      PROVE  SessionsInv'
  BY <1>6, SessionsKept DEF Logout, AccountsInv
<1> QED
  BY <1>1, <1>2, <1>3, <1>4, <1>5, <1>6, CreateSessionStep, DisableStep, DeleteSessionsStep
     DEF AccountsNext

\* No session that a disabling found, or that was opened before its DELETE, is
\* there afterwards, unless that DELETE failed.
THEOREM DisabledSessionsEnd == AccountsSpec => []DisablingEndsSessions
<1>1. AccountsInit => AccountsInv /\ SessionsInv
  BY RequestTypes, NoRequestSound
     DEF AccountsInit, AccountsInv, AdminRemains, SessionsInv, DisablingEndsSessions
<1>2. AccountsInv /\ SessionsInv /\ [AccountsNext]_accountVars => (AccountsInv /\ SessionsInv)'
  BY AccountsStep, SessionsStep
<1>3. SessionsInv => DisablingEndsSessions
  BY DEF SessionsInv
<1> QED
  BY <1>1, <1>2, <1>3, PTL DEF AccountsSpec

-----------------------------------------------------------------------------
(* Notices.                                                                *)

Call == [pc : {"idle", "lock", "look", "insert"}, doc : Doc]

\* A transaction that looks or inserts holds the lock of its document, and the
\* one that inserts still finds what it has seen: no unread notice.
LockedCall(t) ==
  LET d == once[t].doc
  IN  /\ once[t].pc \in {"look", "insert"} => lock[d] = t
      /\ once[t].pc = "insert" => unread[d] = 0

NoticesInv ==
  /\ once \in [Thread -> Call] /\ lock \in [Doc -> Thread \cup {None}]
  /\ unread \in [Doc -> Nat]
  /\ \A t \in Thread : LockedCall(t)
  /\ OneUnread

\* What NotifyAdminsOnce writes to the state of a call.
LEMMA CallTypes ==
  /\ NoCall \in Call /\ NoCall.pc = "idle"
  /\ \A r \in Call : /\ [r EXCEPT !.pc = "look"] \in Call
                     /\ [r EXCEPT !.pc = "insert"] \in Call
BY NoticesAssumption DEF NoCall, Call

\* A transaction that ends gives up its own lock only.
LEMMA EndStep ==
  ASSUME NoticesInv, NEW t \in Thread, End(t)
  PROVE  /\ once' \in [Thread -> Call] /\ lock' \in [Doc -> Thread \cup {None}]
         /\ once'[t].pc = "idle"
         /\ \A u \in Thread \ {t} : /\ once'[u] = once[u]
                                    /\ \A d \in Doc : lock[d] = u => lock'[d] = u
<1>1. /\ once' = [once EXCEPT ![t] = NoCall] /\ once[t].doc \in Doc
      /\ lock' = [lock EXCEPT ![once[t].doc] = IF @ = t THEN None ELSE @]
  BY DEF End, NoticesInv, Call
<1>2. QED
  BY <1>1, CallTypes DEF NoticesInv

\* So does one that fails, or finds a notice.
LEMMA EndKeeps ==
  ASSUME NoticesInv, NEW t \in Thread, End(t), unread' = unread
  PROVE  NoticesInv'
<1>1. \A u \in Thread : once[u].doc \in Doc /\ LockedCall(u)
  BY DEF NoticesInv, Call
<1>2. \A u \in Thread : LockedCall(u)'
  BY <1>1, EndStep DEF LockedCall
<1>3. QED
  BY <1>2, EndStep DEF NoticesInv, OneUnread

\* The one notice is inserted while nobody else can.
LEMMA InsertKeeps ==
  ASSUME NoticesInv, NEW t \in Thread, once[t].pc = "insert", End(t),
         unread' = [unread EXCEPT ![once[t].doc] = @ + 1]
  PROVE  NoticesInv'
<1>1. \A u \in Thread : once[u].doc \in Doc /\ LockedCall(u)
  BY DEF NoticesInv, Call
<1>2. unread[once[t].doc] = 0 /\ lock[once[t].doc] = t
  BY <1>1 DEF LockedCall
<1>3. ASSUME NEW u \in Thread
      PROVE  LockedCall(u)'
  <2>1. CASE u = t
    BY <2>1, EndStep DEF LockedCall
  <2>2. CASE u # t
    <3>1. once[u].pc = "insert" => once[u].doc # once[t].doc
      BY <1>1, <1>2, <2>2 DEF LockedCall
    <3>2. once'[u] = once[u] /\ (lock[once[u].doc] = u => lock'[once[u].doc] = u)
      BY <1>1, <2>2, EndStep
    <3>3. once[u].pc = "insert" => unread'[once[u].doc] = unread[once[u].doc]
      BY <1>1, <3>1 DEF NoticesInv
    <3>4. QED
      BY <1>1, <3>2, <3>3 DEF LockedCall
  <2>3. QED
    BY <2>1, <2>2
<1>4. unread' \in [Doc -> Nat] /\ OneUnread'
  BY <1>1, <1>2 DEF NoticesInv, OneUnread
<1>5. QED
  BY <1>3, <1>4, EndStep DEF NoticesInv

\* Reading notices, and deleting documents, takes nothing from a call.
LEMMA ReadKeeps ==
  ASSUME NoticesInv, once' = once, lock' = lock, unread' \in [Doc -> Nat],
         \A d \in Doc : unread'[d] <= unread[d]
  PROVE  NoticesInv'
<1>1. \A u \in Thread : once[u].doc \in Doc /\ LockedCall(u)
  BY DEF NoticesInv, Call
<1>2. unread \in [Doc -> Nat] /\ OneUnread
  BY DEF NoticesInv
<1>3. \A d \in Doc : /\ unread[d] = 0 => unread'[d] = 0
                     /\ unread'[d] <= 1
  BY <1>2 DEF OneUnread
<1>4. \A u \in Thread : LockedCall(u)'
  BY <1>1, <1>3 DEF LockedCall
<1>5. QED
  BY <1>3, <1>4 DEF NoticesInv, OneUnread

\* Every step of every thread keeps the invariant.
LEMMA NoticesStep == NoticesInv /\ [Next]_vars => NoticesInv'
<1> SUFFICES ASSUME NoticesInv, [Next]_vars PROVE NoticesInv'
  OBVIOUS
<1>1. \A u \in Thread : once[u] \in Call /\ once[u].doc \in Doc /\ LockedCall(u)
  BY DEF NoticesInv, Call
<1>2. ASSUME UNCHANGED noticevars
      PROVE  NoticesInv'
  BY <1>2 DEF noticevars, NoticesInv, LockedCall, OneUnread
<1>3. ASSUME NEW t \in Thread, NEW d \in Doc, NotifyAdminsOnce(t, d)
      PROVE  NoticesInv'
  <2>1. once' = [once EXCEPT ![t] = [pc |-> "lock", doc |-> d]] /\ lock' = lock
        /\ unread' = unread
    BY <1>3 DEF NotifyAdminsOnce
  <2>2. once' \in [Thread -> Call]
    BY <2>1 DEF NoticesInv, Call
  <2>3. \A u \in Thread : LockedCall(u)'
    BY <1>1, <2>1 DEF NoticesInv, LockedCall
  <2>4. QED
    BY <2>1, <2>2, <2>3 DEF NoticesInv, OneUnread
<1>4. ASSUME NEW t \in Thread, Lock(t)
      PROVE  NoticesInv'
  <2>1. /\ lock[once[t].doc] = None /\ lock' = [lock EXCEPT ![once[t].doc] = t]
        /\ once' = [once EXCEPT ![t].pc = "look"] /\ unread' = unread
    BY <1>4 DEF Lock, CanLock
  <2>2. once' \in [Thread -> Call] /\ lock' \in [Doc -> Thread \cup {None}]
    BY <1>1, <2>1, CallTypes DEF NoticesInv
  <2>3. once'[t].pc = "look" /\ once'[t].doc = once[t].doc /\ lock'[once[t].doc] = t
    BY <1>1, <2>1 DEF NoticesInv, Call
  <2>4. ASSUME NEW u \in Thread \ {t}
        PROVE  LockedCall(u)'
    <3>1. once'[u] = once[u] /\ (lock[once[u].doc] = u => lock'[once[u].doc] = u)
      BY <1>1, <2>1, NoticesAssumption DEF NoticesInv
    <3>2. QED
      BY <1>1, <2>1, <3>1 DEF LockedCall
  <2>5. \A u \in Thread : LockedCall(u)'
    BY <2>3, <2>4 DEF LockedCall
  <2>6. QED
    BY <2>1, <2>2, <2>5 DEF NoticesInv, OneUnread
<1>5. ASSUME NEW t \in Thread, Look(t)
      PROVE  NoticesInv'
  <2>1. CASE unread[once[t].doc] > 0
    BY <1>5, <2>1, EndKeeps DEF Look
  <2>2. CASE ~(unread[once[t].doc] > 0)
    <3>1. /\ once[t].pc = "look" /\ once' = [once EXCEPT ![t].pc = "insert"]
          /\ lock' = lock /\ unread' = unread
      BY <1>5, <2>2 DEF Look
    <3>2. unread[once[t].doc] = 0
      BY <1>1, <2>2 DEF NoticesInv
    <3>3. once' \in [Thread -> Call]
      BY <1>1, <3>1, CallTypes DEF NoticesInv
    <3>4. once'[t].doc = once[t].doc
      BY <1>1, <3>1 DEF NoticesInv, Call
    <3>5. \A u \in Thread : LockedCall(u)'
      BY <1>1, <3>1, <3>2, <3>4 DEF NoticesInv, LockedCall
    <3>6. QED
      BY <3>1, <3>3, <3>5 DEF NoticesInv, OneUnread
  <2>3. QED
    BY <2>1, <2>2
<1>6. ASSUME NEW t \in Thread, Insert(t) \/ InsertUnheard(t)
      PROVE  NoticesInv'
  BY <1>6, InsertKeeps DEF Insert, InsertUnheard
<1>7. ASSUME NEW t \in Thread, Fail(t)
      PROVE  NoticesInv'
  BY <1>7, EndKeeps DEF Fail
<1>8. ASSUME NEW t \in Thread, NEW d \in Doc, MarkRead(t, d)
      PROVE  NoticesInv'
  <2>1. unread' \in [Doc -> Nat] /\ \A e \in Doc : unread'[e] <= unread[e]
    BY <1>8 DEF MarkRead, NoticesInv
  <2>2. QED
    BY <1>8, <2>1, ReadKeeps DEF MarkRead
<1>9. ASSUME NEW t \in Thread, MarkAllRead(t)
      PROVE  NoticesInv'
  <2>1. unread' \in [Doc -> Nat] /\ \A e \in Doc : unread'[e] <= unread[e]
    BY <1>9 DEF MarkAllRead, NoticesInv
  <2>2. QED
    BY <1>9, <2>1, ReadKeeps DEF MarkAllRead
<1>10. ASSUME NEW d \in Doc, DeleteDocument(d)
       PROVE  NoticesInv'
  <2>1. unread' \in [Doc -> Nat] /\ \A e \in Doc : unread'[e] <= unread[e]
    BY <1>10 DEF DeleteDocument, NoticesInv
  <2>2. QED
    BY <1>10, <2>1, ReadKeeps DEF DeleteDocument
<1>11. CASE UNCHANGED vars
  BY <1>2, <1>11 DEF vars
<1>12. QED
  BY <1>2, <1>3, <1>4, <1>5, <1>6, <1>7, <1>8, <1>9, <1>10, <1>11 DEF Next, Announce

\* One unread notice asks for a review, whoever asks at once.
THEOREM OneNoticeAsks == Spec => []OneUnread
<1>1. Init => NoticesInv
  <2> SUFFICES ASSUME Init PROVE NoticesInv
    OBVIOUS
  <2>1. once \in [Thread -> Call] /\ \A t \in Thread : once[t].pc = "idle"
    BY CallTypes DEF Init
  <2>2. QED
    BY <2>1 DEF Init, NoticesInv, LockedCall, OneUnread
<1>2. NoticesInv => OneUnread
  BY DEF NoticesInv
<1>3. QED
  BY <1>1, <1>2, NoticesStep, PTL DEF Spec

-----------------------------------------------------------------------------
(* The database handle and the migrations.                                 *)

Migrating == {"ping", "check", "script", "record", "commit"}

RunState == [pc : RunPC, at : Nat \ {0}, pool : 0 .. Pools, fails : Int]

\* The types the proofs rest on.
Typed ==
  /\ applied \in Seq(Nat)
  /\ key \in [Proc -> Nat]
  /\ run \in [Proc -> RunState]
  /\ handle \in [Proc -> 0 .. Pools]
  /\ open \in [Proc -> SUBSET (1 .. Pools)]
  /\ retired \in [Proc -> SUBSET (1 .. Pools)]

\* A process has seen every script before the one it is at, and the row it has
\* inserted is its own and the next one of the table.
Orderly(p) ==
  /\ run[p].pc \in Migrating => run[p].at <= Len(applied) + 1
  /\ run[p].pc = "commit" => run[p].at = Len(applied) + 1 /\ key[p] = run[p].at
  /\ run[p].pc # "commit" => key[p] = 0

MigrationInv ==
  /\ Typed /\ AppliedOnce
  /\ \A p \in Proc : Orderly(p)
  /\ \A p, q \in Proc : p # q /\ run[p].pc = "commit" => run[q].pc # "commit"

Idle == {"new", "backoff", "dial", "watch", "over"}

\* Nothing but the handle, the pool that is being connected and those about to
\* be closed is open, and these are different ones.
PoolsOf(p) ==
  /\ handle[p] # 0 => handle[p] \in open[p] \ retired[p]
  /\ open[p] \subseteq retired[p] \cup {handle[p], run[p].pool}
  /\ retired[p] \subseteq open[p]
  /\ run[p].pool # 0 => run[p].pool \in open[p] \ (retired[p] \cup {handle[p]})
  /\ run[p].pc \in Idle => run[p].pool = 0

PoolsInv == Typed /\ \A p \in Proc : PoolsOf(p)

\* The state of Run after one of its fields is assigned.
LEMMA RunField ==
  /\ \A r \in RunState, x \in RunPC : [r EXCEPT !.pc = x] \in RunState
  /\ \A r \in RunState, n \in Nat \ {0} : [r EXCEPT !.at = n] \in RunState
  /\ \A r \in RunState, l \in 0 .. Pools : [r EXCEPT !.pool = l] \in RunState
  /\ \A r \in RunState, f \in Int : [r EXCEPT !.fails = f] \in RunState
  /\ \A r \in RunState : r.at + 1 \in Nat \ {0} /\ r.fails + 1 \in Int
BY DEF RunState

\* So after two of them.
LEMMA RunFields ==
  ASSUME NEW r \in RunState, NEW x \in RunPC
  PROVE  /\ [r EXCEPT !.pc = x, !.at = @ + 1] \in RunState
         /\ [r EXCEPT !.pc = x, !.fails = 0] \in RunState
         /\ [r EXCEPT !.pc = x, !.pool = 0] \in RunState
<1>1. /\ [r EXCEPT !.pc = x, !.at = @ + 1] = [[r EXCEPT !.pc = x] EXCEPT !.at = r.at + 1]
      /\ [r EXCEPT !.pc = x, !.fails = 0] = [[r EXCEPT !.pc = x] EXCEPT !.fails = 0]
      /\ [r EXCEPT !.pc = x, !.pool = 0] = [[r EXCEPT !.pc = x] EXCEPT !.pool = 0]
  BY DEF RunState
<1>2. 0 \in 0 .. Pools
  BY PostgresAssumption
<1>3. [r EXCEPT !.pc = x] \in RunState /\ r.at + 1 \in Nat \ {0}
  BY RunField
<1>4. [[r EXCEPT !.pc = x] EXCEPT !.at = r.at + 1] \in RunState
  <2>1. \A q \in RunState, n \in Nat \ {0} : [q EXCEPT !.at = n] \in RunState
    BY RunField
  <2>2. QED
    BY <1>3, <2>1
<1>5. [[r EXCEPT !.pc = x] EXCEPT !.fails = 0] \in RunState
  <2>1. \A q \in RunState : [q EXCEPT !.fails = 0] \in RunState
    BY DEF RunState
  <2>2. QED
    BY <1>3, <2>1
<1>6. [[r EXCEPT !.pc = x] EXCEPT !.pool = 0] \in RunState
  BY <1>2, <1>3, RunField
<1>7. QED
  BY <1>1, <1>4, <1>5, <1>6

\* What Run does to the state of one process.
LEMMA RunTyped ==
  ASSUME Typed, NEW p \in Proc, NEW x \in RunPC, NEW l \in 0 .. Pools,
         \/ run' = run
         \/ run' = [run EXCEPT ![p].pc = x]
         \/ run' = [run EXCEPT ![p].at = @ + 1]
         \/ run' = [run EXCEPT ![p].fails = 0]
         \/ run' = [run EXCEPT ![p].fails = @ + 1]
         \/ run' = [run EXCEPT ![p].pc = x, ![p].at = @ + 1]
         \/ run' = [run EXCEPT ![p].pc = x, ![p].fails = 0]
         \/ run' = [run EXCEPT ![p].pc = x, ![p].pool = 0]
         \/ run' = [run EXCEPT ![p] = [pc |-> x, at |-> 1, pool |-> l, fails |-> 0]]
  PROVE  run' \in [Proc -> RunState]
<1>1. run \in [Proc -> RunState] /\ run[p] \in RunState
  BY DEF Typed
<1>2. [pc |-> x, at |-> 1, pool |-> l, fails |-> 0] \in RunState
  BY DEF RunState
<1>3. CASE \/ run' = [run EXCEPT ![p].pc = x, ![p].at = @ + 1]
           \/ run' = [run EXCEPT ![p].pc = x, ![p].fails = 0]
           \/ run' = [run EXCEPT ![p].pc = x, ![p].pool = 0]
  <2>1. /\ [run[p] EXCEPT !.pc = x, !.at = @ + 1] \in RunState
        /\ [run[p] EXCEPT !.pc = x, !.fails = 0] \in RunState
        /\ [run[p] EXCEPT !.pc = x, !.pool = 0] \in RunState
    BY <1>1, RunFields
  <2>2. CASE run' = [run EXCEPT ![p].pc = x, ![p].at = @ + 1]
    BY <1>1, <2>1, <2>2
  <2>3. CASE run' = [run EXCEPT ![p].pc = x, ![p].fails = 0]
    BY <1>1, <2>1, <2>3
  <2>4. CASE run' = [run EXCEPT ![p].pc = x, ![p].pool = 0]
    BY <1>1, <2>1, <2>4
  <2>5. QED
    BY <1>3, <2>2, <2>3, <2>4
<1>4. CASE \/ run' = [run EXCEPT ![p].pc = x]
           \/ run' = [run EXCEPT ![p].at = @ + 1]
           \/ run' = [run EXCEPT ![p].fails = 0]
           \/ run' = [run EXCEPT ![p].fails = @ + 1]
  <2>1. CASE run' = [run EXCEPT ![p].pc = x]
    BY <1>1, <2>1, RunField
  <2>2. CASE run' = [run EXCEPT ![p].at = @ + 1]
    BY <1>1, <2>2, RunField
  <2>3. CASE run' = [run EXCEPT ![p].fails = 0]
    BY <1>1, <2>3, RunField
  <2>4. CASE run' = [run EXCEPT ![p].fails = @ + 1]
    BY <1>1, <2>4, RunField
  <2>5. QED
    BY <1>4, <2>1, <2>2, <2>3, <2>4
<1>5. QED
  BY <1>1, <1>2, <1>3, <1>4

\* Set keeps the types of the handle and of the pools it retires.
LEMMA SetTypes ==
  ASSUME Typed, NEW p \in Proc, NEW pool \in 0 .. Pools, Set(p, pool)
  PROVE  handle' \in [Proc -> 0 .. Pools] /\ retired' \in [Proc -> SUBSET (1 .. Pools)]
<1>1. handle[p] \in 0 .. Pools /\ Pools \in Nat
  BY PostgresAssumption DEF Typed
<1>2. {handle[p]} \ {0, pool} \subseteq 1 .. Pools
  BY <1>1
<1>3. QED
  BY <1>2 DEF Typed, Set

\* The types hold at first.
LEMMA InitTyped == PostgresInit => Typed
<1> SUFFICES ASSUME PostgresInit PROVE Typed
  OBVIOUS
<1>1. run \in [Proc -> RunState]
  <2>1. 0 \in 0 .. Pools
    BY PostgresAssumption
  <2>2. [pc |-> "new", at |-> 1, pool |-> 0, fails |-> 0] \in RunState
    BY <2>1 DEF RunState, RunPC
  <2>3. QED
    BY <2>2 DEF PostgresInit
<1>2. applied \in Seq(Nat) /\ 0 \in 0 .. Pools
  BY PostgresAssumption DEF PostgresInit
<1>3. QED
  BY <1>1, <1>2 DEF PostgresInit, Typed

\* Every step of every process keeps the types.
LEMMA TypedStep == Typed /\ [PostgresNext]_pgVars => Typed'
<1> SUFFICES ASSUME Typed, [PostgresNext]_pgVars PROVE Typed'
  OBVIOUS
<1>0. 0 \in 0 .. Pools /\ Pools \in Nat
  BY PostgresAssumption
<1>1. ASSUME NEW p \in Proc, Failed(p), applied' \in Seq(Nat)
      PROVE  Typed'
  <2>1. run' \in [Proc -> RunState]
    BY <1>0, <1>1, RunTyped DEF Failed, RunPC
  <2>2. handle' \in [Proc -> 0 .. Pools] /\ retired' \in [Proc -> SUBSET (1 .. Pools)]
    BY <1>0, <1>1, SetTypes DEF Failed
  <2>3. QED
    BY <1>0, <1>1, <2>1, <2>2 DEF Failed, Typed
<1>2. ASSUME NEW p \in Proc, Start(p) \/ Backoff(p) \/ RunEnds(p) \/ Ping(p) \/ Script(p)
      PROVE  Typed'
  <2>1. run' \in [Proc -> RunState]
    BY <1>0, <1>2, RunTyped DEF Start, Backoff, RunEnds, Ping, Script, Proceed, RunPC
  <2>2. QED
    BY <1>2, <2>1 DEF Start, Backoff, RunEnds, Ping, Script, Typed
<1>3. ASSUME NEW p \in Proc, Dial(p)
      PROVE  Typed'
  <2>1. PICK id \in (1 .. Pools) \ open[p] :
          /\ open' = [open EXCEPT ![p] = @ \cup {id}]
          /\ run' = [run EXCEPT ![p] = [pc |-> "ping", at |-> 1, pool |-> id, fails |-> 0]]
    BY <1>3 DEF Dial
  <2>2. run' \in [Proc -> RunState]
    <3>1. id \in 0 .. Pools /\ "ping" \in RunPC
      BY <1>0 DEF RunPC
    <3>2. QED
      BY <2>1, <3>1, RunTyped
  <2>3. QED
    BY <1>3, <2>1, <2>2 DEF Dial, Typed
<1>4. ASSUME NEW p \in Proc, ConnectFails(p)
      PROVE  Typed'
  BY <1>1, <1>4 DEF ConnectFails, Typed
<1>5. ASSUME NEW p \in Proc, Check(p)
      PROVE  Typed'
  <2>1. run' \in [Proc -> RunState]
    BY <1>0, <1>5, RunTyped DEF Check, Proceed, RunPC
  <2>2. run[p].pool \in 0 .. Pools
    BY DEF Typed, RunState
  <2>3. handle' \in [Proc -> 0 .. Pools] /\ retired' \in [Proc -> SUBSET (1 .. Pools)]
    BY <1>5, <2>2, SetTypes DEF Check, Typed
  <2>4. QED
    BY <1>5, <2>1, <2>3 DEF Check, Typed
<1>6. ASSUME NEW p \in Proc, Record(p)
      PROVE  Typed'
  <2>1. CASE IsApplied(run[p].at)
    BY <1>1, <1>6, <2>1 DEF Record, Typed
  <2>2. CASE ~IsApplied(run[p].at)
    <3>1. run' \in [Proc -> RunState]
      BY <1>0, <1>6, <2>2, RunTyped DEF Record, Proceed, RunPC
    <3>2. run[p].at \in Nat
      BY DEF Typed, RunState
    <3>3. QED
      BY <1>6, <2>2, <3>1, <3>2 DEF Record, Typed
  <2>3. QED
    BY <2>1, <2>2
<1>7. ASSUME NEW p \in Proc
      PROVE  Append(applied, run[p].at) \in Seq(Nat)
  BY DEF Typed, RunState
<1>8. ASSUME NEW p \in Proc, Commit(p)
      PROVE  Typed'
  <2>1. run' \in [Proc -> RunState]
    BY <1>0, <1>8, RunTyped DEF Commit, RunPC
  <2>2. QED
    BY <1>7, <1>8, <2>1 DEF Commit, Typed
<1>9. ASSUME NEW p \in Proc, CommitLost(p)
      PROVE  Typed'
  <2>1. applied' \in Seq(Nat)
    BY <1>7, <1>9 DEF CommitLost, Typed
  <2>2. QED
    BY <1>1, <1>9, <2>1 DEF CommitLost
<1>10. ASSUME NEW p \in Proc, Watch(p) \/ WatchLate(p)
       PROVE  Typed'
  <2>1. run' \in [Proc -> RunState]
    BY <1>0, <1>10, RunTyped DEF Watch, WatchLate, Proceed, RunPC
  <2>2. QED
    BY <1>10, <2>1 DEF Watch, WatchLate, Typed
<1>11. ASSUME NEW p \in Proc, WatchFails(p)
       PROVE  Typed'
  <2>1. run' \in [Proc -> RunState]
    BY <1>0, <1>11, RunTyped DEF WatchFails, RunPC
  <2>2. handle' \in [Proc -> 0 .. Pools] /\ retired' \in [Proc -> SUBSET (1 .. Pools)]
    BY <1>0, <1>11, SetTypes DEF WatchFails, Typed
  <2>3. QED
    BY <1>11, <2>1, <2>2 DEF WatchFails, Typed
<1>12. ASSUME NEW p \in Proc, CheckLate(p)
       PROVE  Typed'
  <2>1. run' \in [Proc -> RunState]
    BY <1>0, <1>12, RunTyped DEF CheckLate, RunPC
  <2>2. run[p].pool \in 0 .. Pools
    BY DEF Typed, RunState
  <2>3. handle' \in [Proc -> 0 .. Pools] /\ retired' \in [Proc -> SUBSET (1 .. Pools)]
    BY <1>12, <2>2, SetTypes DEF CheckLate
  <2>4. QED
    BY <1>12, <2>1, <2>3 DEF CheckLate, Typed
<1>13. ASSUME NEW p \in Proc, CloseRetired(p) \/ Interrupt(p) \/ Close(p)
       PROVE  Typed'
  <2>1. CASE CloseRetired(p)
    BY <1>0, <2>1 DEF CloseRetired, Typed
  <2>2. CASE Interrupt(p)
    BY <1>0, <2>2 DEF Interrupt, Typed
  <2>3. CASE Close(p)
    BY <1>0, <2>3 DEF Close, Typed
  <2>4. QED
    BY <1>13, <2>1, <2>2, <2>3
<1>14. CASE Outage \/ Recovers \/ UNCHANGED pgVars
  BY <1>14 DEF Outage, Recovers, pgVars, Typed
<1>15. QED
  BY <1>2, <1>3, <1>4, <1>5, <1>6, <1>8, <1>9, <1>10, <1>11, <1>12, <1>13, <1>14
     DEF PostgresNext, Run

\* schema_migrations is a prefix of the scripts.
LEMMA AppliedPrefix ==
  ASSUME Typed, AppliedOnce, NEW v \in Nat \ {0}
  PROVE  IsApplied(v) <=> v <= Len(applied)
<1>1. DOMAIN applied = 1 .. Len(applied) /\ Len(applied) \in Nat
  BY DEF Typed
<1>2. v <= Len(applied) <=> v \in DOMAIN applied
  BY <1>1
<1>3. QED
  BY <1>2 DEF AppliedOnce, IsApplied

\* A step of one process that applies nothing.
LEMMA QuietStep ==
  ASSUME MigrationInv, NEW p \in Proc, applied' = applied, Orderly(p)',
         \A q \in Proc \ {p} : run'[q] = run[q] /\ key'[q] = key[q],
         run'[p].pc = "commit" => \A q \in Proc \ {p} : run[q].pc # "commit"
  PROVE  /\ AppliedOnce' /\ \A q \in Proc : Orderly(q)'
         /\ \A q, u \in Proc : q # u /\ run'[q].pc = "commit" => run'[u].pc # "commit"
<1>1. AppliedOnce'
  BY DEF MigrationInv, AppliedOnce
<1>2. \A q \in Proc : Orderly(q)'
  BY DEF MigrationInv, Orderly
<1>3. QED
  BY <1>1, <1>2 DEF MigrationInv

\* A process that goes back to the start.
LEMMA FailedStep ==
  ASSUME MigrationInv, NEW p \in Proc, Failed(p), applied' = applied
  PROVE  /\ AppliedOnce' /\ \A q \in Proc : Orderly(q)'
         /\ \A q, u \in Proc : q # u /\ run'[q].pc = "commit" => run'[u].pc # "commit"
<1>1. run'[p].pc = "backoff" /\ key'[p] = 0
  BY DEF Failed, MigrationInv, Typed
<1>2. \A q \in Proc \ {p} : run'[q] = run[q] /\ key'[q] = key[q]
  BY DEF Failed, MigrationInv, Typed
<1>3. Orderly(p)'
  BY <1>1 DEF Orderly, Migrating
<1>4. QED
  BY <1>1, <1>2, <1>3, QuietStep

\* The next script is recorded by the only process that can record it.
LEMMA AppliedStep ==
  ASSUME MigrationInv, NEW p \in Proc, run[p].pc = "commit",
         applied' = Append(applied, run[p].at), key'[p] = 0,
         \/ run'[p].pc = "backoff"
         \/ run'[p].pc = "check" /\ run'[p].at = run[p].at + 1,
         \A q \in Proc \ {p} : run'[q] = run[q] /\ key'[q] = key[q]
  PROVE  /\ AppliedOnce' /\ \A q \in Proc : Orderly(q)'
         /\ \A q, u \in Proc : q # u /\ run'[q].pc = "commit" => run'[u].pc # "commit"
<1>1. run[p].at = Len(applied) + 1 /\ applied \in Seq(Nat)
  BY DEF MigrationInv, Orderly, Typed
<1>2. \A q \in Proc : run[q].at \in Nat
  BY DEF MigrationInv, Typed, RunState
<1>3. Len(applied') = Len(applied) + 1 /\ Len(applied) \in Nat
  BY <1>1
<1>4. AppliedOnce'
  BY <1>1 DEF MigrationInv, AppliedOnce
<1>5. Orderly(p)'
  BY <1>1, <1>3 DEF Orderly, Migrating
<1>6. ASSUME NEW q \in Proc \ {p}
      PROVE  Orderly(q)' /\ run'[q].pc # "commit"
  BY <1>2, <1>3 DEF MigrationInv, Orderly
<1>7. run'[p].pc # "commit"
  OBVIOUS
<1>8. QED
  BY <1>4, <1>5, <1>6, <1>7

\* Every step keeps the migrations in order.
LEMMA MigrationStep == MigrationInv /\ [PostgresNext]_pgVars => MigrationInv'
<1> DEFINE Goal == /\ AppliedOnce' /\ \A q \in Proc : Orderly(q)'
                   /\ \A q, u \in Proc : q # u /\ run'[q].pc = "commit"
                                           => run'[u].pc # "commit"
<1> SUFFICES ASSUME MigrationInv, [PostgresNext]_pgVars PROVE MigrationInv'
  OBVIOUS
<1>0. Typed /\ Typed' /\ AppliedOnce
  BY TypedStep DEF MigrationInv
<1>1. ASSUME NEW p \in Proc
      PROVE  /\ run \in [Proc -> RunState] /\ run[p] \in RunState
             /\ key \in [Proc -> Nat] /\ run[p].at \in Nat \ {0} /\ Orderly(p)
  BY <1>0 DEF Typed, RunState, MigrationInv
<1>2. ASSUME NEW p \in Proc, Start(p) \/ Backoff(p) \/ RunEnds(p)
                             \/ Watch(p) \/ WatchFails(p) \/ WatchLate(p) \/ CheckLate(p)
      PROVE  Goal
  <2>1. run'[p].pc \notin Migrating /\ run[p].pc # "commit"
    BY <1>1, <1>2 DEF Start, Backoff, RunEnds, Watch, WatchFails, WatchLate, CheckLate,
                      Proceed, Migrating, RunState
  <2>2. /\ applied' = applied /\ key' = key
        /\ \A q \in Proc \ {p} : run'[q] = run[q]
    BY <1>1, <1>2 DEF Start, Backoff, RunEnds, Watch, WatchFails, WatchLate, CheckLate,
                      Proceed
  <2>3. Orderly(p)'
    BY <1>1, <2>1, <2>2 DEF Orderly, Migrating
  <2>4. QED
    BY <2>1, <2>2, <2>3, QuietStep DEF Migrating
<1>3. ASSUME NEW p \in Proc, Dial(p) \/ Ping(p) \/ Script(p)
      PROVE  Goal
  <2>1. /\ run'[p].pc \in Migrating \ {"commit"} /\ run[p].pc # "commit"
        /\ \/ run'[p].at = 1
           \/ run[p].pc \in Migrating /\ run'[p].at = run[p].at
    BY <1>1, <1>3 DEF Dial, Ping, Script, Proceed, RunState, Migrating
  <2>2. /\ applied' = applied /\ key' = key
        /\ \A q \in Proc \ {p} : run'[q] = run[q]
    BY <1>1, <1>3 DEF Dial, Ping, Script, Proceed
  <2>3. 1 <= Len(applied) + 1
    BY <1>0 DEF Typed
  <2>4. Orderly(p)'
    BY <1>1, <2>1, <2>2, <2>3 DEF Orderly
  <2>5. QED
    BY <2>1, <2>2, <2>4, QuietStep
<1>4. ASSUME NEW p \in Proc, ConnectFails(p)
      PROVE  Goal
  BY <1>4, FailedStep DEF ConnectFails
<1>5. ASSUME NEW p \in Proc, Check(p)
      PROVE  Goal
  <2>1. /\ run'[p].pc \in {"watch", "check", "script"} /\ run[p].pc = "check"
        /\ run'[p].pc \in Migrating => \/ run'[p].at = run[p].at
                                       \/ IsApplied(run[p].at) /\ run'[p].at = run[p].at + 1
    BY <1>1, <1>5 DEF Check, Proceed, RunState, Migrating
  <2>2. /\ applied' = applied /\ key' = key
        /\ \A q \in Proc \ {p} : run'[q] = run[q]
    BY <1>1, <1>5 DEF Check, Proceed
  <2>3. Orderly(p)'
    BY <1>0, <1>1, <2>1, <2>2, AppliedPrefix DEF Orderly, Migrating, Typed
  <2>4. QED
    BY <2>1, <2>2, <2>3, QuietStep
<1>6. ASSUME NEW p \in Proc, Record(p)
      PROVE  Goal
  <2>1. CASE IsApplied(run[p].at)
    BY <1>6, <2>1, FailedStep DEF Record
  <2>2. CASE ~IsApplied(run[p].at)
    <3>1. /\ run[p].pc = "record" /\ run'[p].pc = "commit" /\ run'[p].at = run[p].at
          /\ key'[p] = run[p].at /\ applied' = applied
          /\ \A q \in Proc \ {p} : run'[q] = run[q] /\ key'[q] = key[q]
      BY <1>1, <1>6, <2>2 DEF Record, Proceed, RunState
    <3>2. run[p].at = Len(applied) + 1
      <4>1. run[p].at <= Len(applied) + 1 /\ Len(applied) \in Nat
        BY <1>0, <1>1, <3>1 DEF Orderly, Migrating, Typed
      <4>2. ~(run[p].at <= Len(applied))
        BY <1>0, <1>1, <2>2, AppliedPrefix
      <4>3. QED
        BY <1>1, <4>1, <4>2
    <3>3. Orderly(p)'
      BY <3>1, <3>2 DEF Orderly, Migrating
    <3>4. \A q \in Proc \ {p} : run[q].pc # "commit"
      BY <1>1, <1>6, <3>2 DEF Record, Orderly
    <3>5. QED
      BY <3>1, <3>3, <3>4, QuietStep
  <2>3. QED
    BY <2>1, <2>2
<1>7. ASSUME NEW p \in Proc, Commit(p)
      PROVE  Goal
  <2>1. /\ run[p].pc = "commit" /\ applied' = Append(applied, run[p].at) /\ key'[p] = 0
        /\ run'[p].pc = "check" /\ run'[p].at = run[p].at + 1
        /\ \A q \in Proc \ {p} : run'[q] = run[q] /\ key'[q] = key[q]
    BY <1>1, <1>7 DEF Commit, RunState
  <2>2. QED
    BY <2>1, AppliedStep
<1>8. ASSUME NEW p \in Proc, CommitLost(p)
      PROVE  Goal
  <2>1. CASE applied' = applied
    BY <1>8, <2>1, FailedStep DEF CommitLost
  <2>2. CASE applied' = Append(applied, run[p].at)
    <3>1. /\ run[p].pc = "commit" /\ key'[p] = 0 /\ run'[p].pc = "backoff"
          /\ \A q \in Proc \ {p} : run'[q] = run[q] /\ key'[q] = key[q]
      BY <1>1, <1>8 DEF CommitLost, Failed
    <3>2. QED
      BY <2>2, <3>1, AppliedStep
  <2>3. QED
    BY <1>8, <2>1, <2>2 DEF CommitLost
<1>9. ASSUME UNCHANGED <<applied, key, run>>
       PROVE  Goal
  BY <1>9 DEF MigrationInv, AppliedOnce, Orderly
<1>10. ASSUME NEW p \in Proc, CloseRetired(p) \/ Interrupt(p) \/ Close(p)
       PROVE  UNCHANGED <<applied, key, run>>
  BY <1>10 DEF CloseRetired, Interrupt, Close
<1>11. ASSUME Outage \/ Recovers \/ UNCHANGED pgVars
       PROVE  Goal
  BY <1>9, <1>11 DEF Outage, Recovers, pgVars
<1>12. Goal
  BY <1>2, <1>3, <1>4, <1>5, <1>6, <1>7, <1>8, <1>9, <1>10, <1>11 DEF PostgresNext, Run
<1>13. QED
  BY <1>0, <1>12 DEF MigrationInv

\* Each migration is committed once, in the order of the names.
THEOREM MigrationsAppliedOnce == PostgresSpec => []AppliedOnce
<1>1. PostgresInit => MigrationInv
  <2> SUFFICES ASSUME PostgresInit PROVE MigrationInv
    OBVIOUS
  <2>1. Typed
    BY InitTyped
  <2>2. QED
    BY <2>1 DEF PostgresInit, MigrationInv, AppliedOnce, Orderly, Migrating
<1>2. MigrationInv => AppliedOnce
  BY DEF MigrationInv
<1>3. QED
  BY <1>1, <1>2, MigrationStep, PTL DEF PostgresSpec

-----------------------------------------------------------------------------
(* The handle.                                                             *)

\* connect fails: its pool is closed and the handle is retired.
LEMMA FailedPools ==
  ASSUME Typed, NEW p \in Proc, PoolsOf(p), Failed(p)
  PROVE  PoolsOf(p)'
<1>1. /\ open'[p] = open[p] \ {run[p].pool} /\ handle'[p] = 0
      /\ retired'[p] = retired[p] \cup ({handle[p]} \ {0})
      /\ run'[p].pool = 0
  BY DEF Typed, Failed, Set
<1>2. open[p] \subseteq 1 .. Pools /\ Pools \in Nat
  BY PostgresAssumption DEF Typed
<1>3. QED
  BY <1>1, <1>2 DEF PoolsOf

\* connect publishes its pool and retires the handle it replaces.
LEMMA SetPools ==
  ASSUME Typed, NEW p \in Proc, PoolsOf(p), Set(p, run[p].pool), open' = open,
         run'[p].pool = 0
  PROVE  PoolsOf(p)'
<1>1. /\ open'[p] = open[p] /\ handle'[p] = run[p].pool
      /\ retired'[p] = retired[p] \cup ({handle[p]} \ {0, run[p].pool})
  BY DEF Typed, Set
<1>2. QED
  BY <1>1 DEF PoolsOf

\* Every step keeps the pools of every process apart.
LEMMA PoolsStep == PoolsInv /\ [PostgresNext]_pgVars => PoolsInv'
<1> SUFFICES ASSUME PoolsInv, [PostgresNext]_pgVars PROVE PoolsInv'
  OBVIOUS
<1>0. Typed /\ Typed' /\ \A p \in Proc : PoolsOf(p)
  BY TypedStep DEF PoolsInv
<1>1. ASSUME NEW p \in Proc
      PROVE  /\ run \in [Proc -> RunState] /\ run[p] \in RunState
             /\ handle \in [Proc -> 0 .. Pools] /\ PoolsOf(p)
             /\ open \in [Proc -> SUBSET (1 .. Pools)]
             /\ retired \in [Proc -> SUBSET (1 .. Pools)]
  BY <1>0 DEF Typed
<1>2. ASSUME NEW p \in Proc, PoolsOf(p)',
             \A q \in Proc \ {p} : /\ run'[q] = run[q] /\ handle'[q] = handle[q]
                                   /\ open'[q] = open[q] /\ retired'[q] = retired[q]
      PROVE  PoolsInv'
  BY <1>0, <1>2 DEF PoolsInv, PoolsOf
<1>3. ASSUME NEW p \in Proc, Failed(p)
      PROVE  PoolsInv'
  <2>1. \A q \in Proc \ {p} : /\ run'[q] = run[q] /\ handle'[q] = handle[q]
                              /\ open'[q] = open[q] /\ retired'[q] = retired[q]
    BY <1>1, <1>3 DEF Failed, Set
  <2>2. QED
    BY <1>0, <1>2, <1>3, <2>1, FailedPools
<1>4. ASSUME NEW p \in Proc, UNCHANGED <<handle, open, retired>>,
             run'[p].pool = run[p].pool,
             run'[p].pc \in Idle => run[p].pc \in Idle,
             \A q \in Proc \ {p} : run'[q] = run[q]
      PROVE  PoolsInv'
  <2>1. PoolsOf(p)'
    BY <1>1, <1>4 DEF PoolsOf
  <2>2. QED
    BY <1>2, <1>4, <2>1
<1>5. ASSUME NEW p \in Proc, Set(p, run[p].pool), open' = open, run'[p].pool = 0,
             \A q \in Proc \ {p} : run'[q] = run[q]
      PROVE  PoolsInv'
  <2>1. \A q \in Proc \ {p} : handle'[q] = handle[q] /\ retired'[q] = retired[q]
    BY <1>1, <1>5 DEF Set
  <2>2. QED
    BY <1>0, <1>2, <1>5, <2>1, SetPools
<1>6. ASSUME NEW p \in Proc, Start(p) \/ Backoff(p) \/ RunEnds(p) \/ Ping(p) \/ Script(p)
                             \/ Watch(p) \/ WatchLate(p)
      PROVE  PoolsInv'
  <2>1. /\ run'[p].pool = run[p].pool
        /\ run'[p].pc \in Idle => run[p].pc \in Idle
        /\ \A q \in Proc \ {p} : run'[q] = run[q]
    BY <1>1, <1>6 DEF Start, Backoff, RunEnds, Ping, Script, Watch, WatchLate, Proceed,
                      RunState, Idle
  <2>2. UNCHANGED <<handle, open, retired>>
    BY <1>6 DEF Start, Backoff, RunEnds, Ping, Script, Watch, WatchLate
  <2>3. QED
    BY <1>4, <2>1, <2>2
<1>7. ASSUME NEW p \in Proc, Dial(p)
      PROVE  PoolsInv'
  <2>1. PICK id \in (1 .. Pools) \ open[p] :
          /\ open' = [open EXCEPT ![p] = @ \cup {id}]
          /\ run' = [run EXCEPT ![p] = [pc |-> "ping", at |-> 1, pool |-> id, fails |-> 0]]
    BY <1>7 DEF Dial
  <2>2. /\ run[p].pool = 0 /\ 0 \notin open[p] /\ retired' = retired /\ handle' = handle
        /\ 0 \in 0 .. Pools
    BY <1>1, <1>7, PostgresAssumption DEF Dial, PoolsOf, Idle
  <2>3. /\ open'[p] = open[p] \cup {id} /\ run'[p].pool = id /\ run'[p].pc = "ping"
        /\ \A q \in Proc \ {p} : run'[q] = run[q] /\ open'[q] = open[q]
    BY <1>1, <2>1
  <2>4. PoolsOf(p)'
    BY <1>1, <2>2, <2>3 DEF PoolsOf, Idle
  <2>5. QED
    BY <1>2, <2>2, <2>3, <2>4
<1>8. ASSUME NEW p \in Proc, Check(p)
      PROVE  PoolsInv'
  <2>1. \A q \in Proc \ {p} : run'[q] = run[q]
    BY <1>1, <1>8 DEF Check, Proceed
  <2>2. CASE run[p].at > Versions
    BY <1>1, <1>5, <1>8, <2>1, <2>2 DEF Check
  <2>3. CASE ~(run[p].at > Versions)
    <3>1. /\ UNCHANGED <<handle, open, retired>> /\ run'[p].pool = run[p].pool
          /\ run'[p].pc \notin Idle
      BY <1>1, <1>8, <2>3 DEF Check, Proceed, RunState, Idle
    <3>2. QED
      BY <1>4, <2>1, <3>1
  <2>4. QED
    BY <2>2, <2>3
<1>9. ASSUME NEW p \in Proc, Record(p)
      PROVE  PoolsInv'
  <2>1. CASE IsApplied(run[p].at)
    BY <1>3, <1>9, <2>1 DEF Record
  <2>2. CASE ~IsApplied(run[p].at)
    <3>1. /\ UNCHANGED <<handle, open, retired>> /\ run'[p].pool = run[p].pool
          /\ run'[p].pc \notin Idle /\ \A q \in Proc \ {p} : run'[q] = run[q]
      BY <1>1, <1>9, <2>2 DEF Record, Proceed, RunState, Idle
    <3>2. QED
      BY <1>4, <3>1
  <2>3. QED
    BY <2>1, <2>2
<1>10. ASSUME NEW p \in Proc, Commit(p)
       PROVE  PoolsInv'
  <2>1. /\ UNCHANGED <<handle, open, retired>> /\ run'[p].pool = run[p].pool
        /\ run'[p].pc \notin Idle /\ \A q \in Proc \ {p} : run'[q] = run[q]
    BY <1>1, <1>10 DEF Commit, RunState, Idle
  <2>2. QED
    BY <1>4, <2>1
<1>11. ASSUME NEW p \in Proc, ConnectFails(p) \/ CommitLost(p)
       PROVE  PoolsInv'
  BY <1>3, <1>11 DEF ConnectFails, CommitLost
<1>12. ASSUME NEW p \in Proc, WatchFails(p)
       PROVE  PoolsInv'
  <2>1. /\ run[p].pc = "watch" /\ run[p].pool = 0 /\ open' = open /\ run'[p].pool = run[p].pool
        /\ \A q \in Proc \ {p} : run'[q] = run[q]
    BY <1>1, <1>12 DEF WatchFails, PoolsOf, Idle, RunState
  <2>2. CASE run[p].fails + 1 < PingLimit
    <3>1. UNCHANGED <<handle, open, retired>>
      BY <1>12, <2>2 DEF WatchFails
    <3>2. QED
      BY <1>4, <2>1, <3>1 DEF Idle
  <2>3. CASE ~(run[p].fails + 1 < PingLimit)
    BY <1>5, <1>12, <2>1, <2>3 DEF WatchFails
  <2>4. QED
    BY <2>2, <2>3
<1>13. ASSUME NEW p \in Proc, CheckLate(p)
       PROVE  PoolsInv'
  <2>1. /\ run'[p].pool = 0 /\ open' = open /\ Set(p, run[p].pool)
        /\ \A q \in Proc \ {p} : run'[q] = run[q]
    BY <1>1, <1>13 DEF CheckLate, RunState
  <2>2. QED
    BY <1>5, <2>1
<1>14. ASSUME NEW p \in Proc, CloseRetired(p)
       PROVE  PoolsInv'
  <2>1. /\ open'[p] = open[p] \ retired[p] /\ retired'[p] = {}
        /\ run' = run /\ handle' = handle
        /\ \A q \in Proc \ {p} : open'[q] = open[q] /\ retired'[q] = retired[q]
    BY <1>1, <1>14 DEF CloseRetired
  <2>2. PoolsOf(p)'
    BY <1>1, <2>1 DEF PoolsOf
  <2>3. QED
    BY <1>2, <2>1, <2>2
<1>15. ASSUME NEW p \in Proc, Close(p)
       PROVE  PoolsInv'
  <2>1. /\ open'[p] = open[p] \ {handle[p]} /\ handle'[p] = 0
        /\ run' = run /\ retired' = retired
        /\ \A q \in Proc \ {p} : open'[q] = open[q] /\ handle'[q] = handle[q]
    BY <1>1, <1>15 DEF Close
  <2>2. 0 \notin open[p]
    BY <1>1
  <2>3. PoolsOf(p)'
    BY <1>1, <2>1, <2>2 DEF PoolsOf
  <2>4. QED
    BY <1>2, <2>1, <2>3
<1>16. ASSUME UNCHANGED <<run, handle, open, retired>>
       PROVE  PoolsInv'
  BY <1>0, <1>16 DEF PoolsInv, PoolsOf
<1>17. ASSUME NEW p \in Proc, Interrupt(p)
       PROVE  PoolsInv'
  BY <1>16, <1>17 DEF Interrupt
<1>18. CASE Outage \/ Recovers \/ UNCHANGED pgVars
  BY <1>16, <1>18 DEF Outage, Recovers, pgVars
<1>19. QED
  BY <1>6, <1>7, <1>8, <1>9, <1>10, <1>11, <1>12, <1>13, <1>14, <1>15, <1>17, <1>18
     DEF PostgresNext, Run

\* The handle is an open pool that nobody closes, and no open pool is lost.
THEOREM HandleStaysOpen == PostgresSpec => []HandleOpen
<1>1. PostgresInit => PoolsInv
  <2> SUFFICES ASSUME PostgresInit PROVE PoolsInv
    OBVIOUS
  <2>1. Typed
    BY InitTyped
  <2>2. QED
    BY <2>1 DEF PostgresInit, PoolsInv, PoolsOf
<1>2. PoolsInv => HandleOpen
  BY DEF PoolsInv, PoolsOf, HandleOpen
<1>3. QED
  BY <1>1, <1>2, PoolsStep, PTL DEF PostgresSpec

-----------------------------------------------------------------------------
(* LoginGate: guesses are bounded, and the table can be swept.             *)

IsHits(h) ==
  /\ h \in [DOMAIN h -> Age] /\ DOMAIN h \subseteq Nat /\ IsFiniteSet(DOMAIN h)
  /\ \A i \in DOMAIN h : h[i] \in Age

LoginStates == [pc : {"away", "allow", "compare", "fail"}, key : Key \cup {NoKey}, now : 0 .. Wait]

Logins == {l \in [Request -> LoginStates] : \A r \in Request : l[r].pc # "away" => l[r].key \in Key}

LoginTypes ==
  /\ \A k \in DOMAIN fails : k \in Key /\ IsHits(fails[k])
  /\ \A k \in DOMAIN lastSeen : lastSeen[k] \in Age
  /\ sweptAt \in Age
  /\ login \in Logins
  /\ DOMAIN wrong = Key /\ \A k \in Key : IsHits(wrong[k])

\* The requests of l that Comparing counts for the key k.
Compares(l, k) == {r \in Request : l[r].key = k /\ l[r].pc \in {"compare", "fail"}}

\* What is recent enough to count is in the table, with the age it has: a hit
\* within the window less the wait, or one that was stored since the last tick.
Remembered ==
  \A k \in Key : \A i \in DOMAIN wrong[k] :
    /\ k \in DOMAIN fails /\ i \in DOMAIN fails[k] /\ fails[k][i] = wrong[k][i]
    /\ \/ wrong[k][i] < Window - Wait
       \/ wrong[k][i] <= Wait /\ lastSeen[k] <= Wait

LoginInv == LoginTypes /\ TableSweepable /\ Remembered /\ GuessesBounded

LEMMA LoginBounds ==
  /\ MaxFails \in Nat \ {0} /\ Window \in Nat \ {0} /\ Wait \in Nat /\ Wait < Window
  /\ Horizon \in Nat /\ Horizon = Window + Wait
  BY LoginGateAssumption DEF Horizon

LEMMA NoHitsIs == IsHits(NoHits) /\ DOMAIN NoHits = {} /\ Count(NoHits) = 0
  BY FS_EmptySet DEF IsHits, NoHits, Count

LEMMA CountIs ==
  ASSUME NEW h, IsHits(h)
  PROVE  Count(h) \in Nat
  BY FS_CardinalityType DEF IsHits, Count

LEMMA FreshIs ==
  ASSUME NEW h, IsHits(h)
  PROVE  Fresh(h) \in Nat /\ Fresh(h) \notin DOMAIN h
  <1> DEFINE n == Count(h)
             S == 1 .. n + 1
  <1>1. n \in Nat /\ n + 1 \in Int /\ ~(1 > n + 1) BY CountIs
  <1>2. IsFiniteSet(S) /\ Cardinality(S) = n + 1
    <2> DEFINE m == n + 1
    <2>1. m \in Int /\ 1 \in Int BY <1>1
    <2> HIDE DEF m
    <2>2. IsFiniteSet(1 .. m) /\ Cardinality(1 .. m) = IF 1 > m THEN 0 ELSE m - 1 + 1
      BY <2>1, FS_Interval
    <2>q. QED BY <1>1, <2>2 DEF m
  <1>3. ~(S \subseteq DOMAIN h)
    <2> SUFFICES ASSUME S \subseteq DOMAIN h PROVE FALSE
      OBVIOUS
    <2> HIDE DEF S
    <2>1. Cardinality(S) <= Cardinality(DOMAIN h)
      BY FS_Subset DEF IsHits
    <2>q. QED BY <1>1, <1>2, <2>1 DEF Count
  <1>q. QED BY <1>1, <1>3 DEF Fresh

LEMMA WithIs ==
  ASSUME NEW h, NEW i, NEW v
  PROVE  /\ DOMAIN With(h, i, v) = DOMAIN h \cup {i} /\ With(h, i, v)[i] = v
         /\ \A j \in DOMAIN h : j # i => With(h, i, v)[j] = h[j]
  BY DEF With

LEMMA WithIn ==
  ASSUME NEW h, NEW i, NEW v, NEW T, v \in T, \A j \in DOMAIN h : h[j] \in T
  PROVE  With(h, i, v) \in [DOMAIN h \cup {i} -> T]
  BY DEF With

LEMMA AddedHit ==
  ASSUME NEW h, IsHits(h), NEW i \in Nat, i \notin DOMAIN h, NEW v \in Age
  PROVE  IsHits(With(h, i, v)) /\ Count(With(h, i, v)) = Count(h) + 1
  <1>1. /\ IsFiniteSet(DOMAIN h \cup {i})
        /\ Cardinality(DOMAIN h \cup {i}) = Cardinality(DOMAIN h) + 1
    BY FS_AddElement DEF IsHits
  <1>2. DOMAIN With(h, i, v) = DOMAIN h \cup {i}
    BY WithIs
  <1>3. With(h, i, v) \in [DOMAIN h \cup {i} -> Age]
    BY WithIn DEF IsHits
  <1>4. IsHits(With(h, i, v))
    <2> DEFINE w == With(h, i, v)
    <2>1. DOMAIN w = DOMAIN h \cup {i} /\ w \in [DOMAIN h \cup {i} -> Age]
      BY <1>2, <1>3
    <2> HIDE DEF w
    <2>2. IsHits(w)
      BY <1>1, <2>1 DEF IsHits
    <2>q. QED BY <2>2 DEF w
  <1>q. QED BY <1>1, <1>2, <1>4 DEF Count

LEMMA LiveIs ==
  ASSUME NEW h, IsHits(h), NEW now \in 0 .. Wait
  PROVE  /\ IsHits(Live(h, now)) /\ DOMAIN Live(h, now) \subseteq DOMAIN h
         /\ \A i \in DOMAIN Live(h, now) : Live(h, now)[i] = h[i]
         /\ \A i \in DOMAIN h : h[i] < Window => i \in DOMAIN Live(h, now)
  <1>1. DOMAIN Live(h, now) = {i \in DOMAIN h : h[i] - now < Window}
        /\ \A i \in DOMAIN Live(h, now) : Live(h, now)[i] = h[i]
    BY DEF Live, Restrict, Since
  <1>2. IsFiniteSet(DOMAIN Live(h, now))
    BY <1>1, FS_Subset DEF IsHits
  <1>3. \A i \in DOMAIN h : h[i] < Window => h[i] - now < Window
    BY LoginBounds DEF IsHits, Age
  <1>4. Live(h, now) \in [DOMAIN Live(h, now) -> Age]
    <2>1. Live(h, now) = [i \in {j \in DOMAIN h : h[j] - now < Window} |-> h[i]]
      BY DEF Live, Restrict, Since
    <2>q. QED BY <1>1, <2>1 DEF IsHits
  <1>5. DOMAIN Live(h, now) \subseteq Nat /\ \A i \in DOMAIN Live(h, now) : Live(h, now)[i] \in Age
    BY <1>1 DEF IsHits
  <1>6. IsHits(Live(h, now))
    BY <1>2, <1>4, <1>5 DEF IsHits
  <1>q. QED BY <1>1, <1>3, <1>6

\* What store leaves of the tables it is given.
LEMMA StoreIs ==
  ASSUME NEW hits0, NEW seen0, DOMAIN hits0 = DOMAIN seen0, NEW k, NEW hits, NEW now,
         Store(hits0, seen0, k, hits, now)
  PROVE  /\ DOMAIN fails' = DOMAIN lastSeen'
         /\ k \in DOMAIN fails' <=> hits # NoHits
         /\ hits # NoHits => fails'[k] = hits /\ lastSeen'[k] = now
         /\ \A j : j # k => /\ j \in DOMAIN fails' <=> j \in DOMAIN hits0
                            /\ j \in DOMAIN hits0 => fails'[j] = hits0[j] /\ lastSeen'[j] = seen0[j]
  <1>1. CASE hits = NoHits
    BY <1>1 DEF Store, Without, Restrict
  <1>2. CASE hits # NoHits
    BY <1>2 DEF Store, With
  <1>q. QED BY <1>1, <1>2

\* A hit that counts is in no key that is swept, and is live.
LEMMA RecentStays ==
  ASSUME LoginInv, NEW k \in Key, NEW i \in DOMAIN wrong[k], NEW now \in 0 .. Wait
  PROVE  k \notin Swept(now) /\ fails[k][i] < Window
  <1>1. /\ k \in DOMAIN fails /\ i \in DOMAIN fails[k] /\ fails[k][i] = wrong[k][i]
        /\ \/ fails[k][i] < Window - Wait
           \/ fails[k][i] <= Wait /\ lastSeen[k] <= Wait
    BY DEF LoginInv, Remembered
  <1>2. fails[k][i] \in Nat /\ lastSeen[k] \in Nat /\ fails[k][i] >= lastSeen[k] - Wait
    BY <1>1, LoginBounds DEF LoginInv, LoginTypes, TableSweepable, IsHits, Age
  <1>q. QED BY <1>1, <1>2, LoginBounds DEF Swept, Since

LEMMA LoginIs ==
  ASSUME LoginInv
  PROVE  /\ login \in [Request -> LoginStates]
         /\ \A r \in Request : /\ login[r] \in LoginStates
                               /\ login[r].pc \in {"away", "allow", "compare", "fail"}
                               /\ login[r].key \in Key \cup {NoKey} /\ login[r].now \in 0 .. Wait
                               /\ login[r].pc # "away" => login[r].key \in Key
  <1>1. login \in [Request -> LoginStates] /\ \A r \in Request : login[r].pc # "away" => login[r].key \in Key
    BY DEF LoginInv, LoginTypes, Logins
  <1>2. \A l \in LoginStates : /\ l.pc \in {"away", "allow", "compare", "fail"}
                               /\ l.key \in Key \cup {NoKey} /\ l.now \in 0 .. Wait
    BY DEF LoginStates
  <1>3. \A r \in Request : login[r] \in LoginStates
    BY <1>1
  <1>q. QED BY <1>1, <1>2, <1>3

LEMMA LoginFields ==
  ASSUME NEW l \in LoginStates
  PROVE  /\ \A pc : [l EXCEPT !.pc = pc] = [pc |-> pc, key |-> l.key, now |-> l.now]
         /\ \A now : [l EXCEPT !.now = now] = [pc |-> l.pc, key |-> l.key, now |-> now]
  BY DEF LoginStates

\* The requests, when one of them goes on.
LEMMA LoginTo ==
  ASSUME LoginInv, NEW r \in Request, NEW l \in LoginStates, l.pc # "away" => l.key \in Key,
         login' = [login EXCEPT ![r] = l]
  PROVE  /\ login' \in Logins
         /\ \A k : k # l.key \/ l.pc \in {"away", "allow"}
                   => Compares(login', k) = Compares(login, k) \ {r}
         /\ \A k : Compares(login', k) \subseteq Compares(login, k) \cup {r}
  <1>1. /\ login' \in [Request -> LoginStates]
        /\ login'[r] = l /\ \A q \in Request : q # r => login'[q] = login[q]
    BY LoginIs
  <1>2. \A q \in Request : login'[q].pc # "away" => login'[q].key \in Key
    BY <1>1, LoginIs
  <1>3. login' \in Logins
    BY <1>1, <1>2 DEF Logins
  <1>4. ASSUME NEW k, k # l.key \/ l.pc \in {"away", "allow"}
        PROVE  Compares(login', k) = Compares(login, k) \ {r}
    BY <1>1, <1>4 DEF Compares
  <1>5. ASSUME NEW k
        PROVE  Compares(login', k) \subseteq Compares(login, k) \cup {r}
    BY <1>1 DEF Compares
  <1>q. QED BY <1>3, <1>4, <1>5

LEMMA NoLoginIs == NoLogin \in LoginStates /\ NoLogin.pc = "away"
  BY LoginBounds DEF NoLogin, LoginStates

LEMMA ComparesIs ==
  ASSUME NEW l, NEW k
  PROVE  /\ IsFiniteSet(Compares(l, k)) /\ Cardinality(Compares(l, k)) \in Nat
         /\ Cardinality(Request) \in Nat /\ Cardinality(Compares(l, k)) <= Cardinality(Request)
  <1>1. IsFiniteSet(Request) /\ Compares(l, k) \in SUBSET Request
    BY LoginGateAssumption DEF Compares
  <1>q. QED BY <1>1, FS_Subset, FS_CardinalityType

\* A request that does not begin to compare adds no guess.
LEMMA NoNewGuess ==
  ASSUME LoginInv, NEW k \in Key, Compares(login', k) \subseteq Compares(login, k), wrong'[k] = wrong[k]
  PROVE  Count(wrong'[k]) + Cardinality(Compares(login', k)) <= MaxFails - 1 + Cardinality(Request)
  <1>1. Cardinality(Compares(login', k)) <= Cardinality(Compares(login, k))
    BY ComparesIs, FS_Subset
  <1>2. /\ Cardinality(Compares(login', k)) \in Nat /\ Cardinality(Compares(login, k)) \in Nat
        /\ Count(wrong[k]) \in Nat
    BY ComparesIs, CountIs DEF LoginInv, LoginTypes
  <1>3. Count(wrong[k]) + Cardinality(Compares(login, k)) <= MaxFails - 1 + Cardinality(Request)
    BY DEF LoginInv, GuessesBounded, Compares, Comparing
  <1>4. MaxFails \in Nat /\ Cardinality(Request) \in Nat
    BY LoginBounds, ComparesIs
  <1>q. QED BY <1>1, <1>2, <1>3, <1>4

LEMMA AllowKeeps ==
  ASSUME LoginInv, NEW r \in Request, Allow(r)
  PROVE  LoginInv'
  <1> DEFINE k == login[r].key
             now == login[r].now
             F == Without(fails, Swept(now))
             L == Without(lastSeen, Swept(now))
             h == HitsOf(F, k)
             kept == Live(h, now)
  <1>1. k \in Key /\ now \in 0 .. Wait /\ login[r].pc = "allow"
    BY LoginIs DEF Allow
  <1>2. /\ Store(F, L, k, kept, now) /\ UNCHANGED wrong
        /\ sweptAt' = IF Sweeps(now) THEN now ELSE sweptAt
    BY DEF Allow
  <1> DEFINE asks == [pc |-> "compare", key |-> k, now |-> 0]
  <1>3. login' = [login EXCEPT ![r] = IF Count(kept) < MaxFails THEN asks ELSE NoLogin]
    BY DEF Allow
  <1>a. asks \in LoginStates /\ asks.pc = "compare" /\ asks.key = k
    BY <1>1, LoginBounds DEF LoginStates
  <1>4. /\ DOMAIN F = DOMAIN fails \ Swept(now) /\ DOMAIN L = DOMAIN lastSeen \ Swept(now)
        /\ \A j \in DOMAIN F : F[j] = fails[j] /\ L[j] = lastSeen[j]
        /\ DOMAIN fails = DOMAIN lastSeen
    BY DEF Without, Restrict, LoginInv, TableSweepable
  <1>5. IsHits(h) /\ (k \in DOMAIN F => h = fails[k])
    BY <1>4, NoHitsIs DEF HitsOf, LoginInv, LoginTypes
  <1> HIDE DEF k, now, F, L, h, asks
  <1>6. /\ IsHits(kept) /\ DOMAIN kept \subseteq DOMAIN h
        /\ \A i \in DOMAIN kept : kept[i] = h[i]
        /\ \A i \in DOMAIN h : h[i] < Window => i \in DOMAIN kept
    BY <1>1, <1>5, LiveIs
  <1> HIDE DEF kept
  <1>7. /\ DOMAIN fails' = DOMAIN lastSeen'
        /\ k \in DOMAIN fails' <=> kept # NoHits
        /\ kept # NoHits => fails'[k] = kept /\ lastSeen'[k] = now
        /\ \A j : j # k => /\ j \in DOMAIN fails' <=> j \in DOMAIN F
                           /\ j \in DOMAIN F => fails'[j] = fails[j] /\ lastSeen'[j] = lastSeen[j]
    BY <1>2, <1>4, StoreIs
  <1>n. now \in Age /\ now \in Nat
    BY <1>1, LoginBounds DEF Age
  <1>8. LoginTypes'
    <2>1. \A j \in DOMAIN fails' : j \in Key /\ IsHits(fails'[j])
      BY <1>1, <1>4, <1>6, <1>7 DEF LoginInv, LoginTypes
    <2>2. \A j \in DOMAIN lastSeen' : lastSeen'[j] \in Age
      BY <1>4, <1>7, <1>n DEF LoginInv, LoginTypes
    <2>3. login' \in Logins
      BY <1>1, <1>3, <1>a, LoginTo, NoLoginIs
    <2>4. sweptAt' \in Age /\ DOMAIN wrong' = Key /\ \A j \in Key : IsHits(wrong'[j])
      BY <1>2, <1>n DEF LoginInv, LoginTypes
    <2>q. QED BY <2>1, <2>2, <2>3, <2>4 DEF LoginTypes
  <1>9. TableSweepable'
    <2> SUFFICES ASSUME NEW j \in DOMAIN fails'
                 PROVE  fails'[j] # NoHits /\ \A i \in DOMAIN fails'[j] : fails'[j][i] >= lastSeen'[j] - Wait
      BY <1>7 DEF TableSweepable
    <2>1. CASE j = k
      <3>1. \A i \in DOMAIN kept : kept[i] \in Nat
        BY <1>6, LoginBounds DEF IsHits, Age
      <3>q. QED BY <1>1, <1>7, <1>n, <2>1, <3>1, LoginBounds
    <2>2. CASE j # k
      <3>1. j \in DOMAIN fails /\ fails'[j] = fails[j] /\ lastSeen'[j] = lastSeen[j]
        BY <1>4, <1>7, <2>2
      <3>q. QED BY <3>1 DEF LoginInv, TableSweepable
    <2>q. QED BY <2>1, <2>2
  <1>10. ASSUME NEW j \in Key, NEW i \in DOMAIN wrong[j]
         PROVE  /\ j \in DOMAIN F /\ i \in DOMAIN fails[j] /\ fails[j][i] = wrong[j][i]
                /\ \/ wrong[j][i] < Window - Wait
                   \/ wrong[j][i] <= Wait /\ lastSeen[j] <= Wait
                /\ fails[j][i] < Window
    BY <1>1, <1>4, RecentStays DEF LoginInv, Remembered
  <1>11. \A i \in DOMAIN wrong[k] : i \in DOMAIN kept /\ kept[i] = wrong[k][i] /\ kept # NoHits
    BY <1>1, <1>5, <1>6, <1>10, NoHitsIs
  <1>12. Remembered'
    <2> SUFFICES ASSUME NEW j \in Key, NEW i \in DOMAIN wrong'[j]
                 PROVE  /\ j \in DOMAIN fails' /\ i \in DOMAIN fails'[j] /\ fails'[j][i] = wrong'[j][i]
                        /\ \/ wrong'[j][i] < Window - Wait
                           \/ wrong'[j][i] <= Wait /\ lastSeen'[j] <= Wait
      BY DEF Remembered
    <2>1. wrong' = wrong BY <1>2
    <2>2. CASE j = k
      <3>1. i \in DOMAIN kept /\ kept[i] = wrong[k][i] /\ kept # NoHits
        BY <1>11, <2>1, <2>2
      <3>2. k \in DOMAIN fails' /\ fails'[k] = kept /\ lastSeen'[k] <= Wait
        BY <1>1, <1>7, <3>1, LoginBounds
      <3>q. QED BY <1>10, <2>1, <2>2, <3>1, <3>2
    <2>3. CASE j # k
      <3>1. /\ j \in DOMAIN F /\ i \in DOMAIN fails[j] /\ fails[j][i] = wrong[j][i]
            /\ \/ wrong[j][i] < Window - Wait
               \/ wrong[j][i] <= Wait /\ lastSeen[j] <= Wait
        BY <1>10, <2>1
      <3>q. QED BY <1>7, <2>1, <2>3, <3>1
    <2>q. QED BY <2>2, <2>3
  <1>13. GuessesBounded'
    <2> SUFFICES ASSUME NEW j \in Key
                 PROVE  Count(wrong'[j]) + Cardinality(Compares(login', j)) <= MaxFails - 1 + Cardinality(Request)
      BY DEF GuessesBounded, Compares, Comparing, Count
    <2>0. wrong' = wrong /\ 0 \in 0 .. Wait /\ r \notin Compares(login, j)
      BY <1>1, <1>2, LoginBounds DEF Compares
    <2>1. CASE Count(kept) < MaxFails /\ j = k
      <3>1. DOMAIN wrong[k] \subseteq DOMAIN kept
        BY <1>11
      <3>2. Count(wrong[k]) <= Count(kept)
        BY <1>6, <3>1, FS_Subset DEF IsHits, Count
      <3>3. Count(wrong[k]) \in Nat /\ Count(kept) \in Nat
        BY <1>1, <1>6, CountIs DEF LoginInv, LoginTypes
      <3>q. QED BY <2>0, <2>1, <3>2, <3>3, LoginBounds, ComparesIs
    <2>2. CASE Count(kept) < MaxFails /\ j # k
      <3>1. login' = [login EXCEPT ![r] = asks]
        BY <1>3, <2>2
      <3>2. Compares(login', j) = Compares(login, j) \ {r}
        BY <1>1, <1>a, <2>2, <3>1, LoginTo
      <3>q. QED BY <2>0, <3>2, NoNewGuess
    <2>3. CASE ~(Count(kept) < MaxFails)
      <3>1. login' = [login EXCEPT ![r] = NoLogin]
        BY <1>3, <2>3
      <3>2. Compares(login', j) = Compares(login, j) \ {r}
        BY <3>1, LoginTo, NoLoginIs
      <3>q. QED BY <2>0, <3>2, NoNewGuess
    <2>q. QED BY <2>1, <2>2, <2>3
  <1>q. QED BY <1>8, <1>9, <1>12, <1>13 DEF LoginInv
\* A request that leaves the tables alone.
LEMMA TablesAlone ==
  ASSUME LoginInv, NEW r \in Request, NEW l \in LoginStates, l.key \in Key,
         l.pc = "allow" \/ r \in Compares(login, l.key),
         login' = [login EXCEPT ![r] = l], UNCHANGED <<fails, lastSeen, sweptAt, wrong>>
  PROVE  LoginInv'
  <1>1. /\ login' \in Logins
        /\ \A k : Compares(login', k) \subseteq Compares(login, k)
    <2>1. /\ login' \in Logins
          /\ \A k : k # l.key \/ l.pc \in {"away", "allow"}
                    => Compares(login', k) = Compares(login, k) \ {r}
          /\ \A k : Compares(login', k) \subseteq Compares(login, k) \cup {r}
      BY LoginTo
    <2>2. CASE l.pc = "allow"
      BY <2>1, <2>2
    <2>3. CASE r \in Compares(login, l.key)
      <3>1. Compares(login', l.key) \subseteq Compares(login, l.key)
        BY <2>1, <2>3
      <3>q. QED BY <2>1, <3>1
    <2>q. QED BY <2>2, <2>3
  <1>2. LoginTypes'
    BY <1>1 DEF LoginInv, LoginTypes, IsHits
  <1>3. TableSweepable' /\ Remembered'
    BY DEF LoginInv, TableSweepable, Remembered
  <1>4. GuessesBounded'
    <2> SUFFICES ASSUME NEW j \in Key
                 PROVE  Count(wrong'[j]) + Cardinality(Compares(login', j)) <= MaxFails - 1 + Cardinality(Request)
      BY DEF GuessesBounded, Compares, Comparing, Count
    <2>1. Compares(login', j) \subseteq Compares(login, j)
      BY <1>1
    <2>q. QED BY <2>1, NoNewGuess
  <1>q. QED BY <1>2, <1>3, <1>4 DEF LoginInv

LEMMA ArrivesKeeps ==
  ASSUME LoginInv, NEW r \in Request, NEW k \in Key, LoginArrives(r, k)
  PROVE  LoginInv'
  <1> DEFINE l == [pc |-> "allow", key |-> k, now |-> 0]
  <1>1. l \in LoginStates /\ l.key \in Key /\ l.pc = "allow"
    BY LoginBounds DEF LoginStates
  <1>2. login' = [login EXCEPT ![r] = l] /\ UNCHANGED <<fails, lastSeen, sweptAt, wrong>>
    BY DEF LoginArrives
  <1> HIDE DEF l
  <1>q. QED BY <1>1, <1>2, TablesAlone

LEMMA MistakenKeeps ==
  ASSUME LoginInv, NEW r \in Request, Mistaken(r)
  PROVE  LoginInv'
  <1> DEFINE l == [login[r] EXCEPT !.pc = "fail"]
  <1>1. l = [pc |-> "fail", key |-> login[r].key, now |-> login[r].now]
    BY LoginIs, LoginFields
  <1>2. l \in LoginStates /\ l.key \in Key /\ l.key = login[r].key
    BY <1>1, LoginIs DEF LoginStates, Mistaken
  <1>3. r \in Compares(login, login[r].key)
    BY DEF Mistaken, Compares
  <1>4. login' = [login EXCEPT ![r] = l] /\ UNCHANGED <<fails, lastSeen, sweptAt, wrong>>
    BY DEF Mistaken
  <1> HIDE DEF l
  <1>q. QED BY <1>2, <1>3, <1>4, TablesAlone

\* A request leaves, with the number of its key's failures one more or none.
LEMMA OneLess ==
  ASSUME LoginInv, NEW r \in Request, NEW k \in Key, r \in Compares(login, k),
         login' = [login EXCEPT ![r] = NoLogin]
  PROVE  /\ login' \in Logins
         /\ \A j : Compares(login', j) \subseteq Compares(login, j)
         /\ Cardinality(Compares(login', k)) = Cardinality(Compares(login, k)) - 1
  <1>2. login' \in Logins /\ \A j : Compares(login', j) = Compares(login, j) \ {r}
    BY LoginTo, NoLoginIs
  <1>3. Cardinality(Compares(login, k) \ {r}) = Cardinality(Compares(login, k)) - 1
    BY ComparesIs, FS_RemoveElement
  <1>q. QED BY <1>2, <1>3

LEMMA RecordFailKeeps ==
  ASSUME LoginInv, NEW r \in Request, RecordFail(r)
  PROVE  LoginInv'
  <1> DEFINE k == login[r].key
             now == login[r].now
             h == HitsOf(fails, k)
             new == Fresh(h)
             hits == With(h, new, now)
  <1>1. k \in Key /\ now \in 0 .. Wait /\ r \in Compares(login, k)
    BY LoginIs DEF RecordFail, Compares
  <1>2. /\ Store(fails, lastSeen, k, hits, now) /\ login' = [login EXCEPT ![r] = NoLogin]
        /\ wrong' = [wrong EXCEPT ![k] = With(@, new, now)] /\ UNCHANGED sweptAt
    BY DEF RecordFail
  <1>3. IsHits(h) /\ (k \in DOMAIN fails => h = fails[k])
    BY NoHitsIs DEF HitsOf, LoginInv, LoginTypes
  <1> HIDE DEF k, now, h
  <1>n. now \in Age /\ now \in Nat /\ now <= Wait
    BY <1>1, LoginBounds DEF Age
  <1>4. new \in Nat /\ new \notin DOMAIN h
    BY <1>3, FreshIs
  <1>5. \A i \in DOMAIN wrong[k] : i \in DOMAIN h /\ h[i] = wrong[k][i] /\ i # new
    BY <1>1, <1>3, <1>4 DEF LoginInv, Remembered
  <1> HIDE DEF new
  <1>6. IsHits(hits) /\ DOMAIN hits = DOMAIN h \cup {new} /\ hits[new] = now
        /\ \A i \in DOMAIN h : i # new => hits[i] = h[i]
    <2>1. IsHits(hits) BY <1>3, <1>4, <1>n, AddedHit
    <2>q. QED BY <2>1 DEF With
  <1>7. hits # NoHits
    BY <1>6, NoHitsIs
  <1>8. /\ wrong' = [wrong EXCEPT ![k] = With(wrong[k], new, now)]
        /\ DOMAIN wrong = Key /\ new \notin DOMAIN wrong[k] /\ IsHits(wrong[k])
    BY <1>1, <1>2, <1>5 DEF LoginInv, LoginTypes
  <1>9. /\ DOMAIN wrong' = Key /\ wrong'[k] = With(wrong[k], new, now)
        /\ \A j \in Key : j # k => wrong'[j] = wrong[j]
    BY <1>1, <1>8
  <1>10. /\ IsHits(wrong'[k]) /\ Count(wrong'[k]) = Count(wrong[k]) + 1
         /\ DOMAIN wrong'[k] = DOMAIN wrong[k] \cup {new} /\ wrong'[k][new] = now
         /\ \A i \in DOMAIN wrong[k] : wrong'[k][i] = wrong[k][i]
    <2> DEFINE w == With(wrong[k], new, now)
    <2>1. IsHits(w) /\ Count(w) = Count(wrong[k]) + 1
      BY <1>4, <1>8, <1>n, AddedHit
    <2>2. /\ DOMAIN w = DOMAIN wrong[k] \cup {new} /\ w[new] = now
          /\ \A i \in DOMAIN wrong[k] : i # new => w[i] = wrong[k][i]
      BY DEF With
    <2>3. wrong'[k] = w
      BY <1>9
    <2> HIDE DEF w
    <2>q. QED BY <1>8, <2>1, <2>2, <2>3
  <1> HIDE DEF hits
  <1>11. /\ DOMAIN fails' = DOMAIN lastSeen' /\ k \in DOMAIN fails'
         /\ fails'[k] = hits /\ lastSeen'[k] = now
         /\ \A j : j # k => /\ j \in DOMAIN fails' <=> j \in DOMAIN fails
                            /\ j \in DOMAIN fails => fails'[j] = fails[j] /\ lastSeen'[j] = lastSeen[j]
    BY <1>2, <1>7, StoreIs DEF LoginInv, TableSweepable
  <1>12. /\ login' \in Logins
         /\ \A j : Compares(login', j) \subseteq Compares(login, j)
         /\ Cardinality(Compares(login', k)) = Cardinality(Compares(login, k)) - 1
    BY <1>1, <1>2, OneLess
  <1>13. LoginTypes'
    <2>1. \A j \in DOMAIN fails' : j \in Key /\ IsHits(fails'[j])
      BY <1>1, <1>6, <1>11 DEF LoginInv, LoginTypes
    <2>2. \A j \in DOMAIN lastSeen' : lastSeen'[j] \in Age
      BY <1>11, <1>n DEF LoginInv, LoginTypes, TableSweepable
    <2>3. sweptAt' \in Age
      BY <1>2 DEF LoginInv, LoginTypes
    <2>4. \A j \in Key : IsHits(wrong'[j])
      BY <1>9, <1>10 DEF LoginInv, LoginTypes
    <2>q. QED BY <1>9, <1>12, <2>1, <2>2, <2>3, <2>4 DEF LoginTypes
  <1>14. TableSweepable'
    <2> SUFFICES ASSUME NEW j \in DOMAIN fails'
                 PROVE  fails'[j] # NoHits /\ \A i \in DOMAIN fails'[j] : fails'[j][i] >= lastSeen'[j] - Wait
      BY <1>11 DEF TableSweepable
    <2>1. CASE j = k
      <3>1. \A i \in DOMAIN hits : hits[i] \in Nat
        BY <1>6, LoginBounds DEF IsHits, Age
      <3>q. QED BY <1>7, <1>11, <1>n, <2>1, <3>1, LoginBounds
    <2>2. CASE j # k
      <3>1. j \in DOMAIN fails /\ fails'[j] = fails[j] /\ lastSeen'[j] = lastSeen[j]
        BY <1>11, <2>2
      <3>q. QED BY <3>1 DEF LoginInv, TableSweepable
    <2>q. QED BY <2>1, <2>2
  <1>15. Remembered'
    <2> SUFFICES ASSUME NEW j \in Key, NEW i \in DOMAIN wrong'[j]
                 PROVE  /\ j \in DOMAIN fails' /\ i \in DOMAIN fails'[j] /\ fails'[j][i] = wrong'[j][i]
                        /\ \/ wrong'[j][i] < Window - Wait
                           \/ wrong'[j][i] <= Wait /\ lastSeen'[j] <= Wait
      BY DEF Remembered
    <2>1. CASE j = k /\ i = new
      BY <1>6, <1>10, <1>11, <1>n, <2>1
    <2>2. CASE j = k /\ i # new
      <3>1. i \in DOMAIN wrong[k] /\ wrong'[k][i] = wrong[k][i]
        BY <1>10, <2>2
      <3>2. \/ wrong[k][i] < Window - Wait
            \/ wrong[k][i] <= Wait
        BY <1>1, <3>1 DEF LoginInv, Remembered
      <3>3. i \in DOMAIN hits /\ hits[i] = wrong[k][i]
        BY <1>5, <1>6, <3>1
      <3>q. QED BY <1>11, <1>n, <2>2, <3>1, <3>2, <3>3
    <2>3. CASE j # k
      <3>1. wrong'[j] = wrong[j]
        BY <1>9, <2>3
      <3>2. /\ j \in DOMAIN fails /\ i \in DOMAIN fails[j] /\ fails[j][i] = wrong[j][i]
            /\ \/ wrong[j][i] < Window - Wait
               \/ wrong[j][i] <= Wait /\ lastSeen[j] <= Wait
        BY <3>1 DEF LoginInv, Remembered
      <3>q. QED BY <1>11, <2>3, <3>1, <3>2
    <2>q. QED BY <2>1, <2>2, <2>3
  <1>16. GuessesBounded'
    <2> SUFFICES ASSUME NEW j \in Key
                 PROVE  Count(wrong'[j]) + Cardinality(Compares(login', j)) <= MaxFails - 1 + Cardinality(Request)
      BY DEF GuessesBounded, Compares, Comparing, Count
    <2>1. CASE j = k
      <3>1. Count(wrong[k]) + Cardinality(Compares(login, k)) <= MaxFails - 1 + Cardinality(Request)
        BY <1>1 DEF LoginInv, GuessesBounded, Compares, Comparing
      <3>2. Count(wrong[k]) \in Nat /\ Cardinality(Compares(login, k)) \in Nat
        BY <1>8, CountIs, ComparesIs
      <3>q. QED BY <1>10, <1>12, <2>1, <3>1, <3>2
    <2>2. CASE j # k
      BY <1>9, <1>12, <2>2, NoNewGuess
    <2>q. QED BY <2>1, <2>2
  <1>q. QED BY <1>13, <1>14, <1>15, <1>16 DEF LoginInv

LEMMA ClearKeeps ==
  ASSUME LoginInv, NEW r \in Request, Clear(r)
  PROVE  LoginInv'
  <1> DEFINE k == login[r].key
  <1>1. k \in Key /\ r \in Compares(login, k)
    BY LoginIs DEF Clear, Compares
  <1>2. /\ fails' = Without(fails, {k}) /\ lastSeen' = Without(lastSeen, {k})
        /\ wrong' = [wrong EXCEPT ![k] = NoHits] /\ login' = [login EXCEPT ![r] = NoLogin]
        /\ UNCHANGED sweptAt
    BY DEF Clear
  <1> HIDE DEF k
  <1>3. /\ DOMAIN fails' = DOMAIN fails \ {k} /\ DOMAIN lastSeen' = DOMAIN lastSeen \ {k}
        /\ \A j \in DOMAIN fails' : fails'[j] = fails[j] /\ lastSeen'[j] = lastSeen[j]
        /\ DOMAIN fails = DOMAIN lastSeen
    BY <1>2 DEF Without, Restrict, LoginInv, TableSweepable
  <1>4. /\ DOMAIN wrong' = Key /\ wrong'[k] = NoHits
        /\ \A j \in Key : j # k => wrong'[j] = wrong[j]
    BY <1>1, <1>2 DEF LoginInv, LoginTypes
  <1>5. /\ login' \in Logins
        /\ \A j : Compares(login', j) \subseteq Compares(login, j)
        /\ Cardinality(Compares(login', k)) = Cardinality(Compares(login, k)) - 1
    BY <1>1, <1>2, OneLess
  <1>6. LoginTypes'
    <2>1. \A j \in DOMAIN fails' : j \in Key /\ IsHits(fails'[j])
      BY <1>3 DEF LoginInv, LoginTypes
    <2>2. \A j \in DOMAIN lastSeen' : lastSeen'[j] \in Age
      BY <1>3 DEF LoginInv, LoginTypes
    <2>3. sweptAt' \in Age
      BY <1>2 DEF LoginInv, LoginTypes
    <2>4. \A j \in Key : IsHits(wrong'[j])
      BY <1>4, NoHitsIs DEF LoginInv, LoginTypes
    <2>q. QED BY <1>4, <1>5, <2>1, <2>2, <2>3, <2>4 DEF LoginTypes
  <1>7. TableSweepable'
    BY <1>3 DEF LoginInv, TableSweepable
  <1>8. Remembered'
    BY <1>3, <1>4, NoHitsIs DEF LoginInv, Remembered
  <1>9. GuessesBounded'
    <2> SUFFICES ASSUME NEW j \in Key
                 PROVE  Count(wrong'[j]) + Cardinality(Compares(login', j)) <= MaxFails - 1 + Cardinality(Request)
      BY DEF GuessesBounded, Compares, Comparing, Count
    <2>1. CASE j = k
      <3>1. MaxFails \in Nat \ {0} /\ Count(wrong'[k]) = 0
        BY <1>4, NoHitsIs, LoginBounds
      <3>q. QED BY <2>1, <3>1, ComparesIs
    <2>2. CASE j # k
      BY <1>4, <1>5, <2>2, NoNewGuess
    <2>q. QED BY <2>1, <2>2
  <1>q. QED BY <1>6, <1>7, <1>8, <1>9 DEF LoginInv
LEMMA TickKeeps ==
  ASSUME LoginInv, Tick
  PROVE  LoginInv'
  <1>1. /\ DOMAIN fails' = DOMAIN fails /\ DOMAIN lastSeen' = DOMAIN lastSeen
        /\ \A k \in DOMAIN fails : fails'[k] = [i \in DOMAIN fails[k] |-> Older(fails[k][i])]
        /\ \A k \in DOMAIN lastSeen : lastSeen'[k] = Older(lastSeen[k])
        /\ sweptAt' = Older(sweptAt)
    BY DEF Tick
  <1>2. \A k \in DOMAIN fails : /\ DOMAIN fails'[k] = DOMAIN fails[k]
                               /\ \A i \in DOMAIN fails[k] : fails'[k][i] = Older(fails[k][i])
    BY <1>1
  <1>3. \A a \in Age : Older(a) \in Age /\ (a < Window => Older(a) = a + 1)
    BY LoginBounds DEF Older, Age
  <1>4. /\ DOMAIN wrong' = Key
        /\ \A k \in Key : /\ DOMAIN wrong'[k] = {j \in DOMAIN wrong[k] : wrong[k][j] + 1 < Window - Wait}
                          /\ \A i \in DOMAIN wrong'[k] : wrong'[k][i] = wrong[k][i] + 1
    BY DEF Tick
  <1>5. \A k \in Key : IsHits(wrong'[k]) /\ Count(wrong'[k]) <= Count(wrong[k])
                       /\ Count(wrong'[k]) \in Nat /\ Count(wrong[k]) \in Nat
    <2> SUFFICES ASSUME NEW k \in Key
                 PROVE  IsHits(wrong'[k]) /\ Count(wrong'[k]) <= Count(wrong[k])
                        /\ Count(wrong'[k]) \in Nat /\ Count(wrong[k]) \in Nat
      OBVIOUS
    <2>1. IsHits(wrong[k])
      BY DEF LoginInv, LoginTypes
    <2>2. /\ DOMAIN wrong'[k] \subseteq DOMAIN wrong[k]
          /\ wrong'[k] = [i \in DOMAIN wrong'[k] |-> wrong[k][i] + 1]
      BY <1>4 DEF Tick
    <2>3. IsFiniteSet(DOMAIN wrong'[k]) /\ Cardinality(DOMAIN wrong'[k]) <= Cardinality(DOMAIN wrong[k])
      BY <2>1, <2>2, FS_Subset DEF IsHits
    <2>4. \A i \in DOMAIN wrong'[k] : wrong'[k][i] \in Age
      BY <1>4, <2>1, LoginBounds DEF IsHits, Age
    <2>5. wrong'[k] \in [DOMAIN wrong'[k] -> Age]
      BY <2>2, <2>4
    <2>6. IsHits(wrong'[k])
      BY <2>1, <2>2, <2>3, <2>4, <2>5 DEF IsHits
    <2>q. QED BY <2>1, <2>3, <2>6, CountIs DEF Count
  <1>6. \A r \in Request :
          /\ login'[r] \in LoginStates
          /\ login'[r].pc = login[r].pc /\ login'[r].key = login[r].key
    <2> SUFFICES ASSUME NEW r \in Request
                 PROVE  /\ login'[r] \in LoginStates
                        /\ login'[r].pc = login[r].pc /\ login'[r].key = login[r].key
      OBVIOUS
    <2>1. login[r] \in LoginStates /\ login[r].now \in 0 .. Wait
      BY LoginIs
    <2>2. CASE login[r].pc \in {"allow", "fail"}
      <3>1. login'[r] = [login[r] EXCEPT !.now = login[r].now + 1] /\ login[r].now < Wait
        BY <2>2 DEF Tick
      <3>2. login[r].now \in Nat /\ login[r].now + 1 \in 0 .. Wait
        BY <2>1, <3>1, LoginBounds
      <3>3. login'[r] = [pc |-> login[r].pc, key |-> login[r].key, now |-> login[r].now + 1]
        BY <2>1, <3>1, LoginFields
      <3>q. QED BY <3>2, <3>3, LoginIs DEF LoginStates
    <2>3. CASE login[r].pc \notin {"allow", "fail"}
      <3>1. login'[r] = login[r]
        BY <2>3 DEF Tick
      <3>q. QED BY <2>1, <3>1
    <2>q. QED BY <2>2, <2>3
  <1>7. login' \in [Request -> LoginStates]
    <2>1. DOMAIN login' = Request /\ login' = [r \in DOMAIN login' |-> login'[r]]
      BY DEF Tick
    <2>q. QED BY <1>6, <2>1
  <1>8. LoginTypes'
    <2>1. \A k \in DOMAIN fails' : k \in Key /\ IsHits(fails'[k])
      BY <1>1, <1>2, <1>3 DEF LoginInv, LoginTypes, IsHits
    <2>2. \A k \in DOMAIN lastSeen' : lastSeen'[k] \in Age
      BY <1>1, <1>3 DEF LoginInv, LoginTypes
    <2>3. sweptAt' \in Age
      BY <1>1, <1>3 DEF LoginInv, LoginTypes
    <2>4. login' \in Logins
      BY <1>6, <1>7, LoginIs DEF Logins
    <2>q. QED BY <1>4, <1>5, <2>1, <2>2, <2>3, <2>4 DEF LoginTypes
  <1>9. TableSweepable'
    <2>1. DOMAIN fails' = DOMAIN lastSeen'
      BY <1>1 DEF LoginInv, TableSweepable
    <2>2. ASSUME NEW k \in DOMAIN fails
          PROVE  fails'[k] # NoHits /\ \A i \in DOMAIN fails'[k] : fails'[k][i] >= lastSeen'[k] - Wait
      <3>1. fails[k] # NoHits /\ \A i \in DOMAIN fails[k] : fails[k][i] >= lastSeen[k] - Wait
        BY DEF LoginInv, TableSweepable
      <3>2. DOMAIN fails[k] # {}
        <4>1. IsHits(fails[k]) /\ k \in Key
          BY DEF LoginInv, LoginTypes
        <4>2. CASE DOMAIN fails[k] = {}
          <5>1. fails[k] \in [{} -> Age]
            BY <4>1, <4>2 DEF IsHits
          <5>q. QED BY <3>1, <5>1 DEF NoHits
        <4>q. QED BY <4>2
      <3>3. fails'[k] # NoHits
        BY <1>2, <3>2, NoHitsIs
      <3>4. k \in DOMAIN lastSeen /\ lastSeen[k] \in Age
        BY DEF LoginInv, LoginTypes, TableSweepable
      <3>5. \A i \in DOMAIN fails[k] : fails[k][i] \in Age
        BY DEF LoginInv, LoginTypes, IsHits
      <3>6. ASSUME NEW i \in DOMAIN fails[k]
            PROVE  Older(fails[k][i]) >= Older(lastSeen[k]) - Wait
        BY <3>1, <3>4, <3>5, LoginBounds DEF Older, Age
      <3>q. QED BY <1>1, <1>2, <3>3, <3>4, <3>6
    <2>q. QED BY <1>1, <2>1, <2>2 DEF TableSweepable
  <1>10. Remembered'
    <2> SUFFICES ASSUME NEW k \in Key, NEW i \in DOMAIN wrong'[k]
                 PROVE  /\ k \in DOMAIN fails' /\ i \in DOMAIN fails'[k] /\ fails'[k][i] = wrong'[k][i]
                        /\ wrong'[k][i] < Window - Wait
      BY DEF Remembered
    <2>1. /\ i \in DOMAIN wrong[k] /\ wrong'[k][i] = wrong[k][i] + 1
          /\ wrong[k][i] + 1 < Window - Wait
      BY <1>4
    <2>2. k \in DOMAIN fails /\ i \in DOMAIN fails[k] /\ fails[k][i] = wrong[k][i]
      BY <2>1 DEF LoginInv, Remembered
    <2>3. fails[k][i] \in Age /\ fails[k][i] < Window
      BY <2>1, <2>2, LoginBounds DEF LoginInv, LoginTypes, IsHits, Age
    <2>4. fails'[k][i] = wrong[k][i] + 1
      BY <1>2, <1>3, <2>2, <2>3
    <2>q. QED BY <1>1, <1>2, <2>1, <2>2, <2>4
  <1>11. GuessesBounded'
    <2> SUFFICES ASSUME NEW k \in Key
                 PROVE  Count(wrong'[k]) + Cardinality(Compares(login', k)) <= MaxFails - 1 + Cardinality(Request)
      BY DEF GuessesBounded, Compares, Comparing, Count
    <2>1. Compares(login', k) = Compares(login, k)
      BY <1>6 DEF Compares
    <2>2. Count(wrong[k]) + Cardinality(Compares(login, k)) <= MaxFails - 1 + Cardinality(Request)
      BY DEF LoginInv, GuessesBounded, Compares, Comparing
    <2>3. MaxFails \in Nat /\ Cardinality(Compares(login, k)) \in Nat /\ Cardinality(Request) \in Nat
      BY LoginBounds, ComparesIs
    <2>q. QED BY <1>5, <2>1, <2>2, <2>3
  <1>q. QED BY <1>8, <1>9, <1>10, <1>11 DEF LoginInv

LEMMA LoginStarts == LoginInit => LoginInv
  <1> SUFFICES ASSUME LoginInit PROVE LoginInv
    OBVIOUS
  <1>1. /\ DOMAIN fails = {} /\ DOMAIN lastSeen = {} /\ sweptAt \in Age
        /\ wrong = [k \in Key |-> NoHits]
    BY LoginBounds DEF LoginInit, Age
  <1>2. \A r \in Request : login[r] = [pc |-> "away", key |-> NoKey, now |-> 0]
    BY DEF LoginInit, NoLogin
  <1>3. LoginTypes
    <2>1. login \in Logins
      BY <1>2, LoginBounds DEF LoginInit, NoLogin, Logins, LoginStates
    <2>q. QED BY <1>1, <1>2, <2>1, NoHitsIs DEF LoginTypes
  <1>4. TableSweepable
    BY <1>1 DEF TableSweepable
  <1>5. Remembered
    BY <1>1, NoHitsIs DEF Remembered
  <1>6. GuessesBounded
    <2> SUFFICES ASSUME NEW k \in Key
                 PROVE  Count(wrong[k]) + Cardinality(Compares(login, k)) <= MaxFails - 1 + Cardinality(Request)
      BY DEF GuessesBounded, Compares, Comparing
    <2>1. Compares(login, k) = {} /\ Count(wrong[k]) = 0
      BY <1>1, <1>2, NoHitsIs DEF Compares
    <2>2. Cardinality(Compares(login, k)) = 0
      BY <2>1, FS_EmptySet
    <2>3. MaxFails \in Nat \ {0} /\ Cardinality(Request) \in Nat
      BY LoginBounds, ComparesIs
    <2>q. QED BY <2>1, <2>2, <2>3
  <1>q. QED BY <1>3, <1>4, <1>5, <1>6 DEF LoginInv

LEMMA LoginStep == LoginInv /\ [LoginNext]_loginVars => LoginInv'
  <1> SUFFICES ASSUME LoginInv, [LoginNext]_loginVars PROVE LoginInv'
    OBVIOUS
  <1>1. CASE UNCHANGED loginVars
    <2>1. UNCHANGED <<fails, lastSeen, sweptAt, login, wrong>>
      BY <1>1 DEF loginVars
    <2>2. LoginTypes' /\ TableSweepable' /\ Remembered'
      BY <2>1 DEF LoginInv, LoginTypes, TableSweepable, Remembered, IsHits
    <2>3. GuessesBounded'
      BY <2>1 DEF LoginInv, GuessesBounded, Compares, Comparing, Count
    <2>q. QED BY <2>2, <2>3 DEF LoginInv
  <1>2. ASSUME NEW r \in Request, NEW k \in Key, LoginArrives(r, k) PROVE LoginInv'
    BY <1>2, ArrivesKeeps
  <1>3. ASSUME NEW r \in Request, Allow(r) PROVE LoginInv'
    BY <1>3, AllowKeeps
  <1>4. ASSUME NEW r \in Request, Mistaken(r) PROVE LoginInv'
    BY <1>4, MistakenKeeps
  <1>5. ASSUME NEW r \in Request, RecordFail(r) PROVE LoginInv'
    BY <1>5, RecordFailKeeps
  <1>6. ASSUME NEW r \in Request, Clear(r) PROVE LoginInv'
    BY <1>6, ClearKeeps
  <1>7. CASE Tick
    BY <1>7, TickKeeps
  <1>q. QED BY <1>1, <1>2, <1>3, <1>4, <1>5, <1>6, <1>7 DEF LoginNext

\* The invariant of the throttle: the types, the two properties below, and that
\* what counts as a wrong password is among the hits Allow will look at.
THEOREM LoginInductive == LoginSpec => []LoginInv
  BY LoginStarts, LoginStep, PTL DEF LoginSpec

\* However many requests of a key interleave in Allow, Fail and Clear, its wrong
\* passwords of a window and the comparisons under way stay below MaxFails plus
\* the number of requests that run at once.
THEOREM GuessesStayBounded == LoginSpec => []GuessesBounded
  <1>1. LoginInv => GuessesBounded
    BY DEF LoginInv
  <1>q. QED BY <1>1, LoginInductive, PTL

\* The two tables of LoginGate keep the same keys, each with a hit that is no
\* older than sweepLocked thinks by more than the wait for the mutex.
THEOREM TableStaysSweepable == LoginSpec => []TableSweepable
  <1>1. LoginInv => TableSweepable
    BY DEF LoginInv
  <1>q. QED BY <1>1, LoginInductive, PTL
=============================================================================
