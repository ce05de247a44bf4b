------------------------------ MODULE Accounts ------------------------------
(***************************************************************************)
(* Users and sessions: login, logout, requireAuth, requireAdmin,           *)
(* setUserDisabled and createUser of httpapi, and the statements of        *)
(* auth.Repo they send, each of which the database runs at once.  Nothing  *)
(* holds two of them together, so other requests come in between.          *)
(*                                                                         *)
(* Passwords, hashes and cookies are left out: a session is its token.     *)
(***************************************************************************)
EXTENDS FiniteSets

CONSTANTS
  User,      (* e-mail addresses                                           *)
  Admin,     (* those that are given the role of an administrator          *)
  Seeded,    (* ADMIN_EMAIL, the one EnsureAdmin makes                     *)
  Token,     (* the sessions that may be opened                            *)
  Client,    (* goroutines that serve a request                            *)
  Nobody

ASSUME AccountsAssumption ==
  /\ Admin \subseteq User /\ Seeded \in Admin
  /\ Nobody \notin User \cup Token

VARIABLES
  users,     (* the rows of users                                          *)
  disabled,  (* users.disabled                                             *)
  session,   (* sessions: the user of each row, Nobody if there is none      *)
  expired,   (* the sessions whose expires_at has passed                   *)
  request,   (* each client: how far, for whom, with which token or target *)
  late,      (* history: an actor was disabled before its own disabling of *)
             (* another user reached the database                          *)
  doomed     (* history: the sessions the DELETE of a disabling has to end *)

accountVars == <<users, disabled, session, expired, request, late, doomed>>

NoRequest == [pc |-> "away", user |-> Nobody, token |-> Nobody, target |-> Nobody]

RequestPC == {"away", "login", "check", "handler", "disable", "delete"}

AccountsTypeOK ==
  /\ users \subseteq User /\ disabled \subseteq users
  /\ session \in [Token -> users \cup {Nobody}]
  /\ expired \subseteq Token
  /\ request \in [Client -> [pc : RequestPC, user : User \cup {Nobody},
                             token : Token \cup {Nobody}, target : User \cup {Nobody}]]
  /\ late \in BOOLEAN /\ doomed \subseteq Token

AccountsInit ==
  /\ users = {} /\ disabled = {}
  /\ session = [t \in Token |-> Nobody] /\ expired = {}
  /\ request = [c \in Client |-> NoRequest]
  /\ late = FALSE /\ doomed = {}

To(c, r) == request' = [request EXCEPT ![c] = r]
Rows == <<users, disabled, session, expired, late, doomed>>

\* The DELETE of a disabling of u is still to come.
StillDeletes(u) == \E c \in Client : request[c].pc = "delete" /\ request[c].target = u
SessionsOf(u) == {t \in Token : session[t] = u}

\* EnsureAdmin when the database is there, in one process or in several: the
\* one that finds the address taken is content.
EnsureAdmin ==
  /\ Seeded \notin users /\ users' = users \cup {Seeded}
  /\ UNCHANGED <<disabled, session, expired, request, late, doomed>>

\* Authenticate reads the row, and the password is right.
Authenticate(c, u) ==
  /\ request[c].pc = "away"
  /\ u \in users \ disabled
  /\ To(c, [NoRequest EXCEPT !.pc = "login", !.user = u])
  /\ UNCHANGED Rows

\* CreateSession, with the user that was read before, who may have been
\* disabled since.
CreateSession(c, t) ==
  /\ request[c].pc = "login"
  /\ session[t] = Nobody /\ t \notin expired
  /\ \A d \in Client : request[d].token # t     \* tokens are random
  /\ session' = [session EXCEPT ![t] = request[c].user]
  /\ doomed' = IF StillDeletes(request[c].user) /\ request[c].user \in disabled
               THEN doomed \cup {t} ELSE doomed \ {t}
  /\ To(c, NoRequest)
  /\ UNCHANGED <<users, disabled, expired, late>>

\* A request comes with a token somebody was given once.
Comes(c, t) ==
  /\ request[c].pc = "away"
  /\ To(c, [NoRequest EXCEPT !.pc = "check", !.token = t])
  /\ UNCHANGED Rows

\* UserByToken.
Known(t) == session[t] # Nobody /\ t \notin expired /\ session[t] \notin disabled

RequireAuth(c) ==
  /\ request[c].pc = "check"
  /\ IF Known(request[c].token)
     THEN To(c, [request[c] EXCEPT !.pc = "handler", !.user = session[request[c].token]])
     ELSE To(c, NoRequest)
  /\ UNCHANGED Rows

\* Not behind requireAuth.
Logout(c) ==
  /\ request[c].pc = "check"
  /\ session' = [session EXCEPT ![request[c].token] = Nobody]
  /\ To(c, NoRequest)
  /\ UNCHANGED <<users, disabled, expired, late, doomed>>

\* Any other handler, a refusal, or a session that ended with its answer.
Handled(c) ==
  /\ request[c].pc \in {"handler", "login"}
  /\ To(c, NoRequest) /\ UNCHANGED Rows

RequireAdmin(c) == request[c].pc = "handler" /\ request[c].user \in Admin

CreateUser(c, u) ==
  /\ RequireAdmin(c)
  /\ users' = users \cup {u}       \* or ErrEmailTaken
  /\ To(c, NoRequest)
  /\ UNCHANGED <<disabled, session, expired, late, doomed>>

\* Fault: administrators may disable themselves.
DisableAnyone(c, u) ==
  /\ RequireAdmin(c)
  /\ To(c, [request[c] EXCEPT !.pc = "disable", !.target = u])
  /\ UNCHANGED Rows

\* setUserDisabled, until its UPDATE is sent.
SetUserDisabled(c, u) ==
  /\ RequireAdmin(c) /\ u # request[c].user
  /\ To(c, [request[c] EXCEPT !.pc = "disable", !.target = u])
  /\ UNCHANGED Rows

\* SetDisabled's UPDATE.  Of an unknown user it finds no row.
Disable(c) ==
  LET u == request[c].target
  IN /\ request[c].pc = "disable"
     /\ disabled' = disabled \cup ({u} \cap users)
     /\ late' = (late \/ (u \in users /\ request[c].user \in disabled))
     /\ doomed' = doomed \cup SessionsOf(u)
     /\ To(c, IF u \in users THEN [request[c] EXCEPT !.pc = "delete"] ELSE NoRequest)
     /\ UNCHANGED <<users, session, expired>>

Enable(c) ==
  /\ request[c].pc = "disable"
  /\ disabled' = disabled \ {request[c].target}
  /\ To(c, NoRequest)
  /\ UNCHANGED <<users, session, expired, late, doomed>>

Ended(S) == [t \in Token |-> IF t \in S THEN Nobody ELSE session[t]]

\* Fault: the sessions are deleted if the user is still disabled.
DeleteIfDisabled(c) ==
  LET u == request[c].target
  IN /\ request[c].pc = "delete"
     /\ \/ session' = Ended(IF u \in disabled THEN SessionsOf(u) ELSE {}) /\ UNCHANGED doomed
        \/ doomed' = doomed \ SessionsOf(u) /\ UNCHANGED session
     /\ To(c, NoRequest)
     /\ UNCHANGED <<users, disabled, expired, late>>

\* The UPDATE is committed by itself: the DELETE may fail, and its error, or
\* what a request that ended leaves undone, is ignored.
DeleteUserSessions(c) ==
  LET u == request[c].target
  IN /\ request[c].pc = "delete"
     /\ \/ session' = Ended(SessionsOf(u)) /\ UNCHANGED doomed
        \/ doomed' = doomed \ SessionsOf(u) /\ UNCHANGED session
     /\ To(c, NoRequest)
     /\ UNCHANGED <<users, disabled, expired, late>>

Expire(t) ==
  /\ session[t] # Nobody /\ t \notin expired /\ expired' = expired \cup {t}
  /\ UNCHANGED <<users, disabled, session, request, late, doomed>>

\* The rows go, the tokens of expired sessions are not made again.
SweepExpired ==
  /\ session' = Ended(expired)
  /\ UNCHANGED <<users, disabled, expired, request, late, doomed>>

AccountsNext ==
  \/ EnsureAdmin \/ SweepExpired \/ \E t \in Token : Expire(t)
  \/ \E c \in Client :
       \/ \E t \in Token : CreateSession(c, t) \/ Comes(c, t)
       \/ \E u \in User  : Authenticate(c, u) \/ CreateUser(c, u) \/ SetUserDisabled(c, u)
       \/ RequireAuth(c) \/ Logout(c) \/ Handled(c)
       \/ Disable(c) \/ Enable(c) \/ DeleteUserSessions(c)

AccountsSpec == AccountsInit /\ [][AccountsNext]_accountVars

(***************************************************************************)
(* Properties.                                                             *)
(***************************************************************************)
\* A session its user had when he was disabled, or that a login under way got
\* before the DELETE, does not come back to life when he is enabled: once the
\* DELETE of the disabling has run it is gone, whoever logs in, enables or
\* disables in between.  Left are those a login inserts after the DELETE, and
\* those of a DELETE that failed: UserByToken refuses them until Enable.
DisablingEndsSessions ==
  \A t \in doomed : session[t] # Nobody => StillDeletes(session[t])

\* "you cannot disable your own account" keeps an administrator who can enable
\* the others, unless the one who disables had been disabled meanwhile: the
\* handler does not look again.
AdminRemains ==
  users \cap Admin # {} => late \/ \E a \in users \cap Admin : a \notin disabled
=============================================================================
