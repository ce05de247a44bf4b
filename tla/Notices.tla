------------------------------- MODULE Notices -------------------------------
(***************************************************************************)
(* notifications.Repo, and what its writers publish through the hub.  The  *)
(* notice that tells the administrators that a document waits for review   *)
(* is written once, as long as nobody has read it: NotifyAdminsOnce takes  *)
(* an advisory lock on (document, kind), looks for an unread one, inserts. *)
(* Any number of fingerprint jobs, on any process, may call it for one     *)
(* document.  Other notices and the events of documents are published      *)
(* without a condition.                                                    *)
(***************************************************************************)
EXTENDS Hub

CONSTANTS
  Doc,    (* documents                                                     *)
  None    (* no thread                                                     *)

ASSUME NoticesAssumption == None \notin Thread /\ Doc # {}

VARIABLES
  gone,    (* documents that were deleted                                  *)
  unread,  (* unread notices of kind review of each document               *)
  lock,    (* the transaction that holds the advisory lock of a document   *)
  once     (* the call of NotifyAdminsOnce each thread is in               *)

noticevars == <<gone, unread, lock, once>>
vars == <<hubvars, noticevars>>

NoCall == [pc |-> "idle", doc |-> CHOOSE d \in Doc : TRUE]

\* Types; a channel never holds more than its buffer.
TypeOK ==
  /\ HubTypeOK
  /\ gone \subseteq Doc
  /\ unread \in [Doc -> Nat]
  /\ lock \in [Doc -> Thread \cup {None}]
  /\ once \in [Thread -> [pc : {"idle", "lock", "look", "insert"}, doc : Doc]]

Init ==
  /\ HubInit
  /\ gone = {}
  /\ unread = [d \in Doc |-> 0]
  /\ lock = [d \in Doc |-> None]
  /\ once = [t \in Thread |-> NoCall]

-----------------------------------------------------------------------------
(* NotifyAdminsOnce.                                                       *)

Free(t) == once[t].pc = "idle" /\ At(t, "idle") /\ count[t] < MaxEvents[t]

NotifyAdminsOnce(t, d) ==
  /\ Free(t)
  /\ once' = [once EXCEPT ![t] = [pc |-> "lock", doc |-> d]]
  /\ UNCHANGED <<hubvars, gone, unread, lock>>

\* Fault: no pg_advisory_xact_lock.
Unlocked(d) == TRUE

CanLock(d) == lock[d] = None

Lock(t) ==
  /\ once[t].pc = "lock" /\ CanLock(once[t].doc)
  /\ lock' = [lock EXCEPT ![once[t].doc] = t]
  /\ once' = [once EXCEPT ![t].pc = "look"]
  /\ UNCHANGED <<hubvars, gone, unread>>

\* The transaction ends, and with it the lock.
End(t) ==
  /\ lock' = [lock EXCEPT ![once[t].doc] = IF @ = t THEN None ELSE @]
  /\ once' = [once EXCEPT ![t] = NoCall]

Look(t) ==
  /\ once[t].pc = "look"
  /\ IF unread[once[t].doc] > 0 THEN End(t)
     ELSE once' = [once EXCEPT ![t].pc = "insert"] /\ UNCHANGED lock
  /\ UNCHANGED <<hubvars, gone, unread>>

\* INSERT and COMMIT, then Publish; the foreign key refuses a document that
\* is gone.
Insert(t) ==
  LET d == once[t].doc
  IN  /\ once[t].pc = "insert" /\ d \notin gone
      /\ unread' = [unread EXCEPT ![d] = @ + 1]
      /\ End(t)
      /\ Publish(t)
      /\ UNCHANGED gone

\* The answer to the COMMIT is lost: the notice is there, nobody hears of it.
InsertUnheard(t) ==
  LET d == once[t].doc
  IN  /\ once[t].pc = "insert" /\ d \notin gone
      /\ unread' = [unread EXCEPT ![d] = @ + 1]
      /\ End(t)
      /\ UNCHANGED <<hubvars, gone>>

\* Any other error; it is ignored by publishFingerprint.
Fail(t) ==
  /\ once[t].pc # "idle"
  /\ End(t)
  /\ UNCHANGED <<hubvars, gone, unread>>

-----------------------------------------------------------------------------
(* The other writers.                                                      *)

\* insert (NotifyUser, NotifyAdmins), and the events of documents.
Announce(t) == Free(t) /\ Publish(t) /\ UNCHANGED noticevars

MarkRead(t, d) ==
  /\ Free(t) /\ unread[d] > 0
  /\ unread' = [unread EXCEPT ![d] = @ - 1]
  /\ Publish(t)
  /\ UNCHANGED <<gone, lock, once>>

MarkAllRead(t) ==
  /\ Free(t)
  /\ unread' = [d \in Doc |-> 0]
  /\ Publish(t)
  /\ UNCHANGED <<gone, lock, once>>

\* ON DELETE SET NULL: its notices stay, but belong to no document.
DeleteDocument(d) ==
  /\ d \notin gone
  /\ gone' = gone \cup {d}
  /\ unread' = [unread EXCEPT ![d] = 0]
  /\ UNCHANGED <<hubvars, lock, once>>

Next ==
  \/ HubStep /\ UNCHANGED noticevars
  \/ \E t \in Thread :
       \/ \E d \in Doc : NotifyAdminsOnce(t, d) \/ MarkRead(t, d)
       \/ Lock(t) \/ Look(t) \/ Insert(t) \/ InsertUnheard(t) \/ Fail(t)
       \/ Announce(t) \/ MarkAllRead(t)
  \/ \E d \in Doc : DeleteDocument(d)

Spec == Init /\ [][Next]_vars

\* The statements of broadcast never wait, and Publish gives Redis two
\* seconds.  Nothing is assumed of the streams, of Redis or of the database.
Publishes(t) == (Serve(t) \/ PublishRedis(t)) /\ UNCHANGED noticevars

Fairness == \A t \in Thread : WF_vars(Publishes(t))

FairSpec == Spec /\ Fairness

-----------------------------------------------------------------------------
(* Properties.                                                             *)

\* However many sources of a document turn out to be duplicates at the same
\* time, on however many processes, one unread notice asks for its review.
OneUnread == \A d \in Doc : unread[d] <= 1

\* A stream that is not read, or is cancelled half-way, keeps no publisher
\* waiting: every call of Publish returns.
PublishEnds == \A t \in Thread : At(t, "send") ~> At(t, "idle")
=============================================================================
