------------------------------- MODULE Intake -------------------------------
(***************************************************************************)
(* The calls of documents.Service that keep two stores in step: the tables *)
(* (module Documents, whose transactions are the atomic steps used here)   *)
(* and the blob store, one object per source.                              *)
(*                                                                         *)
(* An upload stores its files two at a time, then inserts the rows, and    *)
(* deletes what it stored when anything fails.  Delete and Reject remove   *)
(* the rows first and the objects after the commit, ignoring errors.  The  *)
(* hash job asks LocalPath for a file, waits for a heavy slot, opens it    *)
(* and publishes a fingerprint, or the placeholder Missing when LocalPath  *)
(* or the open finds nothing.  With the R2 driver that file is a copy in a *)
(* cache, which may be trimmed during the wait.  A service moved from the  *)
(* Local driver to R2 copies what StorageDir holds into the bucket while   *)
(* it already serves calls (ImportDir).                                    *)
(*                                                                         *)
(* Faults: a Put that reports an error although the object was written, a  *)
(* Delete of an object that fails, a COMMIT whose answer does not arrive,  *)
(* and a crash of the process.  After a lost COMMIT retry.Do may run the   *)
(* transaction again; that attempt is taken to follow at once, finds its   *)
(* own row (or none to delete) and reports an error like the first.        *)
(***************************************************************************)
EXTENDS Documents

CONSTANTS
  Thread,     (* the calls in progress                                     *)
  ErpOf,      (* the ERP number typed in for each document                 *)
  Drivers,    (* the drivers the service may start with                    *)
  MaxFaults   (* bound on the faults of a behaviour                        *)

ASSUME IntakeAssumption ==
  /\ MaxFaults \in Nat /\ Doc # {}
  /\ Drivers \subseteq {"local", "r2"}

VARIABLES
  object,   (* the sources whose file is in the blob store                 *)
  used,     (* the source ids that uuid.New has given out                  *)
  call,     (* what each call is doing                                     *)
  read,     (* the hash job of a source: what LocalPath, then Analyze gave *)
  driver,   (* the driver of the blob store                                *)
  local,    (* the files the Local driver left in StorageDir               *)
  faults,   (* faults so far                                               *)
  lost,     (* history: sources inserted by a COMMIT nobody heard of       *)
  trimmed,  (* history: sources whose copy was trimmed before Analyze      *)
  orphans   (* history: sources whose object was left to itself            *)

place == <<driver, local, trimmed>>
ivars == <<object, used, call, read, place, faults, lost, orphans>>
allvars == <<vars, ivars>>

\* phase: "store" while storeFiles runs and until the rows are inserted,
\* "clean" while objects are deleted.  todo: the files still to store.
\* done: the files stored so far, or those still to delete.  bad: some file
\* failed, or the insertion did.
Call == [phase : {"idle", "create", "add", "clean"}, doc : Doc,
         todo : SUBSET Source, done : SUBSET Source, bad : BOOLEAN]

Idle == [phase |-> "idle", doc |-> CHOOSE d \in Doc : TRUE,
         todo |-> {}, done |-> {}, bad |-> FALSE]

Cleaning(d, K) == [Idle EXCEPT !.phase = "clean", !.doc = d, !.done = K]

\* Types of the object store, the calls and the histories.
ITypeOK ==
  /\ object \subseteq Source
  /\ used \subseteq Source
  /\ call \in [Thread -> Call]
  /\ read \in [Source -> {"none", "path", "gone", "file", "missing"}]
  /\ driver \in {"local", "r2"}
  /\ local \subseteq Source
  /\ trimmed \subseteq Source
  /\ faults \in 0 .. MaxFaults
  /\ lost \subseteq Source
  /\ orphans \subseteq Source

IInit ==
  /\ Init
  /\ object = {}
  /\ used = {}
  /\ call = [t \in Thread |-> Idle]
  /\ read = [s \in Source |-> "none"]
  /\ driver \in Drivers
  /\ local = {}
  /\ trimmed = {}
  /\ faults = 0
  /\ lost = {}
  /\ orphans = {}

Fault == faults < MaxFaults /\ faults' = faults + 1

-----------------------------------------------------------------------------
(* Create and AddSources.                                                  *)

Begin(t, phase, d, S) ==
  /\ call[t].phase = "idle"
  /\ S # {}
  /\ \A s \in S : s \notin used /\ DocOf[s] = d
  /\ used' = used \cup S
  /\ call' = [call EXCEPT ![t] = [phase |-> phase, doc |-> d, todo |-> S,
                                  done |-> {}, bad |-> FALSE]]
  /\ UNCHANGED <<vars, object, read, place, faults, lost, orphans>>

\* uuid.New: no other call creates document d.
BeginCreate(t, d, S) ==
  /\ doc[d] = "new"
  /\ \A u \in Thread : call[u].phase = "create" => call[u].doc # d
  /\ Cardinality(S) <= MaxSources
  /\ Begin(t, "create", d, S)

\* The number of sources is read here, before the files are stored.
BeginAdd(t, d, S) ==
  /\ doc[d] = "live"
  /\ Cardinality(SourcesOf(d)) + Cardinality(S) <= MaxSources
  /\ Begin(t, "add", d, S)

Storing(t) == call[t].phase \in {"create", "add"}

\* One file of storeFiles.  A source gets into the result only when its Put
\* succeeds; the error of another file does not undo it.
Put(t, s) ==
  /\ Storing(t) /\ s \in call[t].todo
  /\ object' = object \cup {s}
  /\ call' = [call EXCEPT ![t].todo = @ \ {s}, ![t].done = @ \cup {s}]
  /\ UNCHANGED <<vars, used, read, place, faults, lost, orphans>>

\* Too large, not a document, cancelled, or the store is down.
PutRefused(t, s) ==
  /\ Storing(t) /\ s \in call[t].todo
  /\ call' = [call EXCEPT ![t].todo = @ \ {s}, ![t].bad = TRUE]
  /\ UNCHANGED <<vars, object, used, read, place, faults, lost, orphans>>

\* The object is there, but Put failed after it (the answer is lost, or the
\* copy in the cache cannot be renamed): nonEmpty leaves it out of cleanup.
PutHalf(t, s) ==
  /\ Storing(t) /\ s \in call[t].todo
  /\ driver = "r2"
  /\ Fault
  /\ object' = object \cup {s}
  /\ orphans' = orphans \cup {s}
  /\ call' = [call EXCEPT ![t].todo = @ \ {s}, ![t].bad = TRUE]
  /\ UNCHANGED <<vars, used, read, place, lost>>

ErpTaken(d) == \E e \in Doc : doc[e] = "live" /\ ErpOf[e] = ErpOf[d]

CommitRows(t) ==
  \/ /\ call[t].phase = "create"
     /\ ~ErpTaken(call[t].doc)
     /\ InsertDocument(call[t].doc, call[t].done)
  \/ /\ call[t].phase = "add"
     /\ InsertSources(call[t].doc, call[t].done)

Ready(t) == Storing(t) /\ call[t].todo = {} /\ ~call[t].bad

Insert(t) ==
  /\ Ready(t)
  /\ CommitRows(t)
  /\ call' = [call EXCEPT ![t] = Idle]
  /\ UNCHANGED <<object, used, read, place, faults, lost, orphans>>

\* ErrERPTaken, ErrNotFound, ErrTooMany, or a database that is not there.
InsertFails(t) ==
  /\ Ready(t)
  /\ call' = [call EXCEPT ![t].bad = TRUE]
  /\ UNCHANGED <<vars, object, used, read, place, faults, lost, orphans>>

\* The rows are committed, and the caller gets an error.
InsertLost(t) ==
  /\ Ready(t)
  /\ CommitRows(t)
  /\ Fault
  /\ lost' = lost \cup call[t].done
  /\ call' = [call EXCEPT ![t].bad = TRUE]
  /\ UNCHANGED <<object, used, read, place, orphans>>

\* Fault: the error is returned without the cleanup.
NoCleanup(c) == Idle

Cleanup(c) == Cleaning(c.doc, c.done)

\* g.Wait returns once every file is through, with the first error.
GiveUp(t) ==
  /\ Storing(t) /\ call[t].todo = {} /\ call[t].bad
  /\ call' = [call EXCEPT ![t] = Cleanup(call[t])]
  /\ UNCHANGED <<vars, object, used, read, place, faults, lost, orphans>>

-----------------------------------------------------------------------------
(* Delete, Reject, Approve, and the deletion of objects.                   *)

DeleteKeys(d) == SourcesOf(d)

\* Fault: the keys of all sources, as in Delete.
EveryKey(d) == SourcesOf(d)

RejectKeys(d) == Rejected(d)

\* The transaction that removes the rows, and the keys it returns.
RemoveRows(d, K) ==
  \/ Delete(d) /\ K = DeleteKeys(d)
  \/ RejectPending(d) /\ K = RejectKeys(d)

Remove(t, d, K) ==
  /\ call[t].phase = "idle"
  /\ RemoveRows(d, K)
  /\ call' = [call EXCEPT ![t] = Cleaning(d, K)]
  /\ UNCHANGED <<object, used, read, place, faults, lost, orphans>>

\* Committed, but the call ends with ErrNotFound, ErrInvalid or the error.
RemoveLost(d, K) ==
  /\ RemoveRows(d, K)
  /\ Fault
  /\ orphans' = orphans \cup K
  /\ UNCHANGED <<object, used, call, read, place, lost>>

Review(d) == Approve(d) /\ UNCHANGED ivars

CleanOne(t, s) ==
  /\ call[t].phase = "clean" /\ s \in call[t].done
  /\ object' = object \ {s}
  /\ call' = [call EXCEPT ![t].done = @ \ {s}]
  /\ UNCHANGED <<vars, used, read, place, faults, lost, orphans>>

CleanFails(t, s) ==
  /\ call[t].phase = "clean" /\ s \in call[t].done
  /\ Fault
  /\ orphans' = orphans \cup {s}
  /\ call' = [call EXCEPT ![t].done = @ \ {s}]
  /\ UNCHANGED <<vars, object, used, read, place, lost>>

CleanDone(t) ==
  /\ call[t].phase = "clean" /\ call[t].done = {}
  /\ call' = [call EXCEPT ![t] = Idle]
  /\ UNCHANGED <<vars, object, used, read, place, faults, lost, orphans>>

-----------------------------------------------------------------------------
(* The hash job.                                                           *)

\* Fault: an error of the store other than ErrNotFound counts as missing.
AnyErrorIsMissing(s) == {"path", "missing"}

\* What LocalPath can answer.  The Local driver looks at nothing; a copy in
\* the R2 cache is a hit, even when another process deleted the object.
Found(s) == {"path"} \cup {k \in {"missing"} : driver = "r2" /\ s \notin object}

\* SourceMeta finds the row without a hash, LocalPath fetches the file.
LocalPath(s) ==
  /\ row[s] = "live" /\ hash[s] = "none"
  /\ read[s] = "none"
  /\ \E k \in Found(s) : read' = [read EXCEPT ![s] = k]
  /\ UNCHANGED <<vars, object, used, call, place, faults, lost, orphans>>

\* A Put or LocalPath of another key trims the copy the job waits to open.
Trim(s) ==
  /\ driver = "r2" /\ read[s] = "path"
  /\ read' = [read EXCEPT ![s] = "gone"]
  /\ trimmed' = trimmed \cup {s}
  /\ UNCHANGED <<vars, object, used, call, driver, local, faults, lost, orphans>>

\* A path has no file when the object went; a cached copy may outlive it, and
\* a trimmed one may have been fetched again by another job.
Opened(s) ==
  {k \in {"file"} : s \in object \/ (driver = "r2" /\ read[s] = "path")}
    \cup {k \in {"missing"} : read[s] = "gone" \/ s \notin object}

\* os.ErrNotExist of Analyze is what LocalPath's ErrNotFound is.
Analyze(s) ==
  /\ read[s] \in {"path", "gone"}
  /\ \E k \in Opened(s) : read' = [read EXCEPT ![s] = k]
  /\ UNCHANGED <<vars, object, used, call, place, faults, lost, orphans>>

\* Any other error: retry.Do begins again, or the job gives up.
JobFails(s) ==
  /\ read[s] # "none"
  /\ read' = [read EXCEPT ![s] = "none"]
  /\ UNCHANGED <<vars, object, used, call, place, faults, lost, orphans>>

\* publishFingerprint; the row may have left in the meantime.
Publish(s) ==
  /\ read[s] \in {"file", "missing"}
  /\ \/ Finalize(s, read[s],
                 {DocOf[s]} \cup {DocOf[t] : t \in Candidates(s, read[s])})
     \/ row[s] # "live" /\ UNCHANGED vars
  /\ read' = [read EXCEPT ![s] = "none"]
  /\ UNCHANGED <<object, used, call, place, faults, lost, orphans>>

-----------------------------------------------------------------------------
(* The crash, and the move to another driver.                              *)

Live == {s \in Source : row[s] = "live"}

InCalls == UNION {call[t].done : t \in Thread}

\* The process ends: what the calls had stored stays where it is.
Ends ==
  /\ orphans' = orphans \cup InCalls
  /\ call' = [t \in Thread |-> Idle]
  /\ read' = [s \in Source |-> "none"]

Crash ==
  /\ Fault /\ Ends
  /\ UNCHANGED <<vars, object, used, place, lost>>

\* Restarted with the R2 driver (counted as a fault); the bucket is empty.
Move ==
  /\ driver = "local" /\ Fault /\ Ends
  /\ driver' = "r2" /\ local' = object /\ object' = {}
  /\ UNCHANGED <<vars, used, trimmed, lost>>

\* ImportDir puts every file the bucket lacks, the file of a document that
\* was deleted since (or before) among them, and keeps it in StorageDir.
Import(s) ==
  /\ s \in local \ object
  /\ object' = object \cup {s}
  /\ orphans' = orphans \cup ({s} \ (Live \cup InCalls))
  /\ UNCHANGED <<vars, used, call, read, place, faults, lost>>

Calls(t) ==
  \/ \E d \in Doc, S \in SUBSET Source : BeginCreate(t, d, S) \/ BeginAdd(t, d, S)
  \/ \E s \in Source : Put(t, s) \/ PutRefused(t, s) \/ PutHalf(t, s)
  \/ Insert(t) \/ InsertFails(t) \/ InsertLost(t) \/ GiveUp(t)
  \/ \E d \in Doc, K \in SUBSET Source : Remove(t, d, K)
  \/ \E s \in Source : CleanOne(t, s) \/ CleanFails(t, s)
  \/ CleanDone(t)

INext ==
  \/ \E t \in Thread : Calls(t)
  \/ \E d \in Doc, K \in SUBSET Source : RemoveLost(d, K)
  \/ \E d \in Doc : Review(d)
  \/ \E s \in Source : LocalPath(s) \/ Trim(s) \/ Analyze(s) \/ JobFails(s)
  \/ \E s \in Source : Publish(s) \/ Import(s)
  \/ Crash \/ Move

ISpec == IInit /\ [][INext]_allvars

-----------------------------------------------------------------------------
(* Properties.                                                             *)

\* A stored source has its file, in the store or still to be imported,
\* whatever uploads, deletions and declined reviews run at the same time: only
\* an upload whose COMMIT went unanswered deletes the files of rows that stay.
FilesBacked == Live \ lost \subseteq object \cup local

\* An object without a row belongs to a call that will still insert the row
\* or delete the object, or a fault or the import left it behind: no order of
\* Create, AddSources, Delete and Reject, and no refused upload, leaks storage.
NoOrphans == object \subseteq Live \cup InCalls \cup orphans

\* The placeholder hash of Missing, which makes a source unique for good, has
\* one of three causes: such a COMMIT deleted the file, the copy was trimmed
\* between LocalPath and Analyze, or the file was still to be imported.
MissingExplained ==
  \A s \in Live : hash[s] = "missing" => s \in lost \cup trimmed \cup local

Files(t) == call[t].todo \cup call[t].done

\* What makes the three inductive.  A call stores files of new ids only, and
\* never holds for deletion the file of a row that stays, unless the row is
\* one its caller was not told of; two calls share no file that may still be
\* inserted; and what a hash job has read of a source stays true of it.
CallOk(t) ==
  /\ call[t].phase \in {"idle", "clean"} => call[t].todo = {}
  /\ call[t].phase = "idle" => call[t].done = {}
  /\ Files(t) \subseteq used
  /\ \A s \in call[t].todo : row[s] = "new"
  /\ Storing(t) /\ ~call[t].bad =>
       \A s \in call[t].done : s \in object /\ row[s] = "new"
  /\ \A s \in call[t].done : row[s] = "live" => s \in lost

CallShape == \A t \in Thread : CallOk(t)

Apart ==
  \A t, u \in Thread : t # u =>
    \A s \in Files(t) \cap Files(u) : row[s] # "new"

Fresh ==
  /\ \A s \in Source : row[s] # "new" \/ s \in object \cup local => s \in used
  /\ driver = "local" => local = {}

ReadsRight ==
  \A s \in Source : read[s] # "none" =>
    /\ row[s] # "new"
    /\ read[s] = "gone" => s \in trimmed
    /\ read[s] = "missing" /\ row[s] = "live" => s \in lost \cup trimmed \cup local

\* The inductive invariant of this module, beside that of Documents.
IntakeInv == /\ ITypeOK /\ CallShape /\ Apart /\ Fresh /\ ReadsRight
             /\ FilesBacked /\ NoOrphans /\ MissingExplained
=============================================================================
