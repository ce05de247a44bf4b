------------------------------- MODULE R2Cache -------------------------------
(***************************************************************************)
(* blob.R2: objects in a bucket, and a directory of copies of them on the  *)
(* disk of the node.  Put, LocalPath, Delete and ImportDir run in many     *)
(* goroutines; a table of reference-counted locks, one for each path,      *)
(* orders the calls for one object, while trimCache removes copies of any  *)
(* object and takes no lock for it.                                        *)
(*                                                                         *)
(* cachePath is injective, so a path is the key itself, and the cache is   *)
(* counted in files.  An object never changes: a key is put once.  The     *)
(* process does not restart here.                                          *)
(***************************************************************************)
EXTENDS Naturals, FiniteSets

CONSTANTS
  Thread,     (* the goroutines that call the store                         *)
  Key,        (* storage keys                                               *)
  Lock,       (* the cacheLock values that may be allocated                 *)
  LocalDir,   (* the keys of files ImportDir finds in the local directory   *)
  MaxCache,   (* maxCacheBytes, in files                                    *)
  None        (* no lock, no thread                                         *)

ASSUME R2CacheAssumption ==
  /\ IsFiniteSet(Thread)
  /\ Key # {} /\ LocalDir \subseteq Key
  /\ MaxCache \in Nat
  /\ None \notin Lock \cup Thread

VARIABLES
  object,   (* the keys with an object in the bucket                        *)
  cached,   (* the keys with a file in cacheDir                             *)
  recent,   (* those of them whose file was written within the last 30 s    *)
  row,      (* what the database says of a key                              *)
  table,    (* cacheLocks                                                   *)
  refs,     (* refs of each cacheLock                                       *)
  holder,   (* mu of each cacheLock: the thread that has it                 *)
  thread    (* the call each goroutine is in, and how far it is             *)

locks == <<table, refs, holder>>
files == <<object, cached, recent>>
vars  == <<object, cached, recent, row, table, refs, holder, thread>>

Row  == {"new", "storing", "live", "gone"}
Call == {"put", "import", "path", "delete"}

Held  == {"enter", "rename", "walk", "evict", "forget", "unlock"}
Using == Held \cup {"lock", "release"}
PC    == Using \cup {"idle", "head", "open", "missing"}

\* listed, total: the walk of trimCache.
ThreadState ==
  [pc : PC, call : Call, key : Key, lock : Lock \cup {None},
   result : {"ok", "absent", "failed"}, listed : SUBSET Key, total : Nat]

\* Types of the cache; nothing is cached that was not written.
TypeOK ==
  /\ object \subseteq Key /\ cached \subseteq Key /\ recent \subseteq cached
  /\ row \in [Key -> Row]
  /\ table \in [Key -> Lock \cup {None}]
  /\ refs \in [Lock -> Nat]
  /\ holder \in [Lock -> Thread \cup {None}]
  /\ thread \in [Thread -> ThreadState]

Calls(pc, call, k, l) ==
  [pc |-> pc, call |-> call, key |-> k, lock |-> l,
   result |-> "failed", listed |-> {}, total |-> 0]
Idle == Calls("idle", "path", CHOOSE k \in Key : TRUE, None)

\* The rows of files in the local directory were stored by an earlier version;
\* some of their objects may have been imported before.
Init ==
  /\ object \in SUBSET LocalDir
  /\ cached = {} /\ recent = {}
  /\ row = [k \in Key |-> IF k \in LocalDir THEN "live" ELSE "new"]
  /\ table = [k \in Key |-> None]
  /\ refs = [l \in Lock |-> 0]
  /\ holder = [l \in Lock |-> None]
  /\ thread = [t \in Thread |-> Idle]

At(t, pc) == thread[t].pc = pc
Go(t, pc) == thread' = [thread EXCEPT ![t].pc = pc]
Rest(t) == thread' = [thread EXCEPT ![t] = Idle]
Give(t, pc, res) == thread' = [thread EXCEPT ![t].pc = pc, ![t].result = res]

-----------------------------------------------------------------------------
(* lockCache and the function it returns.                                  *)

Live(l) == \/ \E k \in Key : table[k] = l
           \/ \E t \in Thread : thread[t].lock = l

\* The first section under cacheMu: find the lock of the path, or make one.
Find(t, k, call) ==
  \E l \in Lock :
    /\ IF table[k] = None THEN ~Live(l) ELSE l = table[k]
    /\ table' = [table EXCEPT ![k] = l]
    /\ refs' = [refs EXCEPT ![l] = IF table[k] = None THEN 1 ELSE @ + 1]
    /\ thread' = [thread EXCEPT ![t] = Calls("lock", call, k, l)]
    /\ UNCHANGED holder

\* Fault: the mutex is not taken.
AcquireAnyway(t) ==
  /\ At(t, "lock")
  /\ holder' = [holder EXCEPT ![thread[t].lock] = t]
  /\ Go(t, "enter")
  /\ UNCHANGED <<files, row, table, refs>>

Acquire(t) ==
  /\ At(t, "lock")
  /\ holder[thread[t].lock] = None
  /\ holder' = [holder EXCEPT ![thread[t].lock] = t]
  /\ Go(t, "enter")
  /\ UNCHANGED <<files, row, table, refs>>

\* Fault: an error path that does not unlock.
UnlockOnSuccess(t) ==
  /\ At(t, "unlock")
  /\ holder' = [holder EXCEPT ![thread[t].lock] = IF thread[t].result = "ok" THEN None ELSE @]
  /\ Go(t, "release")
  /\ UNCHANGED <<files, row, table, refs>>

Unlock(t) ==
  /\ At(t, "unlock")
  /\ holder' = [holder EXCEPT ![thread[t].lock] = None]
  /\ Go(t, "release")
  /\ UNCHANGED <<files, row, table, refs>>

Decrement(l) == refs[l] - 1

\* Fault: the entry is deleted although others wait for its lock.
DropAlways(l) == TRUE

Drop(l) == Decrement(l) = 0

\* hashSource and runTitleSource open the path they get, and take ErrNotFound
\* for a file that is gone.
Returns(t) ==
  IF thread[t].call # "path" \/ thread[t].result = "failed" THEN Rest(t)
  ELSE thread' = [thread EXCEPT
         ![t].pc = IF thread[t].result = "ok" THEN "open" ELSE "missing",
         ![t].lock = None]

\* The second section under cacheMu.
Release(t) ==
  LET l == thread[t].lock
      k == thread[t].key
  IN  /\ At(t, "release")
      /\ refs' = [refs EXCEPT ![l] = Decrement(l)]
      /\ table' = [table EXCEPT ![k] = IF Drop(l) THEN None ELSE @]
      /\ Returns(t)
      /\ row' = IF thread[t].call = "put"
                THEN [row EXCEPT ![k] = IF thread[t].result = "ok" THEN "live" ELSE "gone"]
                ELSE row
      /\ UNCHANGED <<files, holder>>

-----------------------------------------------------------------------------
(* The calls.  A service of this program asks for a file after it has read *)
(* the row, stores one before it inserts the row, and deletes one after it *)
(* has deleted the row.                                                    *)

Put(t, k) ==
  /\ At(t, "idle") /\ row[k] = "new"
  /\ row' = [row EXCEPT ![k] = "storing"]
  /\ Find(t, k, "put")
  /\ UNCHANGED files

LocalPath(t, k) ==
  /\ At(t, "idle") /\ row[k] = "live"
  /\ Find(t, k, "path")
  /\ UNCHANGED <<files, row>>

Delete(t, k) ==
  /\ At(t, "idle") /\ row[k] = "live"
  /\ row' = [row EXCEPT ![k] = "gone"]
  /\ Find(t, k, "delete")
  /\ UNCHANGED files

\* ImportDir: hasObject first, and a Put if it says no.
HasObject(t, k) ==
  /\ At(t, "idle") /\ k \in LocalDir \ object
  /\ thread' = [thread EXCEPT ![t] = Calls("head", "import", k, None)]
  /\ UNCHANGED <<files, row, locks>>

Import(t) ==
  /\ At(t, "head")
  /\ Find(t, thread[t].key, "import")
  /\ UNCHANGED <<files, row>>

-----------------------------------------------------------------------------
(* Under the lock of the path.                                             *)

Upload(t) ==
  LET k == thread[t].key
  IN  /\ At(t, "enter") /\ thread[t].call \in {"put", "import"}
      /\ object' = object \cup {k}
      /\ Go(t, "rename")
      /\ UNCHANGED <<cached, recent, row, locks>>

\* The upload fails, and the object may be there all the same.
UploadFails(t) ==
  LET k == thread[t].key
  IN  /\ At(t, "enter") /\ thread[t].call \in {"put", "import"}
      /\ object' \in {object, object \cup {k}}
      /\ Give(t, "unlock", "failed")
      /\ UNCHANGED <<cached, recent, row, locks>>

Hit(t) ==
  /\ At(t, "enter") /\ thread[t].call = "path"
  /\ thread[t].key \in cached
  /\ Give(t, "unlock", "ok")
  /\ UNCHANGED <<files, row, locks>>

\* Open and the copy: the object is read as a whole, or the call fails.
Fetch(t) ==
  /\ At(t, "enter") /\ thread[t].call = "path"
  /\ thread[t].key \notin cached
  /\ \/ thread[t].key \in object /\ Go(t, "rename")
     \/ thread[t].key \notin object /\ Give(t, "unlock", "absent")
     \/ Give(t, "unlock", "failed")
  /\ UNCHANGED <<files, row, locks>>

\* Of the temporary file.
Rename(t) ==
  /\ At(t, "rename")
  /\ cached' = cached \cup {thread[t].key}
  /\ recent' = recent \cup {thread[t].key}
  /\ Give(t, "walk", "ok")
  /\ UNCHANGED <<object, row, locks>>

\* Sync, Close or Rename fails after the upload or the download.
RenameFails(t) ==
  /\ At(t, "rename")
  /\ Give(t, "unlock", "failed")
  /\ UNCHANGED <<files, row, locks>>

\* The walk of trimCache: nothing is removed while the files are small enough,
\* and no file of the last 30 seconds.
Victims == IF Cardinality(cached) > MaxCache THEN cached \ recent ELSE {}

List(t) ==
  /\ At(t, "walk")
  /\ thread' = [thread EXCEPT ![t].pc = "evict",
                              ![t].listed = Victims,
                              ![t].total = Cardinality(cached)]
  /\ UNCHANGED <<files, row, locks>>

Keep == (MaxCache * 3) \div 4

\* os.Remove of one file of the walk, oldest first: which is older is left
\* open.  Neither its lock nor its time is looked at again.
Trim(t, k) ==
  /\ At(t, "evict") /\ k \in thread[t].listed
  /\ thread[t].total > Keep
  /\ cached' = cached \ {k} /\ recent' = recent \ {k}
  /\ thread' = [thread EXCEPT ![t].listed = @ \ {k},
                              ![t].total = IF k \in cached THEN @ - 1 ELSE @]
  /\ UNCHANGED <<object, row, locks>>

Trimmed(t) ==
  /\ At(t, "evict")
  /\ thread[t].listed = {} \/ thread[t].total <= Keep
  /\ thread' = [thread EXCEPT ![t].pc = "unlock", ![t].listed = {}, ![t].total = 0]
  /\ UNCHANGED <<files, row, locks>>

\* DeleteObject: it fails before or after the object is gone, or succeeds.
DeleteObject(t) ==
  /\ At(t, "enter") /\ thread[t].call = "delete"
  /\ \/ object' = object \ {thread[t].key} /\ Give(t, "forget", "ok")
     \/ /\ object' \in {object, object \ {thread[t].key}}
        /\ Give(t, "forget", "failed")
  /\ UNCHANGED <<cached, recent, row, locks>>

\* Fault: the copy is removed only if the bucket did not fail.
ForgetOnSuccess(t) ==
  LET gone == IF thread[t].result = "ok" THEN {thread[t].key} ELSE {}
  IN  /\ At(t, "forget")
      /\ cached' = cached \ gone /\ recent' = recent \ gone
      /\ Go(t, "unlock")
      /\ UNCHANGED <<object, row, locks>>

Forget(t) ==
  /\ At(t, "forget")
  /\ cached' = cached \ {thread[t].key}
  /\ recent' = recent \ {thread[t].key}
  /\ Go(t, "unlock")
  /\ UNCHANGED <<object, row, locks>>

-----------------------------------------------------------------------------
(* The file of the result, and time.                                       *)

OpenFile(t) ==
  /\ At(t, "open")
  /\ IF thread[t].key \in cached THEN Rest(t) ELSE Go(t, "missing")
  /\ UNCHANGED <<files, row, locks>>

\* publishFingerprint with Missing, or ClearNeedsTitle.
ActOnMissing(t) ==
  /\ At(t, "missing")
  /\ Rest(t)
  /\ UNCHANGED <<files, row, locks>>

\* A hit does not write the file: its time is the one of the download.
Age(k) ==
  /\ k \in recent
  /\ recent' = recent \ {k}
  /\ UNCHANGED <<object, cached, row, locks, thread>>

-----------------------------------------------------------------------------
Begins(t) ==
  \E k \in Key : Put(t, k) \/ LocalPath(t, k) \/ Delete(t, k) \/ HasObject(t, k)

Works(t) ==
  \/ Import(t) \/ Unlock(t) \/ Release(t)
  \/ Upload(t) \/ UploadFails(t) \/ Hit(t) \/ Fetch(t)
  \/ Rename(t) \/ RenameFails(t) \/ List(t) \/ Trimmed(t)
  \/ \E k \in Key : Trim(t, k)
  \/ DeleteObject(t) \/ Forget(t) \/ OpenFile(t) \/ ActOnMissing(t)

Next ==
  \/ \E t \in Thread : Begins(t) \/ Acquire(t) \/ Works(t)
  \/ \E k \in Key : Age(k)

Spec == Init /\ [][Next]_vars

\* Every call to the bucket and the disk returns (contexts have deadlines), and
\* sync.Mutex does not pass over a waiter for ever (starvation mode).
FairSpec ==
  Spec /\ \A t \in Thread : WF_vars(Works(t)) /\ SF_vars(Acquire(t))

-----------------------------------------------------------------------------
(* Properties.                                                             *)

\* No two calls for one path are under its lock at once, whichever of them
\* made the entry of cacheLocks and whichever deleted it ("cacheLock
\* serialises access to one cached object").
Serialised ==
  \A t, u \in Thread :
    t # u /\ thread[t].pc \in Held /\ thread[u].pc \in Held
      => thread[t].key # thread[u].key

\* "Entries are reference counted so the table cannot grow with every object
\* the node has ever touched": a path has an entry as long as a call uses it,
\* and no longer.
TableExact ==
  \A k \in Key :
    table[k] # None <=> \E t \in Thread : thread[t].pc \in Using /\ thread[t].key = k

\* A copy has its object in the bucket, except while the call that deletes the
\* object holds the lock: no download that began before a Delete leaves a copy
\* after it, and a Delete that failed leaves none either.
CopiesBacked ==
  \A k \in cached \ object :
    \E t \in Thread : thread[t].key = k /\ At(t, "forget")

\* The inductive invariant behind them: who uses a path has its lock, locks of
\* two paths differ, a mutex has the holder its callers say, refs counts them.
Users(k) == {t \in Thread : thread[t].pc \in Using /\ thread[t].key = k}

\* The table of locks, the mutexes and the calls agree.
LockInv ==
  /\ \A t \in Thread :
       IF thread[t].pc \in Using
       THEN thread[t].lock \in Lock /\ table[thread[t].key] = thread[t].lock
       ELSE thread[t].lock = None
  /\ \A l \in Lock, t \in Thread :
       holder[l] = t <=> thread[t].lock = l /\ thread[t].pc \in Held
  /\ \A j, k \in Key : table[j] = table[k] /\ table[j] # None => j = k
  /\ \A k \in Key : table[k] # None => refs[table[k]] = Cardinality(Users(k))
  /\ TableExact

FileInv ==
  /\ IsFiniteSet(cached)
  /\ \A t \in Thread :
       At(t, "rename") => thread[t].key \in object /\ thread[t].call # "delete"
  /\ CopiesBacked

\* What blob.Store promises, of the bucket and the answers of the calls: a path
\* that is returned was hit or downloaded while its object was there, a file is
\* reported absent while it was not, and a call that fails has changed nothing
\* but its own object.  The copies, the locks and the trimming do not show.
Outside == {"idle", "head", "open", "missing"}
Pending == {"lock", "enter", "rename"}

CallOf(s) ==
  IF s.pc \in Outside
  THEN [op |-> "none", key |-> CHOOSE k \in Key : TRUE, answer |-> "none"]
  ELSE [op     |-> IF s.call = "import" THEN "put" ELSE s.call,
        key    |-> s.key,
        answer |-> IF s.pc \in Pending THEN "none" ELSE s.result]

seen == [t \in Thread |-> CallOf(thread[t])]

BlobStore == INSTANCE Store WITH Caller <- Thread, stored <- object, call <- seen

ImplementsStore == BlobStore!Spec

\* Every call returns: no error path keeps the lock of a path others wait for.
CallsReturn ==
  \A t \in Thread : ~At(t, "idle") ~> At(t, "idle")

\* "Missing is a unique placeholder hash for a source whose blob is gone": what
\* finds a file missing finds it so, while the source has its row, because the bucket has no object.
MissingIsGone ==
  \A t \in Thread :
    At(t, "missing") /\ row[thread[t].key] = "live" => thread[t].key \notin object
=============================================================================
