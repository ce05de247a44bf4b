------------------------------ MODULE Pipeline ------------------------------
(***************************************************************************)
(* The background work of one process: worker.Pool with its bounded queue, *)
(* and the three kinds of job Service gives it, which fingerprint a        *)
(* source, ask the engine for its title, and compare that title with       *)
(* others.  Jobs come from uploads, from title jobs, and from the sweeper  *)
(* that requeues rows which never finished.  The process may be shut down, *)
(* or die and be started again; the rows of the database stay.             *)
(*                                                                         *)
(* Time is left out: a delay, a timeout and a backoff are steps that may   *)
(* be taken late.  What a job writes besides the columns the sweeper       *)
(* queries is in Documents and TitleSimilar.                               *)
(***************************************************************************)
EXTENDS Naturals, Sequences, FiniteSets, Functions

CONSTANTS
  Source,       (* sources that may be uploaded, in a natural order         *)
  Worker,       (* the goroutines Start runs                                *)
  Capacity,     (* of the jobs channel                                      *)
  HeavySlots,   (* Limits.Heavy                                             *)
  TitleSlots,   (* Limits.Title                                             *)
  Batch,        (* recoverBatch                                             *)
  UploadedAs,   (* what the upload of each source may be, a TitleKind       *)
  HasEngine,    (* engine.Configured()                                      *)
  MayStop,      (* bound: is the process shut down                          *)
  MaxFailures,  (* bound: how many hash and similar jobs fail               *)
  MaxRestarts   (* bound: how often the process dies                        *)

\* A PDF without a printed title, one that comes with it, an image.
TitleKind == {"awaited", "printed", "none"}

ASSUME PipelineAssumption ==
  /\ Source \subseteq Nat /\ Source # {}
  /\ {Capacity, HeavySlots, TitleSlots, Batch} \subseteq Nat \ {0}
  /\ UploadedAs \in [Source -> SUBSET TitleKind]
  /\ {HasEngine, MayStop} \subseteq BOOLEAN /\ {MaxFailures, MaxRestarts} \subseteq Nat

VARIABLES
  stored,      (* the sources that have a row                              *)
  hashed,      (* content_sha256 IS NOT NULL                               *)
  needsTitle,  (* needs_title                                              *)
  scanned,     (* title_similar_at IS NOT NULL                             *)
  queue,       (* Pool.jobs                                                *)
  hashing,     (* Service.hashing, and titling and similaring              *)
  titling,
  similaring,
  worker,      (* the job each worker runs, and how far it is              *)
  sweep,       (* RunRecovery: how far, and the rows still to be queued    *)
  upload,      (* Create or AddSources: how far the request of s is        *)
  phase,       (* of the process                                           *)
  failures,
  restarts

rows  == <<stored, hashed, needsTitle, scanned>>
marks == <<hashing, titling, similaring>>
vars  == <<stored, hashed, needsTitle, scanned, queue, hashing,
           titling, similaring, worker, sweep, upload, phase, failures,
           restarts>>
proc  == <<phase, failures, restarts>>

Job == [kind : {"hash", "title", "similar"}, src : Source]
Idle == [pc |-> "idle", src |-> CHOOSE s \in Source : TRUE, slot |-> FALSE]

WorkerPC == {"idle", "exited", "hash", "fetch", "analyze", "title", "engine",
             "offer", "submit", "similar"}
SweepPC  == {"rest", "hash", "title", "submit title", "similar",
             "submit similar", "over"}
UploadPC == {"new", "hash", "title", "submit", "similar", "done"}

\* Types; the channel of jobs never holds more than its capacity.
TypeOK ==
  /\ \A S \in {stored, hashed, needsTitle, scanned} : S \subseteq Source
  /\ \A S \in {hashing, titling, similaring} : S \subseteq Source
  /\ queue \in Seq(Job) /\ Len(queue) <= Capacity
  /\ worker \in [Worker -> [pc : WorkerPC, src : Source, slot : BOOLEAN]]
  /\ sweep \in [pc : SweepPC, todo : Seq(Source)]
  /\ upload \in [Source -> [pc : UploadPC, title : TitleKind]]
  /\ phase \in {"up", "draining", "stopped"}
  /\ failures \in 0 .. MaxFailures /\ restarts \in 0 .. MaxRestarts

Init ==
  /\ stored = {} /\ hashed = {} /\ needsTitle = {} /\ scanned = {}
  /\ queue = <<>>
  /\ hashing = {} /\ titling = {} /\ similaring = {}
  /\ worker = [w \in Worker |-> Idle]
  /\ sweep = [pc |-> "rest", todo |-> <<>>]
  /\ upload = [s \in Source |-> [pc |-> "new", title |-> "none"]]
  /\ phase = "up"
  /\ failures = 0 /\ restarts = 0

-----------------------------------------------------------------------------
(* worker.Pool.  A select with two ready branches takes either.            *)

Room == Len(queue) < Capacity

Accept(k, s) == Room /\ queue' = Append(queue, [kind |-> k, src |-> s])

\* Fault: Submit does not watch the context of the pool.
NeverCancelled == FALSE

\* TrySubmit fails on a full queue, Submit waits; both return the error of a
\* pool that has been stopped.
Busy ==
  (~Room \/ phase = "stopped") /\ UNCHANGED queue
Cancelled ==
  phase = "stopped" /\ UNCHANGED queue

Move(w, pc) == worker' = [worker EXCEPT ![w].pc = pc]
Leave(w)    == worker' = [worker EXCEPT ![w] = Idle]

Running(pcs) == {w \in Worker : worker[w].pc \in pcs}

Take(w) ==
  /\ worker[w].pc = "idle"
  /\ queue # <<>>
  /\ worker' = [worker EXCEPT ![w].pc = Head(queue).kind,
                              ![w].src = Head(queue).src]
  /\ queue' = Tail(queue)
  /\ UNCHANGED <<rows, marks, sweep, upload, proc>>

Exit(w) ==
  /\ worker[w].pc = "idle"
  /\ phase = "stopped"
  /\ Move(w, "exited")
  /\ UNCHANGED <<rows, marks, queue, sweep, upload, proc>>

-----------------------------------------------------------------------------
(* The queueing of jobs: enqueueHash, enqueueTitle and enqueueSimilar for  *)
(* one source.  The wait = true forms claim a source first (LoadOrStore)   *)
(* and submit in a step of its own.                                        *)

EnqueueHash(s) ==
  IF s \in hashing THEN UNCHANGED queue ELSE Accept("hash", s) \/ Busy

\* Fault: the title is queued without a claim on its source.
TryTitleUnclaimed(s) ==
  (Accept("title", s) \/ Busy) /\ UNCHANGED titling

TryTitle(s) ==
  IF s \in titling THEN UNCHANGED <<queue, titling>>
  ELSE \/ Accept("title", s) /\ titling' = titling \cup {s}
       \/ Busy /\ UNCHANGED titling

TrySimilar(s) ==
  IF s \in similaring THEN UNCHANGED <<queue, similaring>>
  ELSE \/ Accept("similar", s) /\ similaring' = similaring \cup {s}
       \/ Busy /\ UNCHANGED similaring

SubmitTitle(s) ==
  \/ Accept("title", s) /\ UNCHANGED titling
  \/ Cancelled /\ titling' = titling \ {s}

SubmitSimilar(s) ==
  \/ Accept("similar", s) /\ UNCHANGED similaring
  \/ Cancelled /\ similaring' = similaring \ {s}

-----------------------------------------------------------------------------
(* Jobs.  A source in hand is worker[w].src.                               *)

\* hashSource: LoadOrStore, or return.
EnterHash(w) ==
  LET s == worker[w].src
  IN  /\ worker[w].pc = "hash"
      /\ IF s \in hashing
         THEN Leave(w) /\ UNCHANGED hashing
         ELSE Move(w, "fetch") /\ hashing' = hashing \cup {s}
      /\ UNCHANGED <<rows, titling, similaring, queue, sweep, upload, proc>>

\* Fault: a return that skips the deferred hashing.Delete.
LeaveHashMarked(w) ==
  /\ Leave(w)
  /\ UNCHANGED <<stored, needsTitle, scanned, marks, queue, sweep, upload,
                 phase, restarts>>

LeaveHash(w) ==
  /\ Leave(w)
  /\ hashing' = hashing \ {worker[w].src}
  /\ UNCHANGED <<stored, needsTitle, scanned, titling, similaring,
                 queue, sweep, upload, phase, restarts>>

Fails == failures < MaxFailures /\ failures' = failures + 1

AcquireHeavy(w) ==
  /\ worker[w].pc = "fetch"
  /\ worker[w].src \notin hashed
  /\ Cardinality(Running({"analyze"})) < HeavySlots
  /\ Move(w, "analyze")
  /\ UNCHANGED <<rows, marks, queue, sweep, upload, proc>>

\* publishFingerprint, with what was read of the file or with Missing.
HashDone(w) ==
  /\ worker[w].pc = "analyze"
  /\ hashed' = hashed \cup {worker[w].src}
  /\ LeaveHash(w) /\ UNCHANGED failures

\* Hashed before; or out of attempts, or of the four minutes of a job.
HashEnds(w) ==
  /\ \/ /\ worker[w].pc = "fetch"
        /\ worker[w].src \in hashed
        /\ UNCHANGED failures
     \/ worker[w].pc \in {"fetch", "analyze"} /\ Fails
  /\ LeaveHash(w) /\ UNCHANGED hashed

\* SetSourceTitle with a printed title, other than the stored one or not.
SetSourceTitle(s, changed) ==
  /\ needsTitle' = needsTitle \ {s}
  /\ scanned' = IF changed THEN scanned \ {s} ELSE scanned
  /\ UNCHANGED <<stored, hashed>>

\* runTitleSource: a title that was settled meanwhile is stored once more.
TitleSettled(w) ==
  LET s == worker[w].src
  IN  /\ worker[w].pc \in {"title", "engine"}
      /\ s \notin needsTitle
      /\ SetSourceTitle(s, FALSE)
      /\ Move(w, "offer")
      /\ UNCHANGED <<marks, queue, sweep, upload, proc>>

\* Also when GetSource failed and nothing is known of the stored title.
AcquireTitle(w) ==
  /\ worker[w].pc = "title"
  /\ Cardinality({v \in Worker : worker[v].slot}) < TitleSlots
  /\ worker' = [worker EXCEPT ![w].pc = "engine", ![w].slot = TRUE]
  /\ UNCHANGED <<rows, marks, queue, sweep, upload, proc>>

EngineAnswers(w) ==
  /\ worker[w].pc = "engine"
  /\ SetSourceTitle(worker[w].src, TRUE)
  /\ Move(w, "offer")
  /\ UNCHANGED <<marks, queue, sweep, upload, proc>>

LeaveTitle(w) ==
  /\ Leave(w)
  /\ titling' = titling \ {worker[w].src}
  /\ UNCHANGED <<stored, hashed, scanned, hashing, sweep, upload,
                 proc>>

\* DeferTitleRetry: no slot in time, no printed title, a failing engine; or
\* ClearNeedsTitle: the file is gone.
TitleFails(w) ==
  LET s == worker[w].src
  IN  /\ worker[w].pc \in {"title", "engine"}
      /\ \/ UNCHANGED needsTitle
         \/ worker[w].pc = "engine" /\ needsTitle' = needsTitle \ {s}
      /\ LeaveTitle(w)
      /\ UNCHANGED <<similaring, queue>>

\* afterPrintedTitle, with the title slot still in hand.
OfferSimilar(w) ==
  LET s == worker[w].src
  IN  /\ worker[w].pc = "offer"
      /\ IF s \in similaring
         THEN LeaveTitle(w) /\ UNCHANGED <<needsTitle, similaring>>
         ELSE /\ similaring' = similaring \cup {s}
              /\ Move(w, "submit")
              /\ UNCHANGED <<rows, hashing, titling, sweep, upload, proc>>
      /\ UNCHANGED queue

\* The context is the one of the pool: no deadline ends this.
WorkerSubmits(w) ==
  /\ worker[w].pc = "submit"
  /\ SubmitSimilar(worker[w].src)
  /\ LeaveTitle(w) /\ UNCHANGED needsTitle

\* similarSource stamps the row, unless a statement fails or a sibling's title
\* is still awaited.
Similar(w) ==
  LET s == worker[w].src
  IN  /\ worker[w].pc = "similar"
      /\ \/ scanned' = scanned \cup {s} /\ UNCHANGED failures
         \/ Fails /\ UNCHANGED scanned
      /\ similaring' = similaring \ {s}
      /\ Leave(w)
      /\ UNCHANGED <<stored, hashed, needsTitle, hashing, titling,
                     queue, sweep, upload, phase, restarts>>

-----------------------------------------------------------------------------
(* Uploads: Create and AddSources from their INSERT on.                    *)

Advance(s, pc) ==
  /\ upload' = [upload EXCEPT ![s].pc = pc]
  /\ UNCHANGED <<worker, sweep, proc>>

Insert(s, title) ==
  /\ upload[s].pc = "new"
  /\ phase = "up"
  /\ title \in UploadedAs[s]
  /\ stored' = stored \cup {s}
  /\ needsTitle' = IF title = "awaited" THEN needsTitle \cup {s} ELSE needsTitle
  /\ upload' = [upload EXCEPT ![s] = [pc |-> "hash", title |-> title]]
  /\ UNCHANGED <<hashed, scanned, queue, marks, worker, sweep, proc>>

UploadHash(s) ==
  /\ upload[s].pc = "hash"
  /\ EnqueueHash(s)
  /\ Advance(s, "title")
  /\ UNCHANGED <<rows, marks>>

\* enqueueTitle: nothing without an engine; a printed title is stored again
\* and its comparison submitted at once; an untitled PDF is queued if it can be.
UploadTitle(s) ==
  /\ upload[s].pc = "title"
  /\ IF HasEngine /\ upload[s].title = "printed"
     THEN /\ SetSourceTitle(s, FALSE)
          /\ IF s \in similaring
             THEN UNCHANGED similaring /\ Advance(s, "similar")
             ELSE similaring' = similaring \cup {s} /\ Advance(s, "submit")
          /\ UNCHANGED <<queue, hashing, titling>>
     ELSE /\ IF HasEngine /\ upload[s].title = "awaited"
             THEN TryTitle(s)
             ELSE UNCHANGED <<queue, titling>>
          /\ Advance(s, "similar")
          /\ UNCHANGED <<rows, hashing, similaring>>

UploadSubmits(s) ==
  /\ upload[s].pc = "submit"
  /\ SubmitSimilar(s)
  /\ Advance(s, "similar")
  /\ UNCHANGED <<rows, hashing, titling>>

\* NeedsTitle is the one of the upload, not of the row.
UploadSimilar(s) ==
  /\ upload[s].pc = "similar"
  /\ IF upload[s].title = "awaited"
     THEN UNCHANGED <<queue, similaring>>
     ELSE TrySimilar(s)
  /\ Advance(s, "done")
  /\ UNCHANGED <<rows, hashing, titling>>

-----------------------------------------------------------------------------
(* RunRecovery and RecoverPending.                                         *)

\* The oldest rows of S in their order, all of them or one batch.
OldestOf(S) ==
  {q \in UNION {[1 .. n -> S] : n \in 0 .. Batch} :
     /\ \A i, j \in DOMAIN q : i < j => q[i] < q[j]
     /\ \A s \in S \ Range(q) : Len(q) = Batch /\ \A i \in DOMAIN q : q[i] < s}

Sweep(pc, todo) == sweep' = [pc |-> pc, todo |-> todo]

Lists(pc, S) == \E todo \in OldestOf(S) : Sweep(pc, todo)

SweepFrame == UNCHANGED <<worker, upload, proc>>

\* ListUnhashed.
SweepBegin ==
  /\ sweep.pc = "rest" /\ phase = "up"
  /\ Lists("hash", stored \ hashed)
  /\ UNCHANGED <<rows, marks, queue>> /\ SweepFrame

SweepHash ==
  /\ sweep.pc = "hash" /\ sweep.todo # <<>>
  /\ EnqueueHash(Head(sweep.todo))
  /\ Sweep("hash", Tail(sweep.todo))
  /\ UNCHANGED <<rows, marks>> /\ SweepFrame

\* ListNeedingTitle; the query says nothing of the engine.
SweepListTitles ==
  /\ sweep = [pc |-> "hash", todo |-> <<>>]
  /\ Lists("title", needsTitle)
  /\ UNCHANGED <<rows, marks, queue>> /\ SweepFrame

SweepTitle ==
  /\ sweep.pc = "title" /\ sweep.todo # <<>>
  /\ LET s == Head(sweep.todo)
     IN  IF ~HasEngine \/ s \in titling
         THEN Sweep("title", Tail(sweep.todo)) /\ UNCHANGED titling
         ELSE Sweep("submit title", sweep.todo) /\ titling' = titling \cup {s}
  /\ UNCHANGED <<rows, hashing, similaring, queue>> /\ SweepFrame

SweepSubmitsTitle ==
  /\ sweep.pc = "submit title"
  /\ \/ SubmitTitle(Head(sweep.todo)) /\ Sweep("title", Tail(sweep.todo))
     \/ /\ phase # "up" /\ Sweep("over", <<>>)
        /\ titling' = titling \ {Head(sweep.todo)} /\ UNCHANGED queue
  /\ UNCHANGED <<rows, hashing, similaring>> /\ SweepFrame

SweepListSimilar ==
  /\ sweep = [pc |-> "title", todo |-> <<>>]
  /\ Lists("similar", stored \ (scanned \cup needsTitle))
  /\ UNCHANGED <<rows, marks, queue>> /\ SweepFrame

SweepSimilar ==
  /\ sweep.pc = "similar" /\ sweep.todo # <<>>
  /\ LET s == Head(sweep.todo)
     IN  IF s \in similaring
         THEN Sweep("similar", Tail(sweep.todo)) /\ UNCHANGED similaring
         ELSE /\ Sweep("submit similar", sweep.todo)
              /\ similaring' = similaring \cup {s}
  /\ UNCHANGED <<rows, hashing, titling, queue>> /\ SweepFrame

SweepSubmitsSimilar ==
  /\ sweep.pc = "submit similar"
  /\ \/ SubmitSimilar(Head(sweep.todo)) /\ Sweep("similar", Tail(sweep.todo))
     \/ /\ phase # "up" /\ Sweep("over", <<>>)
        /\ similaring' = similaring \ {Head(sweep.todo)} /\ UNCHANGED queue
  /\ UNCHANGED <<rows, hashing, titling>> /\ SweepFrame

\* A sweep is over, or one of its queries failed.
SweepRests ==
  /\ \/ sweep = [pc |-> "similar", todo |-> <<>>]
     \/ sweep.pc \in {"hash", "title"} /\ sweep.todo = <<>>
  /\ Sweep("rest", <<>>)
  /\ UNCHANGED <<rows, marks, queue>> /\ SweepFrame

SweepOver ==
  /\ sweep.pc = "rest" /\ phase # "up"
  /\ Sweep("over", <<>>)
  /\ UNCHANGED <<rows, marks, queue>> /\ SweepFrame

-----------------------------------------------------------------------------
(* The process.                                                            *)

\* The signal ends the sweeper and stops the server from accepting requests.
Drain ==
  /\ MayStop
  /\ phase = "up" /\ phase' = "draining"
  /\ UNCHANGED <<rows, marks, queue, worker, sweep, upload, failures, restarts>>

\* Shutdown has waited for the requests, or its time is over.
StopPool ==
  /\ phase = "draining" /\ phase' = "stopped"
  /\ UNCHANGED <<rows, marks, queue, worker, sweep, upload, failures, restarts>>

\* Everything but the rows is gone, the requests with it.
Restart ==
  /\ restarts < MaxRestarts
  /\ restarts' = restarts + 1
  /\ queue' = <<>> /\ hashing' = {} /\ titling' = {} /\ similaring' = {}
  /\ worker' = [w \in Worker |-> Idle]
  /\ sweep' = [pc |-> "rest", todo |-> <<>>]
  /\ upload' = [s \in Source |->
                  IF s \in stored THEN [upload[s] EXCEPT !.pc = "done"]
                  ELSE upload[s]]
  /\ phase' = "up"
  /\ UNCHANGED <<rows, failures>>

Work(w) ==
  \/ Take(w) \/ EnterHash(w) \/ AcquireHeavy(w) \/ HashDone(w) \/ HashEnds(w)
  \/ TitleSettled(w) \/ AcquireTitle(w) \/ EngineAnswers(w) \/ TitleFails(w)
  \/ OfferSimilar(w) \/ WorkerSubmits(w) \/ Similar(w)

Request(s) == UploadHash(s) \/ UploadTitle(s) \/ UploadSubmits(s) \/ UploadSimilar(s)

SweepNext ==
  \/ SweepBegin \/ SweepHash \/ SweepListTitles \/ SweepTitle
  \/ SweepSubmitsTitle \/ SweepListSimilar \/ SweepSimilar
  \/ SweepSubmitsSimilar \/ SweepRests \/ SweepOver

Next ==
  \/ \E w \in Worker : Work(w) \/ Exit(w)
  \/ \E s \in Source : Request(s) \/ \E title \in TitleKind : Insert(s, title)
  \/ SweepNext
  \/ Drain \/ StopPool \/ Restart

Spec == Init /\ [][Next]_vars

\* Goroutines that can run do run, and the timer of the sweeper fires.  Among
\* the ready branches of a select Go chooses at random, so an idle worker of a
\* stopped pool does not take job after job.
Fairness ==
  /\ \A w \in Worker : WF_vars(Work(w)) /\ SF_vars(Exit(w))
  /\ \A s \in Source : WF_vars(Request(s))
  /\ WF_vars(SweepNext) /\ WF_vars(StopPool)

FairSpec == Spec /\ Fairness

\* A channel serves blocked senders in the order they came: an upload that
\* waits in Submit gets room if workers go on taking jobs.
SendersInTurn == \A s \in Source : SF_vars(UploadSubmits(s))
FairSendersSpec == FairSpec /\ SendersInTurn

-----------------------------------------------------------------------------
(* Properties.                                                             *)

Queued(k, s) == {i \in 1 .. Len(queue) : queue[i] = [kind |-> k, src |-> s]}
Holding(pcs, s) == {w \in Running(pcs) : worker[w].src = s}
Sweeping(pc, s) == {i \in {1} : sweep.pc = pc /\ Head(sweep.todo) = s}

\* The number of jobs of a kind a source has: queued, running, or still with
\* the goroutine that has claimed it.
Hashes(s) == Cardinality(Holding({"fetch", "analyze"}, s))
Titles(s) ==
  Cardinality(Queued("title", s)) + Cardinality(Sweeping("submit title", s))
  + Cardinality(Holding({"title", "engine", "offer", "submit"}, s))
Similars(s) ==
  Cardinality(Queued("similar", s)) + Cardinality(Sweeping("submit similar", s))
  + Cardinality(Holding({"submit", "similar"}, s))
  + (IF upload[s].pc = "submit" THEN 1 ELSE 0)

\* The marks are exact: a source has at most one fingerprint under way, one
\* title job and one comparison, queued ones included, and a mark is left
\* behind by no error path, which would shut the source out for good.
MarksExact ==
  \A s \in Source :
    /\ Hashes(s)   = IF s \in hashing THEN 1 ELSE 0
    /\ Titles(s)   = IF s \in titling THEN 1 ELSE 0
    /\ Similars(s) = IF s \in similaring THEN 1 ELSE 0

\* Shutting down ends every worker, wherever it waits, unless the process is
\* killed and comes up again.
StopEnds == phase = "draining" ~> Running({"exited"}) = Worker \/ phase = "up"

\* service.go:668, "A saturated pool must never stall an upload: the row stays
\* unhashed and the recovery sweeper picks it up": while the process is up, the
\* request of a stored source ends, and the source is fingerprinted, through a
\* full queue, failed jobs and a restart.
EveryUploadServed ==
  \A s \in Source :
    s \in stored ~> (upload[s].pc = "done" /\ s \in hashed) \/ phase # "up"
=============================================================================
