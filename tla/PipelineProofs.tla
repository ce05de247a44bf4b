---------------------------- MODULE PipelineProofs ----------------------------
(***************************************************************************)
(* The marks of the background work are exact, for any number of sources   *)
(* and workers, any sizes of queue, slots and batches, and any number of   *)
(* failures and restarts; and the slots in front of the scarce resources   *)
(* are given back, for any number of calls and slots.                      *)
(***************************************************************************)
EXTENDS Pipeline, Gates, FiniteSetTheorems, TLAPS

-----------------------------------------------------------------------------
(* Types.                                                                  *)

RowsOK   == /\ stored \subseteq Source /\ hashed \subseteq Source
            /\ needsTitle \subseteq Source /\ scanned \subseteq Source
MarksOK  == hashing \subseteq Source /\ titling \subseteq Source /\ similaring \subseteq Source
QueueOK  == queue \in Seq(Job) /\ Len(queue) <= Capacity
WorkerOK == worker \in [Worker -> [pc : WorkerPC, src : Source, slot : BOOLEAN]]
SweepOK  == sweep \in [pc : SweepPC, todo : Seq(Source)]
UploadOK == upload \in [Source -> [pc : UploadPC, title : TitleKind]]
ProcOK   == /\ phase \in {"up", "draining", "stopped"}
            /\ failures \in 0 .. MaxFailures /\ restarts \in 0 .. MaxRestarts

LEMMA TypeParts ==
  TypeOK <=> RowsOK /\ MarksOK /\ QueueOK /\ WorkerOK /\ SweepOK /\ UploadOK /\ ProcOK
  BY DEF TypeOK, RowsOK, MarksOK, QueueOK, WorkerOK, SweepOK, UploadOK, ProcOK

LEMMA TypePartsPrimed ==
  TypeOK' <=> RowsOK' /\ MarksOK' /\ QueueOK' /\ WorkerOK' /\ SweepOK' /\ UploadOK' /\ ProcOK'
  BY DEF TypeOK, RowsOK, MarksOK, QueueOK, WorkerOK, SweepOK, UploadOK, ProcOK

LEMMA IdleType == Idle \in [pc : WorkerPC, src : Source, slot : BOOLEAN]
  BY PipelineAssumption DEF Idle, WorkerPC

LEMMA OldestType ==
  ASSUME NEW S \in SUBSET Source, NEW q \in OldestOf(S)
  PROVE  q \in Seq(Source)
  BY DEF OldestOf

LEMMA Unchanged ==
  ASSUME TypeOK
  PROVE  /\ UNCHANGED rows => RowsOK'
         /\ UNCHANGED marks => MarksOK'
         /\ UNCHANGED queue => QueueOK'
         /\ UNCHANGED worker => WorkerOK'
         /\ UNCHANGED sweep => SweepOK'
         /\ UNCHANGED upload => UploadOK'
         /\ UNCHANGED proc => ProcOK'
  BY TypeParts
     DEF rows, marks, proc, RowsOK, MarksOK, QueueOK, WorkerOK, SweepOK, UploadOK, ProcOK

LEMMA AcceptType ==
  ASSUME TypeOK, NEW k \in {"hash", "title", "similar"}, NEW s \in Source, Accept(k, s)
  PROVE  QueueOK'
  <1>1. [kind |-> k, src |-> s] \in Job /\ queue \in Seq(Job) /\ Len(queue) < Capacity
    BY TypeParts DEF QueueOK, Job, Accept, Room
  <1>2. queue' = Append(queue, [kind |-> k, src |-> s])
    BY DEF Accept
  <1>3. Capacity \in Nat
    BY PipelineAssumption
  <1>q. QED BY <1>1, <1>2, <1>3 DEF QueueOK

\* A worker that goes on with its job, or is done with it.
LEMMA WorkerType ==
  ASSUME TypeOK, NEW w \in Worker, NEW pc \in WorkerPC, Move(w, pc) \/ Leave(w)
  PROVE  WorkerOK'
  BY TypeParts, IdleType DEF WorkerOK, Move, Leave

LEMMA UploadType ==
  ASSUME TypeOK, NEW s \in Source, NEW pc \in UploadPC, Advance(s, pc)
  PROVE  UploadOK' /\ WorkerOK' /\ SweepOK' /\ ProcOK'
  BY TypeParts, Unchanged DEF UploadOK, Advance

LEMMA WorkTypes ==
  ASSUME TypeOK, NEW w \in Worker, Work(w) \/ Exit(w)
  PROVE  TypeOK'
  <1> SUFFICES RowsOK' /\ MarksOK' /\ QueueOK' /\ WorkerOK' /\ SweepOK' /\ UploadOK' /\ ProcOK'
    BY TypePartsPrimed
  <1> USE TypeParts, Unchanged
  <1>s. worker[w].src \in Source
    BY DEF WorkerOK
  <1>1. CASE Take(w)
    <2>1. Head(queue) \in Job /\ Tail(queue) \in Seq(Job) /\ Len(Tail(queue)) <= Capacity
      BY <1>1, PipelineAssumption DEF Take, QueueOK
    <2>2. Head(queue).kind \in WorkerPC /\ Head(queue).src \in Source
      BY <2>1 DEF Job, WorkerPC
    <2>3. WorkerOK'
      BY <1>1, <2>2 DEF Take, WorkerOK
    <2>q. QED BY <1>1, <2>1, <2>3 DEF Take, QueueOK
  <1>2. CASE Exit(w)
    <2>1. WorkerOK' BY <1>2, WorkerType DEF Exit, WorkerPC
    <2>q. QED BY <1>2, <2>1 DEF Exit
  <1>3. CASE EnterHash(w)
    <2>1. WorkerOK' BY <1>3, WorkerType DEF EnterHash, WorkerPC
    <2>2. MarksOK' BY <1>3, <1>s DEF EnterHash, MarksOK
    <2>q. QED BY <1>3, <2>1, <2>2 DEF EnterHash
  <1>4. CASE AcquireHeavy(w)
    <2>1. WorkerOK' BY <1>4, WorkerType DEF AcquireHeavy, WorkerPC
    <2>q. QED BY <1>4, <2>1 DEF AcquireHeavy
  <1>5. CASE HashDone(w) \/ HashEnds(w)
    <2>1. LeaveHash(w) /\ hashed' \subseteq hashed \cup {worker[w].src}
      BY <1>5 DEF HashDone, HashEnds
    <2>2. WorkerOK'
      BY <2>1, WorkerType, IdleType DEF LeaveHash, WorkerPC
    <2>3. RowsOK' /\ MarksOK' BY <2>1, <1>s DEF LeaveHash, RowsOK, MarksOK
    <2>4. ProcOK'
      BY <1>5, <2>1, PipelineAssumption DEF LeaveHash, HashDone, HashEnds, Fails, ProcOK
    <2>q. QED BY <2>1, <2>2, <2>3, <2>4 DEF LeaveHash
  <1>6. CASE TitleSettled(w) \/ EngineAnswers(w)
    <2>1. WorkerOK'
      BY <1>6, WorkerType DEF TitleSettled, EngineAnswers, WorkerPC
    <2>2. RowsOK'
      BY <1>6 DEF TitleSettled, EngineAnswers, SetSourceTitle, RowsOK
    <2>q. QED BY <1>6, <2>1, <2>2 DEF TitleSettled, EngineAnswers
  <1>7. CASE AcquireTitle(w)
    <2>1. WorkerOK' BY <1>7 DEF AcquireTitle, WorkerOK, WorkerPC
    <2>q. QED BY <1>7, <2>1 DEF AcquireTitle
  <1>8. CASE TitleFails(w)
    <2>1. LeaveTitle(w) /\ needsTitle' \subseteq needsTitle /\ UNCHANGED <<similaring, queue>>
      BY <1>8 DEF TitleFails
    <2>2. WorkerOK' BY <2>1, WorkerType DEF LeaveTitle, WorkerPC
    <2>3. RowsOK' /\ MarksOK' BY <2>1 DEF LeaveTitle, RowsOK, MarksOK
    <2>q. QED BY <2>1, <2>2, <2>3 DEF LeaveTitle
  <1>9. CASE OfferSimilar(w)
    <2>1. CASE worker[w].src \in similaring
      <3>1. LeaveTitle(w) /\ UNCHANGED <<needsTitle, similaring, queue>>
        BY <1>9, <2>1 DEF OfferSimilar
      <3>2. WorkerOK' BY <3>1, WorkerType DEF LeaveTitle, WorkerPC
      <3>3. RowsOK' /\ MarksOK' BY <3>1 DEF LeaveTitle, RowsOK, MarksOK
      <3>q. QED BY <3>1, <3>2, <3>3 DEF LeaveTitle
    <2>2. CASE worker[w].src \notin similaring
      <3>1. WorkerOK' BY <1>9, <2>2, WorkerType DEF OfferSimilar, WorkerPC
      <3>2. MarksOK' BY <1>9, <2>2, <1>s DEF OfferSimilar, MarksOK
      <3>q. QED BY <1>9, <2>2, <3>1, <3>2 DEF OfferSimilar
    <2>q. QED BY <2>1, <2>2
  <1>10. CASE WorkerSubmits(w)
    <2>1. LeaveTitle(w) /\ UNCHANGED needsTitle /\ SubmitSimilar(worker[w].src)
      BY <1>10 DEF WorkerSubmits
    <2>2. QueueOK' BY <2>1, <1>s, AcceptType DEF SubmitSimilar, Cancelled
    <2>3. WorkerOK' BY <2>1, WorkerType DEF LeaveTitle, WorkerPC
    <2>4. RowsOK' /\ MarksOK' BY <2>1 DEF LeaveTitle, SubmitSimilar, RowsOK, MarksOK
    <2>q. QED BY <2>1, <2>2, <2>3, <2>4 DEF LeaveTitle
  <1>11. CASE Similar(w)
    <2>1. WorkerOK' BY <1>11, WorkerType DEF Similar, WorkerPC
    <2>2. RowsOK' /\ MarksOK' BY <1>11, <1>s DEF Similar, RowsOK, MarksOK
    <2>3. ProcOK' BY <1>11, PipelineAssumption DEF Similar, Fails, ProcOK
    <2>q. QED BY <1>11, <2>1, <2>2, <2>3 DEF Similar
  <1>q. QED
    BY <1>1, <1>2, <1>3, <1>4, <1>5, <1>6, <1>7, <1>8, <1>9, <1>10, <1>11 DEF Work

LEMMA RequestTypes ==
  ASSUME TypeOK, NEW s \in Source, Request(s) \/ \E title \in TitleKind : Insert(s, title)
  PROVE  TypeOK'
  <1> SUFFICES RowsOK' /\ MarksOK' /\ QueueOK' /\ WorkerOK' /\ SweepOK' /\ UploadOK' /\ ProcOK'
    BY TypePartsPrimed
  <1> USE TypeParts, Unchanged
  <1>1. ASSUME NEW title \in TitleKind, Insert(s, title)
        PROVE  RowsOK' /\ MarksOK' /\ QueueOK' /\ WorkerOK' /\ SweepOK' /\ UploadOK' /\ ProcOK'
    <2>1. RowsOK' BY <1>1 DEF Insert, RowsOK
    <2>2. UploadOK' BY <1>1 DEF Insert, UploadOK, UploadPC
    <2>q. QED BY <1>1, <2>1, <2>2 DEF Insert
  <1>2. CASE UploadHash(s)
    <2>1. QueueOK' BY <1>2, AcceptType DEF UploadHash, EnqueueHash, Busy
    <2>q. QED BY <1>2, <2>1, UploadType DEF UploadHash, UploadPC
  <1>3. CASE UploadTitle(s)
    <2>1. CASE HasEngine /\ upload[s].title = "printed"
      <3>1. RowsOK' BY <1>3, <2>1 DEF UploadTitle, SetSourceTitle, RowsOK
      <3>2. MarksOK' BY <1>3, <2>1 DEF UploadTitle, MarksOK
      <3>3. Advance(s, "similar") \/ Advance(s, "submit")
        BY <1>3, <2>1 DEF UploadTitle
      <3>q. QED BY <1>3, <2>1, <3>1, <3>2, <3>3, UploadType DEF UploadTitle, UploadPC
    <2>2. CASE ~(HasEngine /\ upload[s].title = "printed")
      <3>1. TryTitle(s) \/ UNCHANGED <<queue, titling>>
        BY <1>3, <2>2 DEF UploadTitle
      <3>2. QueueOK' BY <3>1, AcceptType DEF TryTitle, Busy
      <3>3. MarksOK' BY <1>3, <2>2, <3>1 DEF UploadTitle, TryTitle, MarksOK
      <3>q. QED BY <1>3, <2>2, <3>2, <3>3, UploadType DEF UploadTitle, UploadPC
    <2>q. QED BY <2>1, <2>2
  <1>4. CASE UploadSubmits(s)
    <2>1. QueueOK' BY <1>4, AcceptType DEF UploadSubmits, SubmitSimilar, Cancelled
    <2>2. MarksOK' BY <1>4 DEF UploadSubmits, SubmitSimilar, MarksOK
    <2>q. QED BY <1>4, <2>1, <2>2, UploadType DEF UploadSubmits, UploadPC
  <1>5. CASE UploadSimilar(s)
    <2>1. TrySimilar(s) \/ UNCHANGED <<queue, similaring>>
      BY <1>5 DEF UploadSimilar
    <2>2. QueueOK' BY <2>1, AcceptType DEF TrySimilar, Busy
    <2>3. MarksOK' BY <1>5, <2>1 DEF UploadSimilar, TrySimilar, MarksOK
    <2>q. QED BY <1>5, <2>2, <2>3, UploadType DEF UploadSimilar, UploadPC
  <1>q. QED BY <1>1, <1>2, <1>3, <1>4, <1>5 DEF Request

\* The list of the sweeper is read from the rows and gets shorter.
LEMMA SweepType ==
  ASSUME TypeOK, NEW pc \in SweepPC, NEW todo \in Seq(Source), Sweep(pc, todo)
  PROVE  SweepOK'
  BY TypeParts DEF SweepOK, Sweep

LEMMA ListType ==
  ASSUME TypeOK, NEW pc \in SweepPC, NEW S \in SUBSET Source, Lists(pc, S)
  PROVE  SweepOK'
  BY SweepType, OldestType DEF Lists

LEMMA TodoType ==
  ASSUME TypeOK
  PROVE  /\ sweep.pc \in SweepPC /\ sweep.todo \in Seq(Source)
         /\ sweep.todo # <<>> => /\ Head(sweep.todo) \in Source
                                 /\ Tail(sweep.todo) \in Seq(Source)
  BY TypeParts DEF SweepOK

\* A job that is being submitted is the first of the list.
SubmitsFirst == sweep.pc \in {"submit title", "submit similar"} => sweep.todo # <<>>

LEMMA SweepTypes ==
  ASSUME TypeOK, SubmitsFirst, SweepNext
  PROVE  TypeOK'
  <1> SUFFICES RowsOK' /\ MarksOK' /\ QueueOK' /\ WorkerOK' /\ SweepOK' /\ UploadOK' /\ ProcOK'
    BY TypePartsPrimed
  <1> USE TypeParts, Unchanged DEF SweepFrame
  <1>r. RowsOK BY TypeParts
  <1>e. <<>> \in Seq(Source) OBVIOUS
  <1>1. CASE SweepBegin
    <2>1. SweepOK' BY <1>1, <1>r, ListType DEF SweepBegin, RowsOK, SweepPC
    <2>q. QED BY <1>1, <2>1 DEF SweepBegin
  <1>2. CASE SweepHash
    <2>1. QueueOK' BY <1>2, AcceptType, TodoType DEF SweepHash, EnqueueHash, Busy
    <2>2. SweepOK' BY <1>2, SweepType, TodoType DEF SweepHash, SweepPC
    <2>q. QED BY <1>2, <2>1, <2>2 DEF SweepHash
  <1>3. CASE SweepListTitles
    <2>1. SweepOK' BY <1>3, <1>r, ListType DEF SweepListTitles, RowsOK, SweepPC
    <2>q. QED BY <1>3, <2>1 DEF SweepListTitles
  <1>4. CASE SweepTitle
    <2>1. SweepOK' BY <1>4, SweepType, TodoType DEF SweepTitle, SweepPC
    <2>2. MarksOK' BY <1>4, TodoType DEF SweepTitle, MarksOK
    <2>q. QED BY <1>4, <2>1, <2>2 DEF SweepTitle
  <1>5. CASE SweepSubmitsTitle
    <2>1. sweep.todo # <<>> BY <1>5 DEF SweepSubmitsTitle, SubmitsFirst
    <2>2. SweepOK' BY <1>5, <1>e, <2>1, SweepType, TodoType DEF SweepSubmitsTitle, SweepPC
    <2>3. MarksOK' BY <1>5 DEF SweepSubmitsTitle, SubmitTitle, MarksOK
    <2>4. QueueOK'
      BY <1>5, <2>1, AcceptType, TodoType DEF SweepSubmitsTitle, SubmitTitle, Cancelled
    <2>q. QED BY <1>5, <2>2, <2>3, <2>4 DEF SweepSubmitsTitle
  <1>6. CASE SweepListSimilar
    <2>1. SweepOK' BY <1>6, <1>r, ListType DEF SweepListSimilar, RowsOK, SweepPC
    <2>q. QED BY <1>6, <2>1 DEF SweepListSimilar
  <1>7. CASE SweepSimilar
    <2>1. SweepOK' BY <1>7, SweepType, TodoType DEF SweepSimilar, SweepPC
    <2>2. MarksOK' BY <1>7, TodoType DEF SweepSimilar, MarksOK
    <2>q. QED BY <1>7, <2>1, <2>2 DEF SweepSimilar
  <1>8. CASE SweepSubmitsSimilar
    <2>1. sweep.todo # <<>> BY <1>8 DEF SweepSubmitsSimilar, SubmitsFirst
    <2>2. SweepOK' BY <1>8, <1>e, <2>1, SweepType, TodoType DEF SweepSubmitsSimilar, SweepPC
    <2>3. MarksOK' BY <1>8 DEF SweepSubmitsSimilar, SubmitSimilar, MarksOK
    <2>4. QueueOK'
      BY <1>8, <2>1, AcceptType, TodoType DEF SweepSubmitsSimilar, SubmitSimilar, Cancelled
    <2>q. QED BY <1>8, <2>2, <2>3, <2>4 DEF SweepSubmitsSimilar
  <1>9. CASE SweepRests \/ SweepOver
    <2>1. SweepOK' BY <1>9, <1>e, SweepType DEF SweepRests, SweepOver, SweepPC
    <2>q. QED BY <1>9, <2>1 DEF SweepRests, SweepOver
  <1>q. QED BY <1>1, <1>2, <1>3, <1>4, <1>5, <1>6, <1>7, <1>8, <1>9 DEF SweepNext

LEMMA ProcessTypes ==
  ASSUME TypeOK, Drain \/ StopPool \/ Restart
  PROVE  TypeOK'
  <1> SUFFICES RowsOK' /\ MarksOK' /\ QueueOK' /\ WorkerOK' /\ SweepOK' /\ UploadOK' /\ ProcOK'
    BY TypePartsPrimed
  <1> USE TypeParts, Unchanged
  <1>1. CASE Drain \/ StopPool
    BY <1>1 DEF Drain, StopPool, ProcOK
  <1>2. CASE Restart
    <2>1. MarksOK' /\ QueueOK'
      BY <1>2, PipelineAssumption DEF Restart, MarksOK, QueueOK
    <2>2. WorkerOK' BY <1>2, IdleType DEF Restart, WorkerOK
    <2>3. SweepOK'
      <3>1. Sweep("rest", <<>>) /\ "rest" \in SweepPC /\ <<>> \in Seq(Source)
        BY <1>2 DEF Restart, Sweep, SweepPC
      <3>q. QED BY <3>1, SweepType
    <2>4. UploadOK' BY <1>2 DEF Restart, UploadOK, UploadPC
    <2>5. ProcOK' BY <1>2, PipelineAssumption DEF Restart, ProcOK
    <2>q. QED BY <1>2, <2>1, <2>2, <2>3, <2>4, <2>5 DEF Restart
  <1>q. QED BY <1>1, <1>2

-----------------------------------------------------------------------------
(* Claims.  A job of a source is in one place: in the queue, with a worker,*)
(* or with the goroutine that is about to submit it.                       *)

AtMostOne(S) == \A x, y \in S : x = y

\* Q are the places of the queue, W the workers, here and there the others.
OnePlace(held, Q, W, here, there) ==
  /\ AtMostOne(Q) /\ AtMostOne(W)
  /\ Q # {} => W = {} /\ ~here /\ ~there
  /\ W # {} => ~here /\ ~there
  /\ ~(here /\ there)
  /\ held <=> Q # {} \/ W # {} \/ here \/ there

HashPCs    == {"fetch", "analyze"}
TitlePCs   == {"title", "engine", "offer", "submit"}
SimilarPCs == {"submit", "similar"}

SweepHas(pc, s) == sweep.pc = pc /\ Head(sweep.todo) = s

HashClaim(s)  == OnePlace(s \in hashing, {}, Holding(HashPCs, s), FALSE, FALSE)
TitleClaim(s) == OnePlace(s \in titling, Queued("title", s), Holding(TitlePCs, s),
                          SweepHas("submit title", s), FALSE)
SimilarClaim(s) == OnePlace(s \in similaring, Queued("similar", s), Holding(SimilarPCs, s),
                            SweepHas("submit similar", s), upload[s].pc = "submit")

\* A request is under way only for a source that has its row.
RowsFirst == \A s \in Source : upload[s].pc # "new" => s \in stored

Claims == \A s \in Source : HashClaim(s) /\ TitleClaim(s) /\ SimilarClaim(s)

ClaimInv == TypeOK /\ SubmitsFirst /\ RowsFirst /\ Claims

LEMMA CountOfPlaces ==
  ASSUME NEW S, AtMostOne(S)
  PROVE  Cardinality(S) = IF S = {} THEN 0 ELSE 1
  <1>1. CASE S = {}
    BY <1>1, FS_EmptySet
  <1>2. ASSUME NEW x \in S PROVE Cardinality(S) = 1
    <2>1. S = {x} BY <1>2 DEF AtMostOne
    <2>q. QED BY <2>1, FS_Singleton
  <1>q. QED BY <1>1, <1>2

LEMMA ClaimsAreMarks == ClaimInv => MarksExact
  <1> SUFFICES ASSUME ClaimInv, NEW s \in Source
               PROVE  /\ Hashes(s)   = IF s \in hashing THEN 1 ELSE 0
                      /\ Titles(s)   = IF s \in titling THEN 1 ELSE 0
                      /\ Similars(s) = IF s \in similaring THEN 1 ELSE 0
    BY DEF MarksExact
  <1>1. HashClaim(s) /\ TitleClaim(s) /\ SimilarClaim(s)
    BY DEF ClaimInv, Claims
  <1>2. Hashes(s) = IF s \in hashing THEN 1 ELSE 0
    BY <1>1, CountOfPlaces DEF HashClaim, Hashes, HashPCs, OnePlace
  <1>3. ASSUME NEW pc PROVE Cardinality(Sweeping(pc, s)) = IF SweepHas(pc, s) THEN 1 ELSE 0
    <2>1. Sweeping(pc, s) = IF SweepHas(pc, s) THEN {1} ELSE {}
      BY DEF Sweeping, SweepHas
    <2>q. QED BY <2>1, FS_EmptySet, FS_Singleton
  <1>4. Titles(s) = IF s \in titling THEN 1 ELSE 0
    <2> DEFINE Q == Queued("title", s)
               W == Holding(TitlePCs, s)
               here == SweepHas("submit title", s)
    <2>1. OnePlace(s \in titling, Q, W, here, FALSE) /\ here \in BOOLEAN
      BY <1>1 DEF TitleClaim, SweepHas
    <2>2. Titles(s) = Cardinality(Q) + (IF here THEN 1 ELSE 0) + Cardinality(W)
      BY <1>3 DEF Titles, TitlePCs
    <2> HIDE DEF Q, W, here
    <2>3. Cardinality(Q) = (IF Q = {} THEN 0 ELSE 1) /\ Cardinality(W) = (IF W = {} THEN 0 ELSE 1)
      BY <2>1, CountOfPlaces DEF OnePlace
    <2>4. CASE here BY <2>1, <2>2, <2>3, <2>4 DEF OnePlace
    <2>5. CASE ~here BY <2>1, <2>2, <2>3, <2>5 DEF OnePlace
    <2>q. QED BY <2>4, <2>5
  <1>5. Similars(s) = IF s \in similaring THEN 1 ELSE 0
    <2> DEFINE Q == Queued("similar", s)
               W == Holding(SimilarPCs, s)
               here == SweepHas("submit similar", s)
               there == upload[s].pc = "submit"
    <2>1. OnePlace(s \in similaring, Q, W, here, there) /\ here \in BOOLEAN /\ there \in BOOLEAN
      BY <1>1 DEF SimilarClaim, SweepHas
    <2>2. Similars(s) = Cardinality(Q) + (IF here THEN 1 ELSE 0) + Cardinality(W)
                          + (IF there THEN 1 ELSE 0)
      BY <1>3 DEF Similars, SimilarPCs
    <2> HIDE DEF Q, W, here, there
    <2>3. Cardinality(Q) = (IF Q = {} THEN 0 ELSE 1) /\ Cardinality(W) = (IF W = {} THEN 0 ELSE 1)
      BY <2>1, CountOfPlaces DEF OnePlace
    <2>4. CASE here \/ there BY <2>1, <2>2, <2>3, <2>4 DEF OnePlace
    <2>5. CASE ~(here \/ there) BY <2>1, <2>2, <2>3, <2>5 DEF OnePlace
    <2>q. QED BY <2>4, <2>5
  <1>q. QED BY <1>2, <1>4, <1>5

\* How the places of a source change when a job is queued, or taken.
LEMMA QueuedAfterAccept ==
  ASSUME TypeOK, NEW k \in {"hash", "title", "similar"}, NEW s \in Source, Accept(k, s),
         NEW j, NEW t \in Source
  PROVE  Queued(j, t)' = IF j = k /\ t = s THEN Queued(j, t) \cup {Len(queue) + 1} ELSE Queued(j, t)
  <1>1. queue \in Seq(Job) /\ [kind |-> k, src |-> s] \in Job
    BY DEF TypeOK, Job
  <1>2. /\ Len(queue') = Len(queue) + 1 /\ Len(queue) \in Nat
        /\ \A i \in 1 .. Len(queue) : queue'[i] = queue[i]
        /\ queue'[Len(queue) + 1] = [kind |-> k, src |-> s]
    BY <1>1 DEF Accept
  <1>3. ([kind |-> k, src |-> s] = [kind |-> j, src |-> t]) <=> (j = k /\ t = s)
    OBVIOUS
  <1>q. QED BY <1>2, <1>3 DEF Queued

LEMMA QueuedUnchanged ==
  ASSUME UNCHANGED queue, NEW k, NEW s
  PROVE  Queued(k, s)' = Queued(k, s)
  BY DEF Queued

LEMMA QueuedAfterTake ==
  ASSUME TypeOK, queue # <<>>, queue' = Tail(queue), NEW k, NEW s, AtMostOne(Queued(k, s))
  PROVE  /\ AtMostOne(Queued(k, s)')
         /\ Head(queue) = [kind |-> k, src |-> s] => Queued(k, s) # {} /\ Queued(k, s)' = {}
         /\ Head(queue) # [kind |-> k, src |-> s] => (Queued(k, s)' = {} <=> Queued(k, s) = {})
  <1>1. queue \in Seq(Job) /\ Len(queue) \in Nat \ {0} /\ Head(queue) = queue[1]
    BY DEF TypeOK
  <1>2. /\ Len(queue') = Len(queue) - 1
        /\ \A i \in 1 .. Len(queue) - 1 : queue'[i] = queue[i + 1]
    BY <1>1
  <1>3. \A i \in Nat : i \in Queued(k, s)' <=> i # 0 /\ i + 1 \in Queued(k, s)
    BY <1>1, <1>2 DEF Queued
  <1>4. 1 \in Queued(k, s) <=> Head(queue) = [kind |-> k, src |-> s]
    BY <1>1 DEF Queued
  <1>5. Queued(k, s) \subseteq Nat \ {0} /\ Queued(k, s)' \subseteq Nat
    BY <1>1, <1>2 DEF Queued
  <1>6. \A i \in Queued(k, s) : i # 1 => i - 1 \in Queued(k, s)'
    BY <1>3, <1>5
  <1>7. AtMostOne(Queued(k, s)')
    <2> SUFFICES ASSUME NEW i \in Queued(k, s)', NEW j \in Queued(k, s)' PROVE i = j
      BY DEF AtMostOne
    <2>1. i \in Nat /\ j \in Nat BY <1>5
    <2>2. i + 1 = j + 1 BY <2>1, <1>3 DEF AtMostOne
    <2>q. QED BY <2>1, <2>2
  <1>8. ASSUME 1 \in Queued(k, s) PROVE Queued(k, s)' = {}
    <2> SUFFICES ASSUME NEW i \in Queued(k, s)' PROVE FALSE
      OBVIOUS
    <2>1. i \in Nat /\ i # 0 /\ i + 1 \in Queued(k, s) BY <1>3, <1>5
    <2>2. i + 1 = 1 BY <2>1, <1>8 DEF AtMostOne
    <2>q. QED BY <2>1, <2>2
  <1>9. ASSUME 1 \notin Queued(k, s) PROVE Queued(k, s)' = {} <=> Queued(k, s) = {}
    BY <1>3, <1>5, <1>6, <1>9
  <1>q. QED BY <1>4, <1>7, <1>8, <1>9

\* The sources a worker holds, when it moves on, and when it is done.
LEMMA HeldByWorker ==
  ASSUME NEW w \in Worker, NEW pcs, NEW s
  PROVE  w \in Holding(pcs, s) <=> worker[w].pc \in pcs /\ worker[w].src = s
  BY DEF Holding, Running

LEMMA HoldingAfterMove ==
  ASSUME TypeOK, NEW w \in Worker, NEW pc, Move(w, pc), NEW pcs, NEW s
  PROVE  Holding(pcs, s)' = IF pc \in pcs /\ worker[w].src = s THEN Holding(pcs, s) \cup {w}
                                                               ELSE Holding(pcs, s) \ {w}
  <1>1. /\ worker'[w].pc = pc /\ worker'[w].src = worker[w].src
        /\ \A v \in Worker : v # w => worker'[v] = worker[v]
    BY TypeParts DEF Move, WorkerOK
  <1>q. QED BY <1>1 DEF Holding, Running

LEMMA HoldingAfterLeave ==
  ASSUME TypeOK, NEW w \in Worker, Leave(w), NEW pcs, "idle" \notin pcs, NEW s
  PROVE  Holding(pcs, s)' = Holding(pcs, s) \ {w}
  <1>1. /\ worker'[w].pc = "idle"
        /\ \A v \in Worker : v # w => worker'[v] = worker[v]
    BY TypeParts DEF Leave, Idle, WorkerOK
  <1>q. QED BY <1>1 DEF Holding, Running

LEMMA HoldingAfterTake ==
  ASSUME TypeOK, NEW w \in Worker, Take(w), NEW pcs, "idle" \notin pcs, NEW s
  PROVE  Holding(pcs, s)' = IF Head(queue).kind \in pcs /\ Head(queue).src = s
                            THEN Holding(pcs, s) \cup {w} ELSE Holding(pcs, s)
  <1>1. /\ worker[w].pc = "idle"
        /\ worker'[w].pc = Head(queue).kind /\ worker'[w].src = Head(queue).src
        /\ \A v \in Worker : v # w => worker'[v] = worker[v]
    BY TypeParts DEF Take, WorkerOK
  <1>q. QED BY <1>1 DEF Holding, Running

LEMMA HoldingUnchanged ==
  ASSUME UNCHANGED worker, NEW pcs, NEW s
  PROVE  Holding(pcs, s)' = Holding(pcs, s)
  BY DEF Holding, Running

\* A claim stays one place when the places of its kind stay.
LEMMA ClaimsStay ==
  ASSUME NEW s \in Source
  PROVE  /\ /\ HashClaim(s) /\ UNCHANGED hashing
            /\ Holding(HashPCs, s)' = Holding(HashPCs, s)
            => HashClaim(s)'
         /\ /\ TitleClaim(s) /\ UNCHANGED sweep
            /\ s \in titling' <=> s \in titling
            /\ Queued("title", s)' = Queued("title", s)
            /\ Holding(TitlePCs, s)' = Holding(TitlePCs, s)
            => TitleClaim(s)'
         /\ /\ SimilarClaim(s) /\ UNCHANGED sweep
            /\ s \in similaring' <=> s \in similaring
            /\ upload'[s].pc = "submit" <=> upload[s].pc = "submit"
            /\ Queued("similar", s)' = Queued("similar", s)
            /\ Holding(SimilarPCs, s)' = Holding(SimilarPCs, s)
            => SimilarClaim(s)'
  <1>1. ASSUME HashClaim(s), UNCHANGED hashing, Holding(HashPCs, s)' = Holding(HashPCs, s)
        PROVE  HashClaim(s)'
    BY <1>1 DEF HashClaim, OnePlace, AtMostOne
  <1>2. ASSUME TitleClaim(s), UNCHANGED sweep, s \in titling' <=> s \in titling,
               Queued("title", s)' = Queued("title", s),
               Holding(TitlePCs, s)' = Holding(TitlePCs, s)
        PROVE  TitleClaim(s)'
    BY <1>2 DEF TitleClaim, OnePlace, AtMostOne, SweepHas
  <1>3. ASSUME SimilarClaim(s), UNCHANGED sweep, s \in similaring' <=> s \in similaring,
               upload'[s].pc = "submit" <=> upload[s].pc = "submit",
               Queued("similar", s)' = Queued("similar", s),
               Holding(SimilarPCs, s)' = Holding(SimilarPCs, s)
        PROVE  SimilarClaim(s)'
    BY <1>3 DEF SimilarClaim, OnePlace, AtMostOne, SweepHas
  <1>q. QED BY <1>1, <1>2, <1>3

\* A worker takes a job, whose place was in the queue.
LEMMA TakeKeepsClaims ==
  ASSUME ClaimInv, NEW w \in Worker, Take(w), NEW s \in Source
  PROVE  HashClaim(s)' /\ TitleClaim(s)' /\ SimilarClaim(s)'
  <1>1. TypeOK /\ HashClaim(s) /\ TitleClaim(s) /\ SimilarClaim(s)
    BY DEF ClaimInv, Claims
  <1>2. /\ queue # <<>> /\ queue' = Tail(queue) /\ UNCHANGED <<hashing, titling, similaring, sweep, upload>>
        /\ Head(queue) \in Job
    BY <1>1, TypeParts DEF Take, marks, QueueOK
  <1>3. \A k, t : Head(queue) = [kind |-> k, src |-> t] <=> Head(queue).kind = k /\ Head(queue).src = t
    BY <1>2 DEF Job
  <1>4. HashClaim(s)'
    <2>1. Holding(HashPCs, s)' = Holding(HashPCs, s)
      BY <1>1, <1>2, HoldingAfterTake DEF HashPCs, Job
    <2>q. QED BY <1>1, <1>2, <2>1, ClaimsStay
  <1>5. TitleClaim(s)'
    <2>1. Holding(TitlePCs, s)' = IF Head(queue).kind = "title" /\ Head(queue).src = s
                                  THEN Holding(TitlePCs, s) \cup {w} ELSE Holding(TitlePCs, s)
      <3>1. "idle" \notin TitlePCs /\ (Head(queue).kind \in TitlePCs <=> Head(queue).kind = "title")
        BY <1>2 DEF TitlePCs, Job
      <3>q. QED BY <1>1, <3>1, HoldingAfterTake
    <2>2. AtMostOne(Queued("title", s))
      BY <1>1 DEF TitleClaim, OnePlace
    <2>3. /\ AtMostOne(Queued("title", s)')
          /\ Head(queue) = [kind |-> "title", src |-> s]
             => Queued("title", s) # {} /\ Queued("title", s)' = {}
          /\ Head(queue) # [kind |-> "title", src |-> s]
             => (Queued("title", s)' = {} <=> Queued("title", s) = {})
      BY <1>1, <1>2, <2>2, QueuedAfterTake
    <2>q. QED BY <1>1, <1>2, <1>3, <2>1, <2>3 DEF TitleClaim, OnePlace, SweepHas, AtMostOne
  <1>6. SimilarClaim(s)'
    <2>1. Holding(SimilarPCs, s)' = IF Head(queue).kind = "similar" /\ Head(queue).src = s
                                    THEN Holding(SimilarPCs, s) \cup {w} ELSE Holding(SimilarPCs, s)
      <3>1. "idle" \notin SimilarPCs /\ (Head(queue).kind \in SimilarPCs <=> Head(queue).kind = "similar")
        BY <1>2 DEF SimilarPCs, Job
      <3>q. QED BY <1>1, <3>1, HoldingAfterTake
    <2>2. AtMostOne(Queued("similar", s))
      BY <1>1 DEF SimilarClaim, OnePlace
    <2>3. /\ AtMostOne(Queued("similar", s)')
          /\ Head(queue) = [kind |-> "similar", src |-> s]
             => Queued("similar", s) # {} /\ Queued("similar", s)' = {}
          /\ Head(queue) # [kind |-> "similar", src |-> s]
             => (Queued("similar", s)' = {} <=> Queued("similar", s) = {})
      BY <1>1, <1>2, <2>2, QueuedAfterTake
    <2>q. QED BY <1>1, <1>2, <1>3, <2>1, <2>3 DEF SimilarClaim, OnePlace, SweepHas, AtMostOne
  <1>q. QED BY <1>4, <1>5, <1>6

\* A worker that moves on within the steps of pcs, or outside them.
LEMMA HoldingStays ==
  ASSUME TypeOK, NEW w \in Worker, NEW pc, Move(w, pc), NEW pcs, NEW s,
         worker[w].pc \in pcs <=> pc \in pcs
  PROVE  Holding(pcs, s)' = Holding(pcs, s)
  BY HoldingAfterMove, HeldByWorker

LEMMA HoldingStaysBehind ==
  ASSUME TypeOK, NEW w \in Worker, Leave(w), NEW pcs, "idle" \notin pcs, NEW s,
         worker[w].pc \notin pcs \/ worker[w].src # s
  PROVE  Holding(pcs, s)' = Holding(pcs, s)
  BY HoldingAfterLeave, HeldByWorker

LEMMA HashJobsKeepClaims ==
  ASSUME ClaimInv, NEW w \in Worker, NEW s \in Source,
         EnterHash(w) \/ AcquireHeavy(w) \/ HashDone(w) \/ HashEnds(w) \/ Exit(w)
  PROVE  HashClaim(s)' /\ TitleClaim(s)' /\ SimilarClaim(s)'
  <1>1. TypeOK /\ HashClaim(s) /\ TitleClaim(s) /\ SimilarClaim(s)
    BY DEF ClaimInv, Claims
  <1>p. /\ "idle" \notin HashPCs \cup TitlePCs \cup SimilarPCs
        /\ \A pc \in {"hash", "fetch", "analyze", "exited"} : pc \notin TitlePCs \cup SimilarPCs
        /\ {"fetch", "analyze"} = HashPCs
    BY DEF HashPCs, TitlePCs, SimilarPCs
  <1>2. /\ UNCHANGED <<queue, titling, similaring, sweep, upload>>
        /\ worker[w].pc \in {"hash", "fetch", "analyze", "idle"}
        /\ Leave(w) \/ \E pc \in {"fetch", "analyze", "exited"} : Move(w, pc)
    BY DEF EnterHash, AcquireHeavy, HashDone, HashEnds, LeaveHash, Exit, marks
  <1>3. /\ Holding(TitlePCs, s)' = Holding(TitlePCs, s)
        /\ Holding(SimilarPCs, s)' = Holding(SimilarPCs, s)
    BY <1>1, <1>2, <1>p, HoldingStays, HoldingStaysBehind
  <1>4. TitleClaim(s)' /\ SimilarClaim(s)'
    BY <1>1, <1>2, <1>3, QueuedUnchanged, ClaimsStay
  <1>5. HashClaim(s)'
    <2>1. CASE EnterHash(w)
      <3>1. CASE worker[w].src \in hashing
        <4>1. Leave(w) /\ UNCHANGED hashing /\ worker[w].pc = "hash" /\ "hash" \notin HashPCs
          BY <2>1, <3>1 DEF EnterHash, HashPCs
        <4>q. QED BY <1>1, <1>p, <4>1, HoldingStaysBehind, ClaimsStay
      <3>2. CASE worker[w].src \notin hashing
        <4>1. Move(w, "fetch") /\ hashing' = hashing \cup {worker[w].src} /\ "fetch" \in HashPCs
          BY <2>1, <3>2 DEF EnterHash, HashPCs
        <4>2. /\ worker[w].src = s => Holding(HashPCs, s)' = Holding(HashPCs, s) \cup {w}
              /\ worker[w].src # s => Holding(HashPCs, s)' = Holding(HashPCs, s) \ {w}
          BY <1>1, <4>1, HoldingAfterMove
        <4>3. worker[w].src # s => w \notin Holding(HashPCs, s)
          BY HeldByWorker
        <4>q. QED BY <1>1, <3>2, <4>1, <4>2, <4>3 DEF HashClaim, OnePlace, AtMostOne
      <3>q. QED BY <3>1, <3>2
    <2>2. CASE AcquireHeavy(w)
      <3>1. Move(w, "analyze") /\ worker[w].pc \in HashPCs /\ "analyze" \in HashPCs /\ UNCHANGED hashing
        BY <2>2 DEF AcquireHeavy, HashPCs, marks
      <3>2. Holding(HashPCs, s)' = Holding(HashPCs, s)
        BY <1>1, <3>1, HoldingStays
      <3>q. QED BY <1>1, <3>1, <3>2, ClaimsStay
    <2>3. CASE HashDone(w) \/ HashEnds(w)
      <3>1. Leave(w) /\ hashing' = hashing \ {worker[w].src} /\ worker[w].pc \in HashPCs
        BY <2>3 DEF HashDone, HashEnds, LeaveHash, HashPCs
      <3>2. Holding(HashPCs, s)' = Holding(HashPCs, s) \ {w}
        BY <1>1, <1>p, <3>1, HoldingAfterLeave
      <3>3. w \in Holding(HashPCs, s) <=> worker[w].src = s
        BY <3>1, HeldByWorker
      <3>q. QED BY <1>1, <3>1, <3>2, <3>3 DEF HashClaim, OnePlace, AtMostOne
    <2>4. CASE Exit(w)
      <3>1. Move(w, "exited") /\ worker[w].pc \notin HashPCs /\ "exited" \notin HashPCs /\ UNCHANGED hashing
        BY <2>4 DEF Exit, HashPCs, marks
      <3>2. Holding(HashPCs, s)' = Holding(HashPCs, s)
        BY <1>1, <3>1, HoldingStays
      <3>q. QED BY <1>1, <3>1, <3>2, ClaimsStay
    <2>q. QED BY <2>1, <2>2, <2>3, <2>4
  <1>q. QED BY <1>4, <1>5

\* A title job on its way to its end.
LEMMA TitleJobsKeepClaims ==
  ASSUME ClaimInv, NEW w \in Worker, NEW s \in Source,
         TitleSettled(w) \/ AcquireTitle(w) \/ EngineAnswers(w) \/ TitleFails(w)
  PROVE  HashClaim(s)' /\ TitleClaim(s)' /\ SimilarClaim(s)'
  <1>1. TypeOK /\ HashClaim(s) /\ TitleClaim(s) /\ SimilarClaim(s)
    BY DEF ClaimInv, Claims
  <1>p. /\ "idle" \notin HashPCs \cup TitlePCs \cup SimilarPCs
        /\ \A pc \in {"title", "engine", "offer"} :
             pc \notin HashPCs \cup SimilarPCs /\ pc \in TitlePCs
    BY DEF HashPCs, TitlePCs, SimilarPCs
  <1>2. /\ UNCHANGED <<queue, hashing, similaring, sweep, upload>>
        /\ worker[w].pc \in {"title", "engine"}
    BY DEF TitleSettled, AcquireTitle, EngineAnswers, TitleFails, LeaveTitle, marks
  <1>3. CASE TitleSettled(w) \/ EngineAnswers(w)
    <2>1. Move(w, "offer") /\ UNCHANGED titling
      BY <1>3 DEF TitleSettled, EngineAnswers, marks
    <2>2. \A pcs \in {HashPCs, TitlePCs, SimilarPCs} : Holding(pcs, s)' = Holding(pcs, s)
      BY <1>1, <1>2, <1>p, <2>1, HoldingStays
    <2>q. QED BY <1>1, <1>2, <2>1, <2>2, QueuedUnchanged, ClaimsStay
  <1>4. CASE AcquireTitle(w)
    <2>1. /\ worker'[w].pc = "engine" /\ worker'[w].src = worker[w].src
          /\ \A v \in Worker : v # w => worker'[v] = worker[v]
          /\ UNCHANGED titling
      BY <1>1, <1>4, TypeParts DEF AcquireTitle, WorkerOK, marks
    <2>2. \A pcs \in {HashPCs, TitlePCs, SimilarPCs} : Holding(pcs, s)' = Holding(pcs, s)
      BY <1>2, <1>p, <2>1 DEF Holding, Running
    <2>q. QED BY <1>1, <1>2, <2>1, <2>2, QueuedUnchanged, ClaimsStay
  <1>5. CASE TitleFails(w)
    <2>1. Leave(w) /\ titling' = titling \ {worker[w].src}
      BY <1>5 DEF TitleFails, LeaveTitle
    <2>2. \A pcs \in {HashPCs, SimilarPCs} : Holding(pcs, s)' = Holding(pcs, s)
      BY <1>1, <1>2, <1>p, <2>1, HoldingStaysBehind
    <2>3. Holding(TitlePCs, s)' = Holding(TitlePCs, s) \ {w}
      BY <1>1, <1>p, <2>1, HoldingAfterLeave
    <2>4. w \in Holding(TitlePCs, s) <=> worker[w].src = s
      BY <1>2, <1>p, HeldByWorker
    <2>5. TitleClaim(s)'
      BY <1>1, <1>2, <2>1, <2>3, <2>4, QueuedUnchanged DEF TitleClaim, OnePlace, AtMostOne, SweepHas
    <2>q. QED BY <1>1, <1>2, <2>2, <2>5, QueuedUnchanged, ClaimsStay
  <1>q. QED BY <1>3, <1>4, <1>5

\* A title job hands over to a comparison: claims it, submits it, and ends.
LEMMA OfferKeepsClaims ==
  ASSUME ClaimInv, NEW w \in Worker, NEW s \in Source, OfferSimilar(w)
  PROVE  HashClaim(s)' /\ TitleClaim(s)' /\ SimilarClaim(s)'
  <1>1. TypeOK /\ HashClaim(s) /\ TitleClaim(s) /\ SimilarClaim(s)
    BY DEF ClaimInv, Claims
  <1>p. /\ "idle" \notin HashPCs \cup TitlePCs \cup SimilarPCs
        /\ "offer" \notin HashPCs \cup SimilarPCs /\ "offer" \in TitlePCs
        /\ "submit" \notin HashPCs /\ "submit" \in TitlePCs /\ "submit" \in SimilarPCs
    BY DEF HashPCs, TitlePCs, SimilarPCs
  <1>2. UNCHANGED <<queue, hashing, sweep, upload>> /\ worker[w].pc = "offer"
    BY DEF OfferSimilar, LeaveTitle
  <1>3. CASE worker[w].src \in similaring
    <2>1. Leave(w) /\ titling' = titling \ {worker[w].src} /\ UNCHANGED similaring
      BY <1>3 DEF OfferSimilar, LeaveTitle
    <2>2. \A pcs \in {HashPCs, SimilarPCs} : Holding(pcs, s)' = Holding(pcs, s)
      BY <1>1, <1>2, <1>p, <2>1, HoldingStaysBehind
    <2>3. Holding(TitlePCs, s)' = Holding(TitlePCs, s) \ {w}
      BY <1>1, <1>p, <2>1, HoldingAfterLeave
    <2>4. w \in Holding(TitlePCs, s) <=> worker[w].src = s
      BY <1>2, <1>p, HeldByWorker
    <2>5. TitleClaim(s)'
      BY <1>1, <1>2, <2>1, <2>3, <2>4, QueuedUnchanged DEF TitleClaim, OnePlace, AtMostOne, SweepHas
    <2>q. QED BY <1>1, <1>2, <2>1, <2>2, <2>5, QueuedUnchanged, ClaimsStay
  <1>4. CASE worker[w].src \notin similaring
    <2>1. Move(w, "submit") /\ similaring' = similaring \cup {worker[w].src} /\ UNCHANGED titling
      BY <1>4 DEF OfferSimilar
    <2>2. \A pcs \in {HashPCs, TitlePCs} : Holding(pcs, s)' = Holding(pcs, s)
      BY <1>1, <1>2, <1>p, <2>1, HoldingStays
    <2>3. /\ worker[w].src = s => Holding(SimilarPCs, s)' = Holding(SimilarPCs, s) \cup {w}
          /\ worker[w].src # s => Holding(SimilarPCs, s)' = Holding(SimilarPCs, s)
      <3>1. w \notin Holding(SimilarPCs, s)
        BY <1>2, <1>p, HeldByWorker
      <3>2. Holding(SimilarPCs, s)' = IF worker[w].src = s THEN Holding(SimilarPCs, s) \cup {w}
                                      ELSE Holding(SimilarPCs, s) \ {w}
        BY <1>1, <1>p, <2>1, HoldingAfterMove
      <3>q. QED BY <3>1, <3>2
    <2>4. SimilarClaim(s)'
      BY <1>1, <1>2, <1>4, <2>1, <2>3, QueuedUnchanged DEF SimilarClaim, OnePlace, AtMostOne, SweepHas
    <2>q. QED BY <1>1, <1>2, <2>1, <2>2, <2>4, QueuedUnchanged, ClaimsStay
  <1>q. QED BY <1>3, <1>4

LEMMA WorkerSubmitsKeepsClaims ==
  ASSUME ClaimInv, NEW w \in Worker, NEW s \in Source, WorkerSubmits(w)
  PROVE  HashClaim(s)' /\ TitleClaim(s)' /\ SimilarClaim(s)'
  <1> DEFINE src == worker[w].src
  <1>1. TypeOK /\ HashClaim(s) /\ TitleClaim(s) /\ SimilarClaim(s) /\ src \in Source
    BY TypeParts DEF ClaimInv, Claims, WorkerOK
  <1>p. /\ "idle" \notin HashPCs \cup TitlePCs \cup SimilarPCs
        /\ "submit" \notin HashPCs /\ "submit" \in TitlePCs /\ "submit" \in SimilarPCs
    BY DEF HashPCs, TitlePCs, SimilarPCs
  <1>2. /\ worker[w].pc = "submit" /\ Leave(w)
        /\ titling' = titling \ {src} /\ UNCHANGED <<hashing, sweep, upload>>
        /\ SubmitSimilar(src)
    BY DEF WorkerSubmits, LeaveTitle
  <1>3. /\ Holding(HashPCs, s)' = Holding(HashPCs, s)
        /\ Holding(TitlePCs, s)' = Holding(TitlePCs, s) \ {w}
        /\ Holding(SimilarPCs, s)' = Holding(SimilarPCs, s) \ {w}
    BY <1>1, <1>2, <1>p, HoldingStaysBehind, HoldingAfterLeave
  <1>4. /\ w \in Holding(TitlePCs, s) <=> src = s
        /\ w \in Holding(SimilarPCs, s) <=> src = s
    BY <1>2, <1>p, HeldByWorker
  <1>5. Queued("title", s)' = Queued("title", s)
    BY <1>1, <1>2, QueuedAfterAccept, QueuedUnchanged DEF SubmitSimilar, Cancelled
  <1>6. TitleClaim(s)'
    <2>1. CASE src = s
      BY <1>1, <1>2, <1>3, <1>4, <1>5, <2>1 DEF TitleClaim, OnePlace, AtMostOne, SweepHas
    <2>2. CASE src # s
      <3>1. /\ Holding(TitlePCs, s)' = Holding(TitlePCs, s) /\ sweep' = sweep
            /\ s \in titling' <=> s \in titling
        BY <1>2, <1>3, <1>4, <2>2
      <3>q. QED BY <1>1, <1>5, <3>1, ClaimsStay
    <2>q. QED BY <2>1, <2>2
  <1>7. SimilarClaim(s)'
    <2>1. CASE Accept("similar", src) /\ UNCHANGED similaring
      <3>1. /\ src = s => Queued("similar", s)' = Queued("similar", s) \cup {Len(queue) + 1}
            /\ src # s => Queued("similar", s)' = Queued("similar", s)
        BY <1>1, <2>1, QueuedAfterAccept
      <3>2. CASE src = s
        BY <1>1, <1>2, <1>3, <1>4, <2>1, <3>1, <3>2 DEF SimilarClaim, OnePlace, AtMostOne, SweepHas
      <3>3. CASE src # s
        <4>1. Holding(SimilarPCs, s)' = Holding(SimilarPCs, s)
          BY <1>3, <1>4, <3>3
        <4>q. QED BY <1>1, <1>2, <2>1, <3>1, <3>3, <4>1, ClaimsStay
      <3>q. QED BY <3>2, <3>3
    <2>2. CASE Cancelled /\ similaring' = similaring \ {src}
      <3>1. Queued("similar", s)' = Queued("similar", s)
        BY <2>2, QueuedUnchanged DEF Cancelled
      <3>2. CASE src = s
        BY <1>1, <1>2, <1>3, <1>4, <2>2, <3>1, <3>2 DEF SimilarClaim, OnePlace, AtMostOne, SweepHas
      <3>3. CASE src # s
        <4>1. /\ Holding(SimilarPCs, s)' = Holding(SimilarPCs, s) /\ sweep' = sweep
              /\ upload' = upload
              /\ s \in similaring' <=> s \in similaring
          BY <1>2, <1>3, <1>4, <2>2, <3>3
        <4>q. QED BY <1>1, <3>1, <4>1, ClaimsStay
      <3>q. QED BY <3>2, <3>3
    <2>q. QED BY <1>2, <2>1, <2>2 DEF SubmitSimilar
  <1>q. QED BY <1>1, <1>2, <1>3, <1>6, <1>7, ClaimsStay

LEMMA SimilarKeepsClaims ==
  ASSUME ClaimInv, NEW w \in Worker, NEW s \in Source, Similar(w)
  PROVE  HashClaim(s)' /\ TitleClaim(s)' /\ SimilarClaim(s)'
  <1>1. TypeOK /\ HashClaim(s) /\ TitleClaim(s) /\ SimilarClaim(s)
    BY DEF ClaimInv, Claims
  <1>p. /\ "idle" \notin HashPCs \cup TitlePCs \cup SimilarPCs
        /\ "similar" \notin HashPCs \cup TitlePCs /\ "similar" \in SimilarPCs
    BY DEF HashPCs, TitlePCs, SimilarPCs
  <1>2. /\ worker[w].pc = "similar" /\ Leave(w)
        /\ similaring' = similaring \ {worker[w].src}
        /\ UNCHANGED <<queue, hashing, titling, sweep, upload>>
    BY DEF Similar
  <1>3. /\ \A pcs \in {HashPCs, TitlePCs} : Holding(pcs, s)' = Holding(pcs, s)
        /\ Holding(SimilarPCs, s)' = Holding(SimilarPCs, s) \ {w}
    BY <1>1, <1>2, <1>p, HoldingStaysBehind, HoldingAfterLeave
  <1>4. w \in Holding(SimilarPCs, s) <=> worker[w].src = s
    BY <1>2, <1>p, HeldByWorker
  <1>5. SimilarClaim(s)'
    BY <1>1, <1>2, <1>3, <1>4, QueuedUnchanged DEF SimilarClaim, OnePlace, AtMostOne, SweepHas
  <1>q. QED BY <1>1, <1>2, <1>3, <1>5, QueuedUnchanged, ClaimsStay

\* Submitting without a claim of its own: the claim is made with the job.
LEMMA TryTitleKeepsClaim ==
  ASSUME TypeOK, NEW t \in Source, TryTitle(t), UNCHANGED <<worker, sweep>>,
         NEW s \in Source, TitleClaim(s)
  PROVE  TitleClaim(s)'
  <1>1. Holding(TitlePCs, s)' = Holding(TitlePCs, s)
    BY HoldingUnchanged
  <1>2. CASE UNCHANGED <<queue, titling>>
    BY <1>1, <1>2, QueuedUnchanged, ClaimsStay
  <1>3. CASE t \notin titling /\ Accept("title", t) /\ titling' = titling \cup {t}
    <2>1. /\ t = s => Queued("title", s)' = Queued("title", s) \cup {Len(queue) + 1}
          /\ t # s => Queued("title", s)' = Queued("title", s)
      BY <1>3, QueuedAfterAccept
    <2>q. QED BY <1>1, <1>3, <2>1 DEF TitleClaim, OnePlace, AtMostOne, SweepHas
  <1>q. QED BY <1>2, <1>3 DEF TryTitle, Busy

LEMMA TrySimilarKeepsClaim ==
  ASSUME TypeOK, NEW t \in Source, TrySimilar(t), UNCHANGED <<worker, sweep>>,
         NEW s \in Source, SimilarClaim(s),
         upload'[s].pc = "submit" <=> upload[s].pc = "submit"
  PROVE  SimilarClaim(s)'
  <1>1. Holding(SimilarPCs, s)' = Holding(SimilarPCs, s)
    BY HoldingUnchanged
  <1>2. CASE UNCHANGED <<queue, similaring>>
    BY <1>1, <1>2, QueuedUnchanged, ClaimsStay
  <1>3. CASE t \notin similaring /\ Accept("similar", t) /\ similaring' = similaring \cup {t}
    <2>1. /\ t = s => Queued("similar", s)' = Queued("similar", s) \cup {Len(queue) + 1}
          /\ t # s => Queued("similar", s)' = Queued("similar", s)
      BY <1>3, QueuedAfterAccept
    <2>q. QED BY <1>1, <1>3, <2>1 DEF SimilarClaim, OnePlace, AtMostOne, SweepHas
  <1>q. QED BY <1>2, <1>3 DEF TrySimilar, Busy

\* A job of another kind is queued, or none.
LEMMA OtherQueued ==
  ASSUME TypeOK, NEW k \in {"hash", "title", "similar"}, NEW t \in Source,
         Accept(k, t) \/ UNCHANGED queue, NEW j, j # k, NEW s \in Source
  PROVE  Queued(j, s)' = Queued(j, s)
  BY QueuedAfterAccept, QueuedUnchanged

LEMMA AdvanceIs ==
  ASSUME TypeOK, NEW t \in Source, NEW pc, Advance(t, pc)
  PROVE  /\ upload'[t].pc = pc /\ \A s \in Source : s # t => upload'[s] = upload[s]
         /\ UNCHANGED <<worker, sweep>>
  BY TypeParts DEF Advance, UploadOK

LEMMA RequestsKeepClaims ==
  ASSUME ClaimInv, NEW t \in Source, Request(t) \/ \E title \in TitleKind : Insert(t, title),
         NEW s \in Source
  PROVE  HashClaim(s)' /\ TitleClaim(s)' /\ SimilarClaim(s)'
  <1>1. TypeOK /\ HashClaim(s) /\ TitleClaim(s) /\ SimilarClaim(s)
    BY DEF ClaimInv, Claims
  <1>2. ASSUME NEW title \in TitleKind, Insert(t, title)
        PROVE  HashClaim(s)' /\ TitleClaim(s)' /\ SimilarClaim(s)'
    <2>1. /\ UNCHANGED <<queue, hashing, titling, similaring, worker, sweep>>
          /\ upload'[s].pc = "submit" <=> upload[s].pc = "submit"
      BY <1>1, <1>2, TypeParts DEF Insert, marks, UploadOK
    <2>q. QED BY <1>1, <2>1, HoldingUnchanged, QueuedUnchanged, ClaimsStay
  <1>3. CASE UploadHash(t)
    <2>1. /\ upload[t].pc = "hash" /\ Advance(t, "title") /\ UNCHANGED <<hashing, titling, similaring>>
          /\ Accept("hash", t) \/ UNCHANGED queue
      BY <1>3 DEF UploadHash, EnqueueHash, Busy, marks
    <2>2. UNCHANGED <<worker, sweep>> /\ (upload'[s].pc = "submit" <=> upload[s].pc = "submit")
      BY <1>1, <2>1, AdvanceIs
    <2>3. Queued("title", s)' = Queued("title", s) /\ Queued("similar", s)' = Queued("similar", s)
      BY <1>1, <2>1, OtherQueued
    <2>q. QED BY <1>1, <2>1, <2>2, <2>3, HoldingUnchanged, ClaimsStay
  <1>4. CASE UploadTitle(t) /\ HasEngine /\ upload[t].title = "printed"
    <2>1. upload[t].pc = "title" /\ UNCHANGED <<queue, hashing, titling>>
      BY <1>4 DEF UploadTitle
    <2>2. \/ t \in similaring /\ UNCHANGED similaring /\ Advance(t, "similar")
          \/ t \notin similaring /\ similaring' = similaring \cup {t} /\ Advance(t, "submit")
      BY <1>4 DEF UploadTitle
    <2>3. /\ UNCHANGED <<worker, sweep>>
          /\ s # t \/ t \in similaring => (upload'[s].pc = "submit" <=> upload[s].pc = "submit")
          /\ t \notin similaring => upload'[t].pc = "submit"
      BY <1>1, <2>1, <2>2, AdvanceIs
    <2>4. SimilarClaim(s)'
      BY <1>1, <2>1, <2>2, <2>3, HoldingUnchanged, QueuedUnchanged
         DEF SimilarClaim, OnePlace, AtMostOne, SweepHas
    <2>q. QED BY <1>1, <2>1, <2>3, <2>4, HoldingUnchanged, QueuedUnchanged, ClaimsStay
  <1>5. CASE UploadTitle(t) /\ ~(HasEngine /\ upload[t].title = "printed")
    <2>1. /\ upload[t].pc = "title" /\ Advance(t, "similar") /\ UNCHANGED <<hashing, similaring>>
          /\ TryTitle(t) \/ UNCHANGED <<queue, titling>>
      BY <1>5 DEF UploadTitle, rows
    <2>2. UNCHANGED <<worker, sweep>> /\ (upload'[s].pc = "submit" <=> upload[s].pc = "submit")
      BY <1>1, <2>1, AdvanceIs
    <2>3. Queued("similar", s)' = Queued("similar", s)
      BY <1>1, <2>1, OtherQueued DEF TryTitle, Busy
    <2>4. TitleClaim(s)'
      BY <1>1, <2>1, <2>2, TryTitleKeepsClaim, HoldingUnchanged, QueuedUnchanged, ClaimsStay
    <2>q. QED BY <1>1, <2>1, <2>2, <2>3, <2>4, HoldingUnchanged, ClaimsStay
  <1>6. CASE UploadSubmits(t)
    <2>1. /\ upload[t].pc = "submit" /\ Advance(t, "similar") /\ UNCHANGED <<hashing, titling>>
          /\ SubmitSimilar(t)
      BY <1>6 DEF UploadSubmits
    <2>2. /\ UNCHANGED <<worker, sweep>> /\ upload'[t].pc # "submit"
          /\ s # t => (upload'[s].pc = "submit" <=> upload[s].pc = "submit")
      BY <1>1, <2>1, AdvanceIs
    <2>3. Queued("title", s)' = Queued("title", s)
      BY <1>1, <2>1, OtherQueued DEF SubmitSimilar, Cancelled
    <2>4. SimilarClaim(s)'
      <3>1. Holding(SimilarPCs, s)' = Holding(SimilarPCs, s)
        BY <2>2, HoldingUnchanged
      <3>2. CASE Accept("similar", t) /\ UNCHANGED similaring
        <4>1. /\ t = s => Queued("similar", s)' = Queued("similar", s) \cup {Len(queue) + 1}
              /\ t # s => Queued("similar", s)' = Queued("similar", s)
          BY <1>1, <3>2, QueuedAfterAccept
        <4>2. CASE t = s
          BY <1>1, <2>1, <2>2, <3>1, <3>2, <4>1, <4>2 DEF SimilarClaim, OnePlace, AtMostOne, SweepHas
        <4>3. CASE t # s
          BY <1>1, <2>1, <2>2, <3>1, <3>2, <4>1, <4>3, ClaimsStay
        <4>q. QED BY <4>2, <4>3
      <3>3. CASE Cancelled /\ similaring' = similaring \ {t}
        <4>1. Queued("similar", s)' = Queued("similar", s)
          BY <3>3, QueuedUnchanged DEF Cancelled
        <4>q. QED
          BY <1>1, <2>1, <2>2, <3>1, <3>3, <4>1 DEF SimilarClaim, OnePlace, AtMostOne, SweepHas
      <3>q. QED BY <2>1, <3>2, <3>3 DEF SubmitSimilar
    <2>q. QED BY <1>1, <2>1, <2>2, <2>3, <2>4, HoldingUnchanged, ClaimsStay
  <1>7. CASE UploadSimilar(t)
    <2>1. /\ upload[t].pc = "similar" /\ Advance(t, "done") /\ UNCHANGED <<hashing, titling>>
          /\ TrySimilar(t) \/ UNCHANGED <<queue, similaring>>
      BY <1>7 DEF UploadSimilar
    <2>2. UNCHANGED <<worker, sweep>> /\ (upload'[s].pc = "submit" <=> upload[s].pc = "submit")
      BY <1>1, <2>1, AdvanceIs
    <2>3. Queued("title", s)' = Queued("title", s)
      BY <1>1, <2>1, OtherQueued DEF TrySimilar, Busy
    <2>4. SimilarClaim(s)'
      BY <1>1, <2>1, <2>2, TrySimilarKeepsClaim, HoldingUnchanged, QueuedUnchanged, ClaimsStay
    <2>q. QED BY <1>1, <2>1, <2>2, <2>3, <2>4, HoldingUnchanged, ClaimsStay
  <1>q. QED BY <1>2, <1>3, <1>4, <1>5, <1>6, <1>7 DEF Request

LEMMA SweepIs ==
  ASSUME NEW pc, NEW todo, Sweep(pc, todo)
  PROVE  sweep'.pc = pc /\ sweep'.todo = todo
  BY DEF Sweep

LEMMA ListsIs ==
  ASSUME NEW pc, NEW S, Lists(pc, S)
  PROVE  sweep'.pc = pc
  BY SweepIs DEF Lists

\* The steps of the sweeper that claim a source, submit its job, or do neither.
LEMMA SweeperClaims ==
  ASSUME ClaimInv, SweepTitle \/ SweepSimilar, NEW s \in Source
  PROVE  HashClaim(s)' /\ TitleClaim(s)' /\ SimilarClaim(s)'
  <1> DEFINE h == Head(sweep.todo)
  <1>1. TypeOK /\ HashClaim(s) /\ TitleClaim(s) /\ SimilarClaim(s)
    BY DEF ClaimInv, Claims
  <1>2. UNCHANGED <<queue, hashing, worker, upload>>
    BY DEF SweepTitle, SweepSimilar, SweepFrame
  <1>3. \A pcs : Holding(pcs, s)' = Holding(pcs, s)
    BY <1>2, HoldingUnchanged
  <1>4. \A k : Queued(k, s)' = Queued(k, s)
    BY <1>2, QueuedUnchanged
  <1>5. CASE SweepTitle
    <2>1. sweep.pc = "title" /\ UNCHANGED similaring
      BY <1>5 DEF SweepTitle
    <2>2. \/ sweep'.pc = "title" /\ UNCHANGED titling
          \/ /\ h \notin titling /\ titling' = titling \cup {h}
             /\ sweep'.pc = "submit title" /\ sweep'.todo = sweep.todo
      BY <1>5, SweepIs DEF SweepTitle
    <2>3. TitleClaim(s)'
      BY <1>1, <1>3, <1>4, <2>1, <2>2 DEF TitleClaim, OnePlace, AtMostOne, SweepHas
    <2>4. SimilarClaim(s)'
      BY <1>1, <1>2, <1>3, <1>4, <2>1, <2>2 DEF SimilarClaim, OnePlace, AtMostOne, SweepHas
    <2>q. QED BY <1>1, <1>2, <1>3, <2>3, <2>4, ClaimsStay
  <1>6. CASE SweepSimilar
    <2>1. sweep.pc = "similar" /\ UNCHANGED titling
      BY <1>6 DEF SweepSimilar
    <2>2. \/ sweep'.pc = "similar" /\ UNCHANGED similaring
          \/ /\ h \notin similaring /\ similaring' = similaring \cup {h}
             /\ sweep'.pc = "submit similar" /\ sweep'.todo = sweep.todo
      BY <1>6, SweepIs DEF SweepSimilar
    <2>3. SimilarClaim(s)'
      BY <1>1, <1>2, <1>3, <1>4, <2>1, <2>2 DEF SimilarClaim, OnePlace, AtMostOne, SweepHas
    <2>4. TitleClaim(s)'
      BY <1>1, <1>3, <1>4, <2>1, <2>2 DEF TitleClaim, OnePlace, AtMostOne, SweepHas
    <2>q. QED BY <1>1, <1>2, <1>3, <2>3, <2>4, ClaimsStay
  <1>q. QED BY <1>5, <1>6

LEMMA SweeperSubmits ==
  ASSUME ClaimInv, SweepSubmitsTitle \/ SweepSubmitsSimilar, NEW s \in Source
  PROVE  HashClaim(s)' /\ TitleClaim(s)' /\ SimilarClaim(s)'
  <1> DEFINE h == Head(sweep.todo)
  <1>1. TypeOK /\ HashClaim(s) /\ TitleClaim(s) /\ SimilarClaim(s)
    BY DEF ClaimInv, Claims
  <1>2. UNCHANGED <<hashing, worker, upload>>
    BY DEF SweepSubmitsTitle, SweepSubmitsSimilar, SweepFrame
  <1>3. \A pcs : Holding(pcs, s)' = Holding(pcs, s)
    BY <1>2, HoldingUnchanged
  <1>4. h \in Source
    BY <1>1, TodoType DEF ClaimInv, SubmitsFirst, SweepSubmitsTitle, SweepSubmitsSimilar
  <1>5. CASE SweepSubmitsTitle
    <2>1. sweep.pc = "submit title" /\ sweep'.pc \in {"title", "over"} /\ UNCHANGED similaring
      BY <1>5, SweepIs DEF SweepSubmitsTitle
    <2>2. \/ Accept("title", h) /\ UNCHANGED titling
          \/ UNCHANGED queue /\ titling' = titling \ {h}
      BY <1>5 DEF SweepSubmitsTitle, SubmitTitle, Cancelled
    <2>3. Queued("similar", s)' = Queued("similar", s)
      BY <1>1, <1>4, <2>2, OtherQueued
    <2>4. SimilarClaim(s)'
      BY <1>1, <1>2, <1>3, <2>1, <2>3 DEF SimilarClaim, OnePlace, AtMostOne, SweepHas
    <2>5. TitleClaim(s)'
      <3>1. CASE Accept("title", h) /\ UNCHANGED titling
        <4>1. Queued("title", s)' = IF h = s THEN Queued("title", s) \cup {Len(queue) + 1}
                                    ELSE Queued("title", s)
          BY <1>1, <1>4, <3>1, QueuedAfterAccept
        <4>q. QED BY <1>1, <1>3, <2>1, <3>1, <4>1 DEF TitleClaim, OnePlace, AtMostOne, SweepHas
      <3>2. CASE UNCHANGED queue /\ titling' = titling \ {h}
        <4>1. Queued("title", s)' = Queued("title", s)
          BY <3>2, QueuedUnchanged
        <4>q. QED BY <1>1, <1>3, <2>1, <3>2, <4>1 DEF TitleClaim, OnePlace, AtMostOne, SweepHas
      <3>q. QED BY <2>2, <3>1, <3>2
    <2>q. QED BY <1>1, <1>2, <1>3, <2>4, <2>5, ClaimsStay
  <1>6. CASE SweepSubmitsSimilar
    <2>1. sweep.pc = "submit similar" /\ sweep'.pc \in {"similar", "over"} /\ UNCHANGED titling
      BY <1>6, SweepIs DEF SweepSubmitsSimilar
    <2>2. \/ Accept("similar", h) /\ UNCHANGED similaring
          \/ UNCHANGED queue /\ similaring' = similaring \ {h}
      BY <1>6 DEF SweepSubmitsSimilar, SubmitSimilar, Cancelled
    <2>3. Queued("title", s)' = Queued("title", s)
      BY <1>1, <1>4, <2>2, OtherQueued
    <2>4. TitleClaim(s)'
      BY <1>1, <1>3, <2>1, <2>3 DEF TitleClaim, OnePlace, AtMostOne, SweepHas
    <2>5. SimilarClaim(s)'
      <3>1. CASE Accept("similar", h) /\ UNCHANGED similaring
        <4>1. Queued("similar", s)' = IF h = s THEN Queued("similar", s) \cup {Len(queue) + 1}
                                      ELSE Queued("similar", s)
          BY <1>1, <1>4, <3>1, QueuedAfterAccept
        <4>q. QED BY <1>1, <1>2, <1>3, <2>1, <3>1, <4>1 DEF SimilarClaim, OnePlace, AtMostOne, SweepHas
      <3>2. CASE UNCHANGED queue /\ similaring' = similaring \ {h}
        <4>1. Queued("similar", s)' = Queued("similar", s)
          BY <3>2, QueuedUnchanged
        <4>q. QED BY <1>1, <1>2, <1>3, <2>1, <3>2, <4>1 DEF SimilarClaim, OnePlace, AtMostOne, SweepHas
      <3>q. QED BY <2>2, <3>1, <3>2
    <2>q. QED BY <1>1, <1>2, <1>3, <2>4, <2>5, ClaimsStay
  <1>q. QED BY <1>5, <1>6

LEMMA NothingSubmitted ==
  ASSUME SweepBegin \/ SweepHash \/ SweepListTitles \/ SweepListSimilar \/ SweepRests \/ SweepOver
  PROVE  /\ sweep.pc \notin {"submit title", "submit similar"}
         /\ sweep'.pc \notin {"submit title", "submit similar"}
  <1>1. CASE SweepBegin BY <1>1, ListsIs DEF SweepBegin
  <1>2. CASE SweepHash BY <1>2, SweepIs DEF SweepHash
  <1>3. CASE SweepListTitles
    <2>1. sweep.pc = "hash" BY <1>3 DEF SweepListTitles
    <2>2. sweep'.pc = "title" BY <1>3, ListsIs DEF SweepListTitles
    <2>q. QED BY <2>1, <2>2
  <1>4. CASE SweepListSimilar
    <2>1. sweep.pc = "title" BY <1>4 DEF SweepListSimilar
    <2>2. sweep'.pc = "similar" BY <1>4, ListsIs DEF SweepListSimilar
    <2>q. QED BY <2>1, <2>2
  <1>5. CASE SweepRests
    <2>1. sweep.pc \in {"hash", "title", "similar"} BY <1>5 DEF SweepRests
    <2>2. sweep'.pc = "rest" BY <1>5, SweepIs DEF SweepRests
    <2>q. QED BY <2>1, <2>2
  <1>6. CASE SweepOver
    <2>1. sweep'.pc = "over" BY <1>6, SweepIs DEF SweepOver
    <2>q. QED BY <1>6, <2>1 DEF SweepOver
  <1>q. QED BY <1>1, <1>2, <1>3, <1>4, <1>5, <1>6

LEMMA SweeperKeepsClaims ==
  ASSUME ClaimInv, SweepNext, NEW s \in Source
  PROVE  HashClaim(s)' /\ TitleClaim(s)' /\ SimilarClaim(s)'
  <1>1. TypeOK /\ HashClaim(s) /\ TitleClaim(s) /\ SimilarClaim(s)
    BY DEF ClaimInv, Claims
  <1>2. CASE SweepTitle \/ SweepSimilar
    BY <1>2, SweeperClaims
  <1>3. CASE SweepSubmitsTitle \/ SweepSubmitsSimilar
    BY <1>3, SweeperSubmits
  <1>4. CASE SweepBegin \/ SweepHash \/ SweepListTitles \/ SweepListSimilar \/ SweepRests \/ SweepOver
    <2>0. UNCHANGED <<hashing, titling, similaring, worker, upload>>
      BY <1>4 DEF SweepBegin, SweepHash, SweepListTitles, SweepListSimilar, SweepRests, SweepOver,
                  SweepFrame, marks
    <2>1. /\ sweep.pc \notin {"submit title", "submit similar"}
          /\ sweep'.pc \notin {"submit title", "submit similar"}
      BY <1>4, NothingSubmitted
    <2>2. UNCHANGED queue \/ \E t \in Source : Accept("hash", t)
      BY <1>1, <1>4, TodoType
         DEF SweepBegin, SweepHash, SweepListTitles, SweepListSimilar, SweepRests, SweepOver,
             EnqueueHash, Busy
    <2>3. Queued("title", s)' = Queued("title", s) /\ Queued("similar", s)' = Queued("similar", s)
      BY <1>1, <2>2, OtherQueued, QueuedUnchanged
    <2>4. \A pcs : Holding(pcs, s)' = Holding(pcs, s)
      BY <2>0, HoldingUnchanged
    <2>5. TitleClaim(s)'
      BY <1>1, <2>0, <2>1, <2>3, <2>4 DEF TitleClaim, OnePlace, AtMostOne, SweepHas
    <2>6. SimilarClaim(s)'
      BY <1>1, <2>0, <2>1, <2>3, <2>4 DEF SimilarClaim, OnePlace, AtMostOne, SweepHas
    <2>q. QED BY <1>1, <2>0, <2>1, <2>4, <2>5, <2>6, ClaimsStay
  <1>q. QED BY <1>2, <1>3, <1>4 DEF SweepNext

LEMMA ProcessKeepsClaims ==
  ASSUME ClaimInv, Drain \/ StopPool \/ Restart, NEW s \in Source
  PROVE  HashClaim(s)' /\ TitleClaim(s)' /\ SimilarClaim(s)'
  <1>1. TypeOK /\ HashClaim(s) /\ TitleClaim(s) /\ SimilarClaim(s)
    BY DEF ClaimInv, Claims
  <1>2. CASE Drain \/ StopPool
    <2>1. UNCHANGED <<queue, hashing, titling, similaring, worker, sweep, upload>>
      BY <1>2 DEF Drain, StopPool, marks
    <2>q. QED BY <1>1, <2>1, HoldingUnchanged, QueuedUnchanged, ClaimsStay
  <1>3. CASE Restart
    <2>1. /\ queue' = <<>> /\ hashing' = {} /\ titling' = {} /\ similaring' = {}
          /\ sweep'.pc = "rest" /\ \A w \in Worker : worker'[w].pc = "idle"
      BY <1>3 DEF Restart, Idle
    <2>2. \A k : Queued(k, s)' = {}
      BY <2>1 DEF Queued
    <2>3. \A pcs \in {HashPCs, TitlePCs, SimilarPCs} : Holding(pcs, s)' = {}
      BY <2>1 DEF Holding, Running, HashPCs, TitlePCs, SimilarPCs
    <2>4. upload'[s].pc # "submit"
      BY <1>1, <1>3, TypeParts DEF Restart, ClaimInv, RowsFirst, UploadOK
    <2>q. QED
      BY <2>1, <2>2, <2>3, <2>4
         DEF HashClaim, TitleClaim, SimilarClaim, OnePlace, AtMostOne, SweepHas
  <1>q. QED BY <1>2, <1>3

-----------------------------------------------------------------------------
(* What the claims rest on.                                                *)

\* Rows stay, and a request begins with the row of its source.
LEMMA RowsStayFirst ==
  ASSUME TypeOK, RowsFirst, Next
  PROVE  RowsFirst'
  <1> SUFFICES ASSUME NEW s \in Source, upload'[s].pc # "new" PROVE s \in stored'
    BY DEF RowsFirst
  <1>0. UploadOK /\ (upload[s].pc # "new" => s \in stored)
    BY TypeParts DEF RowsFirst
  <1>1. ASSUME NEW w \in Worker, Work(w) \/ Exit(w) PROVE s \in stored'
    <2>1. UNCHANGED <<stored, upload>>
      BY <1>1 DEF Work, Exit, Take, EnterHash, AcquireHeavy, HashDone, HashEnds, TitleSettled,
                  AcquireTitle, EngineAnswers, TitleFails, OfferSimilar, WorkerSubmits, Similar,
                  LeaveHash, LeaveTitle, SetSourceTitle, rows
    <2>q. QED BY <1>0, <2>1
  <1>2. ASSUME NEW t \in Source, Request(t) PROVE s \in stored'
    <2>1. UNCHANGED stored /\ \E pc \in UploadPC : Advance(t, pc)
      BY <1>2 DEF Request, UploadHash, UploadTitle, UploadSubmits, UploadSimilar, SetSourceTitle,
                  UploadPC, rows
    <2>2. upload[t].pc # "new"
      BY <1>2 DEF Request, UploadHash, UploadTitle, UploadSubmits, UploadSimilar
    <2>3. t # s => upload'[s] = upload[s]
      BY <1>0, <2>1 DEF Advance, UploadOK
    <2>4. t = s \/ upload[s].pc # "new"
      BY <2>3
    <2>q. QED BY <1>0, <2>1, <2>2, <2>4
  <1>3. ASSUME NEW t \in Source, NEW title \in TitleKind, Insert(t, title) PROVE s \in stored'
    BY <1>0, <1>3 DEF Insert, UploadOK
  <1>4. CASE SweepNext
    <2>1. UNCHANGED <<stored, upload>>
      BY <1>4 DEF SweepNext, SweepBegin, SweepHash, SweepListTitles, SweepTitle, SweepSubmitsTitle,
                  SweepListSimilar, SweepSimilar, SweepSubmitsSimilar, SweepRests, SweepOver,
                  SweepFrame, rows
    <2>q. QED BY <1>0, <2>1
  <1>5. CASE Drain \/ StopPool
    BY <1>0, <1>5 DEF Drain, StopPool, rows
  <1>6. CASE Restart
    <2>1. UNCHANGED stored
      BY <1>6 DEF Restart, rows
    <2>2. s \in stored \/ upload'[s] = upload[s]
      BY <1>0, <1>6 DEF Restart
    <2>q. QED BY <1>0, <2>1, <2>2
  <1>q. QED BY <1>1, <1>2, <1>3, <1>4, <1>5, <1>6 DEF Next

LEMMA SubmitsStayFirst ==
  ASSUME SubmitsFirst, Next
  PROVE  SubmitsFirst'
  <1> SUFFICES ASSUME sweep'.pc \in {"submit title", "submit similar"} PROVE sweep'.todo # <<>>
    BY DEF SubmitsFirst
  <1>1. CASE \E w \in Worker : Work(w) \/ Exit(w)
    <2>1. UNCHANGED sweep
      BY <1>1 DEF Work, Exit, Take, EnterHash, AcquireHeavy, HashDone, HashEnds, TitleSettled,
                  AcquireTitle, EngineAnswers, TitleFails, OfferSimilar, WorkerSubmits, Similar,
                  LeaveHash, LeaveTitle, SetSourceTitle
    <2>q. QED BY <2>1 DEF SubmitsFirst
  <1>2. CASE \E s \in Source : Request(s) \/ \E title \in TitleKind : Insert(s, title)
    <2>1. UNCHANGED sweep
      BY <1>2 DEF Request, UploadHash, UploadTitle, UploadSubmits, UploadSimilar, Insert, Advance
    <2>q. QED BY <2>1 DEF SubmitsFirst
  <1>3. CASE SweepTitle \/ SweepSimilar
    BY <1>3, SweepIs DEF SweepTitle, SweepSimilar
  <1>4. CASE SweepBegin \/ SweepHash \/ SweepListTitles \/ SweepListSimilar \/ SweepRests
             \/ SweepOver
    BY <1>4, NothingSubmitted
  <1>5. CASE SweepSubmitsTitle \/ SweepSubmitsSimilar
    <2>1. CASE SweepSubmitsTitle
      <3>1. sweep'.pc \in {"title", "over"} BY <2>1, SweepIs DEF SweepSubmitsTitle
      <3>q. QED BY <3>1
    <2>2. CASE SweepSubmitsSimilar
      <3>1. sweep'.pc \in {"similar", "over"} BY <2>2, SweepIs DEF SweepSubmitsSimilar
      <3>q. QED BY <3>1
    <2>q. QED BY <1>5, <2>1, <2>2
  <1>6. CASE Drain \/ StopPool
    BY <1>6 DEF Drain, StopPool, SubmitsFirst
  <1>7. CASE Restart
    <2>1. sweep'.pc = "rest" BY <1>7 DEF Restart
    <2>q. QED BY <2>1
  <1>q. QED BY <1>1, <1>2, <1>3, <1>4, <1>5, <1>6, <1>7 DEF Next, SweepNext

LEMMA InitClaims == Init => ClaimInv
  <1> SUFFICES ASSUME Init PROVE ClaimInv
    OBVIOUS
  <1>1. TypeOK
    <2>1. RowsOK /\ MarksOK /\ QueueOK
      BY PipelineAssumption DEF Init, RowsOK, MarksOK, QueueOK
    <2>2. WorkerOK BY IdleType DEF Init, WorkerOK
    <2>3. SweepOK BY DEF Init, SweepOK, SweepPC
    <2>4. UploadOK BY DEF Init, UploadOK, UploadPC, TitleKind
    <2>5. ProcOK BY PipelineAssumption DEF Init, ProcOK
    <2>q. QED BY <2>1, <2>2, <2>3, <2>4, <2>5, TypeParts
  <1>2. SubmitsFirst /\ RowsFirst
    BY DEF Init, SubmitsFirst, RowsFirst
  <1>3. ASSUME NEW s \in Source PROVE HashClaim(s) /\ TitleClaim(s) /\ SimilarClaim(s)
    <2>1. /\ queue = <<>> /\ hashing = {} /\ titling = {} /\ similaring = {}
          /\ sweep.pc = "rest" /\ \A w \in Worker : worker[w].pc = "idle"
          /\ upload[s].pc # "submit"
      BY DEF Init, Idle
    <2>2. \A k : Queued(k, s) = {}
      BY <2>1 DEF Queued
    <2>3. \A pcs \in {HashPCs, TitlePCs, SimilarPCs} : Holding(pcs, s) = {}
      BY <2>1 DEF Holding, Running, HashPCs, TitlePCs, SimilarPCs
    <2>q. QED
      BY <2>1, <2>2, <2>3 DEF HashClaim, TitleClaim, SimilarClaim, OnePlace, AtMostOne, SweepHas
  <1>q. QED BY <1>1, <1>2, <1>3 DEF ClaimInv, Claims

\* The claims as an inductive invariant: a source that is marked has its job in
\* exactly one place, whichever step is taken, a restart and a stop included.
THEOREM ClaimsInductive == Spec => []ClaimInv
  <1>1. Init => ClaimInv
    BY InitClaims
  <1>2. ClaimInv /\ [Next]_vars => ClaimInv'
    <2> SUFFICES ASSUME ClaimInv, [Next]_vars PROVE ClaimInv'
      OBVIOUS
    <2>1. CASE Next
      <3>1. TypeOK /\ SubmitsFirst /\ RowsFirst
        BY DEF ClaimInv
      <3>2. SubmitsFirst' /\ RowsFirst'
        BY <2>1, <3>1, SubmitsStayFirst, RowsStayFirst
      <3>3. TypeOK'
        BY <2>1, <3>1, WorkTypes, RequestTypes, SweepTypes, ProcessTypes DEF Next
      <3>4. ASSUME NEW s \in Source PROVE HashClaim(s)' /\ TitleClaim(s)' /\ SimilarClaim(s)'
        <4>1. CASE \E w \in Worker : Work(w) \/ Exit(w)
          BY <4>1, TakeKeepsClaims, HashJobsKeepClaims, TitleJobsKeepClaims, OfferKeepsClaims,
             WorkerSubmitsKeepsClaims, SimilarKeepsClaims DEF Work
        <4>2. CASE \E t \in Source : Request(t) \/ \E title \in TitleKind : Insert(t, title)
          BY <4>2, RequestsKeepClaims
        <4>3. CASE SweepNext
          BY <4>3, SweeperKeepsClaims
        <4>4. CASE Drain \/ StopPool \/ Restart
          BY <4>4, ProcessKeepsClaims
        <4>q. QED BY <2>1, <4>1, <4>2, <4>3, <4>4 DEF Next
      <3>q. QED BY <3>2, <3>3, <3>4 DEF ClaimInv, Claims
    <2>2. CASE UNCHANGED vars
      <3>1. TypeOK' /\ SubmitsFirst' /\ RowsFirst'
        BY <2>2, Unchanged, TypePartsPrimed
           DEF vars, rows, marks, proc, ClaimInv, SubmitsFirst, RowsFirst
      <3>2. UNCHANGED <<queue, hashing, titling, similaring, worker, sweep, upload>>
        BY <2>2 DEF vars
      <3>q. QED
        BY <3>1, <3>2, HoldingUnchanged, QueuedUnchanged, ClaimsStay DEF ClaimInv, Claims
    <2>q. QED BY <2>1, <2>2
  <1>q. QED BY <1>1, <1>2, PTL DEF Spec

\* The types, and the bound on the channel of jobs, hold in every reachable state.
THEOREM PipelineTypeCorrect == Spec => []TypeOK
  <1>1. ClaimInv => TypeOK
    BY DEF ClaimInv
  <1>q. QED BY <1>1, ClaimsInductive, PTL

\* hashing, titling and similaring count exactly the work there is: no second
\* job of a kind for a source, and no mark that outlives its job.
THEOREM MarksAreExact == Spec => []MarksExact
  BY ClaimsAreMarks, ClaimsInductive, PTL

-----------------------------------------------------------------------------
(* Gates: every slot that was taken is given back.                         *)

\* The steps there are for each kind of call.
Route(k) ==
  {"idle"} \cup CASE k = "upload"  -> {"uploads", "put", "heavy", "result"}
                  [] k = "suggest" -> {"payload", "fast", "trip"}
                  [] k = "hash"    -> {"workers", "heavy", "result"}
                  [] OTHER         -> {"workers", "titles", "yield", "sem", "turn", "trip", "result"}

OnRoute == \A c \in Call : at[c] \in Route(kind[c])

LinesExact ==
  \A g \in Gate : IsInjective(line[g]) /\ ToSet(line[g]) = {c \in Call : g \in Through(c)}

Forms == {c \in Of("suggest") : at[c] # "idle"}
FormsCounted == IsFiniteSet(Forms) /\ fastLive = Cardinality(Forms)

\* A title job that asks the engine has its slot of Limits.Title.
AsksWithSlot ==
  \A c \in Call : kind[c] = "title" /\ at[c] \in {"yield", "sem", "turn", "trip", "result"}
                   => Inside(c, "titles")

GatesInv == GatesTypeOK /\ OnRoute /\ LinesExact /\ FormsCounted /\ AsksWithSlot

LEMMA WithoutIs ==
  ASSUME NEW s \in Seq(Call), IsInjective(s), NEW c \in Call
  PROVE  /\ Without(s, c) \in Seq(Call) /\ IsInjective(Without(s, c))
         /\ ToSet(Without(s, c)) = ToSet(s) \ {c}
         /\ \A n \in Nat, d \in Call :
              d # c /\ (\E i \in 1 .. Len(s) : i <= n /\ s[i] = d)
              => \E i \in 1 .. Len(Without(s, c)) : i <= n /\ Without(s, c)[i] = d
  <1>1. CASE c \notin ToSet(s)
    BY <1>1 DEF Without
  <1>2. CASE c \in ToSet(s)
    <2> DEFINE k == CHOOSE i \in DOMAIN s : s[i] = c
               t == Without(s, c)
    <2>1. k \in 1 .. Len(s) /\ s[k] = c /\ Len(s) \in Nat
      BY <1>2 DEF ToSet
    <2>2. t = SubSeq(s, 1, k - 1) \o SubSeq(s, k + 1, Len(s))
      BY <1>2 DEF Without, RemoveAt
    <2> HIDE DEF k, t
    <2> DEFINE a == SubSeq(s, 1, k - 1)
               b == SubSeq(s, k + 1, Len(s))
    <2>3. /\ a \in Seq(Call) /\ Len(a) = k - 1
          /\ \A i \in 1 .. k - 1 : a[i] = s[i]
          /\ b \in Seq(Call) /\ Len(b) = Len(s) - k
          /\ \A i \in 1 .. Len(s) - k : b[i] = s[k + i]
      BY <2>1
    <2> HIDE DEF a, b
    <2>4. /\ t \in Seq(Call) /\ Len(t) = Len(s) - 1 /\ DOMAIN t = 1 .. Len(s) - 1
          /\ \A i \in 1 .. Len(s) - 1 : t[i] = IF i < k THEN s[i] ELSE s[i + 1]
      <3>1. t = a \o b BY <2>2 DEF a, b
      <3>2. t \in Seq(Call) /\ Len(t) = Len(s) - 1
        <4>1. t \in Seq(Call) /\ Len(t) = Len(a) + Len(b)
          <5>1. a \in Seq(Call) /\ b \in Seq(Call) BY <2>3
          <5>q. QED BY <3>1, <5>1
        <4>q. QED BY <2>1, <2>3, <4>1
      <3>3. ASSUME NEW i \in 1 .. Len(s) - 1 PROVE t[i] = IF i < k THEN s[i] ELSE s[i + 1]
        <4>1. CASE i < k BY <2>1, <2>3, <3>1, <4>1
        <4>2. CASE ~(i < k)
          <5>1. i - (k - 1) \in 1 .. Len(s) - k BY <2>1, <4>2
          <5>2. b[i - (k - 1)] = s[k + (i - (k - 1))] BY <2>3, <5>1
          <5>3. k + (i - (k - 1)) = i + 1 BY <2>1
          <5>4. t[i] = b[i - (k - 1)] BY <2>1, <2>3, <3>1, <4>2
          <5>q. QED BY <4>2, <5>2, <5>3, <5>4
        <4>q. QED BY <4>1, <4>2
      <3>q. QED BY <3>2, <3>3
    <2> DEFINE old(i) == IF i < k THEN i ELSE i + 1
    <2>5. IsInjective(t)
      <3> SUFFICES ASSUME NEW x \in 1 .. Len(s) - 1, NEW y \in 1 .. Len(s) - 1, t[x] = t[y]
                   PROVE  x = y
        BY <2>4 DEF IsInjective
      <3>1. old(x) \in 1 .. Len(s) /\ old(y) \in 1 .. Len(s) BY <2>1
      <3>2. s[old(x)] = s[old(y)] BY <2>4
      <3>3. old(x) = old(y) BY <3>1, <3>2 DEF IsInjective
      <3>q. QED BY <2>1, <3>3
    <2>6. \A i \in 1 .. Len(s) : i # k => s[i] # c
      BY <2>1 DEF IsInjective
    <2>7. ToSet(t) = ToSet(s) \ {c}
      <3>1. ASSUME NEW i \in 1 .. Len(s) - 1 PROVE t[i] \in ToSet(s) /\ t[i] # c
        <4>1. old(i) \in 1 .. Len(s) /\ old(i) # k /\ t[i] = s[old(i)] BY <2>1, <2>4
        <4>2. t[i] # c BY <2>6, <4>1
        <4>q. QED BY <4>1, <4>2 DEF ToSet
      <3>2. ASSUME NEW i \in 1 .. Len(s), s[i] # c PROVE s[i] \in ToSet(t)
        <4>1. CASE i < k
          <5>1. i \in 1 .. Len(s) - 1 /\ t[i] = s[i] BY <2>1, <2>4, <4>1
          <5>q. QED BY <5>1, <2>4 DEF ToSet
        <4>2. CASE i > k
          <5>1. i - 1 \in 1 .. Len(s) - 1 /\ ~(i - 1 < k) /\ i - 1 + 1 = i BY <2>1, <4>2
          <5>2. t[i - 1] = s[i] BY <2>4, <5>1
          <5>q. QED BY <5>1, <5>2, <2>4 DEF ToSet
        <4>q. QED BY <2>1, <3>2, <4>1, <4>2
      <3>q. QED BY <2>4, <3>1, <3>2 DEF ToSet
    <2>8. ASSUME NEW n \in Nat, NEW d \in Call, d # c, NEW i \in 1 .. Len(s), i <= n, s[i] = d
          PROVE  \E j \in 1 .. Len(t) : j <= n /\ t[j] = d
      <3>1. CASE i < k
        <4>1. i \in 1 .. Len(t) /\ t[i] = d BY <2>1, <2>4, <2>8, <3>1
        <4>q. QED BY <4>1, <2>8
      <3>2. CASE i > k
        <4>1. i - 1 \in 1 .. Len(t) /\ t[i - 1] = d /\ i - 1 <= n BY <2>1, <2>4, <2>8, <3>2
        <4>q. QED BY <4>1
      <3>q. QED BY <2>1, <2>8, <3>1, <3>2
    <2>q. QED BY <2>4, <2>5, <2>7, <2>8 DEF t
  <1>q. QED BY <1>1, <1>2

LEMMA AppendIs ==
  ASSUME NEW s \in Seq(Call), IsInjective(s), NEW c \in Call, c \notin ToSet(s)
  PROVE  /\ IsInjective(Append(s, c)) /\ ToSet(Append(s, c)) = ToSet(s) \cup {c}
  <1> DEFINE t == Append(s, c)
  <1>1. /\ DOMAIN s = 1 .. Len(s) /\ Len(s) \in Nat
        /\ DOMAIN t = 1 .. Len(s) + 1 /\ Len(t) = Len(s) + 1
        /\ \A i \in 1 .. Len(s) : t[i] = s[i]
        /\ t[Len(s) + 1] = c
    OBVIOUS
  <1> HIDE DEF t
  <1>2. \A i \in 1 .. Len(s) : s[i] # c
    BY <1>1 DEF ToSet
  <1>3. IsInjective(t)
    <2> SUFFICES ASSUME NEW x \in 1 .. Len(s) + 1, NEW y \in 1 .. Len(s) + 1, t[x] = t[y]
                 PROVE  x = y
      BY <1>1 DEF IsInjective
    <2>1. CASE x \in 1 .. Len(s) /\ y \in 1 .. Len(s)
      BY <1>1, <2>1 DEF IsInjective
    <2>2. CASE x = Len(s) + 1 \/ y = Len(s) + 1
      BY <1>1, <1>2, <2>2
    <2>q. QED BY <1>1, <2>1, <2>2
  <1>4. ToSet(t) = ToSet(s) \cup {c}
    <2>1. \A i \in 1 .. Len(s) + 1 : i \in 1 .. Len(s) \/ i = Len(s) + 1
      BY <1>1
    <2>2. \A i \in 1 .. Len(s) : i \in 1 .. Len(s) + 1
      BY <1>1
    <2>3. Len(s) + 1 \in 1 .. Len(s) + 1
      BY <1>1
    <2>q. QED BY <1>1, <2>1, <2>2, <2>3 DEF ToSet
  <1>q. QED BY <1>3, <1>4 DEF t

\* d is among the first n of s.
Within(s, n, d) == \E i \in 1 .. Len(s) : i <= n /\ s[i] = d

LEMMA WithoutKeeps ==
  ASSUME NEW s \in Seq(Call), IsInjective(s), NEW c \in Call, NEW n \in Nat, NEW d \in Call, d # c,
         Within(s, n, d)
  PROVE  Within(Without(s, c), n, d)
  <1>1. \A m \in Nat, e \in Call :
          e # c /\ (\E i \in 1 .. Len(s) : i <= m /\ s[i] = e)
          => \E i \in 1 .. Len(Without(s, c)) : i <= m /\ Without(s, c)[i] = e
    BY WithoutIs
  <1>q. QED BY <1>1, Zenon DEF Within

LEMMA AppendKeeps ==
  ASSUME NEW s \in Seq(Call), NEW c \in Call, NEW n, NEW d, Within(s, n, d)
  PROVE  Within(Append(s, c), n, d)
  BY DEF Within

LEMMA InsideIs == \A c, g : Inside(c, g) <=> Within(line[g], Slots[g], c)
  BY DEF Inside, Within

LEMMA InsideIsPrimed == \A c, g : Inside(c, g)' <=> Within(line'[g], Slots[g], c)
  BY DEF Inside, Within

\* Through, as a function of what a call is and of where it is.
Held(k, x) ==
  IF x \in {"idle", "payload"} THEN {} ELSE
  CASE k = "upload"  -> {"uploads"} \cup ({x} \cap Gate)
    [] k = "suggest" -> {"fast"}
    [] k = "hash"    -> {"workers"} \cup ({x} \cap Gate)
    [] OTHER -> {"workers"} \cup (IF x \in {"workers"} THEN {} ELSE {"titles"})
                            \cup (IF x \in {"sem", "turn", "trip"} THEN {"sem"} ELSE {})

LEMMA ThroughIs == \A c : Through(c) = Held(kind[c], at[c])
  BY DEF Through, Held

Asks == {"yield", "sem", "turn", "trip", "result"}

\* What holds after a step of c to x that takes or gives back what it should.
GoesTo(c, x) ==
  /\ UNCHANGED kind
  /\ at' = [at EXCEPT ![c] = x]
  /\ x \in Route(kind[c]) /\ x \in Gate \cup Step
  /\ kind[c] = "title" /\ x \in Asks => Inside(c, "titles")

\* The lines, the routes and the slots of title jobs stay as they should be.
Places == line \in [Gate -> Seq(Call)] /\ at \in [Call -> Gate \cup Step]
          /\ OnRoute /\ LinesExact /\ AsksWithSlot

LEMMA AtAfter ==
  ASSUME Places, NEW c \in Call, NEW x, GoesTo(c, x)
  PROVE  /\ at' \in [Call -> Gate \cup Step] /\ OnRoute'
         /\ at'[c] = x /\ \A d \in Call : d # c => at'[d] = at[d]
         /\ Through(c)' = Held(kind[c], x)
         /\ \A d \in Call : d # c => Through(d)' = Through(d)
  <1>1. /\ at' \in [Call -> Gate \cup Step] /\ kind' = kind
        /\ at'[c] = x /\ \A d \in Call : d # c => at'[d] = at[d]
    BY DEF Places, GoesTo
  <1>2. OnRoute'
    BY <1>1 DEF Places, GoesTo, OnRoute
  <1>3. \A d : Through(d)' = Held(kind'[d], at'[d])
    BY DEF Through, Held
  <1>q. QED BY <1>1, <1>2, <1>3, ThroughIs

LEMMA SlotsAfter ==
  ASSUME Places, NEW c \in Call, NEW x, GoesTo(c, x),
         x \in Asks /\ kind[c] = "title" => Inside(c, "titles")',
         \A d \in Call : d # c /\ Inside(d, "titles") => Inside(d, "titles")'
  PROVE  AsksWithSlot'
  <1>1. kind' = kind /\ at'[c] = x /\ \A d \in Call : d # c => at'[d] = at[d]
    BY AtAfter DEF GoesTo
  <1>q. QED BY <1>1 DEF Places, AsksWithSlot, Asks

LEMMA StepKeeps ==
  ASSUME Places, NEW c \in Call, NEW x, GoesTo(c, x), UNCHANGED line,
         Held(kind[c], x) = Held(kind[c], at[c])
  PROVE  Places'
  <1>1. \A d \in Call : Through(d)' = Through(d)
    BY AtAfter, ThroughIs
  <1>2. LinesExact'
    BY <1>1 DEF Places, LinesExact
  <1>3. \A d, g : Inside(d, g)' <=> Inside(d, g)
    BY DEF Inside
  <1>4. AsksWithSlot'
    BY <1>3, SlotsAfter DEF GoesTo
  <1>q. QED BY <1>2, <1>4, AtAfter DEF Places

LEMMA AcquireKeeps ==
  ASSUME Places, NEW c \in Call, NEW g \in Gate, GoesTo(c, g), Acquire(c, g),
         g \notin Held(kind[c], at[c]), Held(kind[c], g) = Held(kind[c], at[c]) \cup {g}
  PROVE  Places'
  <1>1. /\ line \in [Gate -> Seq(Call)] /\ line' \in [Gate -> Seq(Call)]
        /\ line'[g] = Append(line[g], c) /\ \A h \in Gate : h # g => line'[h] = line[h]
    BY DEF Places, Acquire
  <1>2. c \notin ToSet(line[g]) /\ IsInjective(line[g]) /\ line[g] \in Seq(Call)
    BY <1>1, ThroughIs DEF Places, LinesExact
  <1>4. IsInjective(line'[g]) /\ ToSet(line'[g]) = ToSet(line[g]) \cup {c}
    BY <1>1, <1>2, AppendIs
  <1>5. Through(c)' = Through(c) \cup {g} /\ \A d \in Call : d # c => Through(d)' = Through(d)
    BY AtAfter, ThroughIs
  <1>6. ASSUME NEW h \in Gate
        PROVE  IsInjective(line'[h]) /\ ToSet(line'[h]) = {d \in Call : h \in Through(d)'}
    <2>1. IsInjective(line[h]) /\ ToSet(line[h]) = {d \in Call : h \in Through(d)}
      BY DEF Places, LinesExact
    <2>2. CASE h = g BY <1>4, <1>5, <2>1, <2>2
    <2>3. CASE h # g BY <1>1, <1>5, <2>1, <2>3
    <2>q. QED BY <2>2, <2>3
  <1>7. LinesExact'
    BY <1>6 DEF LinesExact
  <1>8. ASSUME NEW d \in Call, NEW h \in Gate, Inside(d, h) PROVE Inside(d, h)'
    <2>1. Within(line[h], Slots[h], d) BY <1>8, InsideIs
    <2>2. CASE h = g
      <3>1. Within(line'[g], Slots[g], d) BY <1>1, <1>2, <2>1, <2>2, AppendKeeps
      <3>q. QED BY <2>2, <3>1, InsideIsPrimed
    <2>3. CASE h # g BY <1>1, <2>1, <2>3, InsideIsPrimed
    <2>q. QED BY <2>2, <2>3
  <1>9. AsksWithSlot'
    BY <1>8, SlotsAfter DEF GoesTo, Gate
  <1>q. QED BY <1>1, <1>7, <1>9, AtAfter DEF Places

LEMMA ReleaseKeeps ==
  ASSUME Places, NEW c \in Call, NEW x, GoesTo(c, x), NEW G, Release(c, G),
         Held(kind[c], x) = Held(kind[c], at[c]) \ G,
         "titles" \in G => x \notin Asks \/ kind[c] # "title"
  PROVE  Places'
  <1>1. /\ line \in [Gate -> Seq(Call)] /\ line' \in [Gate -> Seq(Call)]
        /\ \A g \in Gate : line'[g] = IF g \in G THEN Without(line[g], c) ELSE line[g]
    <2>1. \A g \in Gate : line[g] \in Seq(Call) /\ IsInjective(line[g])
      BY DEF Places, LinesExact
    <2>2. \A g \in Gate : Without(line[g], c) \in Seq(Call)
      BY <2>1, WithoutIs
    <2>q. QED BY <2>1, <2>2 DEF Places, Release
  <1>2. Through(c)' = Through(c) \ G /\ \A d \in Call : d # c => Through(d)' = Through(d)
    BY AtAfter, ThroughIs
  <1>3. ASSUME NEW g \in Gate
        PROVE  IsInjective(line'[g]) /\ ToSet(line'[g]) = {d \in Call : g \in Through(d)'}
    <2>1. /\ line[g] \in Seq(Call) /\ IsInjective(line[g])
          /\ ToSet(line[g]) = {d \in Call : g \in Through(d)}
      BY <1>1 DEF Places, LinesExact
    <2>2. CASE g \in G
      <3>1. IsInjective(line'[g]) /\ ToSet(line'[g]) = ToSet(line[g]) \ {c}
        BY <1>1, <2>1, <2>2, WithoutIs
      <3>q. QED BY <1>2, <2>1, <2>2, <3>1
    <2>3. CASE g \notin G
      BY <1>1, <1>2, <2>1, <2>3
    <2>q. QED BY <2>2, <2>3
  <1>4. LinesExact'
    BY <1>3 DEF LinesExact
  <1>5. ASSUME NEW d \in Call, NEW g \in Gate, Inside(d, g), d # c \/ g \notin G
        PROVE  Inside(d, g)'
    <2>1. Within(line[g], Slots[g], d) BY <1>5, InsideIs
    <2>2. CASE g \in G
      <3>1. line[g] \in Seq(Call) /\ IsInjective(line[g]) /\ Slots[g] \in Nat /\ d # c
        BY <1>1, <1>5, <2>2, GatesAssumption DEF Places, LinesExact
      <3>2. Within(line'[g], Slots[g], d)
        BY <1>1, <2>1, <2>2, <3>1, WithoutKeeps
      <3>q. QED BY <3>2, InsideIsPrimed
    <2>3. CASE g \notin G
      BY <1>1, <2>1, <2>3, InsideIsPrimed
    <2>q. QED BY <2>2, <2>3
  <1>6. AsksWithSlot'
    BY <1>5, SlotsAfter DEF GoesTo, Gate
  <1>q. QED BY <1>1, <1>4, <1>6, AtAfter DEF Places

\* The routes, as the slots each step takes, gives back or leaves alone.
Taken(k, x, g) ==
  \/ k = "upload" /\ x = "idle" /\ g = "uploads"
  \/ k = "upload" /\ x = "uploads" /\ g \in {"put", "heavy"}
  \/ k = "hash" /\ x = "idle" /\ g = "workers"
  \/ k = "hash" /\ x \in {"workers", "result"} /\ g = "heavy"
  \/ k = "suggest" /\ x = "payload" /\ g = "fast"
  \/ k = "title" /\ x = "idle" /\ g = "workers"
  \/ k = "title" /\ x = "workers" /\ g = "titles"
  \/ k = "title" /\ x = "yield" /\ g = "sem"

Given(k, x, G, y) ==
  \/ k = "upload" /\ x \in {"uploads", "result"} /\ y = "idle" /\ G = {"uploads"}
  \/ k = "upload" /\ x = "put" /\ y = "result" /\ G = {"put"}
  \/ k = "upload" /\ x \in {"put", "heavy"} /\ y = "idle" /\ G = {x, "uploads"}
  \/ k = "hash" /\ x \in {"workers", "result"} /\ y = "idle" /\ G = {"workers"}
  \/ k = "hash" /\ x = "heavy" /\ y = "idle" /\ G = {"heavy", "workers"}
  \/ k = "hash" /\ x = "heavy" /\ y = "result" /\ G = {"heavy"}
  \/ k = "suggest" /\ x = "payload" /\ y = "idle" /\ G = {}
  \/ k = "suggest" /\ x \in {"fast", "trip"} /\ y = "idle" /\ G = {"fast"}
  \/ k = "title" /\ x = "workers" /\ y = "idle" /\ G = {"workers"}
  \/ k = "title" /\ x \in {"titles", "result"} /\ y = "idle" /\ G = {"titles", "workers"}
  \/ /\ k = "title" /\ x \in {"titles", "sem", "yield", "turn", "trip"} /\ y = "idle"
     /\ G = {"sem", "titles", "workers"}
  \/ k = "title" /\ x = "trip" /\ y = "result" /\ G = {"sem"}

Kept(k, x, y) ==
  \/ k = "suggest" /\ x = "idle" /\ y = "payload"
  \/ k = "suggest" /\ x \in {"fast", "trip"} /\ y = "trip"
  \/ k = "title" /\ x \in {"titles", "result"} /\ y = "yield"
  \/ k = "title" /\ x \in {"sem", "trip"} /\ y = "turn"
  \/ k = "title" /\ x = "turn" /\ y = "trip"

LEMMA HeldIs ==
  /\ \A k : Held(k, "idle") = {} /\ Held(k, "payload") = {}
  /\ Held("upload", "uploads") = {"uploads"} /\ Held("upload", "result") = {"uploads"}
  /\ Held("upload", "put") = {"uploads", "put"} /\ Held("upload", "heavy") = {"uploads", "heavy"}
  /\ Held("suggest", "fast") = {"fast"} /\ Held("suggest", "trip") = {"fast"}
  /\ Held("hash", "workers") = {"workers"} /\ Held("hash", "result") = {"workers"}
  /\ Held("hash", "heavy") = {"workers", "heavy"}
  /\ Held("title", "workers") = {"workers"}
  /\ \A x \in {"titles", "yield", "result"} : Held("title", x) = {"workers", "titles"}
  /\ \A x \in {"sem", "turn", "trip"} : Held("title", x) = {"workers", "titles", "sem"}
  <1>1. \A k : Held(k, "idle") = {} /\ Held(k, "payload") = {}
    BY DEF Held
  <1>2. /\ Held("upload", "uploads") = {"uploads"} /\ Held("upload", "result") = {"uploads"}
        /\ Held("upload", "put") = {"uploads", "put"} /\ Held("upload", "heavy") = {"uploads", "heavy"}
    BY DEF Held, Gate
  <1>3. Held("suggest", "fast") = {"fast"} /\ Held("suggest", "trip") = {"fast"}
    BY DEF Held
  <1>4. /\ Held("hash", "workers") = {"workers"} /\ Held("hash", "result") = {"workers"}
        /\ Held("hash", "heavy") = {"workers", "heavy"}
    BY DEF Held, Gate
  <1>5. Held("title", "workers") = {"workers"}
    BY DEF Held
  <1>6. \A x \in {"titles", "yield", "result"} : Held("title", x) = {"workers", "titles"}
    BY DEF Held
  <1>7. \A x \in {"sem", "turn", "trip"} : Held("title", x) = {"workers", "titles", "sem"}
    BY DEF Held
  <1>q. QED BY <1>1, <1>2, <1>3, <1>4, <1>5, <1>6, <1>7

LEMMA RouteIs ==
  /\ Route("upload")  = {"idle", "uploads", "put", "heavy", "result"}
  /\ Route("suggest") = {"idle", "payload", "fast", "trip"}
  /\ Route("hash")    = {"idle", "workers", "heavy", "result"}
  /\ Route("title")   = {"idle", "workers", "titles", "yield", "sem", "turn", "trip", "result"}
  BY DEF Route

LEMMA TakenIs ==
  ASSUME NEW k, NEW x, NEW g, Taken(k, x, g)
  PROVE  /\ g \in Gate /\ g \in Route(k)
         /\ g \notin Held(k, x) /\ Held(k, g) = Held(k, x) \cup {g}
  <1>1. CASE k = "upload" BY <1>1, HeldIs, RouteIs DEF Taken, Gate
  <1>2. CASE k = "hash" BY <1>2, HeldIs, RouteIs DEF Taken, Gate
  <1>3. CASE k = "suggest" BY <1>3, HeldIs, RouteIs DEF Taken, Gate
  <1>4. CASE k = "title" BY <1>4, HeldIs, RouteIs DEF Taken, Gate
  <1>q. QED BY <1>1, <1>2, <1>3, <1>4 DEF Taken

LEMMA GivenIs ==
  ASSUME NEW k, NEW x, NEW G, NEW y, Given(k, x, G, y)
  PROVE  /\ y \in Gate \cup Step /\ y \in Route(k) /\ Held(k, y) = Held(k, x) \ G
         /\ "titles" \in G => y \notin Asks
         /\ y \in Asks /\ k = "title" => x = "trip"
  <1>1. CASE k = "upload" BY <1>1, HeldIs, RouteIs DEF Given, Step, Asks
  <1>2. CASE k = "hash" BY <1>2, HeldIs, RouteIs DEF Given, Step, Gate, Asks
  <1>3. CASE k = "suggest" BY <1>3, HeldIs, RouteIs DEF Given, Step, Asks
  <1>4. CASE k = "title" BY <1>4, HeldIs, RouteIs DEF Given, Step, Asks
  <1>q. QED BY <1>1, <1>2, <1>3, <1>4 DEF Given

LEMMA KeptIs ==
  ASSUME NEW k, NEW x, NEW y, Kept(k, x, y)
  PROVE  /\ y \in Gate \cup Step /\ y \in Route(k) /\ Held(k, y) = Held(k, x)
         /\ k = "title" => x \in Asks \/ x = "titles"
  BY HeldIs, RouteIs DEF Kept, Step, Asks

LEMMA TakenKeeps ==
  ASSUME Places, UNCHANGED kind, NEW c \in Call, NEW g, Acquire(c, g), Taken(kind[c], at[c], g)
  PROVE  Places'
  <1>1. kind[c] = "title" /\ g \in Asks => Inside(c, "titles")
    BY DEF Places, AsksWithSlot, Taken, Asks
  <1>2. GoesTo(c, g) /\ g \in Gate
    BY <1>1, TakenIs DEF GoesTo, Acquire
  <1>q. QED BY <1>2, TakenIs, AcquireKeeps

LEMMA GivenKeeps ==
  ASSUME Places, UNCHANGED kind, NEW c \in Call, NEW G, NEW y, Release(c, G),
         at' = [at EXCEPT ![c] = y], Given(kind[c], at[c], G, y)
  PROVE  Places'
  <1>1. kind[c] = "title" /\ y \in Asks => Inside(c, "titles")
    BY GivenIs DEF Places, AsksWithSlot
  <1>2. GoesTo(c, y)
    BY <1>1, GivenIs DEF GoesTo
  <1>q. QED BY <1>2, GivenIs, ReleaseKeeps

LEMMA KeptKeeps ==
  ASSUME Places, UNCHANGED kind, NEW c \in Call, NEW y, StepTo(c, y), Kept(kind[c], at[c], y),
         at[c] = "titles" => Inside(c, "titles")
  PROVE  Places'
  <1>1. kind[c] = "title" => Inside(c, "titles")
    BY KeptIs DEF Places, AsksWithSlot, Asks
  <1>2. GoesTo(c, y)
    BY <1>1, KeptIs DEF GoesTo, StepTo
  <1>q. QED BY <1>2, KeptIs, StepKeeps DEF StepTo

\* Every step of a call takes, gives back or keeps what its route says.
OnTheWay(c) ==
  \/ \E g \in Gate : Acquire(c, g) /\ Taken(kind[c], at[c], g)
  \/ \E G \in SUBSET Gate, y \in Step :
       Release(c, G) /\ at' = [at EXCEPT ![c] = y] /\ Given(kind[c], at[c], G, y)
  \/ /\ \E y \in Step : StepTo(c, y) /\ Kept(kind[c], at[c], y)
     /\ at[c] = "titles" => Inside(c, "titles")

LEMMA OnTheWayKeeps ==
  ASSUME Places, UNCHANGED kind, NEW c \in Call, OnTheWay(c)
  PROVE  Places'
  <1>1. ASSUME NEW g \in Gate, Acquire(c, g), Taken(kind[c], at[c], g) PROVE Places'
    BY <1>1, TakenKeeps
  <1>2. ASSUME NEW G \in SUBSET Gate, NEW y \in Step, Release(c, G), at' = [at EXCEPT ![c] = y],
               Given(kind[c], at[c], G, y)
        PROVE  Places'
    BY <1>2, GivenKeeps
  <1>3. ASSUME NEW y \in Step, StepTo(c, y), Kept(kind[c], at[c], y),
               at[c] = "titles" => Inside(c, "titles")
        PROVE  Places'
    BY <1>3, KeptKeeps
  <1>q. QED BY <1>1, <1>2, <1>3 DEF OnTheWay

\* The three ways of going on, to be cited for one action at a time.
LEMMA Takes ==
  ASSUME NEW c, NEW g \in Gate, Acquire(c, g), Taken(kind[c], at[c], g)
  PROVE  OnTheWay(c)
  BY DEF OnTheWay

LEMMA Gives ==
  ASSUME NEW c, NEW G \in SUBSET Gate, Return(c, G), Given(kind[c], at[c], G, "idle")
  PROVE  OnTheWay(c)
  <1>1. "idle" \in Step BY DEF Step
  <1>q. QED BY <1>1 DEF OnTheWay, Return

LEMMA Keeps ==
  ASSUME NEW c, NEW y \in Step, StepTo(c, y), Kept(kind[c], at[c], y),
         at[c] = "titles" => Inside(c, "titles")
  PROVE  OnTheWay(c)
  BY DEF OnTheWay

LEMMA RequestsOnTheWay ==
  ASSUME NEW c, kind[c] \in Kind, at[c] \in Route(kind[c]),
         UploadArrives(c) \/ Upload(c) \/ RequestOver(c)
  PROVE  OnTheWay(c)
  <1>k. kind[c] = "upload"
    BY RouteIs DEF UploadArrives, Upload, UploadReads, FilesPut, UploadStored, FileInspected,
                   RequestOver, Kind
  <1>1. CASE UploadArrives(c)
    <2>1. Taken(kind[c], at[c], "uploads") BY <1>1 DEF UploadArrives, Taken
    <2>q. QED BY <1>1, <2>1, Takes DEF UploadArrives, Gate
  <1>2. CASE UploadReads(c)
    <2>1. at[c] = "uploads" BY <1>2 DEF UploadReads
    <2>2. Given(kind[c], at[c], {"uploads"}, "idle") BY <1>k, <2>1 DEF Given
    <2>3. Taken(kind[c], at[c], "put") /\ Taken(kind[c], at[c], "heavy") BY <1>k, <2>1 DEF Taken
    <2>q. QED BY <1>2, <2>2, <2>3, Takes, Gives DEF UploadReads, Gate
  <1>3. CASE FilesPut(c)
    <2>1. Given(kind[c], at[c], {"put"}, "result") BY <1>3, <1>k DEF FilesPut, Given
    <2>2. {"put"} \in SUBSET Gate /\ "result" \in Step BY DEF Gate, Step
    <2>q. QED BY <1>3, <2>1, <2>2 DEF FilesPut, OnTheWay
  <1>4. CASE FileInspected(c)
    <2>1. Given(kind[c], at[c], {"heavy", "uploads"}, "idle") BY <1>4, <1>k DEF FileInspected, Given
    <2>q. QED BY <1>4, <2>1, Gives DEF FileInspected, Gate
  <1>5. CASE RequestOver(c)
    <2>1. at[c] \in {"uploads", "put", "heavy"} BY <1>5, <1>k, RouteIs DEF RequestOver, Waits, Gate
    <2>2. CASE at[c] = "uploads"
      <3>1. Given(kind[c], at[c], {"uploads"}, "idle") BY <1>k, <2>2 DEF Given
      <3>q. QED BY <1>5, <2>2, <3>1, Gives DEF RequestOver, Gate
    <2>3. CASE at[c] # "uploads"
      <3>1. Given(kind[c], at[c], {at[c], "uploads"}, "idle") BY <1>k, <2>1, <2>3 DEF Given
      <3>2. {at[c], "uploads"} \subseteq Gate BY <2>1 DEF Gate
      <3>q. QED BY <1>5, <2>3, <3>1, <3>2, Gives DEF RequestOver
    <2>q. QED BY <2>2, <2>3
  <1>6. CASE UploadStored(c)
    <2>1. Given(kind[c], at[c], {"uploads"}, "idle") BY <1>6 DEF UploadStored, Given
    <2>q. QED BY <1>6, <2>1, Gives DEF UploadStored, Gate
  <1>q. QED BY <1>1, <1>2, <1>3, <1>4, <1>5, <1>6 DEF Upload

LEMMA HashOnTheWay ==
  ASSUME NEW c, HashQueued(c) \/ Hash(c) \/ HashOver(c)
  PROVE  OnTheWay(c)
  <1>k. kind[c] = "hash"
    BY DEF HashQueued, Hash, HashFetches, HashAnalyzes, HashPublishes, HashOver
  <1>1. CASE HashQueued(c)
    <2>1. Taken(kind[c], at[c], "workers") BY <1>1 DEF HashQueued, Taken
    <2>q. QED BY <1>1, <2>1, Takes DEF HashQueued, Gate
  <1>2. CASE HashFetches(c) \/ HashPublishes(c)
    <2>1. at[c] \in {"workers", "result"} BY <1>2 DEF HashFetches, HashPublishes
    <2>2. Given(kind[c], at[c], {"workers"}, "idle") BY <1>k, <2>1 DEF Given
    <2>3. Taken(kind[c], at[c], "heavy") BY <1>k, <2>1 DEF Taken
    <2>q. QED BY <1>2, <2>2, <2>3, Takes, Gives DEF HashFetches, HashPublishes, Gate
  <1>3. CASE HashAnalyzes(c)
    <2>1. Given(kind[c], at[c], {"heavy"}, "result") BY <1>3, <1>k DEF HashAnalyzes, Given
    <2>2. {"heavy"} \in SUBSET Gate /\ "result" \in Step BY DEF Gate, Step
    <2>q. QED BY <1>3, <2>1, <2>2 DEF HashAnalyzes, OnTheWay
  <1>4. CASE HashOver(c)
    <2>1. Given(kind[c], at[c], {"heavy", "workers"}, "idle") BY <1>4 DEF HashOver, Given
    <2>q. QED BY <1>4, <2>1, Gives DEF HashOver, Gate
  <1>q. QED BY <1>1, <1>2, <1>3, <1>4 DEF Hash

LEMMA FormsOnTheWay ==
  ASSUME NEW c, kind[c] = "suggest", at[c] \in Route(kind[c]),
         SuggestArrives(c) \/ SuggestReads(c) \/ Attempt(c) \/ SuggestOver(c)
  PROVE  OnTheWay(c)
  <1>r. at[c] \in {"idle", "payload", "fast", "trip"}
    BY RouteIs
  <1>1. CASE SuggestArrives(c)
    <2>1. Kept(kind[c], at[c], "payload") /\ at[c] # "titles" BY <1>1 DEF SuggestArrives, Kept
    <2>q. QED BY <1>1, <2>1, Keeps DEF SuggestArrives, Step
  <1>2. CASE SuggestReads(c)
    <2>1. Given(kind[c], at[c], {}, "idle") /\ Taken(kind[c], at[c], "fast")
      BY <1>2 DEF SuggestReads, Given, Taken
    <2>q. QED BY <1>2, <2>1, Takes, Gives DEF SuggestReads, SuggestEnds, Gate
  <1>3. ASSUME SuggestEnds(c, {"fast"}), at[c] \in {"fast", "trip"} PROVE OnTheWay(c)
    <2>1. Given(kind[c], at[c], {"fast"}, "idle") BY <1>3 DEF Given
    <2>q. QED BY <1>3, <2>1, Gives DEF SuggestEnds, Gate
  <1>4. ASSUME StepTo(c, "trip"), at[c] \in {"fast", "trip"} PROVE OnTheWay(c)
    <2>1. Kept(kind[c], at[c], "trip") /\ at[c] # "titles" BY <1>4 DEF Kept
    <2>q. QED BY <1>4, <2>1, Keeps DEF Step
  <1>5. CASE Attempt(c)
    <2>1. SuggestEnds(c, {"fast"}) \/ StepTo(c, "trip")
      BY <1>5, <1>r DEF Attempt, Admitted, Answered, Unanswered, EngineEnds
    <2>2. at[c] \in {"fast", "trip"}
      BY <1>5, <1>r DEF Attempt, Admitted, Answered, Unanswered
    <2>q. QED BY <2>1, <2>2, <1>3, <1>4
  <1>6. CASE SuggestOver(c)
    <2>1. at[c] \in {"fast", "trip"} BY <1>6, <1>r DEF SuggestOver, Waits, Gate
    <2>q. QED BY <1>3, <1>6, <2>1 DEF SuggestOver
  <1>q. QED BY <1>1, <1>2, <1>5, <1>6

LEMMA TitlesOnTheWay ==
  ASSUME NEW c, kind[c] = "title", at[c] \in Route(kind[c]),
         TitleQueued(c) \/ Title(c) \/ Attempt(c) \/ TitleOver(c)
  PROVE  OnTheWay(c)
  <1>r. at[c] \in {"idle", "workers", "titles", "yield", "sem", "turn", "trip", "result"}
    BY RouteIs
  <1>1. CASE TitleQueued(c)
    <2>1. Taken(kind[c], at[c], "workers") BY <1>1 DEF TitleQueued, Taken
    <2>q. QED BY <1>1, <2>1, Takes DEF TitleQueued, Gate
  <1>2. CASE TitleFetches(c)
    <2>1. Given(kind[c], at[c], {"workers"}, "idle") /\ Taken(kind[c], at[c], "titles")
      BY <1>2 DEF TitleFetches, Given, Taken
    <2>q. QED BY <1>2, <2>1, Takes, Gives DEF TitleFetches, Gate
  <1>3. CASE TitleReads(c) \/ TitleStored(c)
    <2>1. at[c] \in {"titles", "result"} /\ (at[c] = "titles" => Inside(c, "titles"))
      BY <1>3 DEF TitleReads, TitleStored
    <2>2. Given(kind[c], at[c], {"titles", "workers"}, "idle") /\ Kept(kind[c], at[c], "yield")
      BY <2>1 DEF Given, Kept
    <2>3. "yield" \in Step /\ {"titles", "workers"} \in SUBSET Gate BY DEF Step, Gate
    <2>q. QED BY <1>3, <2>1, <2>2, <2>3, Gives, Keeps DEF TitleReads, TitleStored
  <1>4. CASE Yield(c)
    <2>1. Taken(kind[c], at[c], "sem") BY <1>4 DEF Yield, Taken
    <2>q. QED BY <1>4, <2>1, Takes DEF Yield, Gate
  <1>5. CASE YieldTurn(c)
    <2>1. Kept(kind[c], at[c], "trip") /\ at[c] # "titles" BY <1>5 DEF YieldTurn, Kept
    <2>q. QED BY <1>5, <2>1, Keeps DEF YieldTurn, Step
  <1>6. CASE Attempt(c)
    <2>1. at[c] \in {"sem", "trip"}
      BY <1>6, <1>r DEF Attempt, Admitted, Answered, Unanswered
    <2>2. StepTo(c, "turn") \/ (at[c] = "trip" /\ Release(c, {"sem"})
                              /\ at' = [at EXCEPT ![c] = "result"])
      BY <1>6, <1>r DEF Attempt, Admitted, Answered, Unanswered, EngineEnds
    <2>3. Kept(kind[c], at[c], "turn") /\ at[c] # "titles" BY <2>1 DEF Kept
    <2>4. at[c] = "trip" => Given(kind[c], at[c], {"sem"}, "result") BY DEF Given
    <2>5. "turn" \in Step /\ "result" \in Step /\ {"sem"} \in SUBSET Gate BY DEF Step, Gate
    <2>6. CASE StepTo(c, "turn") BY <2>3, <2>5, <2>6, Keeps
    <2>7. CASE at[c] = "trip" /\ Release(c, {"sem"}) /\ at' = [at EXCEPT ![c] = "result"]
      BY <2>4, <2>5, <2>7 DEF OnTheWay
    <2>q. QED BY <2>2, <2>6, <2>7
  <1>7. CASE TitleOver(c)
    <2>1. at[c] \in {"titles", "sem", "yield", "turn", "trip"} BY <1>7 DEF TitleOver
    <2>2. Given(kind[c], at[c], {"sem", "titles", "workers"}, "idle") BY <2>1 DEF Given
    <2>q. QED BY <1>7, <2>2, Gives DEF TitleOver, Gate
  <1>q. QED BY <1>1, <1>2, <1>3, <1>4, <1>5, <1>6, <1>7 DEF Title

CallNext(c) == \/ Enters(c) \/ Over(c) \/ Upload(c) \/ Hash(c)
               \/ SuggestReads(c) \/ Attempt(c) \/ Title(c)

LEMMA CallsKeepPlaces ==
  ASSUME Places, kind \in [Call -> Kind], UNCHANGED kind, NEW c \in Call, CallNext(c)
  PROVE  Places'
  <1>r. kind[c] \in Kind /\ at[c] \in Route(kind[c])
    BY DEF Places, OnRoute
  <1>1. CASE UploadArrives(c) \/ Upload(c) \/ RequestOver(c)
    BY <1>r, <1>1, RequestsOnTheWay, OnTheWayKeeps
  <1>2. CASE HashQueued(c) \/ Hash(c) \/ HashOver(c)
    BY <1>2, HashOnTheWay, OnTheWayKeeps
  <1>3. CASE SuggestArrives(c) \/ SuggestReads(c) \/ SuggestOver(c)
    <2>1. kind[c] = "suggest" BY <1>3 DEF SuggestArrives, SuggestReads, SuggestOver
    <2>q. QED BY <1>r, <1>3, <2>1, FormsOnTheWay, OnTheWayKeeps
  <1>4. CASE TitleQueued(c) \/ Title(c) \/ TitleOver(c)
    <2>1. kind[c] = "title"
      <3>1. CASE TitleQueued(c) \/ TitleOver(c) BY <3>1 DEF TitleQueued, TitleOver
      <3>2. CASE TitleFetches(c) BY <3>2 DEF TitleFetches
      <3>3. CASE TitleReads(c) \/ Yield(c) \/ YieldTurn(c)
        <4>1. at[c] \in {"titles", "yield", "turn"} BY <3>3 DEF TitleReads, Yield, YieldTurn
        <4>q. QED BY <1>r, <4>1, RouteIs DEF Kind
      <3>4. CASE TitleStored(c) BY <3>4 DEF TitleStored
      <3>q. QED BY <1>4, <3>1, <3>2, <3>3, <3>4 DEF Title
    <2>q. QED BY <1>r, <1>4, <2>1, TitlesOnTheWay, OnTheWayKeeps
  <1>5. CASE Attempt(c)
    <2>1. at[c] \in {"sem", "fast", "trip"} BY <1>5 DEF Attempt, Admitted, Answered, Unanswered
    <2>2. kind[c] \in {"suggest", "title"} BY <1>r, <2>1, RouteIs DEF Kind
    <2>q. QED BY <1>r, <1>5, <2>2, FormsOnTheWay, TitlesOnTheWay, OnTheWayKeeps
  <1>q. QED BY <1>1, <1>2, <1>3, <1>4, <1>5 DEF CallNext, Enters, Over

\* fastLive counts the forms.
LEMMA FormsStay ==
  ASSUME Places, FormsCounted, UNCHANGED <<kind, fastLive>>, NEW c \in Call, NEW x,
         at' = [at EXCEPT ![c] = x], kind[c] # "suggest" \/ (at[c] # "idle" /\ x # "idle")
  PROVE  FormsCounted'
  <1>1. Forms' = Forms
    BY DEF Forms, Of, Places
  <1>q. QED BY <1>1 DEF FormsCounted

LEMMA FormBegins ==
  ASSUME Places, FormsCounted, UNCHANGED kind, NEW c \in Call, SuggestArrives(c)
  PROVE  FormsCounted'
  <1>1. Forms' = Forms \cup {c} /\ c \notin Forms
    BY DEF Forms, Of, Places, SuggestArrives, StepTo
  <1>q. QED BY <1>1, FS_AddElement DEF FormsCounted, SuggestArrives

LEMMA FormEnds ==
  ASSUME Places, FormsCounted, UNCHANGED kind, NEW c \in Call, NEW G, SuggestEnds(c, G),
         kind[c] = "suggest", at[c] # "idle"
  PROVE  FormsCounted'
  <1>1. Forms' = Forms \ {c} /\ c \in Forms
    BY DEF Forms, Of, Places, SuggestEnds, Return
  <1>q. QED BY <1>1, FS_RemoveElement DEF FormsCounted, SuggestEnds

\* No step of a call that is not a form changes fastLive.
LEMMA OthersAreNoForms ==
  ASSUME NEW c, kind[c] \in Kind, kind[c] # "suggest", at[c] \in Route(kind[c]), CallNext(c)
  PROVE  UNCHANGED fastLive /\ OnTheWay(c)
  <1>1. CASE UploadArrives(c) \/ Upload(c) \/ RequestOver(c)
    <2>1. UNCHANGED fastLive
      BY <1>1 DEF UploadArrives, Upload, UploadReads, FilesPut, UploadStored, FileInspected,
                  RequestOver, Engineless
    <2>q. QED BY <1>1, <2>1, RequestsOnTheWay
  <1>2. CASE HashQueued(c) \/ Hash(c) \/ HashOver(c)
    <2>1. UNCHANGED fastLive
      BY <1>2 DEF HashQueued, Hash, HashFetches, HashAnalyzes, HashPublishes, HashOver, Engineless
    <2>q. QED BY <1>2, <2>1, HashOnTheWay
  <1>3. CASE SuggestArrives(c) \/ SuggestReads(c) \/ SuggestOver(c)
    BY <1>3 DEF SuggestArrives, SuggestReads, SuggestOver
  <1>4. CASE TitleQueued(c) \/ Title(c) \/ Attempt(c) \/ TitleOver(c)
    <2>1. UNCHANGED fastLive
      BY <1>4 DEF TitleQueued, Title, TitleFetches, TitleReads, Yield, YieldTurn, TitleStored,
                  TitleOver, Attempt, Admitted, Answered, Unanswered, EngineEnds, Engineless
    <2>2. kind[c] = "title"
      <3>1. CASE TitleQueued(c) \/ TitleOver(c) \/ TitleFetches(c) \/ TitleStored(c)
        BY <3>1 DEF TitleQueued, TitleOver, TitleFetches, TitleStored
      <3>2. CASE TitleReads(c) \/ Yield(c) \/ YieldTurn(c) \/ Attempt(c)
        <4>1. at[c] \in {"titles", "yield", "turn", "sem", "fast", "trip"}
          BY <3>2 DEF TitleReads, Yield, YieldTurn, Attempt, Admitted, Answered, Unanswered
        <4>q. QED BY <4>1, RouteIs DEF Kind
      <3>q. QED BY <1>4, <3>1, <3>2 DEF Title
    <2>q. QED BY <1>4, <2>1, <2>2, TitlesOnTheWay
  <1>q. QED BY <1>1, <1>2, <1>3, <1>4 DEF CallNext, Enters, Over

LEMMA CallsKeepForms ==
  ASSUME Places, FormsCounted, kind \in [Call -> Kind], UNCHANGED kind, NEW c \in Call, CallNext(c)
  PROVE  FormsCounted'
  <1>r. kind[c] \in Kind /\ at[c] \in Route(kind[c])
    BY DEF Places, OnRoute
  <1>1. CASE kind[c] # "suggest"
    <2>1. UNCHANGED fastLive /\ OnTheWay(c)
      BY <1>r, <1>1, OthersAreNoForms
    <2>2. \E x : at' = [at EXCEPT ![c] = x]
      BY <2>1 DEF OnTheWay, Acquire, StepTo
    <2>q. QED BY <1>1, <2>1, <2>2, FormsStay
  <1>2. CASE kind[c] = "suggest"
    <2>r. at[c] \in {"idle", "payload", "fast", "trip"}
      BY <1>r, <1>2, RouteIs
    <2>1. CASE SuggestArrives(c) BY <2>1, FormBegins
    <2>2. CASE SuggestReads(c)
      <3>1. CASE SuggestEnds(c, {}) BY <1>2, <2>2, <3>1, FormEnds DEF SuggestReads
      <3>2. CASE Acquire(c, "fast") /\ UNCHANGED fastLive
        BY <2>2, <3>2, FormsStay DEF SuggestReads, Acquire
      <3>q. QED BY <2>2, <3>1, <3>2 DEF SuggestReads
    <2>3. CASE SuggestOver(c)
      <3>1. at[c] # "idle" /\ SuggestEnds(c, {"fast"}) BY <2>3 DEF SuggestOver, Waits, Gate
      <3>q. QED BY <1>2, <3>1, FormEnds
    <2>4. CASE Attempt(c)
      <3>1. at[c] \in {"fast", "trip"}
        BY <2>4, <2>r DEF Attempt, Admitted, Answered, Unanswered
      <3>2. SuggestEnds(c, {"fast"}) \/ (StepTo(c, "trip") /\ UNCHANGED fastLive)
        BY <1>2, <2>4, <2>r DEF Attempt, Admitted, Answered, Unanswered, EngineEnds, Engineless
      <3>3. CASE SuggestEnds(c, {"fast"}) BY <1>2, <3>1, <3>3, FormEnds
      <3>4. CASE StepTo(c, "trip") /\ UNCHANGED fastLive
        BY <3>1, <3>4, FormsStay DEF StepTo
      <3>q. QED BY <3>2, <3>3, <3>4
    <2>5. CASE Title(c)
      BY <1>2, <2>5, <2>r DEF Title, TitleFetches, TitleReads, Yield, YieldTurn, TitleStored
    <2>6. CASE Upload(c)
      BY <1>2, <2>6, <2>r DEF Upload, UploadReads, FilesPut, UploadStored, FileInspected
    <2>q. QED
      BY <1>2, <2>1, <2>2, <2>3, <2>4, <2>5, <2>6
         DEF CallNext, Enters, Over, UploadArrives, HashQueued, TitleQueued, RequestOver, HashOver,
             TitleOver, Hash, HashFetches, HashAnalyzes, HashPublishes
  <1>q. QED BY <1>1, <1>2

LEMMA CallsKeepTries ==
  ASSUME tries \in [Call -> 0 .. Attempts - 1], NEW c \in Call, CallNext(c)
  PROVE  tries' \in [Call -> 0 .. Attempts - 1]
  <1>1. Attempts \in Nat \ {0} BY GatesAssumption
  <1>2. CASE Attempt(c)
    BY <1>1, <1>2 DEF Attempt, Admitted, Answered, Unanswered, EngineEnds, Engineless
  <1>3. CASE SuggestOver(c) \/ TitleOver(c)
    BY <1>1, <1>3 DEF SuggestOver, TitleOver
  <1>4. CASE Enters(c) \/ RequestOver(c) \/ HashOver(c) \/ Upload(c) \/ Hash(c)
             \/ SuggestReads(c) \/ Title(c)
    BY <1>4 DEF Enters, UploadArrives, HashQueued, TitleQueued, SuggestArrives, RequestOver, HashOver,
                Upload, UploadReads, FilesPut, UploadStored, FileInspected, Hash, HashFetches, HashAnalyzes,
                HashPublishes, SuggestReads, Title, TitleFetches, TitleReads, Yield, YieldTurn,
                TitleStored, Engineless
  <1>q. QED BY <1>2, <1>3, <1>4 DEF CallNext, Over

LEMMA InitGates == GatesInit => GatesInv
  <1> SUFFICES ASSUME GatesInit PROVE GatesInv
    OBVIOUS
  <1>1. /\ line = [g \in Gate |-> <<>>] /\ at = [c \in Call |-> "idle"]
        /\ tries = [c \in Call |-> 0] /\ fastLive = 0 /\ kind \in [Call -> Kind]
    BY DEF GatesInit
  <1>2. GatesTypeOK
    BY <1>1, GatesAssumption DEF GatesTypeOK, Step
  <1>3. OnRoute
    BY <1>1 DEF OnRoute, Route
  <1>4. LinesExact
    <2>1. \A c \in Call : Through(c) = {} BY <1>1 DEF Through
    <2>2. \A g \in Gate : line[g] = <<>> BY <1>1
    <2>q. QED BY <2>1, <2>2 DEF LinesExact, IsInjective, ToSet
  <1>5. FormsCounted
    <2>1. Forms = {} BY <1>1 DEF Forms, Of
    <2>q. QED BY <1>1, <2>1, FS_EmptySet DEF FormsCounted
  <1>6. AsksWithSlot
    BY <1>1 DEF AsksWithSlot
  <1>q. QED BY <1>2, <1>3, <1>4, <1>5, <1>6 DEF GatesInv

\* The calls are where their slots say, as an inductive invariant.
THEOREM GatesInductive == GatesSpec => []GatesInv
  <1>1. GatesInv /\ [GatesNext]_gateVars => GatesInv'
    <2> SUFFICES ASSUME GatesInv, [GatesNext]_gateVars PROVE GatesInv'
      OBVIOUS
    <2>0. /\ Places /\ FormsCounted /\ kind \in [Call -> Kind]
          /\ tries \in [Call -> 0 .. Attempts - 1]
      BY DEF GatesInv, GatesTypeOK, Places
    <2>1. CASE GatesNext
      <3>1. PICK c \in Call : CallNext(c) /\ UNCHANGED kind
        BY <2>1 DEF GatesNext, CallNext
      <3>2. Places' /\ FormsCounted' /\ tries' \in [Call -> 0 .. Attempts - 1]
        BY <2>0, <3>1, CallsKeepPlaces, CallsKeepForms, CallsKeepTries
      <3>3. fastLive' \in Int
        BY <3>2, FS_CardinalityType DEF FormsCounted
      <3>q. QED BY <2>0, <3>1, <3>2, <3>3 DEF GatesInv, GatesTypeOK, Places
    <2>2. CASE UNCHANGED gateVars
      BY <2>2 DEF gateVars, GatesInv, GatesTypeOK, OnRoute, LinesExact, FormsCounted, Forms, Of,
                  AsksWithSlot, Through, Inside
    <2>q. QED BY <2>1, <2>2
  <1>q. QED BY <1>1, InitGates, PTL DEF GatesSpec

\* Every way out of a call gives back each slot the call took, and no other:
\* a line holds exactly the calls that are on their way through its gate, once
\* each, and fastLive is the number of forms.
THEOREM SlotsGivenBack == GatesSpec => []GatesExact
  <1>1. GatesInv => GatesExact
    BY DEF GatesInv, GatesExact, LinesExact, FormsCounted, Forms
  <1>q. QED BY <1>1, GatesInductive, PTL

\* The calls in front of a title job in the line of the engine all have a slot
\* of Limits.Title, so there are fewer of them than sem has slots.
LEMMA SlotSuffices == GatesInv => TitleSlotSuffices
  <1> SUFFICES ASSUME GatesInv, NEW c \in Call, at[c] = "sem", ~Inside(c, "sem") PROVE FALSE
    BY DEF TitleSlotSuffices
  <1> DEFINE n == Slots["sem"]
             q == line["sem"]
  <1>1. /\ n \in Nat /\ Slots["titles"] = n /\ q \in Seq(Call) /\ line["titles"] \in Seq(Call)
        /\ "sem" \in Gate /\ "titles" \in Gate
    BY GatesAssumption DEF Gate, GatesInv, GatesTypeOK
  <1>2. \A d \in Call : d \in ToSet(q) => Inside(d, "titles")
    <2> SUFFICES ASSUME NEW d \in Call, d \in ToSet(q) PROVE Inside(d, "titles")
      OBVIOUS
    <2>1. "sem" \in Held(kind[d], at[d])
      BY <1>1, ThroughIs DEF GatesInv, LinesExact
    <2>2. kind[d] \in Kind /\ at[d] \in Route(kind[d])
      BY DEF GatesInv, GatesTypeOK, OnRoute
    <2>3. kind[d] = "title" /\ at[d] \in {"sem", "turn", "trip"}
      BY <2>1, <2>2, HeldIs, RouteIs DEF Kind
    <2>q. QED BY <2>3 DEF GatesInv, AsksWithSlot
  <1>3. c \in ToSet(q) /\ IsInjective(q)
    <2>1. kind[c] = "title"
      BY RouteIs DEF GatesInv, GatesTypeOK, OnRoute, Kind
    <2>2. "sem" \in Through(c)
      BY <2>1, HeldIs, ThroughIs
    <2>q. QED BY <1>1, <2>2 DEF GatesInv, LinesExact
  <1>4. n + 1 <= Len(q) /\ Len(q) \in Nat
    <2>1. PICK i \in 1 .. Len(q) : q[i] = c
      BY <1>1, <1>3 DEF ToSet
    <2>2. ~(i <= n)
      BY <2>1 DEF Inside
    <2>q. QED BY <1>1, <2>1, <2>2
  <1>5. \A i \in 1 .. n + 1 : \E j \in 1 .. n : line["titles"][j] = q[i]
    <2> SUFFICES ASSUME NEW i \in 1 .. n + 1 PROVE \E j \in 1 .. n : line["titles"][j] = q[i]
      OBVIOUS
    <2>1. q[i] \in ToSet(q) /\ q[i] \in Call
      BY <1>1, <1>4 DEF ToSet
    <2>2. Inside(q[i], "titles")
      BY <1>2, <2>1
    <2>q. QED BY <1>1, <2>2 DEF Inside
  <1> DEFINE f == [i \in 1 .. n + 1 |-> CHOOSE j \in 1 .. n : line["titles"][j] = q[i]]
  <1>6. /\ f \in [1 .. n + 1 -> 1 .. n]
        /\ \A i \in 1 .. n + 1 : line["titles"][f[i]] = q[i]
    BY <1>5
  <1>7. /\ IsFiniteSet(1 .. n) /\ IsFiniteSet(1 .. n + 1)
        /\ Cardinality(1 .. n) = n /\ Cardinality(1 .. n + 1) = n + 1
    <2>1. 1 \in Int /\ n \in Int /\ n + 1 \in Int /\ ~(1 > n + 1) /\ (1 > n => n = 0)
      BY <1>1
    <2>2. IsFiniteSet(1 .. n) /\ Cardinality(1 .. n) = n
      <3>1. IsFiniteSet(1 .. n) /\ Cardinality(1 .. n) = IF 1 > n THEN 0 ELSE n - 1 + 1
        BY <2>1, FS_Interval
      <3>q. QED BY <1>1, <2>1, <3>1
    <2>3. IsFiniteSet(1 .. n + 1) /\ Cardinality(1 .. n + 1) = n + 1
      <3> DEFINE m == n + 1
      <3>1. m \in Int /\ 1 \in Int BY <2>1
      <3> HIDE DEF m
      <3>2. IsFiniteSet(1 .. m) /\ Cardinality(1 .. m) = IF 1 > m THEN 0 ELSE m - 1 + 1
        BY <3>1, FS_Interval
      <3>q. QED BY <1>1, <2>1, <3>2 DEF m
    <2>q. QED BY <2>2, <2>3
  <1> HIDE DEF f
  <1>8. PICK x \in 1 .. n + 1, y \in 1 .. n + 1 : x # y /\ f[x] = f[y]
    <2> DEFINE S == 1 .. n + 1
               T == 1 .. n
    <2>1. IsFiniteSet(S) /\ IsFiniteSet(T) /\ Cardinality(T) < Cardinality(S) /\ f \in [S -> T]
      BY <1>1, <1>6, <1>7
    <2> HIDE DEF S, T
    <2>2. \E x, y \in S : x # y /\ f[x] = f[y]
      BY <2>1, FS_PigeonHole
    <2>q. QED BY <2>2 DEF S
  <1>9. q[x] = q[y]
    BY <1>6, <1>8
  <1>q. QED BY <1>1, <1>3, <1>4, <1>8, <1>9 DEF IsInjective

\* A title job that has its slot of Limits.Title never waits for the engine
\* client, for any number of slots, as long as the two limits are the same.
THEOREM OneWaitForTitles == GatesSpec => []TitleSlotSuffices
  BY SlotSuffices, GatesInductive, PTL
=============================================================================
