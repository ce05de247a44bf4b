---------------------------- MODULE IntakeProofs ----------------------------
(***************************************************************************)
(* Intake, for any number of calls, documents, sources and faults.  Every  *)
(* step is a step of Documents or leaves its tables alone, so all that     *)
(* DocumentsProofs proves holds here; IntakeInv then needs of a            *)
(* transaction only what it does to the rows and the hashes.               *)
(***************************************************************************)
EXTENDS Intake, DocumentsProofs

-----------------------------------------------------------------------------
(* Refinement.                                                             *)

\* The end of a hash job is one step of Documents.
LEMMA PublishFinalizes ==
  ASSUME TypeOK, ITypeOK, NEW s \in Source, Publish(s)
  PROVE  [Next]_vars
<1> DEFINE T == {DocOf[s]} \cup {DocOf[t] : t \in Candidates(s, read[s])}
<1>1. T \in SUBSET Doc /\ read[s] \in Hash
  <2>1. read[s] \in {"file", "missing"}
    BY DEF Publish
  <2> QED
    BY <2>1, DocOfAssumption DEF Candidates, Hash
<1>2. CASE Finalize(s, read[s], T)
  BY <1>1, <1>2 DEF Next
<1>3. CASE UNCHANGED vars
  BY <1>3
<1> QED
  BY <1>2, <1>3 DEF Publish

\* Every step of the calls is a step of Documents, or leaves the tables alone.
LEMMA IntakeStep == TypeOK /\ ITypeOK /\ [INext]_allvars => [Next]_vars
<1> SUFFICES ASSUME TypeOK, ITypeOK, [INext]_allvars PROVE [Next]_vars
  OBVIOUS
<1>1. ASSUME NEW t \in Thread, CommitRows(t) PROVE Next
  <2>1. call[t].doc \in Doc /\ call[t].done \in SUBSET Source
    BY DEF ITypeOK, Call
  <2> QED
    BY <1>1, <2>1 DEF CommitRows, Next
<1>2. ASSUME NEW d \in Doc, NEW K, RemoveRows(d, K) PROVE Next
  BY <1>2 DEF RemoveRows, Next
<1>3. ASSUME NEW t \in Thread, Calls(t) PROVE [Next]_vars
  BY <1>1, <1>2, <1>3 DEF Calls, BeginCreate, BeginAdd, Begin, Put, PutRefused,
       PutHalf, Insert, InsertFails, InsertLost, GiveUp, Remove, CleanOne,
       CleanFails, CleanDone
<1>4. ASSUME NEW d \in Doc, NEW K \in SUBSET Source, RemoveLost(d, K)
      PROVE  [Next]_vars
  BY <1>2, <1>4 DEF RemoveLost
<1>5. ASSUME NEW d \in Doc, Review(d) PROVE [Next]_vars
  BY <1>5 DEF Review, Next
<1>6. ASSUME NEW s \in Source,
             \/ LocalPath(s) \/ Trim(s) \/ Analyze(s) \/ JobFails(s)
             \/ Publish(s) \/ Import(s)
      PROVE  [Next]_vars
  BY <1>6, PublishFinalizes DEF LocalPath, Trim, Analyze, JobFails, Import
<1>7. CASE Crash \/ Move
  BY <1>7 DEF Crash, Move
<1>8. CASE UNCHANGED allvars
  BY <1>8 DEF allvars
<1> QED
  BY <1>3, <1>4, <1>5, <1>6, <1>7, <1>8 DEF INext

-----------------------------------------------------------------------------
(* What the transactions do to the rows.                                   *)

Insertion(S) ==
  /\ \A s \in S : row[s] = "new"
  /\ row' = [s \in Source |-> IF s \in S THEN "live" ELSE row[s]]
  /\ hash' = hash

Removal(K) ==
  /\ K \subseteq Live
  /\ row' = [s \in Source |-> IF s \in K THEN "gone" ELSE row[s]]
  /\ hash' = hash

\* What the insertion of rows does to the row column.
LEMMA CommitRowsEffect ==
  ASSUME NEW t \in Thread, CommitRows(t)
  PROVE  Insertion(call[t].done)
BY DEF CommitRows, InsertDocument, InsertSources, Upload, Insertion

\* What a deletion or a declined review does to it.
LEMMA RemoveRowsEffect ==
  ASSUME NEW d \in Doc, NEW K, RemoveRows(d, K)
  PROVE  Removal(K)
BY DEF RemoveRows, Delete, RejectPending, Rejected, DeleteKeys, RejectKeys,
       DropSources, SourcesOf, Removal, Live

-----------------------------------------------------------------------------
(* The steps of a call.                                                    *)

\* No call is a call state.
LEMMA IdleType == Idle \in Call
<1>1. (CHOOSE d \in Doc : TRUE) \in Doc
  BY IntakeAssumption
<1> QED
  BY <1>1 DEF Idle, Call

Others(t) == \A u \in Thread : u # t => call'[u] = call[u]

\* A call begins with ids nobody has used.
LEMMA BeginStep ==
  ASSUME IntakeInv, NEW t \in Thread, NEW d \in Doc, NEW S \in SUBSET Source,
         NEW p \in {"create", "add"}, Begin(t, p, d, S)
  PROVE  IntakeInv'
<1>1. /\ call'[t] = [phase |-> p, doc |-> d, todo |-> S, done |-> {}, bad |-> FALSE]
      /\ Others(t) /\ call' \in [Thread -> Call]
  BY DEF Begin, Others, IntakeInv, ITypeOK, Call
<1>2. \A s \in S : row[s] = "new" /\ s \notin used
  BY DEF Begin, IntakeInv, Fresh
<1>3. /\ UNCHANGED <<vars, object, read, place, faults, lost, orphans>>
      /\ used' = used \cup S /\ call[t].phase = "idle"
  BY DEF Begin
<1>4. ITypeOK'
  BY <1>1, <1>3 DEF place, IntakeInv, ITypeOK
<1>5. CallShape'
  BY <1>1, <1>2, <1>3 DEF IntakeInv, CallShape, CallOk, Others, Files, Storing, vars
<1>6. Apart'
  BY <1>1, <1>2, <1>3 DEF IntakeInv, CallShape, CallOk, Apart, Others, Files, vars
<1>7. InCalls' = InCalls
  BY <1>1, <1>3 DEF IntakeInv, CallShape, CallOk, Others, InCalls
<1> QED
  BY <1>3, <1>4, <1>5, <1>6, <1>7 DEF place, IntakeInv, Fresh, ReadsRight,
     FilesBacked, NoOrphans, MissingExplained, Live, vars

\* One file of an upload is through, with or without an object.
LEMMA StoreStep ==
  ASSUME IntakeInv, NEW t \in Thread, NEW s \in Source,
         Put(t, s) \/ PutRefused(t, s) \/ PutHalf(t, s)
  PROVE  IntakeInv'
<1>1. PICK c \in Call :
        /\ call' = [call EXCEPT ![t] = c]
        /\ c.phase = call[t].phase /\ c.todo = call[t].todo \ {s}
        /\ call[t].done \subseteq c.done /\ c.done \subseteq call[t].done \cup {s}
        /\ c.done # call[t].done => s \in object'
        /\ object \subseteq object' /\ object' \subseteq object \cup {s}
        /\ object' \subseteq object \cup c.done \cup orphans'
        /\ call[t].bad => c.bad
  <2>1. call[t] \in Call
    BY DEF IntakeInv, ITypeOK
  <2>2. CASE Put(t, s)
    <3> DEFINE c == [call[t] EXCEPT !.todo = call[t].todo \ {s},
                                    !.done = call[t].done \cup {s}]
    <3>1. call' = [call EXCEPT ![t] = c]
      BY <2>2 DEF Put, IntakeInv, ITypeOK, Call
    <3>2. /\ c \in Call /\ c.phase = call[t].phase /\ c.todo = call[t].todo \ {s}
          /\ c.done = call[t].done \cup {s} /\ c.bad = call[t].bad
      BY <2>1 DEF Call
    <3> HIDE DEF c
    <3> QED
      BY <2>2, <3>1, <3>2 DEF Put
  <2>3. CASE PutRefused(t, s) \/ PutHalf(t, s)
    <3> DEFINE c == [call[t] EXCEPT !.todo = call[t].todo \ {s}, !.bad = TRUE]
    <3>1. call' = [call EXCEPT ![t] = c]
      BY <2>3 DEF PutRefused, PutHalf, IntakeInv, ITypeOK, Call
    <3>2. /\ c \in Call /\ c.phase = call[t].phase /\ c.todo = call[t].todo \ {s}
          /\ c.done = call[t].done /\ c.bad = TRUE
      BY <2>1 DEF Call
    <3> HIDE DEF c
    <3> QED
      BY <2>3, <3>1, <3>2 DEF PutRefused, PutHalf
  <2> QED
    BY <2>2, <2>3
<1>2. /\ UNCHANGED <<vars, used, read, place, lost>> /\ Storing(t) /\ s \in call[t].todo
      /\ faults' \in 0 .. MaxFaults /\ orphans' \subseteq Source
      /\ orphans \subseteq orphans'
  BY IntakeAssumption
     DEF Put, PutRefused, PutHalf, Fault, IntakeInv, ITypeOK
<1>3. call'[t] = c /\ Others(t) /\ call' \in [Thread -> Call]
  BY <1>1 DEF Others, IntakeInv, ITypeOK
<1>4. row[s] = "new" /\ s \in used
  BY <1>2 DEF IntakeInv, CallShape, CallOk, Files
<1>5. ITypeOK'
  BY <1>1, <1>2, <1>3 DEF place, IntakeInv, ITypeOK
<1>6. CallShape'
  BY <1>1, <1>2, <1>3, <1>4
     DEF IntakeInv, CallShape, CallOk, Others, Files, Storing, vars
<1>7. Files(t)' \subseteq Files(t) /\ \A u \in Thread \ {t} : Files(u)' = Files(u)
  BY <1>1, <1>2, <1>3 DEF Files, Others
<1>8. Apart'
  BY <1>2, <1>7 DEF IntakeInv, Apart, vars
<1>9. InCalls \subseteq InCalls' /\ c.done \subseteq InCalls'
  BY <1>1, <1>3 DEF InCalls, Others
<1>10. NoOrphans'
  BY <1>1, <1>2, <1>9 DEF IntakeInv, NoOrphans, Live, vars
<1> QED
  BY <1>1, <1>2, <1>4, <1>5, <1>6, <1>8, <1>10 DEF place, IntakeInv, Fresh, ReadsRight,
     FilesBacked, MissingExplained, Live, vars

\* The call of t moves on, keeping the files it holds or none.
Moves(t, c) ==
  /\ call' = [call EXCEPT ![t] = c]
  /\ UNCHANGED <<object, used, read, place>>

\* What a step of one call does to the files that calls hold.
LEMMA MovesEffect ==
  ASSUME IntakeInv, NEW t \in Thread, NEW c \in Call, Moves(t, c)
  PROVE  /\ call'[t] = c /\ Others(t) /\ call' \in [Thread -> Call]
         /\ \A u \in Thread \ {t} : Files(u)' = Files(u)
         /\ Files(t)' = c.todo \cup c.done
         /\ call[t].done \subseteq c.done => InCalls \subseteq InCalls'
         /\ c.done \subseteq InCalls'
<1>1. call'[t] = c /\ Others(t) /\ call' \in [Thread -> Call]
  BY DEF Moves, Others, IntakeInv, ITypeOK
<1> QED
  BY <1>1 DEF Others, Files, InCalls

\* The rows are inserted.
LEMMA InsertStep ==
  ASSUME IntakeInv, IInv, IInv', NEW t \in Thread, Insert(t) \/ InsertLost(t)
  PROVE  IntakeInv'
<1>1. Insertion(call[t].done) /\ Ready(t)
  BY CommitRowsEffect DEF Insert, InsertLost
<1>2. PICK c \in Call :
        /\ Moves(t, c)
        /\ \/ c = Idle
           \/ c = [call[t] EXCEPT !.bad = TRUE] /\ lost' = lost \cup call[t].done
  <2>1. CASE Insert(t)
    BY <2>1, IdleType DEF Insert, Moves
  <2>2. CASE InsertLost(t)
    <3>1. call[t] \in Call
      BY DEF IntakeInv, ITypeOK
    <3>2. [call[t] EXCEPT !.bad = TRUE] \in Call
      BY <3>1 DEF Call
    <3> QED
      BY <2>2, <3>2 DEF InsertLost, Moves
  <2> QED
    BY <2>1, <2>2
<1>3. /\ faults' \in 0 .. MaxFaults /\ lost' \subseteq Source /\ lost \subseteq lost'
      /\ orphans' = orphans
  BY IntakeAssumption
     DEF Insert, InsertLost, Fault, IntakeInv, ITypeOK, Call
<1>4. /\ call[t].done \subseteq object /\ call[t].done \subseteq used
      /\ call[t].todo = {}
  BY <1>1 DEF Ready, IntakeInv, CallShape, CallOk, Files
<1>5. c.todo = {} /\ c.done \subseteq call[t].done
  <2>1. CASE c = Idle
    BY <2>1 DEF Idle
  <2>2. CASE c = [call[t] EXCEPT !.bad = TRUE]
    BY <1>4, <2>2 DEF IntakeInv, ITypeOK, Call
  <2> QED
    BY <1>2, <2>1, <2>2
<1>6. ITypeOK'
  BY <1>2, <1>3, MovesEffect DEF place, IntakeInv, ITypeOK, Moves
<1>7. \A u \in Thread \ {t} : \A s \in Files(u) : row'[s] = row[s]
  BY <1>1 DEF Insertion, IntakeInv, ITypeOK, Call, Apart, Files
<1>8. CallOk(t)'
  <2>1. CASE c = Idle
    BY <1>2, <2>1, MovesEffect DEF CallOk, Idle, Storing, Files
  <2>2. CASE c = [call[t] EXCEPT !.bad = TRUE] /\ lost' = lost \cup call[t].done
    <3>1. c.bad /\ c.phase = call[t].phase /\ c.done = call[t].done
      BY <2>2 DEF IntakeInv, ITypeOK, Call
    <3> QED
      BY <1>1, <1>2, <1>4, <1>5, <2>2, <3>1, MovesEffect
         DEF CallOk, Storing, Files, Moves, Ready
  <2> QED
    BY <1>2, <2>1, <2>2
<1>9. ASSUME NEW u \in Thread \ {t} PROVE CallOk(u)'
  <2>1. call'[u] = call[u] /\ Files(u)' = Files(u)
    BY <1>2, MovesEffect DEF Others
  <2> QED
    BY <1>2, <1>3, <1>7, <2>1
       DEF IntakeInv, CallShape, CallOk, Storing, Files, Moves
<1>10. Apart'
  <2>1. Files(t)' \subseteq Files(t)
    BY <1>2, <1>5, MovesEffect DEF Files
  <2>2. \A s \in Source : row'[s] = "new" => row[s] = "new"
    BY <1>1 DEF Insertion
  <2>3. \A u \in Thread : Files(u) \subseteq Source
    BY DEF Files, IntakeInv, ITypeOK, Call
  <2>4. \A u \in Thread : Files(u)' \subseteq Files(u)
    BY <1>2, <2>1, MovesEffect
  <2> QED
    BY <2>2, <2>3, <2>4 DEF IntakeInv, Apart
<1>11. /\ Live' = Live \cup call[t].done
       /\ \A s \in call[t].done : row[s] = "new"
       /\ \A s \in Source \ call[t].done : row'[s] = row[s]
       /\ hash' = hash
  BY <1>1 DEF Live, Insertion, IntakeInv, ITypeOK, Call
<1>12. UNCHANGED <<object, used, read, place>>
  BY <1>2 DEF Moves
<1>13. InCalls \subseteq InCalls' \cup call[t].done
  BY <1>2, MovesEffect DEF InCalls, Others
<1>14. FilesBacked' /\ NoOrphans'
  BY <1>3, <1>4, <1>11, <1>12, <1>13 DEF place, IntakeInv, FilesBacked, NoOrphans
<1>15. MissingExplained'
  BY <1>3, <1>11, <1>12
     DEF place, IntakeInv, MissingExplained, IInv, RowsConsistent, Live
<1>16. Fresh' /\ ReadsRight'
  BY <1>3, <1>4, <1>11, <1>12 DEF place, IntakeInv, Fresh, ReadsRight
<1> QED
  BY <1>6, <1>8, <1>9, <1>10, <1>14, <1>15, <1>16 DEF IntakeInv, CallShape

\* A call changes its mind, and nothing else changes.
LEMMA TurnStep ==
  ASSUME IntakeInv, NEW t \in Thread, InsertFails(t) \/ GiveUp(t) \/ CleanDone(t)
  PROVE  IntakeInv'
<1>1. call[t] \in Call
  BY DEF IntakeInv, ITypeOK
<1>2. PICK c \in Call :
        /\ Moves(t, c) /\ c.done = call[t].done /\ c.todo = {} /\ call[t].todo = {}
        /\ c.phase \in {"create", "add"} => c.bad
        /\ c.phase = "idle" => c.done = {}
  <2>1. CASE InsertFails(t)
    <3>1. /\ [call[t] EXCEPT !.bad = TRUE] \in Call
          /\ [call[t] EXCEPT !.bad = TRUE].done = call[t].done
          /\ [call[t] EXCEPT !.bad = TRUE].todo = call[t].todo
          /\ [call[t] EXCEPT !.bad = TRUE].phase = call[t].phase
          /\ [call[t] EXCEPT !.bad = TRUE].bad
      BY <1>1 DEF Call
    <3> QED
      BY <2>1, <3>1 DEF InsertFails, Ready, Storing, Moves
  <2>2. CASE GiveUp(t)
    <3> DEFINE c == Cleanup(call[t])
    <3>1. c \in Call /\ c.done = call[t].done /\ c.todo = {} /\ c.phase = "clean"
      BY <1>1, IdleType DEF Cleanup, Cleaning, Idle, Call
    <3>2. Moves(t, c)
      BY <2>2 DEF GiveUp, Moves
    <3>3. call[t].todo = {}
      BY <2>2 DEF GiveUp
    <3> HIDE DEF c
    <3> QED
      BY <3>1, <3>2, <3>3
  <2>3. CASE CleanDone(t)
    <3>1. Idle \in Call /\ Idle.done = {} /\ Idle.todo = {} /\ Idle.phase = "idle"
      BY IdleType DEF Idle
    <3> QED
      BY <2>3, <3>1 DEF CleanDone, Moves, IntakeInv, CallShape, CallOk
  <2> QED
    BY <2>1, <2>2, <2>3
<1>3. UNCHANGED <<vars, object, used, read, place, faults, lost, orphans>>
  BY DEF InsertFails, GiveUp, CleanDone
<1>4. ITypeOK'
  BY <1>2, <1>3, MovesEffect DEF place, IntakeInv, ITypeOK
<1>5. \A u \in Thread : Files(u)' = Files(u)
  BY <1>2, MovesEffect DEF Files
<1>6. Apart'
  BY <1>3, <1>5 DEF IntakeInv, Apart, vars
<1>7. CallOk(t)'
  BY <1>2, <1>3, <1>5, MovesEffect
     DEF IntakeInv, CallShape, CallOk, Storing, vars
<1>8. ASSUME NEW u \in Thread \ {t} PROVE CallOk(u)'
  BY <1>2, <1>3, <1>5, MovesEffect
     DEF Others, IntakeInv, CallShape, CallOk, Storing, vars
<1>9. InCalls' = InCalls
  BY <1>2, MovesEffect DEF Others, InCalls
<1> QED
  BY <1>3, <1>4, <1>6, <1>7, <1>8, <1>9 DEF place, IntakeInv, CallShape, Fresh,
     ReadsRight, FilesBacked, NoOrphans, MissingExplained, Live, vars

\* Rows leave, together with the hold of one call on their files or none.
LEMMA RemovalStep ==
  ASSUME IntakeInv, NEW K \in SUBSET Source, Removal(K),
         UNCHANGED <<object, used, read, place, lost>>,
         call' \in [Thread -> Call], faults' \in 0 .. MaxFaults,
         orphans' \subseteq Source, orphans \subseteq orphans',
         InCalls \subseteq InCalls', K \subseteq InCalls' \cup orphans',
         \A t \in Thread :
            \/ call'[t] = call[t]
            \/ /\ call'[t].phase = "clean" /\ call'[t].todo = {}
               /\ call'[t].done = K
  PROVE  IntakeInv'
<1>1. /\ \A s \in Source : row'[s] = "new" <=> row[s] = "new"
      /\ Live' = Live \ K
      /\ \A s \in K : row'[s] = "gone" /\ row[s] = "live"
      /\ \A s \in Source : row'[s] # row[s] => row'[s] = "gone"
      /\ hash' = hash
  BY DEF Removal, Live
<1>2. ITypeOK'
  BY DEF place, IntakeInv, ITypeOK
<1>3. K \subseteq used
  BY <1>1 DEF IntakeInv, Fresh
<1>4. ASSUME NEW t \in Thread PROVE CallOk(t)'
  <2>1. CASE call'[t] = call[t]
    <3>1. call[t].todo \subseteq Source /\ call[t].done \subseteq Source
      BY DEF IntakeInv, ITypeOK, Call
    <3>2. CallOk(t)
      BY DEF IntakeInv, CallShape
    <3> QED
      BY <1>1, <1>3, <2>1, <3>1, <3>2 DEF CallOk, Files, Storing
  <2>2. CASE /\ call'[t].phase = "clean" /\ call'[t].todo = {}
             /\ call'[t].done = K
    BY <1>1, <1>3, <2>2 DEF CallOk, Files, Storing
  <2> QED
    BY <2>1, <2>2
<1>5. Apart'
  <2>1. \A t \in Thread : \A s \in Files(t)' : s \in K \/ s \in Files(t)
    BY DEF Files
  <2>2. \A t \in Thread : Files(t) \subseteq Source
    BY DEF Files, IntakeInv, ITypeOK, Call
  <2> QED
    BY <1>1, <2>1, <2>2 DEF IntakeInv, Apart
<1>6. FilesBacked' /\ NoOrphans' /\ MissingExplained'
  BY <1>1 DEF place, IntakeInv, FilesBacked, NoOrphans, MissingExplained
<1>7. Fresh' /\ ReadsRight'
  BY <1>1 DEF place, IntakeInv, Fresh, ReadsRight
<1> QED
  BY <1>2, <1>4, <1>5, <1>6, <1>7 DEF IntakeInv, CallShape

\* A call that deletes objects is a call state.
LEMMA CleaningType ==
  ASSUME NEW d \in Doc, NEW K \in SUBSET Source
  PROVE  /\ Cleaning(d, K) \in Call /\ Cleaning(d, K).phase = "clean"
         /\ Cleaning(d, K).todo = {} /\ Cleaning(d, K).done = K
BY IdleType DEF Cleaning, Idle, Call

\* Delete and Reject preserve the invariant.
LEMMA RemoveStep ==
  ASSUME IntakeInv, NEW d \in Doc, NEW K \in SUBSET Source,
         RemoveLost(d, K) \/ \E t \in Thread : Remove(t, d, K)
  PROVE  IntakeInv'
<1>1. Removal(K)
  BY RemoveRowsEffect DEF RemoveLost, Remove
<1>2. ASSUME NEW t \in Thread, Remove(t, d, K) PROVE IntakeInv'
  <2>1. Moves(t, Cleaning(d, K))
    BY <1>2 DEF Remove, Moves
  <2>2. call[t].done = {}
    BY <1>2 DEF Remove, IntakeInv, CallShape, CallOk
  <2>3. UNCHANGED <<object, used, read, place, faults, lost, orphans>>
    BY <1>2 DEF Remove
  <2>4. /\ faults' \in 0 .. MaxFaults /\ orphans' \subseteq Source
        /\ orphans \subseteq orphans'
    BY <2>3 DEF IntakeInv, ITypeOK
  <2>5. InCalls \subseteq InCalls' /\ K \subseteq InCalls'
    BY <2>1, <2>2, CleaningType, MovesEffect
  <2>6. /\ call' \in [Thread -> Call]
        /\ \A u \in Thread : \/ call'[u] = call[u]
                             \/ /\ call'[u].phase = "clean"
                                /\ call'[u].todo = {} /\ call'[u].done = K
    BY <2>1, CleaningType, MovesEffect DEF Others
  <2> QED
    BY <1>1, <2>3, <2>4, <2>5, <2>6, RemovalStep
<1>3. CASE RemoveLost(d, K)
  <2>1. /\ UNCHANGED <<object, used, read, place, call, lost>>
        /\ orphans' = orphans \cup K
    BY <1>3 DEF RemoveLost
  <2>2. /\ faults' \in 0 .. MaxFaults /\ orphans' \subseteq Source
        /\ call' \in [Thread -> Call]
    BY <1>3, <2>1, IntakeAssumption DEF RemoveLost, Fault, IntakeInv, ITypeOK
  <2>3. InCalls' = InCalls
    BY <2>1 DEF InCalls
  <2> QED
    BY <1>1, <2>1, <2>2, <2>3, RemovalStep
<1> QED
  BY <1>2, <1>3

\* An object is deleted, or cannot be.
LEMMA CleanStep ==
  ASSUME IntakeInv, NEW t \in Thread, NEW s \in Source,
         CleanOne(t, s) \/ CleanFails(t, s)
  PROVE  IntakeInv'
<1> DEFINE c == [call[t] EXCEPT !.done = call[t].done \ {s}]
<1>1. call[t] \in Call /\ s \in call[t].done /\ call[t].phase = "clean"
  BY DEF CleanOne, CleanFails, IntakeInv, ITypeOK
<1>2. call' = [call EXCEPT ![t] = c]
  BY DEF CleanOne, CleanFails, IntakeInv, ITypeOK, Call
<1>3. /\ c \in Call /\ c.phase = "clean" /\ c.todo = call[t].todo
      /\ c.done = call[t].done \ {s}
  BY <1>1 DEF Call
<1> HIDE DEF c
<1>4. call'[t] = c /\ Others(t) /\ call' \in [Thread -> Call]
  BY <1>2, <1>3 DEF Others, IntakeInv, ITypeOK
<1>5. /\ UNCHANGED <<vars, used, read, place, lost>> /\ object' \subseteq object
      /\ object \subseteq object' \cup {s}
      /\ s \in object' => s \in orphans'
      /\ faults' \in 0 .. MaxFaults /\ orphans \subseteq orphans'
      /\ orphans' \subseteq Source
  BY IntakeAssumption DEF CleanOne, CleanFails, Fault, IntakeInv, ITypeOK
<1>6. s \notin object' => row[s] # "new" \/ \A u \in Thread \ {t} : s \notin Files(u)
  BY <1>1 DEF IntakeInv, Apart, Files
<1>7. s \notin object' /\ row[s] = "live" => s \in lost
  BY <1>1 DEF IntakeInv, CallShape, CallOk
<1>8. ITypeOK'
  BY <1>4, <1>5 DEF place, IntakeInv, ITypeOK
<1>9. Files(t)' \subseteq Files(t) /\ \A u \in Thread \ {t} : Files(u)' = Files(u)
  BY <1>3, <1>4 DEF Files, Others
<1>10. CallOk(t)'
  BY <1>1, <1>3, <1>4, <1>5, <1>9
     DEF IntakeInv, CallShape, CallOk, Storing, vars
<1>11. ASSUME NEW u \in Thread \ {t} PROVE CallOk(u)'
  <2>1. call'[u] = call[u] /\ CallOk(u)
    BY <1>4 DEF Others, IntakeInv, CallShape
  <2>2. Storing(u) /\ ~call[u].bad => s \notin call[u].done
    BY <1>1, <2>1 DEF CallOk, IntakeInv, Apart, Files
  <2> QED
    BY <1>5, <1>9, <2>1, <2>2 DEF CallOk, Storing, vars
<1>12. Apart'
  BY <1>5, <1>9 DEF IntakeInv, Apart, vars
<1>13. InCalls \subseteq InCalls' \cup {s}
  BY <1>3, <1>4 DEF InCalls, Others
<1>14. FilesBacked' /\ NoOrphans'
  BY <1>5, <1>7, <1>13 DEF place, IntakeInv, FilesBacked, NoOrphans, Live, vars
<1> QED
  BY <1>5, <1>8, <1>10, <1>11, <1>12, <1>14
     DEF place, IntakeInv, CallShape, Fresh, ReadsRight, MissingExplained, Live, vars

-----------------------------------------------------------------------------
(* The hash job, the review and the crash.                                 *)

\* So does a hash job on its way to a result.
LEMMA ReadStep ==
  ASSUME IntakeInv, NEW s \in Source,
         LocalPath(s) \/ Trim(s) \/ Analyze(s) \/ JobFails(s)
  PROVE  IntakeInv'
<1>1. PICK k \in {"none", "path", "gone", "file", "missing"} :
        /\ read' = [read EXCEPT ![s] = k]
        /\ k # "none" => row[s] # "new"
        /\ k = "gone" => s \in trimmed'
        /\ k = "missing" => s \notin object \/ s \in trimmed
  <2>1. CASE LocalPath(s)
    <3>1. PICK k \in Found(s) : read' = [read EXCEPT ![s] = k]
      BY <2>1 DEF LocalPath
    <3>2. k = "path" \/ (k = "missing" /\ s \notin object)
      BY DEF Found
    <3> QED
      BY <2>1, <3>1, <3>2 DEF LocalPath
  <2>2. CASE Trim(s)
    BY <2>2 DEF Trim, IntakeInv, ReadsRight
  <2>3. CASE Analyze(s)
    <3>1. PICK k \in Opened(s) : read' = [read EXCEPT ![s] = k]
      BY <2>3 DEF Analyze
    <3>2. k = "file" \/ (k = "missing" /\ (read[s] = "gone" \/ s \notin object))
      BY DEF Opened
    <3> QED
      BY <2>3, <3>1, <3>2 DEF Analyze, IntakeInv, ReadsRight
  <2>4. CASE JobFails(s)
    BY <2>4 DEF JobFails
  <2> QED
    BY <2>1, <2>2, <2>3, <2>4
<1>2. /\ UNCHANGED <<vars, object, used, call, driver, local, faults, lost, orphans>>
      /\ trimmed \subseteq trimmed' /\ trimmed' \subseteq Source
  BY DEF LocalPath, Trim, Analyze, JobFails, place, IntakeInv, ITypeOK
<1>3. ITypeOK'
  BY <1>1, <1>2 DEF IntakeInv, ITypeOK
<1>4. ReadsRight'
  <2>1. ASSUME NEW q \in Source, q # s PROVE read'[q] = read[q]
    BY <1>1, <2>1 DEF IntakeInv, ITypeOK
  <2>2. read'[s] = k
    BY <1>1 DEF IntakeInv, ITypeOK
  <2>3. row[s] = "live" /\ s \notin object => s \in lost \cup local
    BY DEF IntakeInv, FilesBacked, Live
  <2> QED
    BY <1>1, <1>2, <2>1, <2>2, <2>3 DEF IntakeInv, ReadsRight, vars
<1>5. MissingExplained' /\ FilesBacked' /\ Fresh'
  BY <1>2 DEF IntakeInv, MissingExplained, FilesBacked, Fresh, Live, vars
<1> QED
  BY <1>2, <1>3, <1>4, <1>5 DEF IntakeInv, CallShape, CallOk, Files, Storing,
     Apart, NoOrphans, InCalls, Live, vars

\* So does one that publishes its result.
LEMMA PublishStep ==
  ASSUME IntakeInv, TypeOK, NEW s \in Source,
         Publish(s) \/ \E d \in Doc : Review(d)
  PROVE  IntakeInv'
<1>1. UNCHANGED <<object, used, call, place, faults, lost, orphans, row>>
  BY DEF Publish, Finalize, WriteFingerprint, Review, Approve, ivars, vars
<1>2. \A t \in Source : hash'[t] = hash[t] \/ (t = s /\ hash'[t] = read[s])
  BY DEF Publish, Finalize, WriteFingerprint, Review, Approve, vars, TypeOK
<1>3. \A t \in Source : read'[t] = read[t] \/ read'[t] = "none"
  BY DEF Publish, Review, ivars, IntakeInv, ITypeOK
<1>4. read' \in [Source -> {"none", "path", "gone", "file", "missing"}]
  BY DEF Publish, Review, ivars, IntakeInv, ITypeOK
<1>5. ITypeOK'
  BY <1>1, <1>4 DEF place, IntakeInv, ITypeOK
<1>6. ReadsRight' /\ MissingExplained'
  BY <1>1, <1>2, <1>3 DEF place, IntakeInv, ReadsRight, MissingExplained, Live
<1> QED
  BY <1>1, <1>5, <1>6 DEF place, IntakeInv, CallShape, CallOk, Files, Storing, Apart,
     Fresh, FilesBacked, NoOrphans, InCalls, Live

\* The end of the process leaves calls and hash jobs idle.
LEMMA EndsEffect ==
  ASSUME IntakeInv, Ends
  PROVE  /\ call' \in [Thread -> Call]
         /\ \A s \in Source : read'[s] = "none"
         /\ read' \in [Source -> {"none", "path", "gone", "file", "missing"}]
         /\ orphans' = orphans \cup InCalls /\ orphans' \subseteq Source
         /\ CallShape' /\ Apart' /\ ReadsRight'
<1>1. /\ orphans' = orphans \cup InCalls
      /\ call' = [t \in Thread |-> Idle]
      /\ read' = [s \in Source |-> "none"]
  BY DEF Ends
<1>2. call' \in [Thread -> Call] /\ orphans' \subseteq Source
  BY <1>1, IdleType DEF IntakeInv, ITypeOK, InCalls, Call
<1>3. \A t \in Thread : /\ call'[t].todo = {} /\ call'[t].done = {}
                        /\ call'[t].phase = "idle"
  <2>1. Idle.todo = {} /\ Idle.done = {} /\ Idle.phase = "idle"
    BY DEF Idle
  <2> QED
    BY <1>1, <2>1
<1>4. \A t \in Thread : CallOk(t)' /\ Files(t)' = {}
  BY <1>3 DEF CallOk, Files, Storing
<1> QED
  BY <1>1, <1>2, <1>4 DEF CallShape, Apart, ReadsRight

\* So do a crash and a move to the R2 driver.
LEMMA CrashStep ==
  ASSUME IntakeInv, Crash \/ Move
  PROVE  IntakeInv'
<1>1. Ends /\ UNCHANGED <<vars, used, trimmed, lost>> /\ faults' \in 0 .. MaxFaults
  BY IntakeAssumption DEF Crash, Move, Fault, place, IntakeInv, ITypeOK
<1>2. /\ driver' \in {"local", "r2"}
      /\ object' \subseteq object
      /\ object \cup local = object' \cup local'
      /\ driver' = "local" => local' = {}
      /\ local \subseteq local'
  BY DEF Crash, Move, place, IntakeInv, ITypeOK, Fresh
<1>3. ITypeOK'
  BY <1>1, <1>2, EndsEffect DEF IntakeInv, ITypeOK
<1>4. Fresh' /\ FilesBacked' /\ MissingExplained'
  BY <1>1, <1>2 DEF IntakeInv, Fresh, FilesBacked, MissingExplained, Live, vars
<1>5. NoOrphans'
  BY <1>1, <1>2, EndsEffect DEF IntakeInv, NoOrphans, Live, vars
<1> QED
  BY <1>1, <1>3, <1>4, <1>5, EndsEffect DEF IntakeInv

\* So does the import of a file.
LEMMA ImportStep ==
  ASSUME IntakeInv, NEW s \in Source, Import(s)
  PROVE  IntakeInv'
<1>1. /\ s \in local /\ object' = object \cup {s}
      /\ orphans' = orphans \cup ({s} \ (Live \cup InCalls))
      /\ UNCHANGED <<vars, used, call, read, driver, local, trimmed, faults, lost>>
  BY DEF Import, place
<1>2. ITypeOK'
  BY <1>1 DEF IntakeInv, ITypeOK
<1>3. CallShape' /\ Apart' /\ InCalls' = InCalls
  BY <1>1 DEF IntakeInv, CallShape, CallOk, Files, Storing, Apart, InCalls, vars
<1>4. NoOrphans'
  BY <1>1, <1>3 DEF IntakeInv, NoOrphans, Live, vars
<1> QED
  BY <1>1, <1>2, <1>3, <1>4
     DEF IntakeInv, Fresh, ReadsRight, FilesBacked, MissingExplained, Live, vars

-----------------------------------------------------------------------------
(* Theorems.                                                               *)

\* The initial state satisfies the invariant.
LEMMA IntakeInit == IInit => IntakeInv
<1> SUFFICES ASSUME IInit PROVE IntakeInv
  OBVIOUS
<1>1. ITypeOK
  BY IdleType, IntakeAssumption DEF IInit, ITypeOK
<1>2. \A t \in Thread : CallOk(t) /\ Files(t) = {}
  BY DEF IInit, CallOk, Files, Storing, Idle
<1>3. \A s \in Source : row[s] = "new" /\ read[s] = "none"
  BY DEF IInit, Init
<1> QED
  BY <1>1, <1>2, <1>3 DEF IInit, IntakeInv, CallShape, Apart, Fresh, ReadsRight,
     FilesBacked, NoOrphans, MissingExplained, Live

\* Every step preserves it.
LEMMA StepIntakeInv ==
  IntakeInv /\ IInv /\ IInv' /\ [INext]_allvars => IntakeInv'
<1> SUFFICES ASSUME IntakeInv, IInv, IInv', [INext]_allvars PROVE IntakeInv'
  OBVIOUS
<1>1. ASSUME NEW t \in Thread, Calls(t) PROVE IntakeInv'
  <2>1. ASSUME NEW d \in Doc, NEW S \in SUBSET Source,
               BeginCreate(t, d, S) \/ BeginAdd(t, d, S)
        PROVE  IntakeInv'
    BY <2>1, BeginStep DEF BeginCreate, BeginAdd
  <2> QED
    BY <1>1, <2>1, StoreStep, InsertStep, TurnStep, RemoveStep, CleanStep DEF Calls
<1>2. ASSUME NEW d \in Doc, NEW K \in SUBSET Source, RemoveLost(d, K)
      PROVE  IntakeInv'
  BY <1>2, RemoveStep
<1>3. ASSUME NEW d \in Doc, Review(d) PROVE IntakeInv'
  <2>1. CASE Source = {}
    BY <1>3, <2>1 DEF place, Review, ivars, IntakeInv, ITypeOK, CallShape, CallOk, Files,
       Storing, Apart, Fresh, ReadsRight, FilesBacked, NoOrphans, InCalls,
       MissingExplained, Live
  <2>2. CASE Source # {}
    BY <1>3, <2>2, PublishStep DEF IInv
  <2> QED
    BY <2>1, <2>2
<1>4. ASSUME NEW s \in Source,
             \/ LocalPath(s) \/ Trim(s) \/ Analyze(s) \/ JobFails(s)
             \/ Publish(s) \/ Import(s)
      PROVE  IntakeInv'
  BY <1>4, ReadStep, PublishStep, ImportStep DEF IInv
<1>5. CASE Crash \/ Move
  BY <1>5, CrashStep
<1>6. CASE UNCHANGED allvars
  BY <1>6 DEF place, allvars, ivars, vars, IntakeInv, ITypeOK, CallShape, CallOk, Files,
     Storing, Apart, Fresh, ReadsRight, FilesBacked, NoOrphans, InCalls,
     MissingExplained, Live
<1> QED
  BY <1>1, <1>2, <1>3, <1>4, <1>5, <1>6 DEF INext

\* The invariant of the two stores together with that of the tables.
THEOREM IntakeInductive == ISpec => [](IntakeInv /\ IInv)
<1>1. IInit => IntakeInv /\ IInv
  BY IntakeInit, InitIInv DEF IInit
<1>2. IntakeInv /\ IInv /\ [INext]_allvars => (IntakeInv /\ IInv)'
  BY IntakeStep, StepIInv, StepIntakeInv DEF IntakeInv, IInv
<1> QED
  BY <1>1, <1>2, PTL DEF ISpec

\* Whatever the calls do to the tables is a behaviour of Documents.
THEOREM IntakeImplementsDocuments == ISpec => Spec
<1>1. IInit => Init
  BY DEF IInit
<1>2. IntakeInv /\ IInv /\ [INext]_allvars => [Next]_vars
  BY IntakeStep DEF IntakeInv, IInv
<1> QED
  BY <1>1, <1>2, IntakeInductive, PTL DEF ISpec, Spec

\* Calls, reads and histories keep their types.
THEOREM IntakeTypeCorrect == ISpec => []ITypeOK
<1>1. IntakeInv => ITypeOK
  BY DEF IntakeInv
<1> QED
  BY <1>1, IntakeInductive, PTL

\* A stored source has its file, stored or still to be imported, unless its
\* COMMIT went unanswered.
THEOREM FilesCorrect == ISpec => []FilesBacked
<1>1. IntakeInv => FilesBacked
  BY DEF IntakeInv
<1> QED
  BY <1>1, IntakeInductive, PTL

\* No object is left behind but by a fault or by the import.
THEOREM NoOrphansCorrect == ISpec => []NoOrphans
<1>1. IntakeInv => NoOrphans
  BY DEF IntakeInv
<1> QED
  BY <1>1, IntakeInductive, PTL

\* Missing is published only for a file that such a COMMIT deleted, for one
\* whose cached copy was trimmed before it was opened, or for one that was
\* still to be imported.
THEOREM MissingCorrect == ISpec => []MissingExplained
<1>1. IntakeInv => MissingExplained
  BY DEF IntakeInv
<1> QED
  BY <1>1, IntakeInductive, PTL
=============================================================================
