------------------------- MODULE DocumentsTxProofs -------------------------
(***************************************************************************)
(* The fingerprint transaction with its statements and locks implements    *)
(* the atomic one, for any number of workers, sources and documents and    *)
(* any near-duplicate relation.  Each step is shown to preserve TxIInv,    *)
(* which says that what a transaction has read and computed stays true     *)
(* while it holds its locks.  What a job announces after its transaction   *)
(* comes last.                                                             *)
(***************************************************************************)
EXTENDS DocumentsTx, Announce, DocumentsProofs

\* A transaction that may commit writes what the atomic step would write.
LEMMA CommitFinalizes ==
  ASSUME TxIInv, NEW w \in Worker, Commit(w)
  PROVE  \E s \in Source, k \in Hash, T \in SUBSET Doc : Finalize(s, k, T)
<1> DEFINE s == tx[w].src
           k == tx[w].kind
           T == tx[w].touched
           C == Candidates(s, k)
           M == Confident(s, C)
           now == WritesNow(s, k, M)
           old == tx[w].writes
<1>1. tx[w] \in TxState /\ tx[w].pc = "computed"
  BY DEF TxIInv, TxTypeOK, Commit
<1>2. s \in Source /\ k \in Hash /\ T \in SUBSET Doc
  BY <1>1 DEF TxState
<1>3. k \in {"file", "missing"}
  BY <1>1, <1>2 DEF TxIInv, TxShape, Hash
<1>4. {DocOf[s]} \cup {DocOf[t] : t \in C} \subseteq T
  BY <1>1 DEF TxIInv, TxShape, FoundComplete
<1>5. /\ row[s] = "live" /\ hash[s] = "none" /\ tx[w].matched = M
      /\ \A t \in {s} \cup M : old.role[t] = now.role[t]
      /\ \A d \in T : old.status[d] = now.status[d]
      /\ \A d \in T : d \in old.review <=> d \in now.review
  BY <1>1 DEF TxIInv, ComputedIsCurrent
<1> HIDE DEF s, k, T, C, now, old
<1>6. WriteFingerprint(s, k, M, T, old)
  BY <1>5 DEF Commit, s, k, T, old
<1>7. WriteFingerprint(s, k, M, T, now)
  <2>1. role' = [t \in Source |->
                   IF t = s \/ t \in M THEN now.role[t] ELSE role[t]]
    BY <1>5, <1>6 DEF WriteFingerprint
  <2>2. status' = [d \in Doc |->
                     IF d \in {e \in T : doc[e] = "live"}
                     THEN now.status[d] ELSE status[d]]
    BY <1>5, <1>6 DEF WriteFingerprint
  <2>3. requested' = [d \in Doc |-> requested[d] \/
                       (d \in {e \in T : doc[e] = "live"} /\ d \in now.review)]
    BY <1>5, <1>6, Zenon DEF WriteFingerprint
  <2>4. notified' = [d \in Doc |-> notified[d] \/
           (d \in {e \in T : doc[e] = "live"} /\ now.status[d] # "processing")]
    <3>1. \A d \in Doc : d \in {e \in T : doc[e] = "live"} =>
            (old.status[d] # "processing" <=> now.status[d] # "processing")
      BY <1>5
    <3>2. QED
      BY <1>6, <3>1, Zenon DEF WriteFingerprint
  <2>5. QED
    BY <1>6, <2>1, <2>2, <2>3, <2>4 DEF WriteFingerprint
<1>8. Finalize(s, k, T)
  BY <1>3, <1>4, <1>5, <1>7 DEF Finalize, C, now
<1>9. QED
  BY <1>2, <1>8

\* Every step is a step of Documents or leaves its tables alone.
LEMMA StepRefines ==
  ASSUME TxIInv, [TxNext]_txVars
  PROVE  [Next]_vars
<1>1. CASE UNCHANGED txVars
  BY <1>1 DEF txVars, vars
<1>2. ASSUME NEW w \in Worker, NEW s \in Source, NEW k \in Hash, Begin(w, s, k)
      PROVE  UNCHANGED vars
  BY <1>2 DEF Begin
<1>3. ASSUME NEW w \in Worker, Advance(w) \/ Fail(w)
      PROVE  [Next]_vars
  <2>1. CASE Commit(w)
    BY <2>1, CommitFinalizes DEF Next
  <2>2. CASE ~Commit(w)
    BY <1>3, <2>2 DEF Advance, Fail, LockKey, LockDoc, ReadMatches, Compute,
       GiveUp, End
  <2>3. QED
    BY <2>1, <2>2
<1>4. ASSUME NEW d \in Doc, OnDocument(d)
      PROVE  Next
  BY <1>4 DEF OnDocument, Next
<1>5. QED
  BY <1>1, <1>2, <1>3, <1>4 DEF TxNext

-----------------------------------------------------------------------------
(* What each step leaves in tx.                                            *)

\* No transaction is a transaction state.
LEMMA IdleType == Idle \in TxState
<1>1. (CHOOSE s \in Source : TRUE) \in Source
  BY SourceAssumption
<1>2. NoWrites \in [role : [Source -> Role], status : [Doc -> Status],
                    review : SUBSET Doc]
  BY DEF NoWrites, Role, Status
<1>3. QED
  BY <1>1, <1>2 DEF Idle, TxState, Hash

\* The statement a worker runs changes the transaction of nobody else.
LEMMA OnlyOwnTx ==
  ASSUME TxTypeOK, NEW w \in Worker,
         (\E s \in Source, k \in Hash : Begin(w, s, k)) \/ Advance(w) \/ Fail(w)
  PROVE  \A v \in Worker : v # w => tx'[v] = tx[v]
BY DEF TxTypeOK, Begin, Advance, Fail, LockKey, LockDoc, ReadMatches, Compute,
   Commit, GiveUp, End

\* What BEGIN makes of the state of a worker.
LEMMA BeginTx ==
  ASSUME TxTypeOK, NEW w \in Worker, NEW s \in Source, NEW k \in Hash,
         Begin(w, s, k)
  PROVE  /\ tx' \in [Worker -> TxState]
         /\ tx'[w].pc = "keys" /\ tx'[w].src = s /\ tx'[w].kind = k
         /\ tx'[w].keys = {} /\ tx'[w].docs = {}
<1> DEFINE y == [Idle EXCEPT !.pc = "keys", !.src = s, !.kind = k]
<1>1. tx' = [tx EXCEPT ![w] = y]
  BY DEF Begin
<1>2. Idle \in TxState /\ Idle.keys = {} /\ Idle.docs = {}
  BY IdleType DEF Idle
<1>3. y \in TxState
  BY <1>2 DEF TxState
<1>4. y.pc = "keys" /\ y.src = s /\ y.kind = k /\ y.keys = {} /\ y.docs = {}
  BY <1>2 DEF TxState
<1> HIDE DEF y
<1>5. QED
  BY <1>1, <1>3, <1>4 DEF TxTypeOK

\* What an advisory lock makes of it.
LEMMA LockKeyTx ==
  ASSUME TxTypeOK, NEW w \in Worker, NEW x \in Key, LockKey(w, x)
  PROVE  /\ tx' \in [Worker -> TxState]
         /\ tx'[w].pc = "keys" /\ tx'[w].src = tx[w].src
         /\ tx'[w].kind = tx[w].kind /\ tx'[w].docs = tx[w].docs
         /\ tx'[w].keys = tx[w].keys \cup {x}
<1>1. tx[w] \in TxState /\ tx[w].pc = "keys"
  BY DEF TxTypeOK, LockKey
<1>2. tx' = [tx EXCEPT ![w] = [tx[w] EXCEPT !.keys = tx[w].keys \cup {x}]]
  BY DEF LockKey
<1>3. [tx[w] EXCEPT !.keys = tx[w].keys \cup {x}] \in TxState
  BY <1>1 DEF TxState
<1>4. QED
  BY <1>1, <1>2, <1>3 DEF TxTypeOK, TxState

\* What a row lock makes of it.
LEMMA LockDocTx ==
  ASSUME TxTypeOK, NEW w \in Worker, NEW d \in Doc, LockDoc(w, d)
  PROVE  /\ tx' \in [Worker -> TxState]
         /\ tx'[w].pc = "docs" /\ tx'[w].src = tx[w].src
         /\ tx'[w].kind = tx[w].kind /\ tx'[w].keys = tx[w].keys
         /\ tx'[w].found = tx[w].found /\ tx'[w].touched = tx[w].touched
         /\ tx'[w].docs = tx[w].docs \cup {d}
<1>1. tx[w] \in TxState /\ tx[w].pc = "docs"
  BY DEF TxTypeOK, LockDoc
<1>2. tx' = [tx EXCEPT ![w] = [tx[w] EXCEPT !.docs = tx[w].docs \cup {d}]]
  BY DEF LockDoc
<1>3. [tx[w] EXCEPT !.docs = tx[w].docs \cup {d}] \in TxState
  BY <1>1 DEF TxState
<1>4. QED
  BY <1>1, <1>2, <1>3 DEF TxTypeOK, TxState

\* What the reads of the matches make of it.
LEMMA ReadMatchesTx ==
  ASSUME TxTypeOK, NEW w \in Worker, ReadMatches(w)
  PROVE  /\ tx' \in [Worker -> TxState]
         /\ tx'[w].pc = "docs" /\ tx'[w].src = tx[w].src
         /\ tx'[w].kind = tx[w].kind /\ tx'[w].keys = tx[w].keys
         /\ tx'[w].docs = tx[w].docs
         /\ tx'[w].found = Candidates(tx[w].src, tx[w].kind)
         /\ tx'[w].touched =
              {DocOf[tx[w].src]} \cup {DocOf[t] : t \in tx'[w].found}
<1> DEFINE C == Candidates(tx[w].src, tx[w].kind)
           D == {DocOf[tx[w].src]} \cup {DocOf[t] : t \in C}
           y == [tx[w] EXCEPT !.pc = "docs", !.found = C, !.touched = D]
<1>1. tx[w] \in TxState
  BY DEF TxTypeOK
<1>2. tx' = [tx EXCEPT ![w] = y]
  BY DEF ReadMatches, TxTypeOK
<1>3. C \in SUBSET Source
  BY DEF Candidates
<1>4. D \in SUBSET Doc
  BY <1>1, <1>3, DocOfAssumption DEF TxState
<1> HIDE DEF C, D
<1>5. y \in TxState
  BY <1>1, <1>3, <1>4 DEF TxState
<1>6. /\ y.pc = "docs" /\ y.src = tx[w].src /\ y.kind = tx[w].kind
      /\ y.keys = tx[w].keys /\ y.docs = tx[w].docs /\ y.found = C
      /\ y.touched = D
  BY <1>1 DEF TxState
<1> HIDE DEF y
<1>7. QED
  BY <1>2, <1>5, <1>6 DEF TxTypeOK, C, D

\* What the computation of the writes makes of it.
LEMMA ComputeTx ==
  ASSUME TxTypeOK, NEW w \in Worker, Compute(w), NEW M,
         M = Confident(tx[w].src, {t \in tx[w].found : row[t] = "live"})
  PROVE  /\ tx' \in [Worker -> TxState]
         /\ tx'[w].pc = "computed" /\ tx'[w].src = tx[w].src
         /\ tx'[w].kind = tx[w].kind /\ tx'[w].keys = tx[w].keys
         /\ tx'[w].found = tx[w].found /\ tx'[w].touched = tx[w].touched
         /\ tx'[w].docs = tx[w].docs /\ tx'[w].matched = M
         /\ tx'[w].writes = WritesNow(tx[w].src, tx[w].kind, M)
<1> DEFINE W == WritesNow(tx[w].src, tx[w].kind, M)
           y == [tx[w] EXCEPT !.pc = "computed", !.matched = M, !.writes = W]
<1>1. tx[w] \in TxState
  BY DEF TxTypeOK
<1>2. tx' = [tx EXCEPT ![w] = y]
  BY DEF Compute, TxTypeOK
<1>3. M \in SUBSET Source
  BY <1>1 DEF Confident, TxState
<1>4. W \in [role : [Source -> Role], status : [Doc -> Status],
             review : SUBSET Doc]
  <2>1. /\ W.role \in [Source -> Role] /\ W.status \in [Doc -> Status]
        /\ W.review \in SUBSET Doc
    BY <1>1, <1>3, WritesNowType DEF TxTypeOK, TxState
  <2>2. W = [role |-> W.role, status |-> W.status, review |-> W.review]
    BY DEF WritesNow
  <2>3. QED
    BY <2>1, <2>2
<1> HIDE DEF W
<1>5. y \in TxState
  BY <1>1, <1>3, <1>4 DEF TxState
<1>6. /\ y.pc = "computed" /\ y.src = tx[w].src /\ y.kind = tx[w].kind
      /\ y.keys = tx[w].keys /\ y.docs = tx[w].docs /\ y.found = tx[w].found
      /\ y.touched = tx[w].touched /\ y.matched = M /\ y.writes = W
  BY <1>1 DEF TxState
<1> HIDE DEF y
<1>7. QED
  BY <1>2, <1>5, <1>6 DEF TxTypeOK, W

\* What the end of the transaction makes of it.
LEMMA EndTx ==
  ASSUME TxTypeOK, NEW w \in Worker, Commit(w) \/ GiveUp(w) \/ Fail(w)
  PROVE  /\ tx' \in [Worker -> TxState]
         /\ tx'[w].pc = "idle" /\ tx'[w].keys = {} /\ tx'[w].docs = {}
<1>1. tx' = [tx EXCEPT ![w] = Idle]
  BY DEF Commit, GiveUp, Fail, End
<1>2. Idle.pc = "idle" /\ Idle.keys = {} /\ Idle.docs = {}
  BY DEF Idle
<1>3. QED
  BY <1>1, <1>2, IdleType DEF TxTypeOK

\* What one worker's step does to tx, in one formula.
LEMMA WorkerStep ==
  ASSUME TxTypeOK, NEW w \in Worker,
         (\E s \in Source, k \in Hash : Begin(w, s, k)) \/ Advance(w) \/ Fail(w)
  PROVE  /\ tx' \in [Worker -> TxState]
         /\ \A v \in Worker : v # w => tx'[v] = tx[v]
         /\ \/ tx'[w].keys \subseteq tx[w].keys
            \/ \E x \in Key : KeyFree(x) /\ tx'[w].keys = tx[w].keys \cup {x}
         /\ \/ tx'[w].docs \subseteq tx[w].docs
            \/ \E d \in Doc : DocFree(d) /\ tx'[w].docs = tx[w].docs \cup {d}
<1>1. \A v \in Worker : v # w => tx'[v] = tx[v]
  BY OnlyOwnTx
<1>2. ASSUME NEW s \in Source, NEW k \in Hash, Begin(w, s, k)
      PROVE  /\ tx' \in [Worker -> TxState]
             /\ tx'[w].keys \subseteq tx[w].keys
             /\ tx'[w].docs \subseteq tx[w].docs
  BY <1>2, BeginTx
<1>3. ASSUME NEW x \in Key, LockKey(w, x)
      PROVE  /\ tx' \in [Worker -> TxState]
             /\ KeyFree(x) /\ tx'[w].keys = tx[w].keys \cup {x}
             /\ tx'[w].docs \subseteq tx[w].docs
  BY <1>3, LockKeyTx DEF LockKey
<1>4. ASSUME NEW d \in Doc, LockDoc(w, d)
      PROVE  /\ tx' \in [Worker -> TxState]
             /\ tx'[w].keys \subseteq tx[w].keys
             /\ DocFree(d) /\ tx'[w].docs = tx[w].docs \cup {d}
  BY <1>4, LockDocTx DEF LockDoc
<1>5. CASE ReadMatches(w)
  BY <1>1, <1>5, ReadMatchesTx
<1>6. CASE Compute(w)
  BY <1>1, <1>6, ComputeTx
<1>7. CASE Commit(w) \/ GiveUp(w) \/ Fail(w)
  BY <1>1, <1>7, EndTx
<1>8. QED
  BY <1>1, <1>2, <1>3, <1>4, <1>5, <1>6, <1>7 DEF Advance

\* Every step keeps the types.
LEMMA TxTypeStep ==
  ASSUME TxIInv, [TxNext]_txVars
  PROVE  TxTypeOK'
<1>1. TypeOK'
  BY StepRefines, TypeStep DEF TxIInv, IInv
<1>2. tx' \in [Worker -> TxState]
  BY WorkerStep DEF TxNext, txVars, OnDocument, TxIInv, TxTypeOK
<1>3. QED
  BY <1>1, <1>2 DEF TxTypeOK

\* No two transactions hold the same lock.
\* Every step keeps the locks exclusive.
LEMMA ExclusiveStep ==
  ASSUME TxIInv, [TxNext]_txVars
  PROVE  Exclusive'
<1> USE DEF TxIInv
<1>1. CASE tx' = tx
  BY <1>1 DEF Exclusive
<1>2. ASSUME NEW w \in Worker,
             (\E s \in Source, k \in Hash : Begin(w, s, k)) \/ Advance(w)
             \/ Fail(w)
      PROVE  Exclusive'
  <2>1. ASSUME NEW v \in Worker, v # w
        PROVE  /\ tx'[v].keys \cap tx'[w].keys = {}
               /\ tx'[v].docs \cap tx'[w].docs = {}
    <3>1. tx'[v] = tx[v]
      BY <1>2, <2>1, WorkerStep
    <3>2. tx[v].keys \cap tx[w].keys = {} /\ tx[v].docs \cap tx[w].docs = {}
      BY <2>1 DEF Exclusive
    <3>3. /\ \A x : KeyFree(x) => x \notin tx[v].keys
          /\ \A d : DocFree(d) => d \notin tx[v].docs
      BY DEF KeyFree, DocFree
    <3>4. tx[v].keys \cap tx'[w].keys = {}
      BY <1>2, <3>2, <3>3, WorkerStep
    <3>5. tx[v].docs \cap tx'[w].docs = {}
      BY <1>2, <3>2, <3>3, WorkerStep
    <3>6. QED
      BY <3>1, <3>4, <3>5
  <2>2. \A v \in Worker : v # w => tx'[v] = tx[v]
    BY <1>2, WorkerStep
  <2>3. QED
    BY <2>1, <2>2 DEF Exclusive
<1>3. QED
  BY <1>1, <1>2 DEF TxNext, txVars, OnDocument

-----------------------------------------------------------------------------
(* What the steps of others leave alone.                                   *)

\* Rows are not inserted twice, and a fingerprint is not taken back.
LEMMA RowsAreNotReused ==
  ASSUME TypeOK, [Next]_vars, NEW t \in Source
  PROVE  /\ row[t] # "new" => row'[t] # "new"
         /\ row[t] # "new" /\ row'[t] = "live" => row[t] = "live"
         /\ hash[t] # "none" => hash'[t] = hash[t]
<1>1. CASE UNCHANGED vars
  BY <1>1 DEF vars
<1>2. ASSUME NEW d \in Doc, NEW S \in SUBSET Source,
             InsertDocument(d, S) \/ InsertSources(d, S)
      PROVE  /\ row[t] # "new" => row'[t] = row[t]
             /\ hash' = hash
  BY <1>2 DEF InsertDocument, InsertSources, Upload, TypeOK
<1>3. ASSUME NEW s \in Source, NEW k \in Hash, NEW T \in SUBSET Doc,
             Finalize(s, k, T)
      PROVE  /\ row' = row
             /\ hash[t] # "none" => hash'[t] = hash[t]
  BY <1>3 DEF Finalize, WriteFingerprint, TypeOK
<1>4. ASSUME NEW d \in Doc, Approve(d) \/ RejectPending(d) \/ Delete(d)
      PROVE  /\ row'[t] \in {row[t], "gone"}
             /\ hash' = hash
  BY <1>4 DEF Approve, RejectPending, Delete, DropSources, TypeOK
<1>5. QED
  BY <1>1, <1>2, <1>3, <1>4 DEF Next

\* Only the commit of its own fingerprint makes a source one others match.
LEMMA OnlyCommitHashes ==
  ASSUME TxIInv, [TxNext]_txVars, NEW t \in Source,
         row'[t] = "live" /\ hash'[t] = "file",
         ~(row[t] = "live" /\ hash[t] = "file")
  PROVE  \E v \in Worker : /\ Commit(v) /\ tx[v].pc = "computed"
                          /\ tx[v].src = t /\ tx[v].kind = "file"
<1>1. row'[t] = "live" /\ hash'[t] = "file"
  OBVIOUS
<1>2. row[t] # "live" \/ hash[t] # "file"
  OBVIOUS
<1>3. [Next]_vars /\ TypeOK /\ RowsConsistent
  BY StepRefines DEF TxIInv, IInv
<1>4. hash[t] = "none"
  <2>1. row[t] = "new" => hash[t] = "none"
    BY <1>1, <1>3 DEF RowsConsistent
  <2>2. QED
    BY <1>1, <1>2, <1>3, <2>1, RowsAreNotReused
<1>5. hash' # hash
  BY <1>1, <1>4
<1>6. PICK v \in Worker : Commit(v)
  <2>1. ASSUME NEW d \in Doc, OnDocument(d)
        PROVE  hash' = hash
    BY <2>1 DEF OnDocument, InsertDocument, InsertSources, Approve,
       RejectPending, Delete
  <2>2. ASSUME NEW w \in Worker, Advance(w) \/ Fail(w), ~Commit(w)
        PROVE  hash' = hash
    BY <2>2 DEF Advance, Fail, LockKey, LockDoc, ReadMatches, Compute, GiveUp,
       End, vars
  <2>3. ASSUME NEW w \in Worker, NEW r \in Source, NEW l \in Hash, Begin(w, r, l)
        PROVE  hash' = hash
    BY <2>3 DEF Begin, vars
  <2>4. QED
    BY <1>5, <2>1, <2>2, <2>3 DEF TxNext, txVars
<1>7. hash' = [hash EXCEPT ![tx[v].src] = tx[v].kind] /\ tx[v].pc = "computed"
  BY <1>6 DEF Commit, WriteFingerprint
<1>8. tx[v].src = t /\ tx[v].kind = "file"
  BY <1>1, <1>3, <1>4, <1>7 DEF TypeOK
<1>9. QED
  BY <1>1, <1>6, <1>7, <1>8

\* While a transaction holds its keys nobody commits a source it matches.
LEMMA NoNewCandidate ==
  ASSUME TxIInv, [TxNext]_txVars, NEW w \in Worker, tx'[w] = tx[w],
         tx[w].pc \in {"docs", "computed"}
  PROVE  Candidates(tx[w].src, tx[w].kind)'
           \subseteq Candidates(tx[w].src, tx[w].kind)
<1> DEFINE s == tx[w].src
           k == tx[w].kind
<1>1. tx[w] \in TxState /\ s \in Source /\ k \in Hash
  BY DEF TxIInv, TxTypeOK, TxState
<1> SUFFICES ASSUME NEW t \in Candidates(tx[w].src, tx[w].kind)',
                    t \notin Candidates(s, k)
             PROVE  FALSE
  OBVIOUS
<1>2. k = "file" /\ t \in Source /\ <<s, t>> \in Near /\ row'[t] = "live"
      /\ hash'[t] = "file"
  BY DEF Candidates
<1>3. ~(row[t] = "live" /\ hash[t] = "file")
  BY <1>2 DEF Candidates
<1>4. PICK v \in Worker : /\ Commit(v) /\ tx[v].pc = "computed"
                          /\ tx[v].src = t /\ tx[v].kind = "file"
  BY <1>2, <1>3, OnlyCommitHashes
<1>5. v # w
  BY <1>4, EndTx DEF TxIInv
<1>6. tx[v].keys = KeysOf[t] /\ tx[w].keys = KeysOf[s]
  BY <1>2, <1>4 DEF TxIInv, TxShape, LockKeys
<1>7. KeysOf[s] \cap KeysOf[t] # {}
  BY <1>1, <1>2, KeysAssumption
<1>8. QED
  BY <1>5, <1>6, <1>7 DEF TxIInv, Exclusive

\* No step makes what a transaction found incomplete.
LEMMA FoundCompleteStep ==
  ASSUME TxIInv, [TxNext]_txVars
  PROVE  FoundComplete'
<1> SUFFICES ASSUME NEW w \in Worker, tx'[w].pc \in {"docs", "computed"}
             PROVE  Candidates(tx[w].src, tx[w].kind)' \subseteq tx'[w].found
  BY DEF FoundComplete
<1> USE DEF TxIInv
<1>1. CASE tx'[w] = tx[w]
  BY <1>1, NoNewCandidate DEF FoundComplete
<1>a. ASSUME tx'[w].src = tx[w].src, tx'[w].kind = tx[w].kind,
             row' = row, hash' = hash
      PROVE  Candidates(tx[w].src, tx[w].kind)'
               = Candidates(tx[w].src, tx[w].kind)
  BY <1>a DEF Candidates
<1>2. CASE ReadMatches(w)
  <2>1. /\ tx'[w].src = tx[w].src /\ tx'[w].kind = tx[w].kind
        /\ tx'[w].found = Candidates(tx[w].src, tx[w].kind)
    BY <1>2, ReadMatchesTx
  <2>2. row' = row /\ hash' = hash
    BY <1>2 DEF ReadMatches, vars
  <2>3. QED
    BY <1>a, <2>1, <2>2
<1>3. ASSUME NEW d \in Doc, LockDoc(w, d)
      PROVE  Candidates(tx[w].src, tx[w].kind)' \subseteq tx'[w].found
  <2>1. /\ tx'[w].src = tx[w].src /\ tx'[w].kind = tx[w].kind
        /\ tx'[w].found = tx[w].found
    BY <1>3, LockDocTx
  <2>2. row' = row /\ hash' = hash /\ tx[w].pc = "docs"
    BY <1>3 DEF LockDoc, vars
  <2>3. QED
    BY <1>a, <2>1, <2>2 DEF FoundComplete
<1>4. CASE Compute(w)
  <2>1. PICK M : M = Confident(tx[w].src, {t \in tx[w].found : row[t] = "live"})
    OBVIOUS
  <2>2. /\ tx'[w].src = tx[w].src /\ tx'[w].kind = tx[w].kind
        /\ tx'[w].found = tx[w].found
    BY <1>4, <2>1, ComputeTx
  <2>3. row' = row /\ hash' = hash /\ tx[w].pc = "docs"
    BY <1>4 DEF Compute, vars
  <2>4. QED
    BY <1>a, <2>2, <2>3 DEF FoundComplete
<1>5. ASSUME NEW s \in Source, NEW k \in Hash, Begin(w, s, k)
      PROVE  FALSE
  BY <1>5, BeginTx
<1>6. ASSUME NEW x \in Key, LockKey(w, x)
      PROVE  FALSE
  BY <1>6, LockKeyTx
<1>7. ~Commit(w) /\ ~GiveUp(w) /\ ~Fail(w)
  BY EndTx
<1>8. ASSUME NEW v \in Worker,
             (\E s \in Source, k \in Hash : Begin(v, s, k)) \/ Advance(v)
             \/ Fail(v),
             v # w
      PROVE  tx'[w] = tx[w]
  BY <1>8, WorkerStep
<1>9. QED
  BY <1>1, <1>2, <1>3, <1>4, <1>5, <1>6, <1>7, <1>8
     DEF TxNext, Advance, txVars, OnDocument

\* Every step leaves each transaction in the shape of its place.
LEMMA TxShapeStep ==
  ASSUME TxIInv, [TxNext]_txVars
  PROVE  TxShape'
<1> DEFINE Shape(x) ==
             /\ x.pc = "idle" => x.keys = {}
             /\ x.pc \in {"idle", "keys"} => x.docs = {}
             /\ x.pc # "idle" => row[x.src] # "new" /\ x.kind # "none"
             /\ x.pc \in {"docs", "computed"} =>
                  /\ x.keys = LockKeys(x.src, x.kind)
                  /\ x.touched = {DocOf[x.src]} \cup {DocOf[t] : t \in x.found}
                  /\ \A t \in x.found :
                       x.kind = "file" /\ hash[t] = "file" /\ <<x.src, t>> \in Near
             /\ x.pc = "computed" => x.docs = x.touched
<1>1. TypeOK /\ tx \in [Worker -> TxState] /\ TxShape /\ [Next]_vars
  BY StepRefines DEF TxIInv, IInv, TxTypeOK
<1>2. ASSUME NEW x \in TxState, Shape(x)
      PROVE  Shape(x)'
  <2>1. x.src \in Source /\ x.found \in SUBSET Source
    BY DEF TxState
  <2>2. row[x.src] # "new" => row'[x.src] # "new"
    BY <1>1, <2>1, RowsAreNotReused
  <2>3. \A t \in x.found : hash[t] = "file" => hash'[t] = "file"
    BY <1>1, <2>1, RowsAreNotReused
  <2>4. QED
    BY <1>2, <2>2, <2>3 DEF LockKeys
<1> SUFFICES ASSUME NEW w \in Worker
             PROVE  Shape(tx[w])'
  BY DEF TxShape
<1>3. Shape(tx[w])
  BY <1>1 DEF TxShape
<1>4. CASE tx'[w] = tx[w]
  <2>1. PICK x : x = tx[w]
    OBVIOUS
  <2>2. Shape(x)'
    BY <1>1, <1>2, <1>3, <2>1
  <2>3. QED
    BY <1>4, <2>1, <2>2
<1>5. ASSUME NEW s \in Source, NEW k \in Hash, Begin(w, s, k)
      PROVE  Shape(tx[w])'
  <2>1. /\ tx'[w].pc = "keys" /\ tx'[w].src = s /\ tx'[w].kind = k
        /\ tx'[w].keys = {} /\ tx'[w].docs = {}
    BY <1>5, BeginTx DEF TxIInv
  <2>2. row[s] = "live" /\ k # "none" /\ row' = row
    BY <1>5 DEF Begin, vars
  <2>3. QED
    BY <2>1, <2>2
<1>6. ASSUME NEW x \in Key, LockKey(w, x)
      PROVE  Shape(tx[w])'
  BY <1>3, <1>6, LockKeyTx DEF LockKey, TxIInv, vars
<1>7. ASSUME NEW d \in Doc, LockDoc(w, d)
      PROVE  Shape(tx[w])'
  BY <1>3, <1>7, LockDocTx DEF LockDoc, TxIInv, vars, LockKeys
<1>8. CASE ReadMatches(w)
  <2>1. \A t \in Candidates(tx[w].src, tx[w].kind) :
          tx[w].kind = "file" /\ hash[t] = "file" /\ <<tx[w].src, t>> \in Near
    BY DEF Candidates
  <2>2. /\ tx'[w].pc = "docs" /\ tx'[w].src = tx[w].src
        /\ tx'[w].kind = tx[w].kind /\ tx'[w].keys = tx[w].keys
        /\ tx'[w].found = Candidates(tx[w].src, tx[w].kind)
        /\ tx'[w].touched =
             {DocOf[tx[w].src]} \cup {DocOf[t] : t \in tx'[w].found}
    BY <1>8, ReadMatchesTx DEF TxIInv
  <2>3. /\ tx[w].keys = LockKeys(tx[w].src, tx[w].kind) /\ tx[w].pc # "idle"
        /\ row' = row /\ hash' = hash
    BY <1>8 DEF ReadMatches, vars
  <2>4. tx'[w].keys = LockKeys(tx'[w].src, tx'[w].kind)
    BY <2>2, <2>3
  <2>5. \A t \in tx'[w].found :
          /\ tx'[w].kind = "file" /\ hash'[t] = "file"
          /\ <<tx'[w].src, t>> \in Near
    BY <2>1, <2>2, <2>3
  <2>6. row'[tx'[w].src] # "new" /\ tx'[w].kind # "none"
    BY <1>3, <2>2, <2>3
  <2>7. QED
    BY <2>2, <2>4, <2>5, <2>6 DEF LockKeys
<1>9. CASE Compute(w)
  <2>1. PICK M : M = Confident(tx[w].src, {t \in tx[w].found : row[t] = "live"})
    OBVIOUS
  <2>2. /\ tx'[w].pc = "computed" /\ tx'[w].src = tx[w].src
        /\ tx'[w].kind = tx[w].kind /\ tx'[w].keys = tx[w].keys
        /\ tx'[w].found = tx[w].found /\ tx'[w].touched = tx[w].touched
        /\ tx'[w].docs = tx[w].docs
    BY <1>9, <2>1, ComputeTx DEF TxIInv
  <2>3. /\ tx[w].pc = "docs" /\ tx[w].docs = tx[w].touched
        /\ row' = row /\ hash' = hash
    BY <1>9 DEF Compute, vars
  <2>4. QED
    BY <1>3, <2>2, <2>3 DEF LockKeys
<1>10. CASE Commit(w) \/ GiveUp(w) \/ Fail(w)
  BY <1>10, EndTx DEF TxIInv
<1>11. ASSUME NEW v \in Worker,
              (\E s \in Source, k \in Hash : Begin(v, s, k)) \/ Advance(v)
              \/ Fail(v),
              v # w
       PROVE  tx'[w] = tx[w]
  BY <1>1, <1>11, WorkerStep DEF TxIInv
<1>12. QED
  BY <1>4, <1>5, <1>6, <1>7, <1>8, <1>9, <1>10, <1>11
     DEF TxNext, Advance, txVars, OnDocument

-----------------------------------------------------------------------------
(* What has been computed stays current.                                   *)

\* The rows of the documents a transaction has locked do not change.
LEMMA LockedRowsStay ==
  ASSUME TxIInv, [TxNext]_txVars, NEW w \in Worker, tx[w].pc = "computed",
         tx'[w] = tx[w], NEW t \in Source, DocOf[t] \in tx[w].docs
  PROVE  /\ row'[t] = row[t] /\ hash'[t] = hash[t]
         /\ role'[t] = role[t] /\ released'[t] = released[t]
<1>1. TypeOK /\ RowsConsistent /\ TxTypeOK /\ TxShape /\ Exclusive
  BY DEF TxIInv, IInv
<1>2. doc[DocOf[t]] # "new"
  <2>1. /\ row[tx[w].src] # "new"
        /\ tx[w].docs = {DocOf[tx[w].src]} \cup {DocOf[u] : u \in tx[w].found}
        /\ \A u \in tx[w].found : hash[u] = "file"
    BY <1>1 DEF TxShape
  <2>2. tx[w].src \in Source /\ tx[w].found \subseteq Source
    BY <1>1 DEF TxTypeOK, TxState
  <2>3. QED
    BY <1>1, <2>1, <2>2 DEF RowsConsistent
<1>3. CASE UNCHANGED vars
  BY <1>3 DEF vars
<1>4. ASSUME NEW d \in Doc, OnDocument(d), d # DocOf[t]
      PROVE  /\ row'[t] = row[t] /\ hash'[t] = hash[t]
             /\ role'[t] = role[t] /\ released'[t] = released[t]
  <2>1. ASSUME NEW S \in SUBSET Source, InsertDocument(d, S) \/ InsertSources(d, S)
        PROVE  /\ row'[t] = row[t] /\ hash' = hash
               /\ role' = role /\ released' = released
    BY <1>1, <1>4, <2>1 DEF InsertDocument, InsertSources, Upload, TypeOK
  <2>2. t \notin SourcesOf(d)
    BY <1>4 DEF SourcesOf
  <2>3. CASE Approve(d)
    BY <1>1, <2>2, <2>3 DEF Approve, TypeOK
  <2>4. CASE RejectPending(d)
    BY <1>1, <2>2, <2>4 DEF RejectPending, Rejected, DropSources, TypeOK
  <2>5. CASE Delete(d)
    BY <1>1, <2>2, <2>5 DEF Delete, DropSources, TypeOK
  <2>6. QED
    BY <1>4, <2>1, <2>3, <2>4, <2>5 DEF OnDocument
<1>5. ASSUME NEW d \in Doc, OnDocument(d), d = DocOf[t]
      PROVE  FALSE
  <2>1. ~DocFree(d)
    BY <1>5 DEF DocFree
  <2>2. QED
    BY <1>2, <1>5, <2>1 DEF OnDocument, InsertDocument
<1>6. ASSUME NEW v \in Worker, Commit(v)
      PROVE  /\ row'[t] = row[t] /\ hash'[t] = hash[t]
             /\ role'[t] = role[t] /\ released'[t] = released[t]
  <2> DEFINE s == tx[v].src
             M == tx[v].matched
  <2>1. v # w
    BY <1>6, EndTx DEF TxIInv
  <2>2. /\ tx[v].pc = "computed" /\ tx[v].docs = tx[v].touched
        /\ tx[v].touched = {DocOf[s]} \cup {DocOf[u] : u \in tx[v].found}
    BY <1>1, <1>6 DEF TxShape, Commit
  <2>3. M \subseteq tx[v].found
    <3>1. M = Confident(s, Candidates(s, tx[v].kind))
      BY <2>2 DEF TxIInv, ComputedIsCurrent
    <3>2. Candidates(s, tx[v].kind) \subseteq tx[v].found
      BY <2>2 DEF TxIInv, FoundComplete
    <3>3. QED
      BY <3>1, <3>2 DEF Confident
  <2>4. DocOf[t] \notin tx[v].docs
    BY <1>1, <2>1 DEF Exclusive
  <2>5. t # s /\ t \notin M
    BY <2>2, <2>3, <2>4
  <2>6. QED
    BY <1>1, <1>6, <2>5 DEF Commit, WriteFingerprint, TypeOK
<1>7. ASSUME NEW v \in Worker, (\E s \in Source, k \in Hash : Begin(v, s, k))
                               \/ Advance(v) \/ Fail(v),
             ~Commit(v)
      PROVE  UNCHANGED vars
  BY <1>7 DEF Begin, Advance, Fail, LockKey, LockDoc, ReadMatches, Compute,
     GiveUp, End
<1>8. QED
  BY <1>3, <1>4, <1>5, <1>6, <1>7 DEF TxNext, txVars, vars

\* What is computed for a set D of documents depends on their rows alone.
LEMMA SameWrites ==
  ASSUME NEW s \in Source, NEW k \in Hash, NEW M \in SUBSET Source,
         NEW D \in SUBSET Doc, TypeOK, TypeOK',
         DocOf[s] \in D, \A t \in M : DocOf[t] \in D,
         \A t \in Source : DocOf[t] \in D =>
           /\ row'[t] = row[t] /\ hash'[t] = hash[t]
           /\ role'[t] = role[t] /\ released'[t] = released[t]
  PROVE  /\ \A t \in {s} \cup M :
              WritesNow(s, k, M)'.role[t] = WritesNow(s, k, M).role[t]
         /\ \A d \in D :
              WritesNow(s, k, M)'.status[d] = WritesNow(s, k, M).status[d]
         /\ \A d \in D :
              d \in WritesNow(s, k, M)'.review <=> d \in WritesNow(s, k, M).review
<1> DEFINE now == WritesNow(s, k, M)
           h == [hash EXCEPT ![s] = k]
           r == [t \in Source |-> RoleAfter(s, M, t)]
           f == [released EXCEPT ![s] = ReleasedAfter(s, M)]
<1>1. /\ now.role = r
      /\ now.status = [d \in Doc |-> StatusFor(SourcesOf(d), h, r, f)]
      /\ now.review = {d \in Doc : \E t \in SourcesOf(d) :
                                     r[t] = "duplicate" /\ ~f[t]}
  BY DEF WritesNow
<1>2. /\ now'.role = r'
      /\ now'.status = [d \in Doc |-> StatusFor(SourcesOf(d), h, r, f)]'
      /\ now'.review = {d \in Doc : \E t \in SourcesOf(d) :
                                      r[t] = "duplicate" /\ ~f[t]}'
  BY DEF WritesNow
<1>3. \A t \in Source : DocOf[t] \in D => r'[t] = r[t]
  BY DEF RoleAfter, SourceRole, MatchRole, UploadedFirst
<1>4. \A t \in Source : DocOf[t] \in D => h'[t] = h[t] /\ f'[t] = f[t]
  BY DEF ReleasedAfter, SourceRole, UploadedFirst, TypeOK
<1>5. \A d \in D : /\ SourcesOf(d)' = SourcesOf(d)
                   /\ \A t \in SourcesOf(d) : t \in Source /\ DocOf[t] \in D
  BY DEF SourcesOf
<1> HIDE DEF h, r, f, now
<1>6. \A d \in D : StatusFor(SourcesOf(d), h, r, f)'
                   = StatusFor(SourcesOf(d), h, r, f)
  BY <1>3, <1>4, <1>5 DEF StatusFor
<1>7. QED
  <2>1. \A t \in {s} \cup M : now'.role[t] = now.role[t]
    BY <1>1, <1>2, <1>3
  <2>2. \A d \in D : now'.status[d] = now.status[d]
    BY <1>1, <1>2, <1>6
  <2>3. \A d \in D : d \in now'.review <=> d \in now.review
    BY <1>1, <1>2, <1>3, <1>4, <1>5
  <2>4. QED
    BY <2>1, <2>2, <2>3 DEF now

\* No step makes what a transaction computed stale.
LEMMA CurrentStep ==
  ASSUME TxIInv, [TxNext]_txVars
  PROVE  ComputedIsCurrent'
<1> DEFINE Current(x, s, k, M, now) ==
             /\ row[s] = "live" /\ hash[s] = "none"
             /\ x.matched = M
             /\ \A t \in {s} \cup M : x.writes.role[t] = now.role[t]
             /\ \A d \in x.touched : x.writes.status[d] = now.status[d]
             /\ \A d \in x.touched : d \in x.writes.review <=> d \in now.review
<1> SUFFICES ASSUME NEW w \in Worker, tx'[w].pc = "computed",
                    NEW s, s = tx'[w].src, NEW k, k = tx'[w].kind,
                    NEW M, M = Confident(s, Candidates(s, k)')
             PROVE  Current(tx[w], s, k, M, WritesNow(s, k, M))'
  BY DEF ComputedIsCurrent, Confident
<1>1. /\ TypeOK /\ TypeOK' /\ tx \in [Worker -> TxState]
      /\ tx' \in [Worker -> TxState]
  BY TxTypeStep DEF TxIInv, IInv, TxTypeOK
<1>2. s \in Source /\ k \in Hash /\ tx'[w].touched \in SUBSET Doc
  BY <1>1 DEF TxState
<1>3. M \in SUBSET Source
  BY DEF Candidates, Confident
<1>4. CASE tx'[w] = tx[w]
  <2>1. /\ tx[w].pc = "computed" /\ tx[w].src = s /\ tx[w].kind = k
    BY <1>4
  <2>2. Current(tx[w], s, k, Confident(s, Candidates(s, k)),
                WritesNow(s, k, Confident(s, Candidates(s, k))))
    BY <2>1 DEF TxIInv, ComputedIsCurrent
  <2>3. /\ tx[w].docs = tx[w].touched
        /\ tx[w].touched = {DocOf[s]} \cup {DocOf[t] : t \in tx[w].found}
    BY <2>1 DEF TxIInv, TxShape
  <2>4. \A t \in Source : DocOf[t] \in tx[w].docs =>
          /\ row'[t] = row[t] /\ hash'[t] = hash[t]
          /\ role'[t] = role[t] /\ released'[t] = released[t]
    BY <1>4, <2>1, LockedRowsStay
  <2>5. Candidates(s, k) \subseteq tx[w].found
    BY <2>1 DEF TxIInv, FoundComplete
  <2>6. Candidates(s, k)' = Candidates(s, k)
    <3>1. Candidates(s, k)' \subseteq Candidates(s, k)
      BY <1>4, <2>1, NoNewCandidate
    <3>2. \A t \in Candidates(s, k) : t \in Source /\ DocOf[t] \in tx[w].docs
      BY <2>3, <2>5 DEF Candidates
    <3>3. QED
      BY <2>4, <3>1, <3>2 DEF Candidates
  <2>7. M = Confident(s, Candidates(s, k)) /\ M \subseteq tx[w].found
    BY <2>5, <2>6 DEF Confident
  <2>8. Current(tx[w], s, k, M, WritesNow(s, k, M))
    BY <2>2, <2>7
  <2>9. DocOf[s] \in tx[w].touched /\ \A t \in M : DocOf[t] \in tx[w].touched
    BY <2>3, <2>7
  <2>10. row'[s] = "live" /\ hash'[s] = "none"
    BY <1>2, <2>3, <2>4, <2>8
  <2>11. /\ \A t \in {s} \cup M :
              WritesNow(s, k, M)'.role[t] = WritesNow(s, k, M).role[t]
         /\ \A d \in tx[w].touched :
              /\ WritesNow(s, k, M)'.status[d] = WritesNow(s, k, M).status[d]
              /\ d \in WritesNow(s, k, M)'.review
                   <=> d \in WritesNow(s, k, M).review
    BY <1>1, <1>2, <1>3, <1>4, <2>3, <2>4, <2>9, SameWrites
  <2>12. QED
    BY <1>4, <2>8, <2>10, <2>11
<1>5. CASE Compute(w)
  <2> DEFINE C == {t \in tx[w].found : row[t] = "live"}
  <2>1. /\ tx[w].pc = "docs" /\ row[tx[w].src] = "live"
        /\ hash[tx[w].src] = "none" /\ UNCHANGED vars
    BY <1>5 DEF Compute
  <2>2. /\ tx'[w].src = tx[w].src /\ tx'[w].kind = tx[w].kind
        /\ tx'[w].matched = Confident(tx[w].src, C)
        /\ tx'[w].writes = WritesNow(tx[w].src, tx[w].kind,
                                     Confident(tx[w].src, C))
    <3>1. PICK N : N = Confident(tx[w].src, C)
      OBVIOUS
    <3>2. QED
      BY <1>1, <1>5, <3>1, ComputeTx DEF TxIInv
  <2>3. C = Candidates(s, k)
    <3>1. Candidates(s, k) \subseteq tx[w].found
      BY <2>1, <2>2 DEF TxIInv, FoundComplete
    <3>2. \A t \in tx[w].found :
            t \in Source /\ k = "file" /\ hash[t] = "file" /\ <<s, t>> \in Near
      BY <1>1, <2>1, <2>2 DEF TxIInv, TxShape, TxState
    <3>3. QED
      BY <3>1, <3>2 DEF Candidates
  <2>4. Candidates(s, k)' = Candidates(s, k)
    BY <2>1 DEF Candidates, vars
  <2>5. M = Confident(s, C)
    BY <2>3, <2>4
  <2>6. /\ \A t \in {s} \cup M :
             WritesNow(s, k, M)'.role[t] = WritesNow(s, k, M).role[t]
        /\ \A d \in Doc :
             /\ WritesNow(s, k, M)'.status[d] = WritesNow(s, k, M).status[d]
             /\ d \in WritesNow(s, k, M)'.review
                  <=> d \in WritesNow(s, k, M).review
    <3>1. \A t \in Source : /\ row'[t] = row[t] /\ hash'[t] = hash[t]
                            /\ role'[t] = role[t] /\ released'[t] = released[t]
      BY <2>1 DEF vars
    <3>2. DocOf[s] \in Doc /\ \A t \in M : DocOf[t] \in Doc
      BY <1>2, <1>3, DocOfAssumption
    <3>3. QED
      BY <1>1, <1>2, <1>3, <3>1, <3>2, SameWrites
  <2>7. row'[s] = "live" /\ hash'[s] = "none"
    BY <2>1, <2>2 DEF vars
  <2>8. tx'[w].matched = M /\ tx'[w].writes = WritesNow(s, k, M)
    BY <2>2, <2>5
  <2>9. QED
    BY <1>2, <2>6, <2>7, <2>8
<1>6. ASSUME NEW v \in Worker,
             (\E r \in Source, l \in Hash : Begin(v, r, l)) \/ Advance(v)
             \/ Fail(v),
             v # w
      PROVE  tx'[w] = tx[w]
  BY <1>6, WorkerStep DEF TxIInv
<1>7. ASSUME NEW r \in Source, NEW l \in Hash, Begin(w, r, l)
      PROVE  FALSE
  BY <1>7, BeginTx DEF TxIInv
<1>8. ASSUME NEW x \in Key, LockKey(w, x)
      PROVE  FALSE
  BY <1>8, LockKeyTx DEF TxIInv
<1>9. ASSUME NEW d \in Doc, LockDoc(w, d)
      PROVE  FALSE
  BY <1>9, LockDocTx DEF TxIInv
<1>10. ~ReadMatches(w)
  BY ReadMatchesTx DEF TxIInv
<1>11. ~Commit(w) /\ ~GiveUp(w) /\ ~Fail(w)
  BY EndTx DEF TxIInv
<1> HIDE DEF Current
<1>12. QED
  BY <1>4, <1>5, <1>6, <1>7, <1>8, <1>9, <1>10, <1>11
     DEF TxNext, Advance, txVars, OnDocument

-----------------------------------------------------------------------------
\* The initial state satisfies the invariant.
LEMMA TxInitIInv == TxInit => TxIInv
<1> SUFFICES ASSUME TxInit PROVE TxIInv
  OBVIOUS
<1>1. IInv
  BY InitIInv DEF TxInit
<1>2. TxTypeOK
  BY <1>1, IdleType DEF TxInit, TxTypeOK, IInv
<1>3. \A w \in Worker :
        tx[w].pc = "idle" /\ tx[w].keys = {} /\ tx[w].docs = {}
  BY DEF TxInit, Idle
<1>4. QED
  BY <1>1, <1>2, <1>3
     DEF TxIInv, Exclusive, TxShape, FoundComplete, ComputedIsCurrent

\* Every step preserves it.
LEMMA TxStepIInv == TxIInv /\ [TxNext]_txVars => TxIInv'
<1> SUFFICES ASSUME TxIInv, [TxNext]_txVars PROVE TxIInv'
  OBVIOUS
<1>1. IInv'
  BY StepRefines, StepIInv DEF TxIInv
<1>2. QED
  BY <1>1, TxTypeStep, ExclusiveStep, TxShapeStep, FoundCompleteStep,
     CurrentStep DEF TxIInv

\* The inductive invariant of the interleaved transactions.
THEOREM TxInductive == TxSpec => []TxIInv
<1>1. QED
  BY TxInitIInv, TxStepIInv, PTL DEF TxSpec

\* Advisory locks and row locks are each held by one transaction at a time.
THEOREM LocksExclude == TxSpec => []Exclusive
<1>1. TxIInv => Exclusive
  BY DEF TxIInv
<1>2. QED
  BY <1>1, TxInductive, PTL

\* The match queries, read before the documents are locked, miss no source
\* that another worker fingerprints in the meantime.
THEOREM NothingMissed == TxSpec => []FoundComplete
<1>1. TxIInv => FoundComplete
  BY DEF TxIInv
<1>2. QED
  BY <1>1, TxInductive, PTL

\* Roles and statuses computed in a transaction are still right when it
\* commits, whatever uploads, reviews and other fingerprints ran meanwhile.
THEOREM NothingStale == TxSpec => []ComputedIsCurrent
<1>1. TxIInv => ComputedIsCurrent
  BY DEF TxIInv
<1>2. QED
  BY <1>1, TxInductive, PTL

\* FinalizeFingerprint under READ COMMITTED, with its locks taken one by one,
\* implements the atomic Finalize: all that is proved of Documents holds.
THEOREM Refinement == TxSpec => ImplementsDocuments
<1>1. TxInit => Init
  BY DEF TxInit
<1>2. TxIInv /\ [TxNext]_txVars => [Next]_vars
  BY StepRefines
<1>3. QED
  BY <1>1, <1>2, TxInductive, PTL DEF TxSpec, ImplementsDocuments, Spec

-----------------------------------------------------------------------------
(* Announcing changes no table, and no document waits for a reviewer whom    *)
(* nobody asks, for any number of documents, sources and failures.           *)

\* A source is withheld only as a duplicate.
WithheldIsDuplicate == \A s \in Source : ~released[s] => role[s] = "duplicate"

\* Each step is a transaction of Documents, or changes no table.
LEMMA StepOfDocuments == [ANext]_aVars => [Next]_vars
<1> SUFFICES ASSUME [ANext]_aVars PROVE [Next]_vars
  OBVIOUS
<1>1. ASSUME NEW s \in Source, NEW k \in Hash, NEW T \in SUBSET Doc,
             Publish(s, k, T) \/ PublishUnheard(s, k, T)
      PROVE  Next
  BY <1>1 DEF Publish, PublishUnheard, Next
<1>2. CASE Rest
  BY <1>2 DEF Rest, Next
<1>3. ASSUME NEW s \in Source, AskForReview(s) \/ AskFails(s)
      PROVE  UNCHANGED vars
  BY <1>3 DEF AskForReview, AskFails
<1>4. CASE UNCHANGED aVars
  BY <1>4 DEF aVars
<1>5. QED
  BY <1>1, <1>2, <1>3, <1>4 DEF ANext

\* The tables behave as Documents says, whoever is told of them.
THEOREM AnnounceImplementsDocuments == ASpec => Spec
<1>1. AInit => Init
  BY DEF AInit
<1>2. QED
  BY <1>1, StepOfDocuments, PTL DEF ASpec, Spec

\* Publishing a fingerprint withholds nothing but duplicates: a duplicate stays one.
LEMMA FinalizeWithholds ==
  ASSUME TypeOK, WithheldIsDuplicate, NEW s \in Source, NEW k \in Hash,
         NEW T \in SUBSET Doc, Finalize(s, k, T)
  PROVE  WithheldIsDuplicate'
<1> DEFINE M == Confident(s, Candidates(s, k))
<1>1. ASSUME NEW t \in Source, ~released'[t]
      PROVE  role'[t] = "duplicate"
  <2>1. CASE t = s
    BY <1>1, <2>1 DEF Finalize, WriteFingerprint, WritesNow, RoleAfter, ReleasedAfter, TypeOK
  <2>2. CASE t # s
    <3>1. released'[t] = released[t]
      BY <2>2 DEF Finalize, WriteFingerprint, TypeOK
    <3>2. role[t] = "duplicate"
      BY <1>1, <3>1 DEF WithheldIsDuplicate
    <3>3. role'[t] = "duplicate"
      BY <2>2, <3>2 DEF Finalize, WriteFingerprint, WritesNow, RoleAfter, MatchRole
    <3>4. QED
      BY <3>3
  <2>3. QED
    BY <2>1, <2>2
<1>2. QED
  BY <1>1 DEF WithheldIsDuplicate

\* So does every transaction.
LEMMA WithheldStep ==
  ASSUME TypeOK, WithheldIsDuplicate, [Next]_vars
  PROVE  WithheldIsDuplicate'
<1>1. ASSUME NEW d \in Doc, Approve(d)
      PROVE  WithheldIsDuplicate'
  BY <1>1 DEF Approve, WithheldIsDuplicate
<1>2. ASSUME UNCHANGED <<role, released>>
      PROVE  WithheldIsDuplicate'
  BY <1>2 DEF WithheldIsDuplicate
<1>3. ASSUME NEW d \in Doc, NEW S \in SUBSET Source,
             InsertDocument(d, S) \/ InsertSources(d, S)
      PROVE  UNCHANGED <<role, released>>
  BY <1>3 DEF InsertDocument, InsertSources
<1>4. ASSUME NEW d \in Doc, RejectPending(d) \/ Delete(d)
      PROVE  UNCHANGED <<role, released>>
  BY <1>4 DEF RejectPending, Delete
<1>5. CASE UNCHANGED vars
  BY <1>2, <1>5 DEF vars
<1>6. QED
  BY <1>1, <1>2, <1>3, <1>4, <1>5, FinalizeWithholds DEF Next

\* A fingerprint makes no document wait but the one of its own source.
LEMMA FinalizeWaiting ==
  ASSUME IInv, IInv', WithheldIsDuplicate, NEW s \in Source, NEW k \in Hash,
         NEW T \in SUBSET Doc, Finalize(s, k, T)
  PROVE  Waiting' \subseteq Waiting \cup {DocOf[s]}
<1> SUFFICES ASSUME NEW d \in Waiting', d # DocOf[s], d \notin Waiting
             PROVE  FALSE
  OBVIOUS
<1>1. d \in Doc /\ doc'[d] = "live" /\ status'[d] = "pending_review"
  BY DEF Waiting
<1>2. /\ doc' = doc /\ row' = row /\ hash' = [hash EXCEPT ![s] = k]
      /\ \A t \in Source \ {s} : released'[t] = released[t]
  BY DEF Finalize, WriteFingerprint, IInv, TypeOK
<1>3. PICK t \in SourcesOf(d)' : Held(t)'
  BY <1>1 DEF IInv, StatusExact, StatusOf, StatusFor, Held
<1>4. t \in SourcesOf(d) /\ t # s /\ t \in Source
  BY <1>2, <1>3 DEF SourcesOf
<1>5. Held(t)
  BY <1>2, <1>3, <1>4 DEF Held, WithheldIsDuplicate
<1>6. status[d] \in {"processing", "pending_review"}
  BY <1>4, <1>5, HeldIsPending DEF IInv, SourcesOf
<1>7. status[d] = "processing"
  BY <1>1, <1>2, <1>6 DEF Waiting
<1>8. PICK u \in SourcesOf(d) : hash[u] = "none"
  BY <1>1, <1>2, <1>5, <1>4, <1>7 DEF IInv, StatusExact, StatusOf, StatusFor
<1>9. u # s /\ u \in Source /\ u \in SourcesOf(d)' /\ hash'[u] = "none"
  BY <1>2, <1>8 DEF SourcesOf, IInv, TypeOK
<1>10. status'[d] = "processing"
  BY <1>1, <1>9 DEF IInv, StatusExact, StatusOf, StatusFor
<1>11. QED
  BY <1>1, <1>10

\* Uploads, reviews and deletions make no document wait.
LEMMA RestWaiting ==
  ASSUME TypeOK, Rest
  PROVE  Waiting' \subseteq Waiting
<1>1. ASSUME NEW d \in Doc, NEW S \in SUBSET Source,
             InsertDocument(d, S) \/ InsertSources(d, S)
      PROVE  Waiting' \subseteq Waiting
  BY <1>1 DEF InsertDocument, InsertSources, Waiting, TypeOK
<1>2. ASSUME NEW d \in Doc, Approve(d) \/ RejectPending(d) \/ Delete(d)
      PROVE  Waiting' \subseteq Waiting
  <2>1. \A D \in SUBSET Source : StatusAfterReview(D, hash, role) # "pending_review"
    BY DEF StatusAfterReview, StatusFor
  <2>2. CASE Approve(d)
    BY <2>1, <2>2 DEF Approve, SourcesOf, Waiting, TypeOK
  <2>3. CASE RejectPending(d)
    BY <2>1, <2>3 DEF RejectPending, SourcesOf, Waiting, TypeOK
  <2>4. CASE Delete(d)
    BY <2>4 DEF Delete, Waiting, TypeOK
  <2>5. QED
    BY <1>2, <2>2, <2>3, <2>4
<1>3. QED
  BY <1>1, <1>2 DEF Rest

\* Every step keeps the reviewer asked, or somebody who will ask.
LEMMA AskedStep ==
  ASSUME IInv, IInv', WithheldIsDuplicate, AskedForReview, [ANext]_aVars
  PROVE  AskedForReview'
<1>1. ASSUME NEW s \in Source, NEW k \in Hash, NEW T \in SUBSET Doc, Publish(s, k, T)
      PROVE  AskedForReview'
  BY <1>1, FinalizeWaiting DEF Publish, Heard, AskedForReview
<1>2. ASSUME NEW s \in Source, NEW k \in Hash, NEW T \in SUBSET Doc,
             PublishUnheard(s, k, T)
      PROVE  AskedForReview'
  BY <1>2, FinalizeWaiting DEF PublishUnheard, Heard, AskedForReview
<1>3. ASSUME NEW s \in Source, AskForReview(s)
      PROVE  AskedForReview'
  BY <1>3 DEF AskForReview, Heard, AskedForReview, Waiting, vars
<1>4. ASSUME NEW s \in Source, AskFails(s)
      PROVE  AskedForReview'
  BY <1>4 DEF AskFails, Heard, AskedForReview, Waiting, vars
<1>5. CASE Rest
  BY <1>5, RestWaiting DEF Rest, Heard, AskedForReview, IInv
<1>6. CASE UNCHANGED aVars
  BY <1>6 DEF aVars, vars, notes, AskedForReview, Waiting
<1>7. QED
  BY <1>1, <1>2, <1>3, <1>4, <1>5, <1>6 DEF ANext

\* No document waits for a reviewer nobody asks, unless an announcement failed.
THEOREM ReviewIsAsked == ASpec => []AskedForReview
<1>1. AInit => WithheldIsDuplicate /\ AskedForReview
  BY DEF AInit, Init, WithheldIsDuplicate, AskedForReview, Waiting
<1>2. IInv => TypeOK
  BY DEF IInv
<1>3. /\ IInv /\ IInv' /\ WithheldIsDuplicate /\ AskedForReview /\ [ANext]_aVars
      => WithheldIsDuplicate' /\ AskedForReview'
  BY <1>2, StepOfDocuments, WithheldStep, AskedStep
<1>4. ASpec => []IInv
  BY AnnounceImplementsDocuments, Inductive, PTL
<1>5. QED
  BY <1>1, <1>3, <1>4, PTL DEF ASpec
=============================================================================
