-------------------------- MODULE DocumentsProofs --------------------------
(***************************************************************************)
(* Proofs about Documents, for any set of documents and sources, any       *)
(* upload order and any symmetric relation of duplicates.                  *)
(***************************************************************************)
EXTENDS Documents, TLAPS

\* The status of a document depends on the columns of its own sources only.
LEMMA StatusCongruence ==
  ASSUME NEW D, NEW h, NEW r, NEW f, NEW h2, NEW r2, NEW f2,
         \A s \in D : h[s] = h2[s] /\ r[s] = r2[s] /\ f[s] = f2[s]
  PROVE  StatusFor(D, h, r, f) = StatusFor(D, h2, r2, f2)
BY DEF StatusFor

\* The recomputed status column has a status in it.
LEMMA StatusForType ==
  ASSUME NEW D, NEW h, NEW r, NEW f
  PROVE  StatusFor(D, h, r, f) \in Status
BY DEF StatusFor, Status

\* Types of what a fingerprint transaction computes.
LEMMA WritesNowType ==
  ASSUME TypeOK, NEW s \in Source, NEW k \in Hash, NEW M \in SUBSET Source
  PROVE  /\ WritesNow(s, k, M).role \in [Source -> Role]
         /\ WritesNow(s, k, M).status \in [Doc -> Status]
         /\ WritesNow(s, k, M).review \in SUBSET Doc
<1>1. \A t \in Source : RoleAfter(s, M, t) \in Role
  BY DEF RoleAfter, SourceRole, MatchRole, Role, TypeOK
<1>2. QED
  BY <1>1, StatusForType DEF WritesNow

\* Publishing a fingerprint keeps the types.
LEMMA FinalizeType ==
  ASSUME TypeOK, NEW s \in Source, NEW k \in Hash, NEW T \in SUBSET Doc,
         Finalize(s, k, T)
  PROVE  TypeOK'
<1> DEFINE M == Confident(s, Candidates(s, k))
           W == WritesNow(s, k, M)
<1>1. M \subseteq Source
  BY DEF Confident, Candidates
<1>2. WriteFingerprint(s, k, M, T, W)
  BY DEF Finalize
<1>3. W.role \in [Source -> Role] /\ W.status \in [Doc -> Status]
  BY <1>1, WritesNowType
<1>4. ReleasedAfter(s, M) \in BOOLEAN
  BY DEF ReleasedAfter
<1> HIDE DEF M, W
<1>5. pairs' \subseteq Source \X Source
  BY <1>1, <1>2 DEF WriteFingerprint, TypeOK
<1>6. hash' \in [Source -> Hash] /\ role' \in [Source -> Role]
  BY <1>2, <1>3 DEF WriteFingerprint, TypeOK
<1>7. released' \in [Source -> BOOLEAN]
  BY <1>2, <1>4 DEF WriteFingerprint, TypeOK
<1>8. /\ status' \in [Doc -> Status] /\ notified' \in [Doc -> BOOLEAN]
      /\ requested' \in [Doc -> BOOLEAN]
  BY <1>2, <1>3 DEF WriteFingerprint, TypeOK
<1>9. QED
  BY <1>2, <1>5, <1>6, <1>7, <1>8 DEF WriteFingerprint, TypeOK

\* So do reviews and deletions.
LEMMA ReviewType ==
  ASSUME TypeOK, NEW d \in Doc, Approve(d) \/ RejectPending(d) \/ Delete(d)
  PROVE  TypeOK'
<1>1. \A D, h, r : StatusAfterReview(D, h, r) \in Status
  BY StatusForType DEF StatusAfterReview
<1>2. CASE Approve(d)
  BY <1>1, <1>2 DEF Approve, TypeOK, SourcesOf
<1>3. CASE RejectPending(d)
  BY <1>1, <1>3 DEF RejectPending, Rejected, DropSources, TypeOK, RowState
<1>4. CASE Delete(d)
  BY <1>4 DEF Delete, DropSources, TypeOK, RowState
<1>5. QED
  BY <1>2, <1>3, <1>4

\* Every transaction keeps the types.
LEMMA TypeStep == TypeOK /\ [Next]_vars => TypeOK'
<1> SUFFICES ASSUME TypeOK, [Next]_vars PROVE TypeOK'
  OBVIOUS
<1>1. ASSUME NEW d \in Doc, NEW S \in SUBSET Source,
             InsertDocument(d, S) \/ InsertSources(d, S)
      PROVE  TypeOK'
  <2>1. CASE InsertDocument(d, S)
    BY <2>1 DEF InsertDocument, TypeOK, RowState, Status
  <2>2. CASE InsertSources(d, S)
    BY <2>2 DEF InsertSources, TypeOK, RowState, Status
  <2>3. QED
    BY <1>1, <2>1, <2>2
<1>2. CASE UNCHANGED vars
  BY <1>2 DEF vars, TypeOK
<1>3. QED
  BY <1>1, <1>2, FinalizeType, ReviewType DEF Next

\* Every column keeps its type.
THEOREM TypeCorrect == Spec => []TypeOK
<1>1. Init => TypeOK
  BY DEF Init, TypeOK, RowState, Status, Hash, Role
<1>2. QED
  BY <1>1, TypeStep, PTL DEF Spec

-----------------------------------------------------------------------------
(* RowsConsistent.                                                         *)

\* Insertions keep the columns of rows consistent.
LEMMA InsertRows ==
  ASSUME TypeOK, RowsConsistent, NEW d \in Doc, NEW S \in SUBSET Source,
         InsertDocument(d, S) \/ InsertSources(d, S)
  PROVE  RowsConsistent'
BY DocOfAssumption
   DEF TypeOK, RowsConsistent, InsertDocument, InsertSources, Upload

\* So does publishing a fingerprint.
LEMMA FinalizeRows ==
  ASSUME TypeOK, RowsConsistent, NEW s \in Source, NEW k \in Hash,
         NEW T \in SUBSET Doc, Finalize(s, k, T)
  PROVE  RowsConsistent'
<1> DEFINE M == Confident(s, Candidates(s, k))
           W == WritesNow(s, k, M)
<1>1. /\ row[s] = "live" /\ hash[s] = "none" /\ k # "none"
      /\ WriteFingerprint(s, k, M, T, W)
  BY DEF Finalize
<1>2. \A t \in M : t \in Source /\ hash[t] = "file"
  BY DEF Confident, Candidates
<1> HIDE DEF M, W
<1>3. \A t \in Source : hash[t] # "none" => hash'[t] # "none"
  BY <1>1 DEF WriteFingerprint, TypeOK
<1>4. \A t \in Source : hash'[t] = "none" =>
        /\ t # s /\ t \notin M /\ hash[t] = "none"
        /\ role'[t] = role[t] /\ released'[t] = released[t]
  BY <1>1, <1>2 DEF WriteFingerprint, TypeOK
<1>5. \A d \in Doc : doc[d] = "new" => ~notified'[d]
  BY <1>1 DEF WriteFingerprint, TypeOK, RowsConsistent
<1>6. \A t \in reviewed : hash'[t] # "none" /\ released'[t]
  BY <1>1, <1>3 DEF WriteFingerprint, TypeOK, RowsConsistent
<1>7. \A t \in Source : row[t] = "new" => hash'[t] = "none"
  BY <1>1 DEF WriteFingerprint, TypeOK, RowsConsistent
<1>8. doc' = doc /\ row' = row /\ reviewed' = reviewed
  BY <1>1 DEF WriteFingerprint
<1>9. QED
  BY <1>4, <1>5, <1>6, <1>7, <1>8 DEF RowsConsistent

\* A document that is pending has been fingerprinted completely.
LEMMA PendingIsHashed ==
  ASSUME TypeOK, StatusExact, NEW d \in Doc, doc[d] = "live",
         status[d] = "pending_review"
  PROVE  /\ \A s \in SourcesOf(d) : hash[s] # "none"
         /\ \E s \in SourcesOf(d) : Held(s)
BY DEF StatusExact, StatusOf, StatusFor, Held

\* So do reviews and deletions.
LEMMA ReviewRows ==
  ASSUME TypeOK, RowsConsistent, StatusExact, NEW d \in Doc,
         Approve(d) \/ RejectPending(d) \/ Delete(d)
  PROVE  RowsConsistent'
<1>1. CASE Approve(d)
  <2>1. \A s \in SourcesOf(d) : s \in Source /\ hash[s] # "none"
    BY <1>1, PendingIsHashed DEF Approve, SourcesOf
  <2>2. QED
    BY <1>1, <2>1 DEF Approve, TypeOK, RowsConsistent
<1>2. CASE RejectPending(d)
  <2> DEFINE drop == {s \in SourcesOf(d) : ~released[s]}
  <2>1. /\ row' = [s \in Source |-> IF s \in drop THEN "gone" ELSE row[s]]
        /\ UNCHANGED <<notified, hash, role, released, reviewed>>
        /\ \/ doc' = doc
           \/ SourcesOf(d) \ drop = {} /\ doc' = [doc EXCEPT ![d] = "gone"]
    BY <1>2 DEF RejectPending, Rejected, DropSources
  <2>2. \A s \in drop : s \in Source /\ row[s] = "live"
    BY DEF SourcesOf
  <2>3. \A s \in Source : row'[s] = "live" =>
          row[s] = "live" /\ doc'[DocOf[s]] = "live"
    BY <2>1, DocOfAssumption DEF TypeOK, RowsConsistent, SourcesOf
  <2>4. \A e \in Doc : doc'[e] = "new" => doc[e] = "new"
    BY <2>1 DEF TypeOK
  <2>5. doc[d] = "live"
    BY <1>2 DEF RejectPending, Rejected
  <2>6. \A s \in Source : row'[s] # "new" => doc'[DocOf[s]] # "new"
    BY <2>1, <2>2, <2>5, DocOfAssumption DEF TypeOK, RowsConsistent, SourcesOf
  <2>7. \A s \in Source : row'[s] = "new" => row[s] = "new"
    BY <2>1
  <2>8. QED
    BY <2>1, <2>3, <2>4, <2>6, <2>7 DEF RowsConsistent
<1>3. CASE Delete(d)
  BY <1>3, DocOfAssumption
     DEF Delete, DropSources, TypeOK, RowsConsistent, SourcesOf
<1>4. QED
  BY <1>1, <1>2, <1>3

-----------------------------------------------------------------------------
(* StatusExact.                                                            *)

\* Documents whose sources a step leaves alone keep an exact status.
LEMMA UntouchedStatus ==
  ASSUME NEW d \in Doc, StatusExact, doc[d] = "live",
         status'[d] = status[d],
         SourcesOf(d)' = SourcesOf(d),
         \A s \in SourcesOf(d) : /\ hash'[s] = hash[s] /\ role'[s] = role[s]
                                 /\ released'[s] = released[s]
  PROVE  SourcesOf(d)' # {} /\ status'[d] = StatusOf(d)'
<1>1. StatusFor(SourcesOf(d), hash, role, released)
        = StatusFor(SourcesOf(d), hash', role', released')
  BY StatusCongruence
<1>2. StatusOf(d)' = StatusFor(SourcesOf(d)', hash', role', released')
  BY DEF StatusOf, StatusFor
<1>3. QED
  BY <1>1, <1>2 DEF StatusExact, StatusOf

\* Insertions keep the statuses exact.
LEMMA InsertStatus ==
  ASSUME TypeOK, RowsConsistent, StatusExact, NEW d \in Doc,
         NEW S \in SUBSET Source, InsertDocument(d, S) \/ InsertSources(d, S)
  PROVE  StatusExact'
<1>1. /\ S # {} /\ \A s \in S : row[s] = "new" /\ DocOf[s] = d
      /\ row' = [s \in Source |-> IF s \in S THEN "live" ELSE row[s]]
      /\ status' = [status EXCEPT ![d] = "processing"]
      /\ UNCHANGED <<hash, role, released>>
      /\ doc' = doc \/ doc' = [doc EXCEPT ![d] = "live"]
  BY DEF InsertDocument, InsertSources, Upload
<1> SUFFICES ASSUME NEW e \in Doc, doc'[e] = "live"
             PROVE  SourcesOf(e)' # {} /\ status'[e] = StatusOf(e)'
  BY DEF StatusExact
<1>2. CASE e = d
  <2>1. PICK s \in S : s \in SourcesOf(e)' /\ hash'[s] = "none"
    BY <1>1, <1>2 DEF SourcesOf, RowsConsistent
  <2>2. StatusOf(e)' = "processing"
    BY <2>1 DEF StatusOf, StatusFor
  <2>3. QED
    BY <1>1, <1>2, <2>1, <2>2 DEF TypeOK
<1>3. CASE e # d
  <2>1. SourcesOf(e)' = SourcesOf(e)
    BY <1>1, <1>3 DEF SourcesOf
  <2>2. doc[e] = "live" /\ status'[e] = status[e]
    BY <1>1, <1>3 DEF TypeOK
  <2>3. QED
    BY <1>1, <2>1, <2>2, UntouchedStatus
<1>4. QED
  BY <1>2, <1>3

\* So does publishing a fingerprint, for every document it touches.
LEMMA FinalizeStatus ==
  ASSUME TypeOK, RowsConsistent, StatusExact, NEW s \in Source,
         NEW k \in Hash, NEW T \in SUBSET Doc, Finalize(s, k, T)
  PROVE  StatusExact'
<1> DEFINE M == Confident(s, Candidates(s, k))
           W == WritesNow(s, k, M)
           f == [released EXCEPT ![s] = ReleasedAfter(s, M)]
<1>1. /\ WriteFingerprint(s, k, M, T, W) /\ DocOf[s] \in T
      /\ \A t \in M : t \in Source /\ DocOf[t] \in T
  BY DEF Finalize, Confident, Candidates
<1>2. W.role \in [Source -> Role]
  BY WritesNowType DEF Confident, Candidates
<1>3. \A t \in Source : t # s /\ t \notin M => W.role[t] = role[t]
  BY DEF WritesNow, RoleAfter
<1>4. \A d \in Doc : W.status[d] = StatusFor(SourcesOf(d),
                                     [hash EXCEPT ![s] = k], W.role, f)
  BY DEF WritesNow
<1> HIDE DEF M, W, f
<1>5. /\ hash' = [hash EXCEPT ![s] = k]
      /\ role' = W.role
      /\ released' = f
      /\ doc' = doc /\ row' = row
  BY <1>1, <1>2, <1>3 DEF WriteFingerprint, TypeOK, f
<1> SUFFICES ASSUME NEW d \in Doc, doc[d] = "live"
             PROVE  SourcesOf(d)' # {} /\ status'[d] = StatusOf(d)'
  BY <1>5 DEF StatusExact
<1>6. SourcesOf(d)' = SourcesOf(d)
  BY <1>5 DEF SourcesOf
<1>7. CASE d \in T
  <2>1. status'[d] = W.status[d]
    BY <1>1, <1>7 DEF WriteFingerprint
  <2>2. StatusOf(d)' = StatusFor(SourcesOf(d)', hash', role', released')
    BY DEF StatusOf, StatusFor
  <2>3. QED
    BY <1>4, <1>5, <1>6, <2>1, <2>2 DEF StatusExact
<1>8. CASE d \notin T
  <2>1. status'[d] = status[d]
    BY <1>1, <1>8 DEF WriteFingerprint
  <2>2. \A t \in SourcesOf(d) : t \in Source /\ t # s /\ t \notin M
    BY <1>1, <1>8 DEF SourcesOf
  <2>3. \A t \in SourcesOf(d) : /\ hash'[t] = hash[t] /\ role'[t] = role[t]
                                /\ released'[t] = released[t]
    BY <2>2, <1>1 DEF WriteFingerprint, TypeOK
  <2>4. QED
    BY <1>6, <2>1, <2>3, UntouchedStatus
<1>9. QED
  BY <1>7, <1>8

\* So do reviews and deletions.
LEMMA ReviewStatus ==
  ASSUME TypeOK, RowsConsistent, StatusExact, NEW d \in Doc,
         Approve(d) \/ RejectPending(d) \/ Delete(d)
  PROVE  StatusExact'
<1> DEFINE drop == {s \in SourcesOf(d) : ~released[s]}
           all == [s \in Source |-> TRUE]
<1>1. \A e \in Doc : e # d /\ doc'[e] = "live" =>
        /\ doc[e] = "live" /\ status'[e] = status[e]
        /\ SourcesOf(e)' = SourcesOf(e)
        /\ \A s \in SourcesOf(e) : /\ hash'[s] = hash[s] /\ role'[s] = role[s]
                                   /\ released'[s] = released[s]
  BY DEF Approve, RejectPending, Rejected, Delete, DropSources, SourcesOf, TypeOK
<1>2. \A e \in Doc : e # d /\ doc'[e] = "live" =>
        SourcesOf(e)' # {} /\ status'[e] = StatusOf(e)'
  BY <1>1, UntouchedStatus
<1>3. StatusOf(d)' = StatusFor(SourcesOf(d)', hash', role', released')
  BY DEF StatusOf, StatusFor
<1>4. CASE Approve(d)
  <2>1. SourcesOf(d)' = SourcesOf(d) /\ hash' = hash /\ role' = role
    BY <1>4 DEF Approve, SourcesOf
  <2>2. \A s \in SourcesOf(d) : released'[s] = all[s]
    BY <1>4 DEF Approve, SourcesOf
  <2>3. status'[d] = StatusFor(SourcesOf(d), hash, role, all)
    BY <1>4 DEF Approve, StatusAfterReview, TypeOK
  <2>4. StatusFor(SourcesOf(d), hash, role, all)
          = StatusFor(SourcesOf(d), hash, role, released')
    <3> HIDE DEF all
    <3> QED
      BY <2>2, StatusCongruence
  <2>5. status'[d] = StatusOf(d)'
    BY <1>3, <2>1, <2>3, <2>4
  <2>6. SourcesOf(d) # {}
    BY <1>4 DEF Approve, StatusExact
  <2>7. QED
    BY <1>2, <2>1, <2>5, <2>6 DEF StatusExact
<1>5. CASE RejectPending(d)
  <2>1. SourcesOf(d)' = SourcesOf(d) \ drop
    BY <1>5 DEF RejectPending, Rejected, DropSources, SourcesOf
  <2>2. CASE SourcesOf(d) \ drop = {}
    <3>1. doc'[d] = "gone"
      BY <1>5, <2>2 DEF RejectPending, Rejected, TypeOK
    <3>2. QED
      BY <1>2, <3>1 DEF StatusExact
  <2>3. CASE SourcesOf(d) \ drop # {}
    <3>1. status'[d] = StatusFor(SourcesOf(d) \ drop, hash, role, all)
      BY <1>5, <2>3 DEF RejectPending, Rejected, StatusAfterReview, TypeOK
    <3>2. hash' = hash /\ role' = role /\ released' = released
      BY <1>5 DEF RejectPending, Rejected
    <3>3. \A s \in SourcesOf(d) \ drop : released[s] = all[s]
      BY DEF SourcesOf, TypeOK
    <3>4. StatusFor(SourcesOf(d) \ drop, hash, role, all)
            = StatusFor(SourcesOf(d) \ drop, hash, role, released)
      <4> HIDE DEF all, drop
      <4> QED
        BY <3>3, StatusCongruence
    <3>5. status'[d] = StatusOf(d)'
      BY <1>3, <2>1, <3>1, <3>2, <3>4
    <3>6. QED
      BY <1>2, <2>1, <2>3, <3>5 DEF StatusExact
  <2>4. QED
    BY <2>2, <2>3
<1>6. CASE Delete(d)
  <2>1. doc'[d] = "gone"
    BY <1>6 DEF Delete, TypeOK
  <2>2. QED
    BY <1>2, <2>1 DEF StatusExact
<1>7. QED
  BY <1>4, <1>5, <1>6

-----------------------------------------------------------------------------
(* RolesSound and MatchTableExact.                                         *)

\* Of two sources one was uploaded first.
LEMMA UploadOrderTotal ==
  ASSUME NEW s \in Source, NEW t \in Source, s # t
  PROVE  UploadedFirst(s, t) <=> ~UploadedFirst(t, s)
BY RankAssumption DEF UploadedFirst

\* What a fingerprint does to the tables, for every row, in terms of the set
\* M of confident matches.
LEMMA FinalizeEffect ==
  ASSUME TypeOK, NEW s \in Source, NEW k \in Hash, NEW T \in SUBSET Doc,
         Finalize(s, k, T), NEW M, M = Confident(s, Candidates(s, k))
  PROVE  /\ row[s] = "live" /\ hash[s] = "none" /\ s \notin M
         /\ row' = row /\ pairs' = pairs \cup ({s} \X M) \cup (M \X {s})
         /\ hash'[s] = k /\ role'[s] = SourceRole(s, M)
         /\ \A t \in Source : t # s => hash'[t] = hash[t]
         /\ \A t \in M : role'[t] = MatchRole(s, t, role[t])
         /\ \A t \in Source : t # s /\ t \notin M => role'[t] = role[t]
         /\ \A t \in Source : t \in M <=>
              /\ k = "file" /\ row[t] = "live" /\ hash[t] = "file"
              /\ <<s, t>> \in Match
<1>1. WriteFingerprint(s, k, M, T, WritesNow(s, k, M))
      /\ row[s] = "live" /\ hash[s] = "none"
  BY DEF Finalize
<1>2. \A t \in Source : t \in M <=>
        k = "file" /\ row[t] = "live" /\ hash[t] = "file" /\ <<s, t>> \in Match
  BY MatchAssumption DEF Confident, Candidates
<1>3. s \notin M
  BY <1>1, <1>2
<1>4. \A t \in Source : WritesNow(s, k, M).role[t] = RoleAfter(s, M, t)
  BY DEF WritesNow
<1>5. M \subseteq Source
  BY DEF Confident, Candidates
<1>6. /\ row' = row /\ pairs' = pairs \cup ({s} \X M) \cup (M \X {s})
      /\ hash'[s] = k /\ \A t \in Source : t # s => hash'[t] = hash[t]
  BY <1>1 DEF WriteFingerprint, TypeOK
<1>7. \A t \in Source : role'[t] = RoleAfter(s, M, t)
  BY <1>1, <1>4 DEF WriteFingerprint, RoleAfter
<1>8. QED
  BY <1>1, <1>2, <1>3, <1>5, <1>6, <1>7 DEF RoleAfter

\* Publishing a fingerprint keeps the roles sound.
LEMMA FinalizeRoles ==
  ASSUME TypeOK, RowsConsistent, RolesSound, NEW s \in Source,
         NEW k \in Hash, NEW T \in SUBSET Doc, Finalize(s, k, T)
  PROVE  RolesSound'
<1> DEFINE M == Confident(s, Candidates(s, k))
           Partners(u) == {t \in Source : <<u, t>> \in Match /\ hash[t] = "file"}
           PartnersAfter(u) == {t \in Source : <<u, t>> \in Match
                                                /\ hash'[t] = "file"}
<1>1. /\ row[s] = "live" /\ hash[s] = "none" /\ s \notin M /\ row' = row
      /\ hash'[s] = k /\ role'[s] = SourceRole(s, M)
      /\ \A t \in Source : t # s => hash'[t] = hash[t]
      /\ \A t \in M : role'[t] = MatchRole(s, t, role[t])
      /\ \A t \in Source : t # s /\ t \notin M => role'[t] = role[t]
  BY FinalizeEffect
<1>2. \A t \in Source : t \in M <=>
        k = "file" /\ row[t] = "live" /\ hash[t] = "file" /\ <<s, t>> \in Match
  BY FinalizeEffect
<1>3. M \subseteq Source
  BY DEF Confident, Candidates
<1>4. \A t, u \in Source : <<t, u>> \in Match => <<u, t>> \in Match /\ t # u
  BY MatchAssumption DEF Symmetric
<1>5. \A u \in Source : Partners(u) \subseteq PartnersAfter(u)
  BY <1>1
<1> SUFFICES ASSUME NEW u \in Source, row[u] = "live"
             PROVE  /\ hash'[u] = "file" =>
                         \A t \in PartnersAfter(u) : row[t] = "live" =>
                           /\ role'[u] # "unique"
                           /\ UploadedFirst(t, u) => role'[u] = "duplicate"
                    /\ role'[u] # "unique" =>
                         hash'[u] = "file" /\ PartnersAfter(u) # {}
                    /\ role'[u] = "duplicate" =>
                         \E t \in PartnersAfter(u) : UploadedFirst(t, u)
  BY <1>1 DEF RolesSound, UploadedFirst
<1> HIDE DEF M
<1>6. /\ hash[u] = "file" => \A t \in Partners(u) : row[t] = "live" =>
           /\ role[u] # "unique"
           /\ UploadedFirst(t, u) => role[u] = "duplicate"
      /\ role[u] # "unique" => hash[u] = "file" /\ Partners(u) # {}
      /\ role[u] = "duplicate" => \E t \in Partners(u) : UploadedFirst(t, u)
  BY DEF RolesSound
<1>7. CASE u = s
  <2>1. k = "file" => \A t \in PartnersAfter(u) : row[t] = "live" => t \in M
    BY <1>1, <1>2, <1>4, <1>7
  <2>2. \A t \in M : t \in PartnersAfter(u) /\ k = "file" /\ t # s
    BY <1>1, <1>2, <1>3, <1>7
  <2>3. SourceRole(s, M) = "unique" <=> M = {}
    BY DEF SourceRole
  <2>4. SourceRole(s, M) = "duplicate" <=> \E t \in M : UploadedFirst(t, s)
    BY <1>3, <2>2, UploadOrderTotal DEF SourceRole
  <2>5. QED
    BY <1>1, <1>7, <2>1, <2>2, <2>3, <2>4
<1>8. CASE u \in M
  <2>1. s \in PartnersAfter(u) /\ hash'[u] = "file" /\ u # s /\ hash[u] = "file"
    BY <1>1, <1>2, <1>4, <1>8
  <2>2. role'[u] = MatchRole(s, u, role[u])
    BY <1>1, <1>8
  <2>3. role'[u] # "unique"
    BY <2>2 DEF MatchRole
  <2>4. \A t \in PartnersAfter(u) : row[t] = "live" /\ UploadedFirst(t, u)
          => role'[u] = "duplicate"
    <3>1. SUFFICES ASSUME NEW t \in PartnersAfter(u), row[t] = "live",
                          UploadedFirst(t, u)
                   PROVE  role'[u] = "duplicate"
      OBVIOUS
    <3>2. CASE t = s
      BY <2>1, <2>2, <3>1, <3>2, UploadOrderTotal DEF MatchRole
    <3>3. CASE t # s
      <4>1. t \in Partners(u)
        BY <1>1, <3>3
      <4>2. role[u] = "duplicate"
        BY <1>6, <2>1, <3>1, <4>1
      <4>3. QED
        BY <2>2, <4>2 DEF MatchRole
    <3>4. QED
      BY <3>2, <3>3
  <2>5. role'[u] = "duplicate" => \E t \in PartnersAfter(u) : UploadedFirst(t, u)
    <3>1. CASE role[u] = "duplicate"
      BY <1>5, <1>6, <3>1
    <3>2. CASE role[u] # "duplicate"
      BY <2>1, <2>2, <3>2, UploadOrderTotal DEF MatchRole
    <3>3. QED
      BY <3>1, <3>2
  <2>6. QED
    BY <2>1, <2>3, <2>4, <2>5
<1>9. CASE u # s /\ u \notin M
  <2>1. hash'[u] = hash[u] /\ role'[u] = role[u]
    BY <1>1, <1>9
  <2>2. hash[u] = "file" =>
          \A t \in PartnersAfter(u) : row[t] = "live" => t \in Partners(u)
    BY <1>1, <1>2, <1>4, <1>9
  <2>3. QED
    BY <1>5, <1>6, <2>1, <2>2
<1>10. QED
  BY <1>7, <1>8, <1>9

\* It adds exactly the pairs of the source it publishes.
LEMMA FinalizePairs ==
  ASSUME TypeOK, RowsConsistent, MatchTableExact, NEW s \in Source,
         NEW k \in Hash, NEW T \in SUBSET Doc, Finalize(s, k, T)
  PROVE  MatchTableExact'
<1> DEFINE M == Confident(s, Candidates(s, k))
<1>1. /\ row[s] = "live" /\ hash[s] = "none" /\ s \notin M /\ row' = row
      /\ pairs' = pairs \cup ({s} \X M) \cup (M \X {s})
      /\ hash'[s] = k /\ \A t \in Source : t # s => hash'[t] = hash[t]
      /\ \A t \in Source : t \in M <=>
           /\ k = "file" /\ row[t] = "live" /\ hash[t] = "file"
           /\ <<s, t>> \in Match
  BY FinalizeEffect
<1>2. \A t, u \in Source : <<t, u>> \in Match => <<u, t>> \in Match /\ t # u
  BY MatchAssumption DEF Symmetric
<1> HIDE DEF M
<1> SUFFICES ASSUME NEW t \in Source, NEW u \in Source
             PROVE  <<t, u>> \in pairs' <=>
                      /\ row[t] = "live" /\ row[u] = "live"
                      /\ hash'[t] = "file" /\ hash'[u] = "file"
                      /\ <<t, u>> \in Match
  BY <1>1 DEF MatchTableExact
<1>3. <<t, u>> \in pairs <=> /\ row[t] = "live" /\ row[u] = "live"
                             /\ hash[t] = "file" /\ hash[u] = "file"
                             /\ <<t, u>> \in Match
  BY DEF MatchTableExact
<1>4. <<t, u>> \in pairs' <=>
        <<t, u>> \in pairs \/ (t = s /\ u \in M) \/ (u = s /\ t \in M)
  BY <1>1
<1>5. QED
  BY <1>1, <1>2, <1>3, <1>4

\* The other transactions keep roles sound and the match table exact.
LEMMA OtherRolesAndPairs ==
  ASSUME TypeOK, RowsConsistent, RolesSound, MatchTableExact, NEW d \in Doc,
         \/ \E S \in SUBSET Source : InsertDocument(d, S) \/ InsertSources(d, S)
         \/ Approve(d) \/ RejectPending(d) \/ Delete(d)
  PROVE  RolesSound' /\ MatchTableExact'
<1>1. hash' = hash /\ role' = role
  BY DEF InsertDocument, InsertSources, Approve, RejectPending, Rejected, Delete
<1>2. PICK drop \in SUBSET Source :
        /\ pairs' = {p \in pairs : p[1] \notin drop /\ p[2] \notin drop}
        /\ \A s \in Source : s \in drop => row'[s] = "gone"
        /\ \A s \in Source : s \notin drop =>
             row'[s] = row[s] \/ (row[s] = "new" /\ row'[s] = "live")
  <2>1. ASSUME NEW S \in SUBSET Source,
               InsertDocument(d, S) \/ InsertSources(d, S)
        PROVE  /\ \A s \in Source :
                    row'[s] = row[s] \/ (row[s] = "new" /\ row'[s] = "live")
               /\ pairs' = pairs
    BY <2>1 DEF InsertDocument, InsertSources, Upload
  <2>2. pairs = {p \in pairs : p[1] \notin {} /\ p[2] \notin {}}
    OBVIOUS
  <2>3. CASE \E S \in SUBSET Source : InsertDocument(d, S) \/ InsertSources(d, S)
    <3> WITNESS {} \in SUBSET Source
    <3> QED
      BY <2>1, <2>2, <2>3
  <2>4. CASE Approve(d)
    <3> WITNESS {} \in SUBSET Source
    <3> QED
      BY <2>2, <2>4 DEF Approve
  <2>5. CASE RejectPending(d)
    <3> DEFINE drop == {s \in SourcesOf(d) : ~released[s]}
    <3>1. DropSources(drop) /\ drop \in SUBSET Source
      BY <2>5 DEF RejectPending, Rejected, SourcesOf
    <3>2. QED
      BY <3>1 DEF DropSources
  <2>6. CASE Delete(d)
    <3>1. DropSources(SourcesOf(d)) /\ SourcesOf(d) \in SUBSET Source
      BY <2>6 DEF Delete, SourcesOf
    <3>2. QED
      BY <3>1 DEF DropSources
  <2>7. QED
    BY <2>3, <2>4, <2>5, <2>6
<1>3. \A s \in Source : row'[s] = "live" => s \notin drop
  BY <1>2
<1>4. \A s \in Source : row'[s] = "live" /\ hash[s] # "none" => row[s] = "live"
  BY <1>2, <1>3 DEF RowsConsistent
<1>5. \A s \in Source : row[s] = "live" => row'[s] = "live" \/ s \in drop
  BY <1>2
<1>6. RolesSound'
  <2> SUFFICES ASSUME NEW s \in Source, row'[s] = "live"
      PROVE LET M == {t \in Source : <<s, t>> \in Match /\ hash[t] = "file"}
            IN  /\ hash[s] = "file" => \A t \in M : row'[t] = "live" =>
                     /\ role[s] # "unique"
                     /\ UploadedFirst(t, s) => role[s] = "duplicate"
                /\ role[s] # "unique" => hash[s] = "file" /\ M # {}
                /\ role[s] = "duplicate" => \E t \in M : UploadedFirst(t, s)
    BY <1>1 DEF RolesSound, UploadedFirst
  <2>1. CASE row[s] = "live"
    BY <1>4, <2>1 DEF RolesSound
  <2>2. CASE row[s] # "live"
    BY <1>4, <2>2 DEF RowsConsistent
  <2>3. QED
    BY <2>1, <2>2
<1>7. MatchTableExact'
  <2> SUFFICES ASSUME NEW s \in Source, NEW t \in Source
      PROVE <<s, t>> \in pairs' <=>
              /\ row'[s] = "live" /\ row'[t] = "live"
              /\ hash[s] = "file" /\ hash[t] = "file" /\ <<s, t>> \in Match
    BY <1>1 DEF MatchTableExact
  <2>1. <<s, t>> \in pairs' <=>
          <<s, t>> \in pairs /\ s \notin drop /\ t \notin drop
    BY <1>2
  <2>2. QED
    BY <1>3, <1>4, <1>5, <1>2, <2>1 DEF MatchTableExact
<1>8. QED
  BY <1>6, <1>7

-----------------------------------------------------------------------------
(* Bookkeeping, and the inductive invariant as a whole.                    *)

\* Publishing a fingerprint keeps the bookkeeping of reviews and notices.
LEMMA FinalizeBookkeeping ==
  ASSUME TypeOK, RowsConsistent, StatusExact, Bookkeeping, NEW s \in Source,
         NEW k \in Hash, NEW T \in SUBSET Doc, Finalize(s, k, T)
  PROVE  Bookkeeping'
<1> DEFINE M == Confident(s, Candidates(s, k))
           W == WritesNow(s, k, M)
<1>1. WriteFingerprint(s, k, M, T, W)
  BY DEF Finalize
<1>2. \A d \in Doc : W.status[d] = "pending_review" => d \in W.review
  BY DEF WritesNow, StatusFor
<1> HIDE DEF M, W
<1> SUFFICES ASSUME NEW d \in Doc, doc[d] = "live"
             PROVE  /\ status'[d] = "pending_review" => requested'[d]
                    /\ notified'[d] => status'[d] # "processing"
  BY <1>1 DEF WriteFingerprint, Bookkeeping
<1>3. CASE d \in T
  <2>1. status'[d] = W.status[d]
    BY <1>1, <1>3 DEF WriteFingerprint
  <2>2. d \in W.review => requested'[d]
    BY <1>1, <1>3 DEF WriteFingerprint
  <2>3. notified'[d] => notified[d] \/ W.status[d] # "processing"
    BY <1>1, <1>3 DEF WriteFingerprint
  \* A document that was not being processed has only hashed sources and is
  \* not put back to processing.
  <2>4. status[d] # "processing" => W.status[d] # "processing"
    <3>1. \A t \in SourcesOf(d) : status[d] # "processing" => hash[t] # "none"
      BY DEF StatusExact, StatusOf, StatusFor
    <3>2. W.status[d] = "processing" =>
            \E t \in SourcesOf(d) : [hash EXCEPT ![s] = k][t] = "none"
      BY DEF W, WritesNow, StatusFor
    <3>3. k # "none"
      BY DEF Finalize
    <3>4. QED
      BY <3>1, <3>2, <3>3 DEF SourcesOf, TypeOK
  <2>5. QED
    BY <1>2, <2>1, <2>2, <2>3, <2>4 DEF Bookkeeping
<1>4. CASE d \notin T
  BY <1>1, <1>4 DEF WriteFingerprint, Bookkeeping
<1>5. QED
  BY <1>3, <1>4

\* So do reviews and deletions.
LEMMA ReviewBookkeeping ==
  ASSUME TypeOK, StatusExact, Bookkeeping, NEW d \in Doc,
         Approve(d) \/ RejectPending(d) \/ Delete(d)
  PROVE  Bookkeeping'
<1>1. \A e \in Doc : e # d /\ doc'[e] = "live" =>
        /\ doc[e] = "live" /\ status'[e] = status[e]
        /\ notified'[e] = notified[e] /\ requested'[e] = requested[e]
  BY DEF Approve, RejectPending, Rejected, Delete, TypeOK
<1>2. CASE Approve(d)
  <2>1. \A D, h, r : StatusAfterReview(D, h, r) = "pending_review" =>
                       \E s \in D : ~[t \in Source |-> TRUE][s]
    BY DEF StatusAfterReview, StatusFor
  <2>2. status'[d] # "pending_review"
    BY <1>2, <2>1 DEF Approve, SourcesOf, TypeOK
  <2>3. ~notified'[d]
    BY <1>2 DEF Approve, TypeOK
  <2>4. QED
    BY <1>1, <2>2, <2>3 DEF Bookkeeping
<1>3. CASE RejectPending(d)
  <2> DEFINE keep == SourcesOf(d) \ {s \in SourcesOf(d) : ~released[s]}
  <2>1. status[d] = "pending_review" /\ doc[d] = "live"
        /\ requested' = requested
    BY <1>3 DEF RejectPending, Rejected
  <2>2. requested'[d]
    BY <2>1 DEF Bookkeeping
  <2>3. keep # {} => status'[d] = StatusAfterReview(keep, hash, role)
    BY <1>3 DEF RejectPending, Rejected, TypeOK
  <2>4. keep = {} => doc'[d] = "gone"
    BY <1>3 DEF RejectPending, Rejected, TypeOK
  <2>5. StatusAfterReview(keep, hash, role) = "processing" =>
          \E s \in SourcesOf(d) : hash[s] = "none"
    BY DEF StatusAfterReview, StatusFor
  <2>6. doc'[d] = "live" => status'[d] # "processing"
    BY <2>1, <2>3, <2>4, <2>5, PendingIsHashed
  <2>7. QED
    BY <1>1, <2>2, <2>6 DEF Bookkeeping
<1>4. CASE Delete(d)
  <2>1. doc'[d] # "live"
    BY <1>4 DEF Delete, TypeOK
  <2>2. QED
    BY <1>1, <2>1 DEF Bookkeeping
<1>5. QED
  BY <1>2, <1>3, <1>4

\* So do insertions.
LEMMA InsertBookkeeping ==
  ASSUME TypeOK, RowsConsistent, Bookkeeping, NEW d \in Doc,
         NEW S \in SUBSET Source, InsertDocument(d, S) \/ InsertSources(d, S)
  PROVE  Bookkeeping'
BY DEF InsertDocument, InsertSources, TypeOK, RowsConsistent, Bookkeeping

\* The empty tables satisfy the invariant.
LEMMA InitIInv == Init => IInv
<1> SUFFICES ASSUME Init PROVE IInv
  OBVIOUS
<1>1. TypeOK
  BY DEF Init, TypeOK, RowState, Status, Hash, Role
<1>2. RowsConsistent /\ StatusExact /\ RolesSound /\ MatchTableExact
      /\ Bookkeeping
  BY DEF Init, RowsConsistent, StatusExact, RolesSound, MatchTableExact,
         Bookkeeping
<1>3. QED
  BY <1>1, <1>2 DEF IInv

\* Every transaction preserves it.
LEMMA StepIInv == IInv /\ [Next]_vars => IInv'
<1> SUFFICES ASSUME IInv, [Next]_vars PROVE IInv'
  OBVIOUS
<1> USE DEF IInv
<1>1. ASSUME NEW d \in Doc, NEW S \in SUBSET Source,
             InsertDocument(d, S) \/ InsertSources(d, S)
      PROVE  IInv'
  <2>1. TypeOK'
    BY TypeStep
  <2>2. RolesSound' /\ MatchTableExact'
    BY <1>1, OtherRolesAndPairs
  <2>3. QED
    BY <1>1, <2>1, <2>2, InsertRows, InsertStatus, InsertBookkeeping
<1>2. ASSUME NEW s \in Source, NEW k \in Hash, NEW T \in SUBSET Doc,
             Finalize(s, k, T)
      PROVE  IInv'
  BY <1>2, FinalizeType, FinalizeRows, FinalizeStatus, FinalizeRoles,
     FinalizePairs, FinalizeBookkeeping
<1>3. ASSUME NEW d \in Doc, Approve(d) \/ RejectPending(d) \/ Delete(d)
      PROVE  IInv'
  <2>1. RolesSound' /\ MatchTableExact'
    BY <1>3, OtherRolesAndPairs
  <2>2. QED
    BY <1>3, <2>1, ReviewType, ReviewRows, ReviewStatus, ReviewBookkeeping
<1>4. CASE UNCHANGED vars
  <2> USE <1>4 DEF vars
  <2>1. TypeOK' /\ RowsConsistent' /\ Bookkeeping'
    BY DEF TypeOK, RowsConsistent, Bookkeeping
  <2>2. StatusExact'
    BY DEF StatusExact, StatusOf, StatusFor, SourcesOf
  <2>3. RolesSound'
    BY DEF RolesSound, UploadedFirst
  <2>4. MatchTableExact'
    BY DEF MatchTableExact
  <2>5. QED
    BY <2>1, <2>2, <2>3, <2>4
<1>5. QED
  BY <1>1, <1>2, <1>3, <1>4 DEF Next

-----------------------------------------------------------------------------
\* The inductive invariant holds in every reachable state: every statement
\* above follows from it.
THEOREM Inductive == Spec => []IInv
<1>1. Init => IInv
  BY InitIInv
<1>2. IInv /\ [Next]_vars => IInv'
  BY StepIInv
<1>3. QED
  BY <1>1, <1>2, PTL DEF Spec

\* The status column of a document always says what its sources say, whichever
\* transaction wrote it last.
THEOREM StatusCorrect == Spec => []StatusExact
<1>1. IInv => StatusExact
  BY DEF IInv
<1>2. QED
  BY <1>1, Inductive, PTL

\* Whatever the order of fingerprinting and of deletions, a duplicate is
\* called one and nothing else is, for every near-duplicate relation.
THEOREM RolesCorrect == Spec => []RolesSound
<1>1. IInv => RolesSound
  BY DEF IInv
<1>2. QED
  BY <1>1, Inductive, PTL

\* duplicate_matches is exactly the confident relation on the stored sources.
THEOREM MatchTableCorrect == Spec => []MatchTableExact
<1>1. IInv => MatchTableExact
  BY DEF IInv
<1>2. QED
  BY <1>1, Inductive, PTL

\* notified_at and review_requested_at agree with the status.
THEOREM BookkeepingCorrect == Spec => []Bookkeeping
<1>1. IInv => Bookkeeping
  BY DEF IInv
<1>2. QED
  BY <1>1, Inductive, PTL

\* A document with a held duplicate is processing or pending.
LEMMA HeldIsPending ==
  ASSUME TypeOK, RowsConsistent, StatusExact,
         NEW s \in Source, row[s] = "live", Held(s)
  PROVE  status[DocOf[s]] \in {"processing", "pending_review"}
<1>1. doc[DocOf[s]] = "live" /\ DocOf[s] \in Doc
  BY DocOfAssumption DEF RowsConsistent
<1>2. s \in SourcesOf(DocOf[s])
  BY DEF SourcesOf
<1>3. status[DocOf[s]] = StatusOf(DocOf[s])
  BY <1>1 DEF StatusExact
<1>4. QED
  BY <1>2, <1>3 DEF StatusOf, StatusFor, Held

\* The invariant hides held duplicates.
LEMMA InvariantHides == IInv => HeldHidden
BY HeldIsPending DEF IInv, HeldHidden, Shareable

\* A duplicate that waits for the reviewer is never on the share page.
THEOREM HeldStaysHidden == Spec => []HeldHidden
BY InvariantHides, Inductive, PTL

\* A fingerprint leaves a held source of another upload as it is.
LEMMA HeldStaysHeld ==
  ASSUME TypeOK, RowsConsistent,
         NEW s \in Source, NEW k \in Hash, NEW T \in SUBSET Doc,
         Finalize(s, k, T),
         NEW t \in Source, row[t] = "live", Held(t)
  PROVE  row'[t] = "live" /\ Held(t)'
<1>1. t # s
  BY DEF Held, RowsConsistent, Finalize
<1> DEFINE M == Confident(s, Candidates(s, k))
           W == WritesNow(s, k, M)
<1>2. WriteFingerprint(s, k, M, T, W)
  BY DEF Finalize
<1>3. W.role[t] = RoleAfter(s, M, t)
  BY DEF WritesNow
<1>4. RoleAfter(s, M, t) = "duplicate"
  BY <1>1 DEF RoleAfter, MatchRole, Held
<1>5. role'[t] = "duplicate"
  BY <1>2, <1>3, <1>4 DEF WriteFingerprint, Held
<1>6. row' = row /\ released'[t] = released[t]
  BY <1>1, <1>2 DEF WriteFingerprint, TypeOK
<1>7. QED
  BY <1>5, <1>6 DEF Held

\* Neither an upload nor the fingerprint of a partner publishes a document
\* that holds a duplicate for review: only its reviewer does.
THEOREM OnlyReviewSharesCorrect == Spec => OnlyReviewShares
<1> DEFINE Step(d) == (\E s \in SourcesOf(d) : Held(s)) /\ Shareable(d)'
                        => Approve(d) \/ RejectPending(d)
<1>0. IInv' => HeldHidden'
  BY InvariantHides, PTL
<1>1. IInv /\ IInv' /\ [Next]_vars => [\A d \in Doc : Step(d)]_vars
  <2> SUFFICES ASSUME IInv, IInv', Next, NEW d \in Doc,
                      NEW s \in SourcesOf(d), Held(s), Shareable(d)'
               PROVE  Approve(d) \/ RejectPending(d)
    OBVIOUS
  <2>1. s \in Source /\ row[s] = "live" /\ DocOf[s] = d
    BY DEF SourcesOf
  <2>2. doc[d] = "live" /\ ~Shareable(d)
    BY <2>1, HeldIsPending DEF IInv, RowsConsistent, Shareable
  <2>3. status'[d] # status[d]
    BY <2>2 DEF Shareable, IInv, TypeOK
  <2>4. ASSUME NEW e \in Doc, NEW S \in SUBSET Source,
               InsertDocument(e, S) \/ InsertSources(e, S)
        PROVE  FALSE
    BY <2>3, <2>4 DEF InsertDocument, InsertSources, Shareable, IInv, TypeOK
  <2>5. ASSUME NEW r \in Source, NEW k \in Hash, NEW T \in SUBSET Doc,
               Finalize(r, k, T)
        PROVE  FALSE
    <3>1. row'[s] = "live" /\ Held(s)'
      BY <2>1, <2>5, HeldStaysHeld DEF IInv
    <3>2. HeldHidden'
      BY <1>0
    <3>3. QED
      BY <2>1, <3>1, <3>2 DEF HeldHidden
  <2>6. ASSUME NEW e \in Doc, Approve(e) \/ RejectPending(e) \/ Delete(e)
        PROVE  Approve(d) \/ RejectPending(d)
    BY <2>3, <2>6 DEF Approve, RejectPending, Rejected, Delete, Shareable, IInv, TypeOK
  <2>7. QED
    BY <2>4, <2>5, <2>6 DEF Next
<1>2. QED
  BY <1>1, Inductive, PTL DEF Spec, OnlyReviewShares

\* A source let through by a reviewer is neither held nor dropped by a later
\* review of its document.
THEOREM ReviewIsFinalCorrect == Spec => ReviewIsFinal
<1> DEFINE Step(s) == row[s] = "live" =>
                        \/ row'[s] = "live" /\ released'[s]
                        \/ Delete(DocOf[s])
<1>1. IInv /\ [Next]_vars => [\A s \in reviewed : Step(s)]_vars
  <2> SUFFICES ASSUME IInv, Next, NEW s \in reviewed, row[s] = "live",
                      ~Delete(DocOf[s])
               PROVE  row'[s] = "live" /\ released'[s]
    OBVIOUS
  <2>1. s \in Source /\ hash[s] # "none" /\ released[s]
    BY DEF IInv, TypeOK, RowsConsistent
  <2>2. ASSUME NEW e \in Doc, NEW S \in SUBSET Source,
               InsertDocument(e, S) \/ InsertSources(e, S)
        PROVE  row'[s] = "live" /\ released'[s]
    BY <2>1, <2>2 DEF InsertDocument, InsertSources, IInv, TypeOK
  <2>3. ASSUME NEW r \in Source, NEW k \in Hash, NEW T \in SUBSET Doc,
               Finalize(r, k, T)
        PROVE  row'[s] = "live" /\ released'[s]
    BY <2>1, <2>3 DEF Finalize, WriteFingerprint, IInv, TypeOK
  <2>4. ASSUME NEW e \in Doc, Approve(e) \/ RejectPending(e) \/ Delete(e)
        PROVE  row'[s] = "live" /\ released'[s]
    BY <2>1, <2>4 DEF Approve, RejectPending, Rejected, Delete, DropSources, SourcesOf,
       IInv, TypeOK
  <2>5. QED
    BY <2>2, <2>3, <2>4 DEF Next
<1>2. QED
  BY <1>1, Inductive, PTL DEF Spec, ReviewIsFinal
=============================================================================
