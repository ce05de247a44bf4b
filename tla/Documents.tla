----------------------------- MODULE Documents -----------------------------
(***************************************************************************)
(* The tables behind internal/documents and the transactions of Repo that  *)
(* change them, each taken as one atomic step: a document is inserted with *)
(* its sources, sources are added to it, a source receives its fingerprint *)
(* and its role among the sources it matches, an administrator approves,   *)
(* declines or deletes a document.                                         *)
(*                                                                         *)
(* This is the abstract specification.  DocumentsTx takes the fingerprint  *)
(* transaction apart into the statements and locks of the code and is      *)
(* shown to implement this module.                                         *)
(***************************************************************************)
EXTENDS Naturals, FiniteSets

CONSTANTS
  Doc,         (* document ids, never reused                               *)
  Source,      (* source ids, never reused                                 *)
  DocOf,       (* the document each source is uploaded to                  *)
  AdminOwned,  (* documents whose owner is an administrator, or is NULL    *)
  Rank,        (* upload order of the sources: (created_at, id)            *)
  Near,        (* pairs whose fingerprints the match queries join          *)
  Match,       (* the pairs of Near that are confident duplicates          *)
  MaxSources   (* Service.maxN, the sources one document may hold          *)

Symmetric(R) == \A s, t \in Source : <<s, t>> \in R => <<t, s>> \in R

ASSUME DocOfAssumption == DocOf \in [Source -> Doc]

ASSUME RankAssumption ==
  /\ Rank \in [Source -> Nat]
  /\ \A s, t \in Source : Rank[s] = Rank[t] => s = t

ASSUME MatchAssumption ==
  /\ Near \subseteq Source \X Source
  /\ Match \subseteq Near
  /\ Symmetric(Near) /\ Symmetric(Match)
  /\ \A s \in Source : <<s, s>> \notin Near

ASSUME MaxSourcesAssumption == MaxSources \in Nat \ {0}

VARIABLES
  doc,        (* has the row of a document been inserted, or deleted again *)
  status,     (* documents.status                                          *)
  notified,   (* documents.notified_at IS NOT NULL                         *)
  requested,  (* documents.review_requested_at IS NOT NULL                 *)
  row,        (* has the row of a source been inserted, or deleted again   *)
  hash,       (* sources.content_sha256: NULL, of the file, or Missing's   *)
  role,       (* sources.uniqueness                                        *)
  released,   (* sources.released                                          *)
  pairs,      (* the (source_id, matched_source_id) of duplicate_matches   *)
  reviewed    (* history: the sources an administrator let through         *)

vars == <<doc, status, notified, requested, row, hash, role, released,
          pairs, reviewed>>

RowState == {"new", "live", "gone"}
Status   == {"processing", "pending_review", "duplicate", "completed"}
Hash     == {"none", "file", "missing"}
Role     == {"unique", "original", "duplicate"}

\* Types of the columns, as the CHECK constraints and NOT NULLs of 001_init.sql
\* and the statements of Repo keep them.
TypeOK ==
  /\ doc \in [Doc -> RowState]
  /\ status \in [Doc -> Status]
  /\ notified \in [Doc -> BOOLEAN]
  /\ requested \in [Doc -> BOOLEAN]
  /\ row \in [Source -> RowState]
  /\ hash \in [Source -> Hash]
  /\ role \in [Source -> Role]
  /\ released \in [Source -> BOOLEAN]
  /\ pairs \subseteq Source \X Source
  /\ reviewed \subseteq Source

-----------------------------------------------------------------------------
(* Queries.                                                                *)

\* sources WHERE document_id = d
SourcesOf(d) == {s \in Source : row[s] = "live" /\ DocOf[s] = d}

\* The earlier upload wins; equal times are ordered by id.
UploadedFirst(s, t) == Rank[s] < Rank[t]

Shareable(d) == doc[d] = "live" /\ status[d] \in {"completed", "duplicate"}

\* A source the reviewer has to decide about.
Held(s) == role[s] = "duplicate" /\ ~released[s]

\* The rows a fingerprint of the file itself is compared with.  A placeholder
\* hash (k = "missing") equals no stored hash and has no bands.
Candidates(s, k) ==
  {t \in Source : /\ k = "file" /\ row[t] = "live" /\ hash[t] = "file"
                  /\ <<s, t>> \in Near}

\* Fault: every near pair counts, whatever its pages and its SimHash say.
EveryCandidate(s, C) == C

Confident(s, C) == {t \in C : <<s, t>> \in Match}

\* Role of s itself and of each t it matches (M: the confident matches of s).
SourceRole(s, M) ==
  IF M = {} THEN "unique"
  ELSE IF \A t \in M : UploadedFirst(s, t) THEN "original" ELSE "duplicate"

\* Fault: the guard that keeps a duplicate a duplicate is missing.
ForgetfulMatchRole(s, t, old) ==
  IF UploadedFirst(t, s) THEN "original" ELSE "duplicate"

MatchRole(s, t, old) ==
  IF UploadedFirst(t, s) /\ old # "duplicate" THEN "original" ELSE "duplicate"

RoleAfter(s, M, t) ==
  IF t = s THEN SourceRole(s, M)
  ELSE IF t \in M THEN MatchRole(s, t, role[t])
  ELSE role[t]

ReleasedAfter(s, M) ==
  DocOf[s] \in AdminOwned \/ SourceRole(s, M) # "duplicate"

\* The status column recomputed from the sources D of one document, whose
\* hash, role and released columns are h, r and f.
\* Fault: the branches of the CASE in another order.
StatusForUnheld(D, h, r, f) ==
  IF \E s \in D : h[s] = "none" THEN "processing"
  ELSE IF \E s \in D : r[s] # "unique" THEN "duplicate"
  ELSE IF \E s \in D : r[s] = "duplicate" /\ ~f[s] THEN "pending_review"
  ELSE "completed"

StatusFor(D, h, r, f) ==
  IF \E s \in D : h[s] = "none" THEN "processing"
  ELSE IF \E s \in D : r[s] = "duplicate" /\ ~f[s] THEN "pending_review"
  ELSE IF \E s \in D : r[s] # "unique" THEN "duplicate"
  ELSE "completed"

StatusOf(d) == StatusFor(SourcesOf(d), hash, role, released)

\* Fault: what is left is completed.
CompletedAfterReview(D, h, r) ==
  IF \E s \in D : h[s] = "none" THEN "processing" ELSE "completed"

\* Approve and RejectPending leave the review branch out.
StatusAfterReview(D, h, r) == StatusFor(D, h, r, [s \in Source |-> TRUE])

-----------------------------------------------------------------------------
Init ==
  /\ doc = [d \in Doc |-> "new"]
  /\ status = [d \in Doc |-> "processing"]
  /\ notified = [d \in Doc |-> FALSE]
  /\ requested = [d \in Doc |-> FALSE]
  /\ row = [s \in Source |-> "new"]
  /\ hash = [s \in Source |-> "none"]
  /\ role = [s \in Source |-> "unique"]
  /\ released = [s \in Source |-> TRUE]
  /\ pairs = {}
  /\ reviewed = {}

\* Uploads that may be written to document d, n sources being there already.
Upload(d, S, n) ==
  /\ S # {}
  /\ \A s \in S : row[s] = "new" /\ DocOf[s] = d
  /\ n + Cardinality(S) <= MaxSources

InsertDocument(d, S) ==
  /\ doc[d] = "new"
  /\ Upload(d, S, 0)
  /\ doc' = [doc EXCEPT ![d] = "live"]
  /\ row' = [s \in Source |-> IF s \in S THEN "live" ELSE row[s]]
  /\ status' = [status EXCEPT ![d] = "processing"]
  /\ UNCHANGED <<notified, requested, hash, role, released, pairs, reviewed>>

InsertSources(d, S) ==
  /\ doc[d] = "live"
  /\ Upload(d, S, Cardinality(SourcesOf(d)))
  /\ row' = [s \in Source |-> IF s \in S THEN "live" ELSE row[s]]
  /\ status' = [status EXCEPT ![d] = "processing"]
  /\ notified' = [notified EXCEPT ![d] = FALSE]
  /\ UNCHANGED <<doc, requested, hash, role, released, pairs, reviewed>>

\* The roles, the statuses and the documents with something to review, as
\* the transaction of source s computes them from the tables as they are.
WritesNow(s, k, M) ==
  LET h == [hash EXCEPT ![s] = k]
      r == [t \in Source |-> RoleAfter(s, M, t)]
      f == [released EXCEPT ![s] = ReleasedAfter(s, M)]
  IN  [role   |-> r,
       status |-> [d \in Doc |-> StatusFor(SourcesOf(d), h, r, f)],
       review |-> {d \in Doc : \E t \in SourcesOf(d) :
                                 r[t] = "duplicate" /\ ~f[t]}]

\* What it then writes: k is the kind of hash of source s, M its confident
\* matches, T the documents it has locked, W what it has computed.
WriteFingerprint(s, k, M, T, W) ==
  LET live == {d \in T : doc[d] = "live"}
  IN  /\ hash' = [hash EXCEPT ![s] = k]
      /\ role' = [t \in Source |->
                    IF t = s \/ t \in M THEN W.role[t] ELSE role[t]]
      /\ released' = [released EXCEPT ![s] = ReleasedAfter(s, M)]
      /\ pairs' = pairs \cup ({s} \X M) \cup (M \X {s})
      /\ status' = [d \in Doc |->
                      IF d \in live THEN W.status[d] ELSE status[d]]
      /\ requested' = [d \in Doc |->
                         requested[d] \/ (d \in live /\ d \in W.review)]
      /\ notified' = [d \in Doc |->
           notified[d] \/ (d \in live /\ W.status[d] # "processing")]
      /\ UNCHANGED <<doc, row, reviewed>>

\* FinalizeFingerprint.  T holds the documents of all candidates; it may hold
\* others, whose candidate went away before they were locked.
Finalize(s, k, T) ==
  LET C == Candidates(s, k)
      M == Confident(s, C)
  IN  /\ row[s] = "live"
      /\ hash[s] = "none"
      /\ k \in {"file", "missing"}
      /\ {DocOf[s]} \cup {DocOf[t] : t \in C} \subseteq T
      /\ WriteFingerprint(s, k, M, T, WritesNow(s, k, M))

Approve(d) ==
  /\ doc[d] = "live"
  /\ status[d] = "pending_review"
  /\ released' = [s \in Source |-> released[s] \/ s \in SourcesOf(d)]
  /\ status' = [status EXCEPT ![d] = StatusAfterReview(SourcesOf(d), hash, role)]
  /\ notified' = [notified EXCEPT ![d] = FALSE]
  /\ reviewed' = reviewed \cup SourcesOf(d)
  /\ UNCHANGED <<doc, requested, row, hash, role, pairs>>

\* ON DELETE CASCADE: the rows of duplicate_matches go with either source.
DropSources(S) ==
  /\ row' = [s \in Source |-> IF s \in S THEN "gone" ELSE row[s]]
  /\ pairs' = {p \in pairs : p[1] \notin S /\ p[2] \notin S}

\* Fault: the duplicates, released or not.
AllDuplicates(d) == {s \in SourcesOf(d) : role[s] = "duplicate"}

\* DELETE FROM sources WHERE document_id = d AND released = FALSE
Rejected(d) == {s \in SourcesOf(d) : ~released[s]}

RejectPending(d) ==
  LET drop == Rejected(d)
      keep == SourcesOf(d) \ drop
  IN  /\ doc[d] = "live"
      /\ status[d] = "pending_review"
      /\ DropSources(drop)
      /\ IF keep = {}
         THEN doc' = [doc EXCEPT ![d] = "gone"] /\ UNCHANGED status
         ELSE /\ status' = [status EXCEPT
                              ![d] = StatusAfterReview(keep, hash, role)]
              /\ UNCHANGED doc
      /\ UNCHANGED <<notified, requested, hash, role, released, reviewed>>

Delete(d) ==
  /\ doc[d] = "live"
  /\ doc' = [doc EXCEPT ![d] = "gone"]
  /\ DropSources(SourcesOf(d))
  /\ UNCHANGED <<status, notified, requested, hash, role, released, reviewed>>

Next ==
  \/ \E d \in Doc, S \in SUBSET Source :
       InsertDocument(d, S) \/ InsertSources(d, S)
  \/ \E s \in Source, k \in Hash, T \in SUBSET Doc : Finalize(s, k, T)
  \/ \E d \in Doc : Approve(d) \/ RejectPending(d) \/ Delete(d)

Spec == Init /\ [][Next]_vars

-----------------------------------------------------------------------------
(* Properties.                                                             *)

\* The status of a document is the one its sources give it, although every
\* transaction recomputes it only for the documents it touches, and three
\* different CASE expressions do so (repo_fingerprint.go, Approve,
\* RejectPending).
StatusExact ==
  \A d \in Doc : doc[d] = "live" =>
    SourcesOf(d) # {} /\ status[d] = StatusOf(d)

\* Whatever the order in which sources are fingerprinted: of two confident
\* matches the later upload is a duplicate and the earlier one is not unique,
\* and no source is called a duplicate, or an original, without a match that
\* was uploaded earlier, or at all.
RolesSound ==
  \A s \in Source : row[s] = "live" =>
    LET M == {t \in Source : <<s, t>> \in Match /\ hash[t] = "file"}
    IN  /\ hash[s] = "file" => \A t \in M : row[t] = "live" =>
             /\ role[s] # "unique"
             /\ UploadedFirst(t, s) => role[s] = "duplicate"
        /\ role[s] # "unique" => hash[s] = "file" /\ M # {}
        /\ role[s] = "duplicate" => \E t \in M : UploadedFirst(t, s)

\* duplicate_matches lists, in both directions, exactly the confident pairs of
\* stored sources, although each pair is written by whichever of the two is
\* fingerprinted last and rows leave by cascade.
MatchTableExact ==
  \A s, t \in Source : <<s, t>> \in pairs <=>
    /\ row[s] = "live" /\ row[t] = "live"
    /\ hash[s] = "file" /\ hash[t] = "file"
    /\ <<s, t>> \in Match

\* A duplicate that waits for the reviewer is never on the share page.
HeldHidden ==
  \A s \in Source : row[s] = "live" /\ Held(s) => ~Shareable(DocOf[s])

\* A pending document carries the time its review was requested, and a
\* document counts as announced only when it is not being processed again.
Bookkeeping ==
  \A d \in Doc : doc[d] = "live" =>
    /\ status[d] = "pending_review" => requested[d]
    /\ notified[d] => status[d] # "processing"

\* What the rows owe to the defaults of their columns, to the foreign key
\* ON DELETE CASCADE and to a fingerprint being written once.
RowsConsistent ==
  /\ \A d \in Doc : doc[d] = "new" => ~notified[d]
  /\ \A s \in Source :
       /\ row[s] = "live" => doc[DocOf[s]] = "live"
       /\ row[s] # "new" => doc[DocOf[s]] # "new"
       /\ row[s] = "new" => hash[s] = "none"
       /\ hash[s] = "none" => role[s] = "unique" /\ released[s]
  /\ \A s \in reviewed : hash[s] # "none" /\ released[s]

\* The inductive invariant of this module.
IInv == /\ TypeOK /\ RowsConsistent /\ StatusExact /\ RolesSound
        /\ MatchTableExact /\ Bookkeeping

\* A document that holds a duplicate for review gets onto the share page only
\* by the decision of an administrator on that document, never by an upload
\* to it or by the fingerprint of a partner.
OnlyReviewShares ==
  [][\A d \in Doc :
       (\E s \in SourcesOf(d) : Held(s)) /\ Shareable(d)'
         => Approve(d) \/ RejectPending(d)]_vars

\* What an administrator has let through stays through: a later review of the
\* same document, after more uploads, neither holds it again nor drops it.
ReviewIsFinal ==
  [][\A s \in reviewed : row[s] = "live" =>
       \/ row'[s] = "live" /\ released'[s]
       \/ Delete(DocOf[s])]_vars

\* PublicView: "processing and pending review stay hidden so a duplicate
\* cannot be downloaded before an admin acts" (public.go:9-11), for documents
\* that members own; those of administrators are released as they come.
DuplicateWaitsForAdmin ==
  \A s \in Source :
    /\ row[s] = "live"
    /\ role[s] = "duplicate"
    /\ DocOf[s] \notin AdminOwned
    => s \in reviewed \/ ~Shareable(DocOf[s])
=============================================================================
