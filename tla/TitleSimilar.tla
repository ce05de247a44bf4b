---------------------------- MODULE TitleSimilar ----------------------------
(***************************************************************************)
(* The comparison of titles: similarSource reads the normalised titles of  *)
(* all other sources, scores them, and replaces the rows of its source in  *)
(* title_similarities; title_similar_at says that this was done.  Uploads, *)
(* extracted titles and deletions happen between its statements, and the   *)
(* sweeper starts it for the oldest rows that were never compared.         *)
(*                                                                         *)
(* title_norm is not empty exactly for a source that has a title, since    *)
(* every statement that writes a title writes both.  A title is settled    *)
(* once.  There are fewer similar titles than maxSimilarKept.  The advisory *)
(* locks make ReplaceSimilar one step: two of them that touch a common row *)
(* share a lock.                                                           *)
(***************************************************************************)
EXTENDS Naturals, FiniteSets

CONSTANTS
  Source,       (* sources that may be uploaded, in the order of created_at *)
  Doc,          (* documents                                                *)
  DocOf,        (* the document of each source                              *)
  Near,         (* pairs whose titles score Threshold, compared from the    *)
                (* first one's side; Align is greedy: the other may differ  *)
  UploadedAs,   (* what the upload of each source may be, a TitleKind       *)
  Worker,       (* workers that may run comparisons at once                 *)
  Batch,        (* recoverBatch                                             *)
  MaxFailures   (* bound: how many comparisons fail in the database         *)

\* A PDF whose title is awaited, a source that has one, one that never will.
TitleKind == {"awaited", "printed", "none"}

ASSUME TitleSimilarAssumption ==
  /\ Source \subseteq Nat /\ Source # {} /\ DocOf \in [Source -> Doc]
  /\ Near \subseteq Source \X Source
  /\ \A a, b \in Source : <<a, b>> \in Near => a # b
  /\ UploadedAs \in [Source -> SUBSET TitleKind]
  /\ Batch \in Nat \ {0} /\ MaxFailures \in Nat

VARIABLES
  row,         (* sources: not yet inserted, there, or deleted              *)
  titled,      (* title_norm <> ''                                          *)
  needsTitle,  (* needs_title                                               *)
  scanned,     (* title_similar_at IS NOT NULL                              *)
  pairs,       (* title_similarities                                        *)
  job,         (* the comparison each worker runs, and how far it is        *)
  failures

vars == <<row, titled, needsTitle, scanned, pairs, job, failures>>

Idle == [pc |-> "idle", src |-> CHOOSE s \in Source : TRUE, hits |-> {}]

\* Types; a row that is compared or in the queue for a title is there.
TypeOK ==
  /\ row \in [Source -> {"new", "live", "gone"}]
  /\ titled \subseteq Source
  /\ needsTitle \cup scanned \subseteq {s \in Source : row[s] = "live"}
  /\ pairs \subseteq Source \X Source
  /\ job \in [Worker -> [pc : {"idle", "list", "peers", "replace"},
                         src : Source, hits : SUBSET Source]]
  /\ failures \in 0 .. MaxFailures

Init ==
  /\ row = [s \in Source |-> "new"]
  /\ titled = {} /\ needsTitle = {} /\ scanned = {} /\ pairs = {}
  /\ job = [w \in Worker |-> Idle]
  /\ failures = 0

Live == {s \in Source : row[s] = "live"}
With(s) == {p \in pairs : p[1] = s \/ p[2] = s}

-----------------------------------------------------------------------------
(* The rows, as uploads, titles and deletions change them.                 *)

Insert(s, kind) ==
  /\ row[s] = "new" /\ kind \in UploadedAs[s]
  /\ row' = [row EXCEPT ![s] = "live"]
  /\ titled' = IF kind = "printed" THEN titled \cup {s} ELSE titled
  /\ needsTitle' = IF kind = "awaited" THEN needsTitle \cup {s} ELSE needsTitle
  /\ UNCHANGED <<scanned, pairs, job, failures>>

SetSourceTitle(s) ==
  /\ s \in needsTitle
  /\ titled' = titled \cup {s}
  /\ needsTitle' = needsTitle \ {s}
  /\ scanned' = scanned \ {s}
  /\ UNCHANGED <<row, pairs, job, failures>>

ClearNeedsTitle(s) ==
  /\ s \in needsTitle
  /\ needsTitle' = needsTitle \ {s}
  /\ UNCHANGED <<row, titled, scanned, pairs, job, failures>>

\* Fault: matched_source_id does not cascade.
DeleteOneWay(d) ==
  LET own == {s \in Live : DocOf[s] = d}
  IN  /\ own # {}
      /\ row' = [s \in Source |-> IF s \in own THEN "gone" ELSE row[s]]
      /\ needsTitle' = needsTitle \ own
      /\ scanned' = scanned \ own
      /\ pairs' = {p \in pairs : p[1] \notin own}
      /\ UNCHANGED <<titled, job, failures>>

\* A document with its sources, and their rows in title_similarities.
Delete(d) ==
  LET own == {s \in Live : DocOf[s] = d}
  IN  /\ own # {}
      /\ row' = [s \in Source |-> IF s \in own THEN "gone" ELSE row[s]]
      /\ needsTitle' = needsTitle \ own
      /\ scanned' = scanned \ own
      /\ pairs' = {p \in pairs : p[1] \notin own /\ p[2] \notin own}
      /\ UNCHANGED <<titled, job, failures>>

-----------------------------------------------------------------------------
(* similarSource.                                                          *)

Go(w, pc) == job' = [job EXCEPT ![w].pc = pc]
Ends(w) == job' = [job EXCEPT ![w] = Idle]
RowsUnchanged == UNCHANGED <<row, titled, needsTitle, scanned, pairs>>

Start(w, s) ==
  /\ job[w].pc = "idle" /\ \A v \in Worker : job[v].pc # "idle" => job[v].src # s
  /\ job' = [job EXCEPT ![w] = [Idle EXCEPT !.pc = "list", !.src = s]]
  /\ RowsUnchanged /\ UNCHANGED failures

\* The job of an upload, of a title that was extracted, or of a row that was
\* listed by the sweeper before it was compared.
Offered(w, s) == s \in Live \ needsTitle /\ Start(w, s)

\* ListNeedingSimilar: the oldest rows.
Needing ==
  LET waiting == (Live \ needsTitle) \ scanned
  IN  {s \in waiting : Cardinality({t \in waiting : t < s}) < Batch}

Swept(w, s) == s \in Needing /\ Start(w, s)

\* Fault: siblings are not compared.
HitsElsewhere(s) ==
  {c \in Live \cap titled : DocOf[c] # DocOf[s] /\ s \in titled /\ <<s, c>> \in Near}

\* ListTitleCandidates and the scores: a source without a title has none.
Hits(s) == {c \in Live \cap titled : c # s /\ s \in titled /\ <<s, c>> \in Near}

List(w) ==
  LET found == Hits(job[w].src)
  IN  /\ job[w].pc = "list"
      /\ job' = [job EXCEPT ![w].hits = found,
                            ![w].pc = IF found = {} THEN "peers" ELSE "replace"]
      /\ RowsUnchanged /\ UNCHANGED failures

\* Fault: every sibling without a title counts, settled or not.
UntitledPeer(s) == \E p \in Live \ {s} : DocOf[p] = DocOf[s] /\ p \notin titled

UnreadyPeer(s) == \E p \in needsTitle \ {s} : DocOf[p] = DocOf[s]

\* HasUnreadyTitlePeers, asked only when nothing is similar.
Peers(w) ==
  /\ job[w].pc = "peers"
  /\ IF UnreadyPeer(job[w].src) THEN Ends(w) ELSE Go(w, "replace")
  /\ RowsUnchanged /\ UNCHANGED failures

\* Fault: the rows of one direction only are replaced.
OneWay(s, H) == {<<s, h>> : h \in H}

BothWays(s, H) == {<<s, h>> : h \in H} \cup {<<h, s>> : h \in H}

Stamp(s) == {s} \cap Live

\* ReplaceSimilar; a foreign key refuses the row of a source that was deleted.
Replace(w) ==
  LET s == job[w].src
      H == job[w].hits
  IN  /\ job[w].pc = "replace"
      /\ IF H = {} \/ H \cup {s} \subseteq Live
         THEN /\ pairs' = (pairs \ With(s)) \cup BothWays(s, H)
              /\ scanned' = scanned \cup Stamp(s)
         ELSE UNCHANGED <<pairs, scanned>>
      /\ Ends(w)
      /\ UNCHANGED <<row, titled, needsTitle, failures>>

Fail(w) ==
  /\ job[w].pc # "idle"
  /\ failures < MaxFailures /\ failures' = failures + 1
  /\ Ends(w) /\ RowsUnchanged

-----------------------------------------------------------------------------
Next ==
  \/ \E s \in Source :
       \/ \E kind \in TitleKind : Insert(s, kind)
       \/ SetSourceTitle(s) \/ ClearNeedsTitle(s)
  \/ \E d \in Doc : Delete(d)
  \/ \E w \in Worker :
       \/ \E s \in Source : Offered(w, s) \/ Swept(w, s)
       \/ List(w) \/ Peers(w) \/ Replace(w) \/ Fail(w)

Spec == Init /\ [][Next]_vars

\* A statement returns; the sweeper's job gets a worker in its turn, however
\* many other jobs are queued.  Nothing is assumed of the engine.
Fairness ==
  /\ \A w \in Worker : WF_vars(List(w) \/ Peers(w) \/ Replace(w))
  /\ \A s \in Source : SF_vars(\E w \in Worker : Swept(w, s))

FairSpec == Spec /\ Fairness

-----------------------------------------------------------------------------
(* Properties.                                                             *)

\* A pair is stored in both directions, between two sources that are there and
\* whose titles are similar, whatever was deleted or titled meanwhile.
PairsSound ==
  \A p \in pairs : /\ <<p[2], p[1]>> \in pairs
                   /\ p[1] \in Live \cap titled /\ p[2] \in Live \cap titled
                   /\ p \in Near \/ <<p[2], p[1]>> \in Near

\* Two sources whose titles are similar from both sides and that were both
\* compared are a pair, in whichever order that was done:
\* migration 017 recomputes "so existing unique files with overlapping titles
\* ... appear under Similar".
PairsComplete ==
  \A p \in Near :
    <<p[2], p[1]>> \in Near /\ {p[1], p[2]} \subseteq scanned \cap titled => p \in pairs

\* A settled source does not wait for ever to be compared, unless a sibling's
\* title is awaited ("or mixed uploads never stamp similarities").
ComparedInTheEnd ==
  \A s \in Source :
    ~ <>[](/\ s \in Live \ (needsTitle \cup scanned)
           /\ \A p \in needsTitle : DocOf[p] # DocOf[s])
=============================================================================
