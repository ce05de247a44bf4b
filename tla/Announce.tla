------------------------------- MODULE Announce -------------------------------
(***************************************************************************)
(* Who asks for a review.  A job that has published a fingerprint reads    *)
(* its document again, outside of the transaction, and writes a notice if  *)
(* the document is pending then (publishFingerprint, notifyReview).  Other *)
(* jobs, uploads, reviews and deletions run between the two.               *)
(*                                                                         *)
(* Notices of other kinds, and the documents of the matches, which only    *)
(* get an event, are left out.                                             *)
(***************************************************************************)
EXTENDS Documents

CONSTANT MaxLosses   (* bound: announcements that fail                      *)

ASSUME AnnounceAssumption == MaxLosses \in Nat

VARIABLES
  todo,      (* the sources whose job has not read its document again       *)
  asked,     (* history: the pending documents a notice was written for     *)
  unheard,   (* history: those nobody was told of because of a failure      *)
  losses

notes == <<todo, asked, unheard, losses>>
aVars == <<vars, notes>>

AInit == Init /\ todo = {} /\ asked = {} /\ unheard = {} /\ losses = 0

Waiting == {d \in Doc : doc[d] = "live" /\ status[d] = "pending_review"}

\* What was said of a document holds until it is no longer pending.
Heard(A, U) == asked' = A \cap Waiting' /\ unheard' = U \cap Waiting'

Lose == losses < MaxLosses /\ losses' = losses + 1

Publish(s, k, T) ==
  /\ Finalize(s, k, T)
  /\ todo' = todo \cup {s}
  /\ Heard(asked, unheard) /\ UNCHANGED losses

\* The COMMIT is there and its answer is lost: the next attempt finds the hash
\* and returns without anything touched.
PublishUnheard(s, k, T) ==
  /\ Lose
  /\ Finalize(s, k, T)
  /\ Heard(asked, unheard \cup {DocOf[s]}) /\ UNCHANGED todo

\* Fault: what the commit claimed comes first: the owner is told and nobody asked.
TellOwner(s) ==
  /\ s \in todo
  /\ todo' = todo \ {s}
  /\ UNCHANGED <<vars, asked, unheard, losses>>

\* Get, and NotifyAdminsOnce if the document is pending by now.
AskForReview(s) ==
  /\ s \in todo
  /\ todo' = todo \ {s}
  /\ UNCHANGED <<vars, losses>>
  /\ Heard(asked \cup {DocOf[s]}, unheard \ {DocOf[s]})

\* Get or the notice fails, or the process dies.  The job runs again, finds the
\* hash of its source and returns.
AskFails(s) ==
  /\ Lose
  /\ s \in todo
  /\ todo' = todo \ {s}
  /\ UNCHANGED vars
  /\ Heard(asked, unheard \cup ({DocOf[s]} \ asked))

\* The transactions that announce nothing to the reviewer.
Rest ==
  /\ \/ \E d \in Doc, S \in SUBSET Source : InsertDocument(d, S) \/ InsertSources(d, S)
     \/ \E d \in Doc : Approve(d) \/ RejectPending(d) \/ Delete(d)
  /\ Heard(asked, unheard) /\ UNCHANGED <<todo, losses>>

ANext ==
  \/ \E s \in Source, k \in Hash, T \in SUBSET Doc : Publish(s, k, T) \/ PublishUnheard(s, k, T)
  \/ \E s \in Source : AskForReview(s) \/ AskFails(s)
  \/ Rest

ASpec == AInit /\ [][ANext]_aVars

-----------------------------------------------------------------------------
\* No document is held for a reviewer nobody asks: a pending document has its
\* notice, or the job of one of its own sources is about to read it, unless an
\* announcement failed.  In particular no fingerprint of another document, no
\* upload, review or deletion makes a document pending behind its own jobs.
AskedForReview ==
  \A d \in Waiting : d \in asked \cup unheard \cup {DocOf[s] : s \in todo}
=============================================================================
