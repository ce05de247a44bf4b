---------------------------- MODULE MCDocuments ----------------------------
(***************************************************************************)
(* Documents and Announce on small instances for TLC.  A behaviour either  *)
(* explores the tables with every upload, and asks for reviews at once, or *)
(* the announcements, without the uploads Later.                           *)
(***************************************************************************)
EXTENDS Announce

CONSTANTS a, b, c

\* The sources are numbered in upload order.
UploadOrder == [s \in Source |-> s]

Both(R) == R \cup {<<p[2], p[1]>> : p \in R}

\* Two members' documents and one of an administrator.  The near-duplicate
\* relation is not transitive: 5 - 2 - 4 - 3 and 1 - 2.  The document of 1, 2 and
\* 4 can be reviewed twice, with a duplicate let through in between, and 5, in
\* another document, arrives after 2 has become a duplicate of 1.  Such are five
\* texts whose hashes differ from each other in the bits of 00, 01, 10, 11 and
\* 101, and which have 8, 9, 11, 10 and 9 pages: 1 and 3 are joined, but too
\* unlike in length.
FiveUploads == 1 .. 5
FiveDocOf == <<b, b, c, b, a>>
FiveMatch == Both({<<1, 2>>, <<2, 4>>, <<3, 4>>, <<2, 5>>})
FiveNear == FiveMatch \cup Both({<<1, 3>>})
VARIABLE part

Later == {3}

MCInit == AInit /\ part \in {"tables", "announce"}

MCNext ==
  /\ \/ /\ part = "tables" /\ Next
        /\ asked' = Waiting' /\ UNCHANGED <<todo, unheard, losses>>
     \/ part = "announce" /\ ANext /\ \A s \in Later : row'[s] = "new"
  /\ UNCHANGED part

MCSpec == MCInit /\ [][MCNext]_<<aVars, part>>
=============================================================================
