------------------------------ MODULE MCIntake ------------------------------
(* Intake on small instances for TLC.                                      *)
EXTENDS Intake, TLC

CONSTANTS a, b, t1, t2

Callers == Permutations({t1, t2})

\* The sources are numbered in upload order.
UploadOrder == [s \in Source |-> s]

Both(R) == R \cup {<<p[2], p[1]>> : p \in R}

\* Two sources of document a that match each other, and a document b that is
\* given the same ERP number.
ThreeUploads == 1 .. 3
ThreeDocOf == <<b, a, a>>
ThreeMatch == Both({<<2, 3>>})
ErpShared == (a :> 1) @@ (b :> 1)
=============================================================================
