--------------------------- MODULE MCDocumentsTx ---------------------------
(* DocumentsTx on small instances for TLC.                                 *)
EXTENDS DocumentsTx

CONSTANTS a, b, k1, k2, k3

UploadOrder == [s \in Source |-> s]
Both(R) == R \cup {<<p[2], p[1]>> : p \in R}
Keys == {k1, k2, k3}
Docs == {a, b}
KeyRank == [k \in Keys |-> CASE k = k1 -> 1 [] k = k2 -> 2 [] k = k3 -> 3]
DocRank == [d \in Docs |-> IF d = a THEN 1 ELSE 2]

\* 3 is a duplicate of 1 and of 2, which share no key with each other: their
\* transactions run side by side and lock the same two documents.  With the
\* four bands of the code that takes two such pairs; these keys do with three
\* sources, and leave out the keys that nobody shares.
ForkUploads == 1 .. 3
ForkDocOf == <<a, a, b>>
ForkMatch == Both({<<1, 3>>, <<2, 3>>})
ForkKeysOf == <<{k1, k3}, {k2}, Keys>>
=============================================================================
