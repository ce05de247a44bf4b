--------------------------- MODULE MCTitleSimilar ---------------------------
(* Two sources of one document, the second of which has a title like that  *)
(* of the first and that of a source of another document; these two are    *)
(* similar from one side only.                                             *)
EXTENDS TitleSimilar

Sources == {1, 2, 3}
TwoAndOne == [s \in Sources |-> IF s = 3 THEN "d2" ELSE "d1"]
SecondIsLike == {<<1, 2>>, <<2, 1>>, <<2, 3>>, <<3, 2>>, <<1, 3>>}
AnyTitle == [s \in Sources |-> IF s = 1 THEN {"printed", "none"} ELSE TitleKind]
=============================================================================
