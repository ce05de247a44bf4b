----------------------------- MODULE TitleScore -----------------------------
(***************************************************************************)
(* titlesim.Align and what ScoreNorm makes of it: the content words of one *)
(* title are taken in turn, and each is paired with the word of the other  *)
(* title that is spelt most like it, among those that are left.  Ratio is  *)
(* wordScore in hundredths, of words that Normalize and Tokens returned.   *)
(***************************************************************************)
EXTENDS Integers, Sequences, FiniteSets, FiniteSetsExt, Functions

CONSTANTS
  Word,      (* content words                                              *)
  Ratio,     (* wordScore of two words, 0 .. 100                           *)
  WordMin,   (* wordMin: 80                                                *)
  MaxWords   (* bound: words of a title                                    *)

ASSUME TitleScoreAssumption ==
  /\ Ratio \in [Word \X Word -> 0 .. 100]
  /\ \A v, w \in Word : Ratio[<<v, w>>] = Ratio[<<w, v>>] /\ (Ratio[<<v, w>>] = 100 <=> v = w)
  /\ WordMin \in 1 .. 100 /\ MaxWords \in Nat \ {0}

VARIABLES
  left, right,   (* a and b                                                *)
  next,          (* the word of a whose turn it is                         *)
  bHit,          (* the words of b that are taken                          *)
  matched

alignVars == <<left, right, next, bHit, matched>>

AlignInit ==
  /\ left \in UNION {[1 .. n -> Word] : n \in 1 .. MaxWords}
  /\ right \in UNION {[1 .. n -> Word] : n \in 1 .. MaxWords}
  /\ next = 1 /\ bHit = {} /\ matched = 0

Alike(i, j) == Ratio[<<left[i], right[j]>>]

\* Fault: words that are taken are not skipped.
AnyChoice(i) == {j \in DOMAIN right : Alike(i, j) >= WordMin}

Choice(i) == {j \in (DOMAIN right) \ bHit : Alike(i, j) >= WordMin}

\* The first of the words that are most like it.
Best(i) == Min({j \in Choice(i) : \A k \in Choice(i) : Alike(i, k) <= Alike(i, j)})

Pair ==
  /\ next <= Len(left) /\ Choice(next) # {}
  /\ bHit' = bHit \cup {Best(next)}
  /\ matched' = matched + 1
  /\ next' = next + 1
  /\ UNCHANGED <<left, right>>

Skip ==
  /\ next <= Len(left) /\ Choice(next) = {}
  /\ next' = next + 1
  /\ UNCHANGED <<left, right, bHit, matched>>

AlignNext == Pair \/ Skip

AlignSpec == AlignInit /\ [][AlignNext]_alignVars

Aligned == next > Len(left)

(***************************************************************************)
(* What a reader may expect of the number of aligned words.                *)
(***************************************************************************)
\* The pairings of words spelt alike, none of them used twice.
Pairings ==
  {P \in SUBSET {p \in (DOMAIN left) \X (DOMAIN right) : Alike(p[1], p[2]) >= WordMin} :
     \A p, q \in P : p # q => p[1] # q[1] /\ p[2] # q[2]}

MostPairs == Max({Cardinality(P) : P \in Pairings})

\* Align is greedy and looks from one side, so two titles may score more from
\* the other side; but it never counts a word twice, it never misses more than
\* half of what can be aligned, and two equal titles align word by word, so
\* that the 1 that ScoreNorm returns for them at once is what they would get.
AlignSound ==
  Aligned => /\ matched <= MostPairs /\ MostPairs <= 2 * matched
             /\ left = right => matched = Len(left)
=============================================================================
