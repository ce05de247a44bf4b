---------------------------- MODULE Fingerprint ----------------------------
(***************************************************************************)
(* How a fingerprint is compared with one that is stored: the queries of   *)
(* FinalizeFingerprint, which find rows by equal digests and by buckets of *)
(* locality-sensitive hashing, the best score of each row, and IsDuplicate *)
(* on it.  A 64-bit hash is the set of its bits that are 1.                *)
(*                                                                         *)
(* Documents takes what this yields as its relations Near and Match, and   *)
(* DocumentsTx takes FingerprintLockKeys as its KeysOf.                    *)
(***************************************************************************)
EXTENDS Integers, FiniteSets

CONSTANTS
  Digest,      (* SHA-256 of files                                         *)
  TextDigest,  (* SHA-256 of normalized texts                              *)
  SimHash,     (* the SimHash64 of each of these texts                     *)
  PHash,       (* the perceptual hashes of images                          *)
  Pages        (* page counts; 0 when pdfinfo could not tell               *)

LSHBands == 4
BandBits == 16
HashBits == LSHBands * BandBits

ASSUME FingerprintAssumption ==
  /\ SimHash \in [TextDigest -> SUBSET (0 .. HashBits - 1)]
  /\ PHash \subseteq SUBSET (0 .. HashBits - 1)
  /\ Pages \subseteq Nat
  /\ "none" \notin TextDigest

SimHashMaxDist == 1   \* and PHashMaxDist

\* What Analyze returns for a file without text, with text, and for an image.
\* Of the first there is only a digest.
PlainPrint ==
  {[sha |-> d, kind |-> "none", txt |-> "none", word |-> {}, pages |-> n] :
     d \in Digest, n \in Pages}
TextPrint ==
  {[sha |-> d, kind |-> "simhash", txt |-> t, word |-> SimHash[t], pages |-> n] :
     d \in Digest, t \in TextDigest, n \in Pages}
ImagePrint ==
  {[sha |-> d, kind |-> "phash", txt |-> "none", word |-> w, pages |-> 1] :
     d \in Digest, w \in PHash}
Prints == PlainPrint \cup TextPrint \cup ImagePrint

Hamming(x, y) == Cardinality((x \ y) \cup (y \ x))

\* Fault: the hash is not shifted.
LowBits(h, i) == h \cap (0 .. BandBits - 1)

Band(h, i) == h \cap (BandBits * i .. BandBits * i + BandBits - 1)

\* Bands as rows of fingerprint_lsh: replaceLSH, which leaves zero out.
Buckets(p) ==
  IF p.word = {} THEN {}
  ELSE {<<p.kind, i, Band(p.word, i)>> : i \in 0 .. LSHBands - 1}

\* The advisory locks, in no order.
FingerprintLockKeys(p) ==
  {<<"sha", p.sha>>} \cup Buckets(p)
    \cup (IF p.kind = "simhash" THEN {<<"txt", p.txt>>} ELSE {})

\* queryExact, queryTextExact and queryLSH: do they return q for p?
Exact(p, q) == q.sha = p.sha
TextExact(p, q) == p.kind = "simhash" /\ q.txt = p.txt
NearHash(p, q) ==
  /\ Buckets(p) \cap Buckets(q) # {}
  /\ Hamming(p.word, q.word) <= SimHashMaxDist

Joined(p, q) == Exact(p, q) \/ TextExact(p, q) \/ NearHash(p, q)

\* Scores are counted in 640ths, so that all of them are whole.
ScoreFromDistance(d) == 1000 * (HashBits - d)

PagesCompatible(m, n) ==
  /\ m > 0 /\ n > 0
  /\ m = n \/ (m - n \in {-1, 1} /\ m >= 8 /\ n >= 8)

MinExactScore == 63936
MinNearScore  == 62720

IsDuplicate(h, m, n) ==
  \/ h.kind = "exact" /\ h.score >= MinExactScore
  \/ h.kind \in {"simhash", "phash"} /\ h.score >= MinNearScore /\ PagesCompatible(m, n)

NoHit == [kind |-> "none", score |-> 0]
ExactHit == [kind |-> "exact", score |-> 64000]
TextHit == [kind |-> "simhash", score |-> 63680]
NearHit(p, q) ==
  [kind |-> p.kind, score |-> ScoreFromDistance(Hamming(p.word, q.word))]

-----------------------------------------------------------------------------
VARIABLES
  fresh,    (* the fingerprint being published                             *)
  stored,   (* that of a row                                               *)
  query,    (* the query that comes next, "end" after the last             *)
  hit       (* what the queries so far have found of the row               *)

printVars == <<fresh, stored, query, hit>>

FingerprintInit ==
  /\ fresh \in Prints /\ stored \in Prints
  /\ query = "exact" /\ hit = NoHit

\* mergeMatches: the better score wins, and the earlier of equal ones.
Merge(joined, h) ==
  hit' = IF joined /\ h.score > hit.score THEN h ELSE hit

QueryExact ==
  /\ query = "exact"
  /\ Merge(Exact(fresh, stored), ExactHit)
  /\ query' = CASE fresh.kind = "simhash" -> "text"
                [] fresh.kind = "phash" -> "near"
                [] OTHER -> "end"
  /\ UNCHANGED <<fresh, stored>>

QueryTextExact ==
  /\ query = "text"
  /\ Merge(TextExact(fresh, stored), TextHit)
  /\ query' = "near"
  /\ UNCHANGED <<fresh, stored>>

QueryLSH ==
  /\ query = "near"
  /\ Merge(NearHash(fresh, stored), NearHit(fresh, stored))
  /\ query' = "end"
  /\ UNCHANGED <<fresh, stored>>

FingerprintNext == QueryExact \/ QueryTextExact \/ QueryLSH

FingerprintSpec == FingerprintInit /\ [][FingerprintNext]_printVars

-----------------------------------------------------------------------------
(* Properties.                                                             *)

\* Equal bytes; or the same kind of content, as many pages, and an equal text
\* or hashes, not zero, of which at most one bit differs.
Resembles(p, q) ==
  \/ p.sha = q.sha
  \/ /\ p.kind = q.kind /\ p.kind # "none"
     /\ PagesCompatible(p.pages, q.pages)
     /\ \/ p.kind = "simhash" /\ p.txt = q.txt
        \/ p.word # {} /\ q.word # {} /\ Hamming(p.word, q.word) <= 1

\* The bands miss no near hash, the scores of the queries and the thresholds
\* of IsDuplicate agree, whichever query found a row: two files are duplicates
\* exactly when they resemble each other.  And whatever a query finds is under
\* an advisory lock that the fingerprint of the row also takes.
ResemblanceFound ==
  query = "end" =>
    /\ IsDuplicate(hit, fresh.pages, stored.pages) <=> Resembles(fresh, stored)
    /\ hit # NoHit =>
         FingerprintLockKeys(fresh) \cap FingerprintLockKeys(stored) # {}
=============================================================================
