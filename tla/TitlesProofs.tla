----------------------------- MODULE TitlesProofs -----------------------------
(***************************************************************************)
(* What is compared with what.  Fingerprints: the comparison finds exactly *)
(* the resembling files, and fulfils what Documents and DocumentsTx assume *)
(* of it, for any digests, texts and hashes.  Titles: the rows of          *)
(* title_similarities are sound however many comparisons overlap, and      *)
(* complete when one runs at a time, for any sources and documents.        *)
(* Scores: Align never counts too much, and misses at most half.           *)
(***************************************************************************)
EXTENDS Fingerprint, TitleSimilar, TitleScore, FiniteSetTheorems, WellFoundedInduction,
        TLAPS

HashWord == SUBSET (0 .. HashBits - 1)

LEMMA PrintType ==
  ASSUME NEW p \in Prints
  PROVE  /\ p.kind \in {"none", "simhash", "phash"}
         /\ p.word \in HashWord
         /\ p.pages \in Nat
         /\ p.kind = "none" => p.word = {}
         /\ p.kind = "simhash" <=> p.txt \in TextDigest
         /\ p.kind # "simhash" => p.txt = "none"
  <1>1. CASE p \in PlainPrint
    BY <1>1, FingerprintAssumption DEF PlainPrint, HashWord
  <1>2. CASE p \in TextPrint
    <2>1. PICK d \in Digest, t \in TextDigest, n \in Pages :
            p = [sha |-> d, kind |-> "simhash", txt |-> t,
                 word |-> SimHash[t], pages |-> n]
      BY <1>2 DEF TextPrint
    <2>2. SimHash[t] \in HashWord /\ n \in Nat
      BY FingerprintAssumption DEF HashWord
    <2>3. QED
      BY <2>1, <2>2
  <1>3. CASE p \in ImagePrint
    <2>1. PICK d \in Digest, w \in PHash :
            p = [sha |-> d, kind |-> "phash", txt |-> "none", word |-> w, pages |-> 1]
      BY <1>3 DEF ImagePrint
    <2>2. w \in HashWord
      BY FingerprintAssumption DEF HashWord
    <2>3. QED
      BY <2>1, <2>2, FingerprintAssumption
  <1>4. QED
    BY <1>1, <1>2, <1>3 DEF Prints

-----------------------------------------------------------------------------
(* Distances and bands.                                                    *)

LEMMA HammingType ==
  ASSUME NEW x \in HashWord, NEW y \in HashWord
  PROVE  /\ IsFiniteSet((x \ y) \cup (y \ x))
         /\ Hamming(x, y) \in Nat
         /\ Hamming(x, y) <= HashBits
         /\ Hamming(x, y) = 0 <=> x = y
         /\ Hamming(x, y) = Hamming(y, x)
  <1> DEFINE D == (x \ y) \cup (y \ x)
  <1>1. IsFiniteSet(0 .. HashBits - 1) /\ Cardinality(0 .. HashBits - 1) = HashBits
    <2>1. HashBits = 64
      BY DEF HashBits, LSHBands, BandBits
    <2>2. \A m \in Int : /\ IsFiniteSet(0 .. m)
                         /\ Cardinality(0 .. m) = IF 0 > m THEN 0 ELSE m - 0 + 1
      BY FS_Interval
    <2>3. HashBits - 1 \in Int /\ HashBits - 1 - 0 + 1 = HashBits /\ ~(0 > HashBits - 1)
      BY <2>1
    <2>4. QED
      BY <2>2, <2>3
  <1>2. D \subseteq 0 .. HashBits - 1
    BY DEF HashWord
  <1>3. IsFiniteSet(D) /\ Cardinality(D) \in Nat /\ Cardinality(D) <= HashBits
    BY <1>1, <1>2, FS_Subset, FS_CardinalityType
  <1>4. Cardinality(D) = 0 <=> D = {}
    BY <1>3, FS_EmptySet
  <1>5. D = {} <=> x = y
    OBVIOUS
  <1>6. D = (y \ x) \cup (x \ y)
    OBVIOUS
  <1>7. QED
    BY <1>3, <1>4, <1>5, <1>6 DEF Hamming

LEMMA BucketsSymmetric ==
  ASSUME NEW p \in Prints, NEW q \in Prints, NearHash(p, q)
  PROVE  /\ NearHash(q, p) /\ p.kind = q.kind
         /\ p.word # {} /\ q.word # {} /\ p.kind # "none"
  <1>1. PICK b \in Buckets(p) : b \in Buckets(q)
    BY DEF NearHash
  <1>2. p.word # {} /\ q.word # {}
    BY <1>1 DEF Buckets
  <1>3. b[1] = p.kind /\ b[1] = q.kind
    BY <1>1, <1>2 DEF Buckets
  <1>4. Hamming(p.word, q.word) = Hamming(q.word, p.word)
    BY PrintType, HammingType
  <1>5. QED
    BY <1>1, <1>2, <1>3, <1>4, PrintType DEF NearHash

\* Two hashes that differ in one bit at most agree on every band but one.
THEOREM NearShareBand ==
  ASSUME NEW x \in HashWord, NEW y \in HashWord, Hamming(x, y) <= SimHashMaxDist
  PROVE  \E i \in 0 .. LSHBands - 1 : Band(x, i) = Band(y, i)
  <1> DEFINE D == (x \ y) \cup (y \ x)
  <1>1. SUFFICES ASSUME Band(x, 0) # Band(y, 0), Band(x, 1) # Band(y, 1)
                 PROVE  FALSE
    BY DEF LSHBands
  <1>2. PICK m \in D : m \in 0 .. 15
    BY <1>1 DEF Band, BandBits
  <1>3. PICK n \in D : n \in 16 .. 31
    BY <1>1 DEF Band, BandBits
  <1>4. m # n
    BY <1>2, <1>3
  <1>5. IsFiniteSet(D)
    BY HammingType
  <1>6. {m, n} \subseteq D /\ IsFiniteSet({m, n}) /\ Cardinality({m, n}) = 2
    <2>1. IsFiniteSet({}) /\ Cardinality({}) = 0
      BY FS_EmptySet
    <2>2. IsFiniteSet({m}) /\ Cardinality({m}) = 1
      BY FS_Singleton
    <2>3. {m, n} = {m} \cup {n} /\ n \notin {m}
      BY <1>4
    <2>4. IsFiniteSet({m} \cup {n}) /\ Cardinality({m} \cup {n}) = 1 + 1
      BY <2>2, <2>3, FS_AddElement
    <2>5. QED
      BY <2>3, <2>4, <1>2, <1>3
  <1>7. 2 <= Cardinality(D) /\ Cardinality(D) \in Nat
    BY <1>5, <1>6, FS_Subset, FS_CardinalityType
  <1>8. QED
    BY <1>7 DEF Hamming, SimHashMaxDist

\* So the buckets miss no near hash of the same kind.
LEMMA NearHashIs ==
  ASSUME NEW p \in Prints, NEW q \in Prints
  PROVE  NearHash(p, q) <=>
           /\ p.kind = q.kind /\ p.word # {} /\ q.word # {}
           /\ Hamming(p.word, q.word) <= 1
  <1>1. ASSUME NearHash(p, q)
        PROVE  /\ p.kind = q.kind /\ p.word # {} /\ q.word # {}
               /\ Hamming(p.word, q.word) <= 1
    BY <1>1, BucketsSymmetric DEF NearHash, SimHashMaxDist
  <1>2. ASSUME p.kind = q.kind, p.word # {}, q.word # {},
               Hamming(p.word, q.word) <= 1
        PROVE  NearHash(p, q)
    <2>1. PICK i \in 0 .. LSHBands - 1 : Band(p.word, i) = Band(q.word, i)
      BY <1>2, PrintType, NearShareBand DEF SimHashMaxDist
    <2>2. <<p.kind, i, Band(p.word, i)>> \in Buckets(p)
      BY <1>2 DEF Buckets
    <2>3. <<p.kind, i, Band(p.word, i)>> \in Buckets(q)
      BY <1>2, <2>1 DEF Buckets
    <2>4. QED
      BY <2>2, <2>3, <1>2 DEF NearHash, SimHashMaxDist
  <1>3. QED
    BY <1>1, <1>2

-----------------------------------------------------------------------------
(* What Documents and DocumentsTx assume.                                  *)

LEMMA JoinedSymmetric ==
  ASSUME NEW p \in Prints, NEW q \in Prints, Joined(p, q)
  PROVE  Joined(q, p)
  <1>1. CASE Exact(p, q)
    BY <1>1 DEF Exact, Joined
  <1>2. CASE TextExact(p, q)
    BY <1>2, PrintType, FingerprintAssumption DEF TextExact, Joined
  <1>3. CASE NearHash(p, q)
    BY <1>3, BucketsSymmetric DEF Joined
  <1>4. QED
    BY <1>1, <1>2, <1>3 DEF Joined

LEMMA JoinedShareKey ==
  ASSUME NEW p \in Prints, NEW q \in Prints, Joined(p, q)
  PROVE  FingerprintLockKeys(p) \cap FingerprintLockKeys(q) # {}
  <1>1. CASE Exact(p, q)
    BY <1>1 DEF Exact, FingerprintLockKeys
  <1>2. CASE TextExact(p, q)
    <2>1. q.kind = "simhash"
      BY <1>2, PrintType DEF TextExact
    <2>2. /\ <<"txt", p.txt>> \in FingerprintLockKeys(p)
          /\ <<"txt", p.txt>> \in FingerprintLockKeys(q)
      BY <1>2, <2>1 DEF TextExact, FingerprintLockKeys
    <2>3. QED
      BY <2>2
  <1>3. CASE NearHash(p, q)
    BY <1>3 DEF NearHash, FingerprintLockKeys
  <1>4. QED
    BY <1>1, <1>2, <1>3 DEF Joined

LEMMA ResemblesSymmetric ==
  ASSUME NEW p \in Prints, NEW q \in Prints, Resembles(p, q)
  PROVE  Resembles(q, p)
  <1>1. Hamming(p.word, q.word) = Hamming(q.word, p.word)
    BY PrintType, HammingType
  <1>2. p.pages \in Nat /\ q.pages \in Nat
    BY PrintType
  <1>3. PagesCompatible(p.pages, q.pages) => PagesCompatible(q.pages, p.pages)
    BY <1>2 DEF PagesCompatible
  <1>4. QED
    BY <1>1, <1>3 DEF Resembles

LEMMA ResemblingAreJoined ==
  ASSUME NEW p \in Prints, NEW q \in Prints, Resembles(p, q)
  PROVE  Joined(p, q)
  BY NearHashIs DEF Resembles, Joined, Exact, TextExact

\* Give each source a fingerprint: the pairs the queries join, those that are
\* duplicates and the keys FinalizeFingerprint locks are such as the
\* assumptions MatchAssumption of Documents and KeysAssumption of DocumentsTx
\* ask of Near, Match and KeysOf.
THEOREM PrintsFulfilAssumptions ==
  ASSUME NEW Sources, NEW PrintOf \in [Sources -> Prints]
  PROVE  LET Joins(s, t) == s # t /\ Joined(PrintOf[s], PrintOf[t])
             Matches(s, t) == s # t /\ Resembles(PrintOf[s], PrintOf[t])
             KeysOf(s) == FingerprintLockKeys(PrintOf[s])
         IN  \A s, t \in Sources :
               /\ ~Joins(s, s)
               /\ Matches(s, t) => Joins(s, t)
               /\ Joins(s, t) => Joins(t, s)
               /\ Matches(s, t) => Matches(t, s)
               /\ Joins(s, t) => KeysOf(s) \cap KeysOf(t) # {}
  <1> DEFINE P == PrintOf
  <1> SUFFICES ASSUME NEW s \in Sources, NEW t \in Sources
               PROVE  /\ Resembles(P[s], P[t]) => Joined(P[s], P[t])
                      /\ Joined(P[s], P[t]) => Joined(P[t], P[s])
                      /\ Resembles(P[s], P[t]) => Resembles(P[t], P[s])
                      /\ Joined(P[s], P[t]) =>
                           FingerprintLockKeys(P[s]) \cap FingerprintLockKeys(P[t]) # {}
    BY Zenon
  <1> PrintOf[s] \in Prints /\ PrintOf[t] \in Prints
    OBVIOUS
  <1> QED
    BY ResemblingAreJoined, JoinedSymmetric, ResemblesSymmetric, JoinedShareKey

-----------------------------------------------------------------------------
(* The three queries.                                                      *)

Same == Hamming(fresh.word, stored.word) = 0

\* What has been found of a row when the next query begins.
BestSoFar ==
  LET exact == Exact(fresh, stored)
      text == TextExact(fresh, stored)
      near == NearHash(fresh, stored)
  IN  /\ query = "exact" => hit = NoHit
      /\ query = "text" => /\ fresh.kind = "simhash"
                           /\ hit = IF exact THEN ExactHit ELSE NoHit
      /\ query = "near" => hit = IF exact THEN ExactHit
                                 ELSE IF text THEN TextHit ELSE NoHit
      /\ query = "end" => hit = IF exact THEN ExactHit
                                ELSE IF near /\ (Same \/ ~text)
                                     THEN NearHit(fresh, stored)
                                ELSE IF text THEN TextHit ELSE NoHit

PrintInv ==
  /\ fresh \in Prints /\ stored \in Prints
  /\ query \in {"exact", "text", "near", "end"}
  /\ BestSoFar

LEMMA NearHits ==
  ASSUME NEW p \in Prints, NEW q \in Prints, NearHash(p, q)
  PROVE  /\ p.kind \in {"simhash", "phash"}
         /\ NearHit(p, q).kind = p.kind
         /\ NearHit(p, q).score \in {63000, 64000}
         /\ NearHit(p, q).score = 64000 <=> Hamming(p.word, q.word) = 0
  <1> DEFINE d == Hamming(p.word, q.word)
  <1>1. p.word \in HashWord /\ q.word \in HashWord
    BY PrintType
  <1>2. d \in Nat
    BY <1>1, HammingType
  <1>3. d <= 1
    BY DEF NearHash, SimHashMaxDist
  <1>4. d \in {0, 1}
    BY <1>2, <1>3
  <1>5. p.kind \in {"simhash", "phash"}
    BY PrintType, BucketsSymmetric
  <1>6. NearHit(p, q).kind = p.kind /\ NearHit(p, q).score = ScoreFromDistance(d)
    BY DEF NearHit
  <1>7. ScoreFromDistance(d) \in {63000, 64000} /\ (ScoreFromDistance(d) = 64000 <=> d = 0)
    BY <1>4 DEF ScoreFromDistance, HashBits, LSHBands, BandBits
  <1>8. QED
    BY <1>5, <1>6, <1>7

LEMMA TextHits ==
  ASSUME NEW p \in Prints, NEW q \in Prints, TextExact(p, q)
  PROVE  p.kind = "simhash" /\ q.kind = "simhash"
  BY PrintType DEF TextExact

LEMMA FingerprintInductive ==
  PrintInv /\ [FingerprintNext]_printVars => PrintInv'
  <1> SUFFICES ASSUME PrintInv, [FingerprintNext]_printVars
               PROVE  PrintInv'
    OBVIOUS
  <1> USE DEF PrintInv
  <1>1. CASE QueryExact
    <2>1. Exact(fresh, stored) => ExactHit.score > NoHit.score
      BY DEF ExactHit, NoHit
    <2>2. fresh' = fresh /\ stored' = stored
          /\ hit' = IF Exact(fresh, stored) THEN ExactHit ELSE NoHit
      BY <1>1, <2>1 DEF QueryExact, Merge, BestSoFar
    <2>3. CASE fresh.kind = "simhash"
      BY <1>1, <2>2, <2>3 DEF QueryExact, BestSoFar, Exact
    <2>4. CASE fresh.kind = "phash"
      <3>1. ~TextExact(fresh, stored) /\ query' = "near"
        BY <1>1, <2>4 DEF QueryExact, TextExact
      <3>2. BestSoFar'
        BY <2>2, <3>1 DEF BestSoFar, Exact, TextExact
      <3>3. QED
        BY <2>2, <3>1, <3>2
    <2>5. CASE fresh.kind = "none"
      <3>1. ~TextExact(fresh, stored) /\ ~NearHash(fresh, stored)
        BY <2>5, BucketsSymmetric DEF TextExact
      <3>2. query' = "end"
        BY <1>1, <2>5 DEF QueryExact
      <3>3. BestSoFar'
        BY <2>2, <3>1, <3>2 DEF BestSoFar, Exact, TextExact, NearHash
      <3>4. QED
        BY <2>2, <3>2, <3>3
    <2>6. QED
      BY <2>3, <2>4, <2>5, PrintType
  <1>2. CASE QueryTextExact
    <2>1. TextHit.score > NoHit.score /\ ~(TextHit.score > ExactHit.score)
      BY DEF TextHit, ExactHit, NoHit
    <2>2. fresh' = fresh /\ stored' = stored /\ query' = "near"
          /\ hit' = IF Exact(fresh, stored) THEN ExactHit
                    ELSE IF TextExact(fresh, stored) THEN TextHit ELSE NoHit
      BY <1>2, <2>1 DEF QueryTextExact, Merge, BestSoFar
    <2>3. QED
      BY <2>2 DEF BestSoFar, Exact, TextExact
  <1>3. CASE QueryLSH
    <2>1. fresh' = fresh /\ stored' = stored /\ query' = "end"
          /\ hit' = (IF NearHash(fresh, stored) /\ NearHit(fresh, stored).score > hit.score
                     THEN NearHit(fresh, stored) ELSE hit)
          /\ hit = (IF Exact(fresh, stored) THEN ExactHit
                    ELSE IF TextExact(fresh, stored) THEN TextHit ELSE NoHit)
      BY <1>3 DEF QueryLSH, Merge, BestSoFar
    <2>2. hit' = IF Exact(fresh, stored) THEN ExactHit
                 ELSE IF NearHash(fresh, stored) /\ (Same \/ ~TextExact(fresh, stored))
                      THEN NearHit(fresh, stored)
                 ELSE IF TextExact(fresh, stored) THEN TextHit ELSE NoHit
      <3>1. ExactHit.score = 64000 /\ TextHit.score = 63680 /\ NoHit.score = 0
        BY DEF ExactHit, TextHit, NoHit
      <3>2. NearHash(fresh, stored) =>
              /\ NearHit(fresh, stored).score \in {63000, 64000}
              /\ NearHit(fresh, stored).score = 64000 <=> Same
        BY NearHits DEF Same
      <3>3. QED
        BY <2>1, <3>1, <3>2
    <2>3. BestSoFar'
      BY <2>1, <2>2 DEF BestSoFar, Exact, TextExact, NearHash, NearHit, Same
    <2>4. QED
      BY <2>1, <2>3
  <1>4. CASE UNCHANGED printVars
    BY <1>4 DEF printVars, BestSoFar, Exact, TextExact, NearHash, NearHit, Same
  <1>5. QED
    BY <1>1, <1>2, <1>3, <1>4 DEF FingerprintNext

\* Whichever query finds a row, and whatever it scores: a fingerprint is the
\* duplicate of exactly those that resemble it, and shares a lock with them.
THEOREM ResemblanceCorrect == FingerprintSpec => []ResemblanceFound
  <1>1. FingerprintInit => PrintInv
    BY DEF FingerprintInit, PrintInv, BestSoFar
  <1>2. PrintInv => ResemblanceFound
    <2> SUFFICES ASSUME PrintInv, query = "end" PROVE
          /\ IsDuplicate(hit, fresh.pages, stored.pages) <=> Resembles(fresh, stored)
          /\ hit # NoHit =>
               FingerprintLockKeys(fresh) \cap FingerprintLockKeys(stored) # {}
      BY DEF ResemblanceFound
    <2> USE DEF PrintInv
    <2>1. CASE Exact(fresh, stored)
      BY <2>1, JoinedShareKey
      DEF BestSoFar, Joined, IsDuplicate, ExactHit, MinExactScore, Resembles, Exact
    <2>2. CASE ~Exact(fresh, stored) /\ (TextExact(fresh, stored) \/ NearHash(fresh, stored))
      <3>1. hit \in {TextHit, NearHit(fresh, stored)}
            /\ (hit = TextHit => TextExact(fresh, stored) \/ NearHash(fresh, stored))
            /\ (hit # TextHit => hit = NearHit(fresh, stored) /\ NearHash(fresh, stored))
        BY <2>2 DEF BestSoFar
      <3>2. hit.kind \in {"simhash", "phash"} /\ hit.score >= MinNearScore
        BY <3>1, NearHits DEF TextHit, MinNearScore
      <3>3. IsDuplicate(hit, fresh.pages, stored.pages)
              <=> PagesCompatible(fresh.pages, stored.pages)
        BY <3>2 DEF IsDuplicate
      <3>4. Resembles(fresh, stored) <=> PagesCompatible(fresh.pages, stored.pages)
        <4>1. CASE TextExact(fresh, stored)
          <5>1. fresh.kind = "simhash" /\ stored.kind = "simhash" /\ fresh.txt = stored.txt
            BY <4>1, TextHits DEF TextExact
          <5>2. QED
            BY <5>1, <2>2 DEF Resembles, Exact
        <4>2. CASE NearHash(fresh, stored)
          <5>1. /\ fresh.kind = stored.kind /\ fresh.kind # "none"
                /\ fresh.word # {} /\ stored.word # {}
                /\ Hamming(fresh.word, stored.word) <= 1
            BY <4>2, NearHashIs, BucketsSymmetric
          <5>2. QED
            BY <5>1, <2>2 DEF Resembles, Exact
        <4>3. QED
          BY <2>2, <4>1, <4>2
      <3>5. QED
        BY <2>2, <3>3, <3>4, JoinedShareKey DEF Joined
    <2>3. CASE ~Joined(fresh, stored)
      <3>1. hit = NoHit
        BY <2>3 DEF BestSoFar, Joined
      <3>2. ~IsDuplicate(hit, fresh.pages, stored.pages)
        BY <3>1 DEF NoHit, IsDuplicate
      <3>3. QED
        BY <3>1, <3>2, <2>3, ResemblingAreJoined
    <2>4. QED
      BY <2>1, <2>2, <2>3 DEF Joined
  <1>3. QED
    BY <1>1, <1>2, FingerprintInductive, PTL DEF FingerprintSpec

-----------------------------------------------------------------------------
(* Similar titles.                                                           *)

USE DEF Live, Go, Ends, RowsUnchanged

\* What a comparison holds: titles that are similar, of a settled source.
JobSound ==
  \A w \in Worker :
    /\ job[w].pc # "idle" => job[w].src \notin needsTitle /\ row[job[w].src] # "new"
    /\ job[w].hits \subseteq titled
    /\ \A h \in job[w].hits : <<job[w].src, h>> \in Near /\ job[w].src \in titled

\* And, once it has looked, every such source that was compared before.
JobComplete ==
  \A w \in Worker :
    job[w].pc \in {"peers", "replace"} /\ job[w].src \in titled =>
      \A c \in scanned \cap titled : <<job[w].src, c>> \in Near => c \in job[w].hits

IInv == TypeOK /\ PairsSound /\ JobSound

\* A worker without a comparison has its type.
LEMMA IdleType ==
  ASSUME NEW s \in Source
  PROVE  /\ Idle \in [pc : {"idle", "list", "peers", "replace"},
                     src : Source, hits : SUBSET Source]
         /\ Idle.pc = "idle" /\ Idle.hits = {}
<1>1. (CHOOSE x \in Source : TRUE) \in Source
  OBVIOUS
<1> QED
  BY <1>1 DEF Idle

\* The steps that change rows.
LEMMA RowStep ==
  ASSUME IInv,
         \/ \E s \in Source : \/ \E kind \in TitleKind : Insert(s, kind)
                              \/ SetSourceTitle(s) \/ ClearNeedsTitle(s)
         \/ \E d \in Doc : Delete(d)
  PROVE  IInv'
<1> USE DEF IInv
<1>0. job' = job /\ failures' = failures
  BY DEF Insert, SetSourceTitle, ClearNeedsTitle, Delete
<1>1. ASSUME NEW s \in Source, NEW kind \in TitleKind, Insert(s, kind)
      PROVE  IInv'
  <2>1. TypeOK'
    BY <1>1 DEF Insert, TypeOK
  <2>2. PairsSound'
    BY <1>1 DEF Insert, TypeOK, PairsSound
  <2>3. JobSound'
    BY <1>1 DEF Insert, TypeOK, JobSound
  <2> QED
    BY <2>1, <2>2, <2>3
<1>2. ASSUME NEW s \in Source, SetSourceTitle(s) \/ ClearNeedsTitle(s)
      PROVE  IInv'
  <2>1. TypeOK'
    BY <1>2 DEF SetSourceTitle, ClearNeedsTitle, TypeOK
  <2>2. PairsSound'
    BY <1>2 DEF SetSourceTitle, ClearNeedsTitle, PairsSound
  <2>3. JobSound'
    BY <1>2 DEF SetSourceTitle, ClearNeedsTitle, JobSound
  <2> QED
    BY <2>1, <2>2, <2>3
<1>3. ASSUME NEW d \in Doc, Delete(d)
      PROVE  IInv'
  <2>1. TypeOK'
    BY <1>3 DEF Delete, TypeOK
  <2>2. PairsSound'
    BY <1>3 DEF Delete, TypeOK, PairsSound
  <2>3. JobSound'
    BY <1>3 DEF Delete, TypeOK, JobSound
  <2> QED
    BY <2>1, <2>2, <2>3
<1> QED
  BY <1>1, <1>2, <1>3

\* The steps of a comparison before it writes.
LEMMA ReadStep ==
  ASSUME IInv, NEW w \in Worker,
         (\E s \in Source : Offered(w, s) \/ Swept(w, s)) \/ List(w) \/ Peers(w) \/ Fail(w)
  PROVE  IInv'
<1> USE DEF IInv
<1>1. job[w].src \in Source /\ job \in [Worker -> [pc : {"idle", "list", "peers", "replace"},
                                                  src : Source, hits : SUBSET Source]]
  BY DEF TypeOK
<1>2. /\ Idle \in [pc : {"idle", "list", "peers", "replace"},
                   src : Source, hits : SUBSET Source]
      /\ Idle.pc = "idle" /\ Idle.hits = {}
  BY <1>1, IdleType
<1>3. /\ UNCHANGED <<row, titled, needsTitle, scanned, pairs>>
      /\ failures' \in 0 .. MaxFailures
  <2>1. failures' = failures \/ (failures < MaxFailures /\ failures' = failures + 1)
    BY DEF Offered, Swept, Start, List, Peers, Fail
  <2>2. failures' \in 0 .. MaxFailures
    BY <2>1, TitleSimilarAssumption DEF TypeOK
  <2> QED
    BY <2>2 DEF Offered, Swept, Start, List, Peers, Fail
<1>4. PICK j \in [pc : {"idle", "list", "peers", "replace"}, src : Source, hits : SUBSET Source] :
        /\ job' = [job EXCEPT ![w] = j]
        /\ j.pc # "idle" => j.src \notin needsTitle /\ row[j.src] # "new"
        /\ j.hits \subseteq titled
        /\ \A h \in j.hits : <<j.src, h>> \in Near /\ j.src \in titled
  <2>1. ASSUME NEW s \in Source, Offered(w, s) \/ Swept(w, s)
        PROVE  \E j \in [pc : {"idle", "list", "peers", "replace"},
                         src : Source, hits : SUBSET Source] :
                 /\ job' = [job EXCEPT ![w] = j]
                 /\ j.src \notin needsTitle /\ row[j.src] # "new" /\ j.hits = {}
    <3>1. s \in Live \ needsTitle
      BY <2>1 DEF Offered, Swept, Needing, Start
    <3>2. [Idle EXCEPT !.pc = "list", !.src = s]
            \in [pc : {"idle", "list", "peers", "replace"}, src : Source, hits : SUBSET Source]
      BY <1>2
    <3>3. [Idle EXCEPT !.pc = "list", !.src = s].src = s
          /\ [Idle EXCEPT !.pc = "list", !.src = s].hits = {}
      BY <1>2
    <3>4. job' = [job EXCEPT ![w] = [Idle EXCEPT !.pc = "list", !.src = s]]
      BY <2>1 DEF Offered, Swept, Start
    <3> QED
      BY <3>1, <3>2, <3>3, <3>4
  <2>2. CASE List(w)
    <3> DEFINE H == Hits(job[w].src)
               p == IF H = {} THEN "peers" ELSE "replace"
               j == [job[w] EXCEPT !.hits = H, !.pc = p]
    <3>1. H \subseteq Source /\ H \subseteq titled
          /\ \A h \in H : <<job[w].src, h>> \in Near /\ job[w].src \in titled
      BY DEF Hits
    <3>2. job' = [job EXCEPT ![w] = j] /\ job[w].pc = "list"
      BY <1>1, <2>2 DEF List
    <3> HIDE DEF H
    <3>3. /\ j \in [pc : {"idle", "list", "peers", "replace"}, src : Source, hits : SUBSET Source]
          /\ j.hits = H /\ j.src = job[w].src
      BY <1>1, <3>1
    <3> QED
      BY <3>1, <3>2, <3>3 DEF JobSound
  <2>3. CASE Peers(w) /\ ~Ends(w)
    <3> DEFINE j == [job[w] EXCEPT !.pc = "replace"]
    <3>1. job' = [job EXCEPT ![w] = j] /\ job[w].pc = "peers"
      BY <1>1, <2>3 DEF Peers
    <3>2. /\ j \in [pc : {"idle", "list", "peers", "replace"}, src : Source, hits : SUBSET Source]
          /\ j.hits = job[w].hits /\ j.src = job[w].src
      BY <1>1
    <3> QED
      BY <3>1, <3>2 DEF JobSound
  <2>4. CASE Ends(w)
    BY <1>2, <2>4
  <2> QED
    BY <2>1, <2>2, <2>3, <2>4 DEF Fail
<1>5. job' \in [Worker -> [pc : {"idle", "list", "peers", "replace"},
                          src : Source, hits : SUBSET Source]]
      /\ \A v \in Worker : job'[v] = IF v = w THEN j ELSE job[v]
  BY <1>1, <1>4
<1>6. TypeOK'
  BY <1>3, <1>5 DEF TypeOK
<1>7. PairsSound'
  BY <1>3 DEF PairsSound
<1>8. JobSound'
  BY <1>3, <1>4, <1>5 DEF JobSound
<1> QED
  BY <1>6, <1>7, <1>8

\* ReplaceSimilar: the foreign key keeps deleted sources out.
LEMMA WriteStep ==
  ASSUME IInv, NEW w \in Worker, Replace(w)
  PROVE  IInv'
<1> USE DEF IInv
<1>1. PICK s \in Source, H \in SUBSET Source : s = job[w].src /\ H = job[w].hits
  BY DEF TypeOK
<1>2. /\ UNCHANGED <<row, titled, needsTitle, failures>>
      /\ job' = [job EXCEPT ![w] = Idle] /\ job[w].pc = "replace"
  BY DEF Replace
<1>3. /\ Idle \in [pc : {"idle", "list", "peers", "replace"},
                   src : Source, hits : SUBSET Source]
      /\ Idle.pc = "idle" /\ Idle.hits = {}
  BY <1>1, IdleType
<1>4. scanned' \subseteq Live /\ scanned' \subseteq Source /\ pairs' \subseteq Source \X Source
  BY <1>1 DEF Replace, Stamp, BothWays, With, TypeOK
<1>5. TypeOK'
  BY <1>2, <1>3, <1>4 DEF TypeOK
<1>6. JobSound'
  BY <1>2, <1>3 DEF JobSound, TypeOK
<1>7. PairsSound'
  <2>1. CASE UNCHANGED pairs
    BY <1>2, <2>1 DEF PairsSound
  <2>2. CASE /\ H = {} \/ H \cup {s} \subseteq Live
             /\ pairs' = (pairs \ With(s)) \cup BothWays(s, H)
    <3> SUFFICES ASSUME NEW p \in pairs'
                 PROVE  /\ <<p[2], p[1]>> \in pairs'
                        /\ p[1] \in Live \cap titled /\ p[2] \in Live \cap titled
                        /\ p \in Near \/ <<p[2], p[1]>> \in Near
      BY <1>2 DEF PairsSound
    <3>1. CASE p \in pairs \ With(s)
      <4>1. /\ <<p[2], p[1]>> \in pairs /\ (p \in Near \/ <<p[2], p[1]>> \in Near)
            /\ p[1] \in Live \cap titled /\ p[2] \in Live \cap titled
        BY <3>1 DEF PairsSound
      <4>2. p[1] # s /\ p[2] # s
        BY <3>1 DEF With
      <4>3. <<p[2], p[1]>> \notin With(s)
        BY <4>2 DEF With
      <4> QED
        BY <2>2, <4>1, <4>3
    <3>2. ASSUME NEW h \in H, p = <<s, h>> \/ p = <<h, s>>
          PROVE  /\ <<p[2], p[1]>> \in pairs'
                 /\ p[1] \in Live \cap titled /\ p[2] \in Live \cap titled
                 /\ p \in Near \/ <<p[2], p[1]>> \in Near
      <4>1. <<s, h>> \in Near /\ s \in titled /\ h \in titled
        BY <1>1, <3>2 DEF JobSound
      <4>2. p \in Near \/ <<p[2], p[1]>> \in Near
        BY <3>2, <4>1
      <4>3. h \in Live /\ s \in Live
        BY <2>2, <3>2
      <4>4. <<s, h>> \in pairs' /\ <<h, s>> \in pairs'
        BY <2>2, <3>2 DEF BothWays
      <4> QED
        BY <3>2, <4>1, <4>2, <4>3, <4>4
    <3> QED
      BY <2>2, <3>1, <3>2 DEF BothWays
  <2> QED
    BY <1>1, <2>1, <2>2 DEF Replace
<1> QED
  BY <1>5, <1>6, <1>7

\* The inductive invariant: types, sound pairs, and what each comparison holds.
THEOREM SimilarInductive == Spec => []IInv
<1>1. Init => IInv
  <2> SUFFICES ASSUME Init
               PROVE  IInv
    OBVIOUS
  <2>1. job \in [Worker -> [pc : {"idle", "list", "peers", "replace"},
                            src : Source, hits : SUBSET Source]]
        /\ \A w \in Worker : job[w].pc = "idle" /\ job[w].hits = {}
    <3>1. /\ Idle \in [pc : {"idle", "list", "peers", "replace"},
                       src : Source, hits : SUBSET Source]
          /\ Idle.pc = "idle" /\ Idle.hits = {}
      BY IdleType, TitleSimilarAssumption
    <3> QED
      BY <3>1 DEF Init
  <2> QED
    BY <2>1, TitleSimilarAssumption DEF Init, IInv, TypeOK, PairsSound, JobSound
<1>2. IInv /\ [Next]_vars => IInv'
  <2> SUFFICES ASSUME IInv, [Next]_vars
               PROVE  IInv'
    OBVIOUS
  <2>1. CASE UNCHANGED vars
    BY <2>1 DEF vars, IInv, TypeOK, PairsSound, JobSound
  <2>2. CASE Next
    BY <2>2, RowStep, ReadStep, WriteStep DEF Next
  <2> QED
    BY <2>1, <2>2
<1> QED
  BY <1>1, <1>2, PTL DEF Spec

\* Types of the comparison.
THEOREM SimilarTypeCorrect == Spec => []TypeOK
BY SimilarInductive, PTL DEF IInv

\* Whatever is deleted or titled while comparisons run and overlap, a stored
\* pair is symmetric and between two sources with similar titles.
THEOREM PairsSoundCorrect == Spec => []PairsSound
BY SimilarInductive, PTL DEF IInv

-----------------------------------------------------------------------------
\* One comparison at a time: nothing is stamped behind the back of one that
\* has looked.
LEMMA CompleteStep ==
  ASSUME IInv, PairsComplete, JobComplete, [Next]_vars,
         \A v, w \in Worker : v = w
  PROVE  PairsComplete' /\ JobComplete'
<1> USE DEF IInv
<1>1. CASE UNCHANGED vars
  BY <1>1 DEF vars, PairsComplete, JobComplete
<1>2. ASSUME NEW s \in Source, NEW kind \in TitleKind, Insert(s, kind)
      PROVE  PairsComplete' /\ JobComplete'
  <2>1. s \notin scanned /\ \A w \in Worker : job[w].pc # "idle" => job[w].src # s
    BY <1>2 DEF Insert, TypeOK, JobSound
  <2>2. PairsComplete'
    BY <1>2, <2>1 DEF Insert, PairsComplete
  <2>3. JobComplete'
    BY <1>2, <2>1 DEF Insert, JobComplete
  <2> QED
    BY <2>2, <2>3
<1>3. ASSUME NEW s \in Source, SetSourceTitle(s)
      PROVE  PairsComplete' /\ JobComplete'
  <2>1. \A w \in Worker : job[w].pc # "idle" => job[w].src # s
    BY <1>3 DEF SetSourceTitle, JobSound
  <2>2. PairsComplete'
    BY <1>3 DEF SetSourceTitle, PairsComplete
  <2>3. JobComplete'
    BY <1>3, <2>1 DEF SetSourceTitle, JobComplete
  <2> QED
    BY <2>2, <2>3
<1>4. ASSUME NEW s \in Source, ClearNeedsTitle(s)
      PROVE  PairsComplete' /\ JobComplete'
  BY <1>4 DEF ClearNeedsTitle, PairsComplete, JobComplete
<1>5. ASSUME NEW d \in Doc, Delete(d)
      PROVE  PairsComplete' /\ JobComplete'
  <2>1. PairsComplete'
    <3> SUFFICES ASSUME NEW p \in Near, <<p[2], p[1]>> \in Near,
                        p[1] \in scanned', p[2] \in scanned',
                        p[1] \in titled, p[2] \in titled
                 PROVE  p \in pairs'
      BY <1>5 DEF Delete, PairsComplete
    <3>1. p \in pairs
      BY <1>5 DEF Delete, PairsComplete
    <3> QED
      BY <1>5, <3>1 DEF Delete
  <2>2. JobComplete'
    BY <1>5 DEF Delete, JobComplete
  <2> QED
    BY <2>1, <2>2
<1>6. ASSUME NEW w \in Worker,
             (\E s \in Source : Offered(w, s) \/ Swept(w, s)) \/ List(w) \/ Peers(w) \/ Fail(w)
      PROVE  PairsComplete' /\ JobComplete'
  <2>1. UNCHANGED <<row, titled, needsTitle, scanned, pairs>>
    BY <1>6 DEF Offered, Swept, Start, List, Peers, Fail
  <2>2. PairsComplete'
    BY <2>1 DEF PairsComplete
  <2>3. JobComplete'
    <3> SUFFICES ASSUME job'[w].pc \in {"peers", "replace"}, job'[w].src \in titled,
                        NEW c \in scanned \cap titled, <<job'[w].src, c>> \in Near
                 PROVE  c \in job'[w].hits
      BY <2>1 DEF JobComplete
    <3>1. CASE List(w)
      <4>1. job'[w].src = job[w].src /\ job'[w].hits = Hits(job[w].src)
        BY <3>1 DEF List, TypeOK
      <4>2. c \in Live /\ c # job[w].src
        BY <4>1, TitleSimilarAssumption DEF TypeOK
      <4> QED
        BY <4>1, <4>2 DEF Hits
    <3>2. CASE Peers(w)
      <4>1. job[w].pc = "peers" /\ job'[w].src = job[w].src /\ job'[w].hits = job[w].hits
        BY <3>2 DEF Peers, TypeOK, Idle
      <4> QED
        BY <4>1 DEF JobComplete
    <3>3. CASE (\E s \in Source : Offered(w, s) \/ Swept(w, s)) \/ Fail(w)
      <4>1. CASE Fail(w)
        <5>1. job'[w] = Idle /\ Idle.pc = "idle"
          BY <4>1 DEF Fail, TypeOK, Idle
        <5> QED
          BY <5>1
      <4>2. ASSUME NEW s \in Source, Offered(w, s) \/ Swept(w, s)
            PROVE  FALSE
        <5> DEFINE r == [Idle EXCEPT !.pc = "list", !.src = s]
        <5>1. r.pc = "list"
          BY DEF Idle
        <5>2. job' = [job EXCEPT ![w] = r]
          BY <4>2 DEF Offered, Swept, Start
        <5> HIDE DEF r
        <5>3. job'[w].pc = "list"
          BY <5>1, <5>2 DEF TypeOK
        <5> QED
          BY <5>3
      <4> QED
        BY <3>3, <4>1, <4>2
    <3> QED
      BY <1>6, <3>1, <3>2, <3>3
  <2> QED
    BY <2>2, <2>3
<1>7. ASSUME NEW w \in Worker, Replace(w)
      PROVE  PairsComplete' /\ JobComplete'
  <2>1. PICK s \in Source, H \in SUBSET Source : s = job[w].src /\ H = job[w].hits
    BY DEF TypeOK
  <2>2. /\ titled' = titled /\ job[w].pc = "replace" /\ job'[w].pc = "idle"
    BY <1>7, IdleType DEF Replace, TypeOK, Idle
  <2>3. JobComplete'
    BY <2>2 DEF JobComplete
  <2>4. PairsComplete'
    <3>1. CASE UNCHANGED <<pairs, scanned>>
      BY <2>2, <3>1 DEF PairsComplete
    <3>2. CASE /\ pairs' = (pairs \ With(s)) \cup BothWays(s, H)
               /\ scanned' = scanned \cup Stamp(s)
      <4> SUFFICES ASSUME NEW p \in Near, <<p[2], p[1]>> \in Near,
                          p[1] \in scanned', p[2] \in scanned',
                          p[1] \in titled, p[2] \in titled
                   PROVE  p \in pairs'
        BY <2>2 DEF PairsComplete
      <4>1. /\ p = <<p[1], p[2]>> /\ p[1] # p[2] /\ <<p[2], p[1]>> \in Near
            /\ p[1] \in Source /\ p[2] \in Source
        <5>1. p \in Source \X Source
          BY TitleSimilarAssumption
        <5>2. p = <<p[1], p[2]>> /\ p[1] \in Source /\ p[2] \in Source
          BY <5>1
        <5>3. <<p[1], p[2]>> \in Near
          BY <5>2
        <5>4. <<p[2], p[1]>> \in Near /\ p[1] # p[2]
          BY <5>2, <5>3, TitleSimilarAssumption
        <5> QED
          BY <5>2, <5>4
      <4>2. CASE p[1] # s /\ p[2] # s
        <5>1. p[1] \in scanned /\ p[2] \in scanned
          BY <3>2, <4>2 DEF Stamp
        <5> QED
          BY <3>2, <4>2, <5>1 DEF PairsComplete, With
      <4>3. CASE p[1] = s
        <5>1. p[2] \in scanned
          BY <3>2, <4>1, <4>3 DEF Stamp
        <5>2. p[2] \in H
          BY <2>1, <2>2, <4>1, <4>3, <5>1 DEF JobComplete
        <5> QED
          BY <3>2, <4>1, <4>3, <5>2 DEF BothWays
      <4>4. CASE p[2] = s
        <5>1. p[1] \in scanned
          BY <3>2, <4>1, <4>4 DEF Stamp
        <5>2. p[1] \in H
          BY <2>1, <2>2, <4>1, <4>4, <5>1 DEF JobComplete
        <5> QED
          BY <3>2, <4>1, <4>4, <5>2 DEF BothWays
      <4> QED
        BY <4>2, <4>3, <4>4
    <3> QED
      BY <1>7, <2>1, <3>1, <3>2 DEF Replace
  <2> QED
    BY <2>3, <2>4
<1> QED
  BY <1>1, <1>2, <1>3, <1>4, <1>5, <1>6, <1>7 DEF Next

\* When one worker compares titles, all similar titles that were compared are
\* pairs, for any sources, documents and order of uploads and titles.
THEOREM OneWorkerComplete ==
  ASSUME \A v, w \in Worker : v = w
  PROVE  Spec => []PairsComplete
<1>1. Init => PairsComplete /\ JobComplete
  BY DEF Init, PairsComplete, JobComplete
<1>2. IInv /\ PairsComplete /\ JobComplete /\ [Next]_vars => PairsComplete' /\ JobComplete'
  BY CompleteStep
<1> QED
  BY <1>1, <1>2, SimilarInductive, PTL DEF Spec

-----------------------------------------------------------------------------
(* Scores: what the greedy pairing of Align misses at most.                *)

\* The proof library orders the numbers; a set of them has a least element.
LEMMA Smallest ==
  ASSUME NEW T \in SUBSET Nat, T # {}
  PROVE  \E n \in T : \A m \in T : n <= m
<1>1. PICK n \in T : \A m \in T : <<m, n>> \notin {r \in Nat \X Nat : r[1] < r[2]}
  <2>1. IsWellFoundedOn({r \in Nat \X Nat : r[1] < r[2]}, Nat)
    BY NatLessThanWellFounded DEF OpToRel
  <2>2. QED
    BY <2>1, WFMin
<1>2. ASSUME NEW m \in T
      PROVE  n <= m
  <2>0. m \in Nat /\ n \in Nat
    OBVIOUS
  <2> SUFFICES ASSUME m < n PROVE FALSE
    BY <2>0
  <2> DEFINE r == <<m, n>>
  <2>1. r \in Nat \X Nat /\ r[1] = m /\ r[2] = n
    OBVIOUS
  <2> HIDE DEF r
  <2>2. r \in {x \in Nat \X Nat : x[1] < x[2]}
    BY <2>1
  <2>3. QED
    BY <1>1, <2>2 DEF r
<1>3. QED
  BY <1>2

LEMMA MinIs ==
  ASSUME NEW T \in SUBSET Nat, T # {}
  PROVE  Min(T) \in T /\ \A m \in T : Min(T) <= m
<1>1. PICK n \in T : \A m \in T : n =< m
  BY Smallest
<1>2. QED
  BY <1>1 DEF Min

\* A bounded set of numbers has a greatest element.
LEMMA MaxIs ==
  ASSUME NEW T \in SUBSET Nat, T # {}, NEW b \in Nat, \A m \in T : m <= b
  PROVE  Max(T) \in T /\ \A m \in T : Max(T) >= m
<1> DEFINE D == {b - m : m \in T}
<1>1. D \in SUBSET Nat /\ D # {}
  <2>1. \A m \in T : b - m \in Nat
    OBVIOUS
  <2>2. QED
    BY <2>1
<1>2. PICK d \in D : \A c \in D : d <= c
  <2> HIDE DEF D
  <2>1. QED
    BY <1>1, Smallest
<1>3. PICK n \in T : d = b - n
  BY <1>2
<1>4. ASSUME NEW m \in T
      PROVE  n >= m
  <2>1. b - m \in D /\ m \in Nat /\ n \in Nat
    OBVIOUS
  <2>2. b - n <= b - m
    BY <1>2, <1>3, <2>1
  <2>3. QED
    BY <2>1, <2>2
<1>5. QED
  BY <1>4 DEF Max

\* What is mapped to different elements of a set is not larger than the set.
LEMMA NotLarger ==
  ASSUME NEW S, IsFiniteSet(S), NEW T, IsFiniteSet(T), NEW f \in [S -> T],
         \A x, y \in S : x # y => f[x] # f[y]
  PROVE  Cardinality(S) <= Cardinality(T)
<1>1. Cardinality(S) \in Nat /\ Cardinality(T) \in Nat
  BY FS_CardinalityType
<1>2. ~(Cardinality(T) < Cardinality(S))
  BY FS_PigeonHole
<1>3. QED
  BY <1>1, <1>2

LEMMA SpellingIs ==
  /\ WordMin \in 1 .. 100 /\ MaxWords \in Nat
  /\ \A v, w \in Word : Ratio[<<v, w>>] \in 0 .. 100 /\ (Ratio[<<v, w>>] = 100 <=> v = w)
<1>1. \A v, w \in Word : Ratio[<<v, w>>] \in 0 .. 100
  BY TitleScoreAssumption
<1>2. \A v, w \in Word : Ratio[<<v, w>>] = 100 <=> v = w
  BY TitleScoreAssumption
<1>3. WordMin \in 1 .. 100 /\ MaxWords \in Nat
  BY TitleScoreAssumption
<1>4. QED
  BY <1>1, <1>2, <1>3

AlignTypes ==
  /\ left \in Seq(Word) /\ right \in Seq(Word)
  /\ next \in 1 .. Len(left) + 1 /\ bHit \subseteq DOMAIN right /\ matched \in Nat

LEMMA TitlesAre ==
  ASSUME AlignTypes
  PROVE  /\ Len(left) \in Nat /\ Len(right) \in Nat
         /\ DOMAIN left = 1 .. Len(left) /\ DOMAIN right = 1 .. Len(right)
         /\ IsFiniteSet(DOMAIN left) /\ IsFiniteSet(DOMAIN right) /\ IsFiniteSet(bHit)
         /\ \A i \in DOMAIN left, j \in DOMAIN right :
              Alike(i, j) \in 0 .. 100 /\ (Alike(i, j) = 100 <=> left[i] = right[j])
<1>1. /\ Len(left) \in Nat /\ Len(right) \in Nat
      /\ DOMAIN left = 1 .. Len(left) /\ DOMAIN right = 1 .. Len(right)
      /\ \A i \in DOMAIN left : left[i] \in Word
      /\ \A j \in DOMAIN right : right[j] \in Word
  BY DEF AlignTypes
<1>2. \A n \in Nat : IsFiniteSet(1 .. n)
  BY FS_Interval
<1>3. IsFiniteSet(DOMAIN left) /\ IsFiniteSet(DOMAIN right)
  BY <1>1, <1>2
<1>4. IsFiniteSet(bHit)
  BY <1>3, FS_Subset DEF AlignTypes
<1>5. QED
  BY <1>1, <1>3, <1>4, SpellingIs DEF Alike

-----------------------------------------------------------------------------
(* The word Align takes.                                                   *)

Closest(i) == {j \in Choice(i) : \A k \in Choice(i) : Alike(i, k) <= Alike(i, j)}

LEMMA BestIs ==
  ASSUME AlignTypes, NEW i \in DOMAIN left, Choice(i) # {}
  PROVE  Best(i) \in Closest(i) /\ \A j \in Closest(i) : Best(i) <= j
<1>1. Choice(i) \subseteq DOMAIN right /\ DOMAIN right \subseteq Nat
  BY TitlesAre DEF Choice
<1> DEFINE T == {Alike(i, k) : k \in Choice(i)}
<1>2. T \in SUBSET Nat /\ T # {} /\ \A m \in T : m <= 100
  <2>1. \A k \in Choice(i) : Alike(i, k) \in 0 .. 100
    BY <1>1, TitlesAre
  <2>2. QED
    BY <2>1
<1>3. Max(T) \in T /\ \A m \in T : Max(T) >= m
  <2> HIDE DEF T
  <2>1. QED
    BY <1>2, MaxIs
<1>4. PICK j \in Choice(i) : Alike(i, j) = Max(T)
  BY <1>3
<1>5. \A k \in Choice(i) : Alike(i, k) <= Alike(i, j)
  <2>1. \A k \in Choice(i) : Alike(i, k) \in T /\ Alike(i, k) \in Nat
    BY <1>2
  <2> HIDE DEF T
  <2>2. QED
    BY <1>2, <1>3, <1>4, <2>1
<1>6. Closest(i) # {} /\ Closest(i) \in SUBSET Nat
  BY <1>1, <1>5 DEF Closest
<1>7. Best(i) = Min(Closest(i))
  BY DEF Best, Closest
<1>8. QED
  BY <1>6, <1>7, MinIs

-----------------------------------------------------------------------------
(* The pairs that Align has made.                                          *)

Lefts(P) == {p[1] : p \in P}

\* Words below next stay alone only when all they resemble is taken.
MadeBy(P) ==
  /\ P \in Pairings /\ IsFiniteSet(P) /\ Cardinality(P) = matched
  /\ Cardinality(bHit) = matched
  /\ IsFiniteSet(Lefts(P)) /\ Cardinality(Lefts(P)) = matched
  /\ \A p \in P : p[1] \in 1 .. next - 1 /\ p[2] \in bHit
  /\ \A i \in 1 .. next - 1 : \A j \in DOMAIN right :
       Alike(i, j) >= WordMin => i \in Lefts(P) \/ j \in bHit

AlignInv ==
  /\ AlignTypes
  /\ \E P \in Pairings : MadeBy(P)
  /\ left = right => bHit = 1 .. next - 1 /\ matched = next - 1

LEMMA LeftsAdd ==
  ASSUME NEW P, NEW p
  PROVE  Lefts(P \cup {p}) = Lefts(P) \cup {p[1]}
BY DEF Lefts

LEMMA MadeIs ==
  ASSUME NEW P, MadeBy(P)
  PROVE  /\ \A p \in P : /\ p[1] \in DOMAIN left /\ p[2] \in DOMAIN right /\ p = <<p[1], p[2]>>
                         /\ Alike(p[1], p[2]) >= WordMin
                         /\ p[1] \in 1 .. next - 1 /\ p[2] \in bHit
         /\ \A p, q \in P : p # q => p[1] # q[1] /\ p[2] # q[2]
<1>1. \A p \in P : p \in {q \in (DOMAIN left) \X (DOMAIN right) : Alike(q[1], q[2]) >= WordMin}
  BY DEF MadeBy, Pairings
<1>2. \A p \in (DOMAIN left) \X (DOMAIN right) :
        p[1] \in DOMAIN left /\ p[2] \in DOMAIN right /\ p = <<p[1], p[2]>>
  OBVIOUS
<1>3. QED
  BY <1>1, <1>2 DEF MadeBy, Pairings

LEMMA AlignStarts == AlignInit => AlignInv
<1> SUFFICES ASSUME AlignInit PROVE AlignInv
  OBVIOUS
<1>1. \A s : s \in UNION {[1 .. n -> Word] : n \in 1 .. MaxWords} => s \in Seq(Word) /\ Len(s) \in Nat \ {0}
  <2> SUFFICES ASSUME NEW n \in 1 .. MaxWords, NEW s \in [1 .. n -> Word]
               PROVE  s \in Seq(Word) /\ Len(s) \in Nat \ {0}
    OBVIOUS
  <2>1. n \in Nat \ {0}
    BY SpellingIs
  <2>2. s \in Seq(Word) /\ Len(s) = n
    BY <2>1
  <2>3. QED
    BY <2>1, <2>2
<1>2. AlignTypes
  BY <1>1 DEF AlignInit, AlignTypes
<1>3. {} \in Pairings /\ Lefts({}) = {}
  BY DEF Pairings, Lefts
<1>4. MadeBy({})
  <2>1. bHit = {} /\ matched = 0 /\ next = 1 /\ IsFiniteSet({}) /\ Cardinality({}) = 0
    BY FS_EmptySet DEF AlignInit
  <2>2. 1 .. next - 1 = {}
    BY <2>1
  <2>3. QED
    BY <1>3, <2>1, <2>2 DEF MadeBy
<1>5. bHit = 1 .. next - 1 /\ matched = next - 1
  BY DEF AlignInit
<1>6. QED
  BY <1>2, <1>3, <1>4, <1>5 DEF AlignInv

LEMMA PairMade ==
  ASSUME AlignTypes, Pair, NEW P, MadeBy(P)
  PROVE  \E Q \in Pairings' : MadeBy(Q)'
<1> DEFINE j == Best(next)
           p == <<next, j>>
           Q == P \cup {p}
<1>1. /\ next \in DOMAIN left /\ Choice(next) # {}
      /\ bHit' = bHit \cup {j} /\ matched' = matched + 1 /\ next' = next + 1
      /\ UNCHANGED <<left, right>>
  BY TitlesAre DEF Pair, AlignTypes
<1>2. j \in DOMAIN right /\ j \notin bHit /\ Alike(next, j) >= WordMin
  BY <1>1, BestIs DEF Closest, Choice
<1> HIDE DEF j
<1>3. /\ next \in Nat /\ matched \in Nat
      /\ IsFiniteSet(P) /\ Cardinality(P) = matched /\ IsFiniteSet(bHit) /\ Cardinality(bHit) = matched
      /\ IsFiniteSet(Lefts(P)) /\ Cardinality(Lefts(P)) = matched
  BY TitlesAre DEF MadeBy, AlignTypes
<1>4. next \notin 1 .. next - 1
  BY <1>3
<1>5. next \notin Lefts(P) /\ p \notin P
  BY <1>4, MadeIs DEF Lefts
<1>7. p \in {q \in (DOMAIN left) \X (DOMAIN right) : Alike(q[1], q[2]) >= WordMin}
  BY <1>1, <1>2
<1>8. p[1] = next /\ p[2] = j
  OBVIOUS
<1>6. Lefts(Q) = Lefts(P) \cup {next}
  <2>1. Lefts(Q) = Lefts(P) \cup {p[1]}
    BY LeftsAdd
  <2>2. QED
    BY <1>8, <2>1
<1>9. \A q \in P : q[1] # next /\ q[2] # j
  BY <1>2, <1>4, MadeIs
<1> HIDE DEF p
<1>10. Q \in Pairings
  <2>1. Q \in SUBSET {q \in (DOMAIN left) \X (DOMAIN right) : Alike(q[1], q[2]) >= WordMin}
    BY <1>7 DEF MadeBy, Pairings
  <2>2. \A q, r \in Q : q # r => q[1] # r[1] /\ q[2] # r[2]
    BY <1>8, <1>9, MadeIs
  <2>3. QED
    BY <2>1, <2>2 DEF Pairings
<1>11. /\ IsFiniteSet(Q) /\ Cardinality(Q) = matched + 1
       /\ IsFiniteSet(Lefts(Q)) /\ Cardinality(Lefts(Q)) = matched + 1
       /\ Cardinality(bHit \cup {j}) = matched + 1
  <2>1. \A S, x : IsFiniteSet(S) /\ x \notin S => /\ IsFiniteSet(S \cup {x})
                                               /\ Cardinality(S \cup {x}) = Cardinality(S) + 1
    BY FS_AddElement
  <2>2. IsFiniteSet(Q) /\ Cardinality(Q) = matched + 1
    <3>1. IsFiniteSet(Q) /\ Cardinality(Q) = Cardinality(P) + 1
      BY <1>3, <1>5, <2>1
    <3>2. QED
      BY <1>3, <3>1
  <2>3. IsFiniteSet(Lefts(Q)) /\ Cardinality(Lefts(Q)) = matched + 1
    <3>1. /\ IsFiniteSet(Lefts(P) \cup {next})
          /\ Cardinality(Lefts(P) \cup {next}) = Cardinality(Lefts(P)) + 1
      BY <1>3, <1>5, <2>1
    <3>2. QED
      BY <1>3, <1>6, <3>1
  <2>4. Cardinality(bHit \cup {j}) = matched + 1
    BY <1>2, <1>3, <2>1
  <2>5. QED
    BY <2>2, <2>3, <2>4
<1>12. \A q \in Q : q[1] \in 1 .. (next + 1) - 1 /\ q[2] \in bHit \cup {j}
  <2>1. \A i \in 1 .. next - 1 : i \in 1 .. (next + 1) - 1
    BY <1>3
  <2>2. next \in 1 .. (next + 1) - 1
    BY <1>1, TitlesAre
  <2>3. QED
    BY <1>8, <2>1, <2>2, MadeIs
<1>13. ASSUME NEW i \in 1 .. (next + 1) - 1, NEW k \in DOMAIN right, Alike(i, k) >= WordMin
       PROVE  i \in Lefts(Q) \/ k \in bHit \cup {j}
  <2>1. i = next \/ i \in 1 .. next - 1
    BY <1>3
  <2>2. CASE i = next
    BY <1>6, <2>2
  <2>3. CASE i \in 1 .. next - 1
    BY <1>6, <1>13, <2>3 DEF MadeBy
  <2>4. QED
    BY <2>1, <2>2, <2>3
<1>14. PICK R : R = Q
  OBVIOUS
<1>15. R \in Pairings'
  BY <1>1, <1>10, <1>14 DEF Pairings, Alike
<1>16. MadeBy(R)'
  BY <1>1, <1>11, <1>12, <1>13, <1>14, <1>15 DEF MadeBy, Lefts, Alike
<1>17. QED
  BY <1>15, <1>16

LEMMA SkipMade ==
  ASSUME AlignTypes, Skip, NEW P \in Pairings, MadeBy(P)
  PROVE  P \in Pairings' /\ MadeBy(P)'
<1>1. /\ next \in DOMAIN left /\ Choice(next) = {} /\ next' = next + 1 /\ next \in Nat
      /\ UNCHANGED <<left, right, bHit, matched>>
  BY TitlesAre DEF Skip, AlignTypes
<1>2. P \in Pairings'
  BY <1>1 DEF Pairings, Alike
<1>3. \A i \in 1 .. next - 1 : i \in 1 .. (next + 1) - 1
  BY <1>1
<1>4. ASSUME NEW i \in 1 .. (next + 1) - 1, NEW k \in DOMAIN right, Alike(i, k) >= WordMin
      PROVE  i \in Lefts(P) \/ k \in bHit
  <2>1. i = next \/ i \in 1 .. next - 1
    BY <1>1
  <2>2. CASE i = next
    BY <1>1, <1>4, <2>2 DEF Choice
  <2>3. CASE i \in 1 .. next - 1
    BY <1>4, <2>3 DEF MadeBy
  <2>4. QED
    BY <2>1, <2>2, <2>3
<1>5. MadeBy(P)'
  BY <1>1, <1>2, <1>3, <1>4 DEF MadeBy, Lefts, Alike
<1>6. QED
  BY <1>2, <1>5

\* A word has its equal among those that are left, and none stands before it.
LEMMA EqualsPair ==
  ASSUME AlignTypes, left = right, bHit = 1 .. next - 1, next \in DOMAIN left
  PROVE  Choice(next) # {} /\ Best(next) = next
<1>1. /\ next \in DOMAIN right /\ next \in Nat /\ next \notin bHit
      /\ DOMAIN right \subseteq Nat \ {0}
  BY TitlesAre DEF AlignTypes
<1>2. Alike(next, next) = 100 /\ WordMin <= 100
  BY TitlesAre, SpellingIs
<1>3. next \in Choice(next)
  BY <1>1, <1>2, SpellingIs DEF Choice
<1>4. \A k \in Choice(next) : Alike(next, k) \in 0 .. 100 /\ k >= next
  BY <1>1, TitlesAre DEF Choice
<1>5. next \in Closest(next)
  <2>1. \A k \in Choice(next) : Alike(next, k) <= Alike(next, next)
    <3> SUFFICES ASSUME NEW k \in Choice(next) PROVE Alike(next, k) <= Alike(next, next)
      OBVIOUS
    <3>1. Alike(next, k) \in 0 .. 100
      BY <1>4
    <3>2. \A n, m : n \in 0 .. 100 /\ m = 100 => n <= m
      OBVIOUS
    <3>3. Alike(next, next) = 100
      BY <1>2
    <3>4. QED
      BY <3>1, <3>2, <3>3
  <2>2. QED
    BY <1>3, <2>1 DEF Closest
<1>6. Best(next) \in Closest(next) /\ Best(next) <= next
  BY <1>3, <1>5, BestIs
<1>7. Best(next) \in Choice(next) /\ Best(next) \in Nat
  BY <1>1, <1>6 DEF Closest, Choice
<1>8. QED
  BY <1>1, <1>3, <1>4, <1>6, <1>7

LEMMA AlignStep == AlignInv /\ [AlignNext]_alignVars => AlignInv'
<1> SUFFICES ASSUME AlignInv, [AlignNext]_alignVars PROVE AlignInv'
  OBVIOUS
<1>0. PICK P \in Pairings : MadeBy(P)
  BY DEF AlignInv
<1>1. AlignTypes
  BY DEF AlignInv
<1>2. CASE Pair
  <2>1. /\ next \in DOMAIN left /\ Choice(next) # {}
        /\ bHit' = bHit \cup {Best(next)} /\ matched' = matched + 1 /\ next' = next + 1
        /\ UNCHANGED <<left, right>>
    BY <1>1, <1>2, TitlesAre DEF Pair, AlignTypes
  <2>2. Best(next) \in DOMAIN right
    BY <1>1, <2>1, BestIs DEF Closest, Choice
  <2>3. AlignTypes'
    <3>1. next + 1 \in 1 .. Len(left) + 1
      BY <1>1, <2>1, TitlesAre
    <3>2. QED
      BY <1>1, <2>1, <2>2, <3>1 DEF AlignTypes
  <2>4. \E Q \in Pairings' : MadeBy(Q)'
    BY <1>0, <1>1, <1>2, PairMade
  <2>5. ASSUME left' = right'
        PROVE  bHit' = 1 .. next' - 1 /\ matched' = next' - 1
    <3>1. left = right /\ bHit = 1 .. next - 1 /\ matched = next - 1
      BY <2>1, <2>5 DEF AlignInv
    <3>2. Best(next) = next
      BY <1>1, <2>1, <3>1, EqualsPair
    <3>3. next \in Nat \ {0}
      BY <1>1, <2>1, TitlesAre
    <3>4. (1 .. next - 1) \cup {next} = 1 .. (next + 1) - 1
      BY <3>3
    <3>5. QED
      BY <2>1, <3>1, <3>2, <3>3, <3>4
  <2>6. QED
    BY <2>3, <2>4, <2>5 DEF AlignInv
<1>3. CASE Skip
  <2>1. /\ next \in DOMAIN left /\ Choice(next) = {} /\ next' = next + 1
        /\ UNCHANGED <<left, right, bHit, matched>>
    BY <1>1, <1>3, TitlesAre DEF Skip, AlignTypes
  <2>2. AlignTypes'
    <3>1. next + 1 \in 1 .. Len(left) + 1
      BY <1>1, <2>1, TitlesAre
    <3>2. QED
      BY <1>1, <2>1, <3>1 DEF AlignTypes
  <2>3. P \in Pairings' /\ MadeBy(P)'
    BY <1>0, <1>1, <1>3, SkipMade
  <2>4. left' # right'
    <3>1. left = right => bHit = 1 .. next - 1
      BY DEF AlignInv
    <3>2. QED
      BY <1>1, <2>1, <3>1, EqualsPair
  <2>5. QED
    BY <2>2, <2>3, <2>4 DEF AlignInv
<1>4. CASE UNCHANGED alignVars
  <2>1. UNCHANGED <<left, right, next, bHit, matched>>
    BY <1>4 DEF alignVars
  <2>2. AlignTypes'
    BY <1>1, <2>1 DEF AlignTypes
  <2>3. P \in Pairings'
    BY <2>1 DEF Pairings, Alike
  <2>4. MadeBy(P)'
    BY <1>0, <2>1, <2>3 DEF MadeBy, Lefts, Alike
  <2>5. QED
    BY <2>1, <2>2, <2>3, <2>4 DEF AlignInv
<1>5. QED
  BY <1>2, <1>3, <1>4 DEF AlignNext

-----------------------------------------------------------------------------
(* When all words had their turn.                                          *)

\* Of two words spelt alike one is paired, so a pairing has at most a pair for
\* each word that is paired, of either title.
LEMMA NoLargerPairing ==
  ASSUME AlignTypes, Aligned, NEW P, MadeBy(P), NEW Q \in Pairings
  PROVE  Cardinality(Q) \in Nat /\ Cardinality(Q) <= 2 * matched
<1> DEFINE QL == {q \in Q : q[1] \in Lefts(P)}
           QR == {q \in Q : q[2] \in bHit}
           f == [q \in QL |-> q[1]]
           g == [q \in QR |-> q[2]]
<1>1. /\ IsFiniteSet(DOMAIN left) /\ IsFiniteSet(DOMAIN right)
      /\ DOMAIN left = 1 .. next - 1
  BY TitlesAre DEF AlignTypes, Aligned
<1>2. IsFiniteSet(Q)
  <2>1. Q \subseteq (DOMAIN left) \X (DOMAIN right)
    BY DEF Pairings
  <2>2. IsFiniteSet((DOMAIN left) \X (DOMAIN right))
    BY <1>1, FS_Product
  <2>3. QED
    BY <2>1, <2>2, FS_Subset
<1>3. \A q \in Q : /\ q[1] \in DOMAIN left /\ q[2] \in DOMAIN right
                  /\ Alike(q[1], q[2]) >= WordMin
  BY DEF Pairings
<1>4. \A q, r \in Q : q # r => q[1] # r[1] /\ q[2] # r[2]
  BY DEF Pairings
<1>5. Q = QL \cup QR
  <2>1. \A q \in Q : q[1] \in Lefts(P) \/ q[2] \in bHit
    BY <1>1, <1>3 DEF MadeBy
  <2>2. QED
    BY <2>1
<1>6. /\ IsFiniteSet(Lefts(P)) /\ Cardinality(Lefts(P)) = matched
      /\ IsFiniteSet(bHit) /\ Cardinality(bHit) = matched /\ matched \in Nat
  BY TitlesAre DEF MadeBy, AlignTypes
<1>7. IsFiniteSet(QL) /\ Cardinality(QL) \in Nat /\ Cardinality(QL) <= matched
  <2>1. IsFiniteSet(QL)
    BY <1>2, FS_Subset
  <2>2. f \in [QL -> Lefts(P)]
    OBVIOUS
  <2>3. \A x, y \in QL : x # y => f[x] # f[y]
    BY <1>4
  <2> HIDE DEF QL, f
  <2>4. Cardinality(QL) <= Cardinality(Lefts(P))
    BY <1>6, <2>1, <2>2, <2>3, NotLarger
  <2>5. QED
    BY <1>6, <2>1, <2>4, FS_CardinalityType
<1>8. IsFiniteSet(QR) /\ Cardinality(QR) \in Nat /\ Cardinality(QR) <= matched
  <2>1. IsFiniteSet(QR)
    BY <1>2, FS_Subset
  <2>2. g \in [QR -> bHit]
    OBVIOUS
  <2>3. \A x, y \in QR : x # y => g[x] # g[y]
    BY <1>4
  <2> HIDE DEF QR, g
  <2>4. Cardinality(QR) <= Cardinality(bHit)
    BY <1>6, <2>1, <2>2, <2>3, NotLarger
  <2>5. QED
    BY <1>6, <2>1, <2>4, FS_CardinalityType
<1> HIDE DEF QL, QR
<1>9. /\ Cardinality(QL \cup QR) = Cardinality(QL) + Cardinality(QR) - Cardinality(QL \cap QR)
      /\ IsFiniteSet(QL \cap QR)
  BY <1>7, <1>8, FS_Union, FS_Intersection
<1>10. Cardinality(QL \cap QR) \in Nat /\ Cardinality(Q) \in Nat
  BY <1>2, <1>9, FS_CardinalityType
<1>11. QED
  BY <1>5, <1>6, <1>7, <1>8, <1>9, <1>10

LEMMA AlignEnds == AlignInv => AlignSound
<1> SUFFICES ASSUME AlignInv, Aligned
             PROVE  /\ matched <= MostPairs /\ MostPairs <= 2 * matched
                    /\ left = right => matched = Len(left)
  BY DEF AlignSound
<1>1. AlignTypes
  BY DEF AlignInv
<1>2. PICK P \in Pairings : MadeBy(P)
  BY DEF AlignInv
<1> DEFINE T == {Cardinality(Q) : Q \in Pairings}
<1>3. \A Q \in Pairings : Cardinality(Q) \in Nat /\ Cardinality(Q) <= 2 * matched
  BY <1>1, <1>2, NoLargerPairing
<1>4. matched \in Nat /\ Len(left) \in Nat /\ next = Len(left) + 1
  BY <1>1, TitlesAre DEF AlignTypes, Aligned
<1>5. T \in SUBSET Nat /\ matched \in T /\ \A m \in T : m <= 2 * matched
  BY <1>2, <1>3 DEF MadeBy
<1>6. MostPairs = Max(T)
  BY DEF MostPairs
<1> HIDE DEF T
<1>7. Max(T) \in T /\ \A m \in T : Max(T) >= m
  <2>1. 2 * matched \in Nat
    BY <1>4
  <2>2. QED
    BY <1>5, <2>1, MaxIs
<1>8. matched <= MostPairs /\ MostPairs <= 2 * matched
  BY <1>4, <1>5, <1>6, <1>7
<1>9. left = right => matched = Len(left)
  BY <1>4 DEF AlignInv
<1>10. QED
  BY <1>8, <1>9

\* After each word that Align looks at, the pairs it made so far are a pairing,
\* and of two words spelt alike, the first one looked at, one is in a pair.
THEOREM AlignInductive == AlignSpec => []AlignInv
<1>1. QED
  BY AlignStarts, AlignStep, PTL DEF AlignSpec

\* Align never counts a word twice, misses at most half of what can be aligned,
\* and aligns a title with itself word by word.
THEOREM AlignStaysSound == AlignSpec => []AlignSound
<1>1. QED
  BY AlignInductive, AlignEnds, PTL
=============================================================================
