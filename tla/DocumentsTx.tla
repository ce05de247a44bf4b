---------------------------- MODULE DocumentsTx ----------------------------
(***************************************************************************)
(* FinalizeFingerprint as it runs in PostgreSQL: several workers, of one   *)
(* or more processes, each in a READ COMMITTED transaction that takes the  *)
(* advisory locks of a fingerprint in sorted order, reads the matches,     *)
(* locks the rows of the touched documents in id order, computes what it   *)
(* writes from the rows as they then are, and commits or is rolled back.   *)
(* The other transactions lock the row of one document and are taken as    *)
(* one step each, enabled while nobody holds that row.                     *)
(*                                                                         *)
(* The row locks on sources are left out: whoever changes hash, role or    *)
(* released of a source holds the row of its document.                     *)
(***************************************************************************)
EXTENDS Documents

CONSTANTS
  Worker,    (* the workers that may run FinalizeFingerprint               *)
  Key,       (* advisory lock keys                                         *)
  KeysOf,    (* the keys of each source's fingerprint                      *)
  KeyOrder,  (* sort.Strings on the keys                                   *)
  DocOrder   (* ORDER BY id on documents                                   *)

Injective(f, S) == \A x, y \in S : f[x] = f[y] => x = y

\* Two fingerprints the queries join share a digest or an LSH bucket.
ASSUME KeysAssumption ==
  /\ KeysOf \in [Source -> SUBSET Key]
  /\ \A s, t \in Source : <<s, t>> \in Near => KeysOf[s] \cap KeysOf[t] # {}

ASSUME OrderAssumption ==
  /\ KeyOrder \in [Key -> Nat] /\ Injective(KeyOrder, Key)
  /\ DocOrder \in [Doc -> Nat] /\ Injective(DocOrder, Doc)

\* Without a source there is nothing to fingerprint.
ASSUME SourceAssumption == Source # {}

VARIABLE tx   \* the transaction each worker is in

txVars == <<doc, status, notified, requested, row, hash, role, released,
            pairs, reviewed, tx>>

NoWrites == [role |-> [s \in Source |-> "unique"],
             status |-> [d \in Doc |-> "processing"],
             review |-> {}]

Idle == [pc |-> "idle", src |-> CHOOSE s \in Source : TRUE, kind |-> "none",
         keys |-> {}, found |-> {}, touched |-> {}, docs |-> {},
         matched |-> {}, writes |-> NoWrites]

TxState == [pc : {"idle", "keys", "docs", "computed"},
            src : Source, kind : Hash, keys : SUBSET Key,
            found : SUBSET Source, touched : SUBSET Doc, docs : SUBSET Doc,
            matched : SUBSET Source,
            writes : [role : [Source -> Role], status : [Doc -> Status],
                      review : SUBSET Doc]]

\* Types of the tables and of what each transaction remembers.
TxTypeOK == TypeOK /\ tx \in [Worker -> TxState]

-----------------------------------------------------------------------------
\* Fault: the digest alone is locked, not the buckets of near files.
DigestOnly(s, k) == {}

\* fingerprintLockKeys.  A placeholder locks a digest of its own.
LockKeys(s, k) == IF k = "file" THEN KeysOf[s] ELSE {}

\* Fault: rows read without FOR UPDATE.
NeverLocked(d) == TRUE

KeyFree(x) == \A w \in Worker : x \notin tx[w].keys

DocFree(d) == \A w \in Worker : d \notin tx[w].docs

\* Fault: locks in the order the queries return them.
AnyNext(x, S, L, order) == x \in S \ L

\* x comes next when the members of S are locked in order, those of L being
\* held already.
IsNext(x, S, L, order) ==
  /\ x \in S \ L
  /\ \A y \in S \ L : order[x] <= order[y]

TxInit == Init /\ tx = [w \in Worker |-> Idle]

\* hashSource calls FinalizeFingerprint with what it read of the file, for a
\* source that was there when the job began.
Begin(w, s, k) ==
  /\ tx[w].pc = "idle"
  /\ row[s] = "live"
  /\ k \in {"file", "missing"}
  /\ tx' = [tx EXCEPT ![w] = [Idle EXCEPT !.pc = "keys", !.src = s, !.kind = k]]
  /\ UNCHANGED vars

LockKey(w, x) ==
  /\ tx[w].pc = "keys"
  /\ IsNext(x, LockKeys(tx[w].src, tx[w].kind), tx[w].keys, KeyOrder)
  /\ KeyFree(x)
  /\ tx' = [tx EXCEPT ![w].keys = @ \cup {x}]
  /\ UNCHANGED vars

\* The match queries run before any document is locked.
ReadMatches(w) ==
  LET s == tx[w].src
      C == Candidates(s, tx[w].kind)
  IN  /\ tx[w].pc = "keys"
      /\ tx[w].keys = LockKeys(s, tx[w].kind)
      /\ row[s] = "live"
      /\ tx' = [tx EXCEPT ![w].pc = "docs",
                          ![w].found = C,
                          ![w].touched = {DocOf[s]} \cup {DocOf[t] : t \in C}]
      /\ UNCHANGED vars

LockDoc(w, d) ==
  /\ tx[w].pc = "docs"
  /\ IsNext(d, tx[w].touched, tx[w].docs, DocOrder)
  /\ DocFree(d)
  /\ tx' = [tx EXCEPT ![w].docs = @ \cup {d}]
  /\ UNCHANGED vars

\* livingMatches, confidentMatches and the three UPDATEs, not yet visible.
Compute(w) ==
  LET s == tx[w].src
      M == Confident(s, {t \in tx[w].found : row[t] = "live"})
  IN  /\ tx[w].pc = "docs"
      /\ tx[w].docs = tx[w].touched
      /\ row[s] = "live"
      /\ hash[s] = "none"
      /\ tx' = [tx EXCEPT ![w].pc = "computed",
                          ![w].matched = M,
                          ![w].writes = WritesNow(s, tx[w].kind, M)]
      /\ UNCHANGED vars

Commit(w) ==
  /\ tx[w].pc = "computed"
  /\ WriteFingerprint(tx[w].src, tx[w].kind, tx[w].matched, tx[w].touched,
                      tx[w].writes)
  /\ tx' = [tx EXCEPT ![w] = Idle]

End(w) == tx' = [tx EXCEPT ![w] = Idle] /\ UNCHANGED vars

\* The early returns: the source is gone, or is hashed already.
GiveUp(w) ==
  /\ \/ /\ tx[w].pc = "keys"
        /\ tx[w].keys = LockKeys(tx[w].src, tx[w].kind)
        /\ row[tx[w].src] # "live"
     \/ /\ tx[w].pc = "docs"
        /\ tx[w].docs = tx[w].touched
        /\ row[tx[w].src] # "live" \/ hash[tx[w].src] # "none"
  /\ End(w)

\* A statement fails, or the process dies: everything is rolled back.  withTx
\* or the sweeper may begin again.
Fail(w) == tx[w].pc # "idle" /\ End(w)

\* The transactions on one document.  An insert locks nothing anybody sees.
OnDocument(d) ==
  /\ \/ \E S \in SUBSET Source : InsertDocument(d, S)
     \/ DocFree(d) /\ \E S \in SUBSET Source : InsertSources(d, S)
     \/ DocFree(d) /\ (Approve(d) \/ RejectPending(d) \/ Delete(d))
  /\ UNCHANGED tx

\* What worker w does next of its own accord.
Advance(w) ==
  \/ \E x \in Key : LockKey(w, x)
  \/ \E d \in Doc : LockDoc(w, d)
  \/ ReadMatches(w) \/ Compute(w) \/ Commit(w) \/ GiveUp(w)

TxNext ==
  \/ \E w \in Worker, s \in Source, k \in Hash : Begin(w, s, k)
  \/ \E w \in Worker : Advance(w) \/ Fail(w)
  \/ \E d \in Doc : OnDocument(d)

TxSpec == TxInit /\ [][TxNext]_txVars

\* The server grants a lock in the order of the requests, so a request that
\* can be granted again and again is granted; a statement that need not wait
\* returns.  Nothing makes a job begin, a request arrive or a statement fail.
Fairness == \A w \in Worker : SF_txVars(Advance(w))

FairTxSpec == TxSpec /\ Fairness

-----------------------------------------------------------------------------
(* Properties.                                                             *)

\* The fingerprint transaction, cut up and interleaved, is one atomic step of
\* Documents, which also takes over the properties proved there.
ImplementsDocuments == Spec

\* Two transactions never hold the same advisory lock or the same row of a
\* document, whatever order they arrive in and whoever is rolled back.
Exclusive ==
  \A v, w \in Worker : v # w =>
    tx[v].keys \cap tx[w].keys = {} /\ tx[v].docs \cap tx[w].docs = {}

\* Between reading the matches and committing, no source that matches can be
\* fingerprinted by anybody else: what was found misses none of them.
FoundComplete ==
  \A w \in Worker : tx[w].pc \in {"docs", "computed"} =>
    Candidates(tx[w].src, tx[w].kind) \subseteq tx[w].found

\* What a transaction is about to commit is what it would compute again: no
\* upload, review, deletion or other fingerprint has made it stale.
ComputedIsCurrent ==
  \A w \in Worker : tx[w].pc = "computed" =>
    LET s == tx[w].src
        M == Confident(s, Candidates(s, tx[w].kind))
        now == WritesNow(s, tx[w].kind, M)
        old == tx[w].writes
    IN  /\ row[s] = "live" /\ hash[s] = "none"
        /\ tx[w].matched = M
        /\ \A t \in {s} \cup M : old.role[t] = now.role[t]
        /\ \A d \in tx[w].touched : old.status[d] = now.status[d]
        /\ \A d \in tx[w].touched : d \in old.review <=> d \in now.review

\* What the statements before have left in a transaction.
TxShape ==
  \A w \in Worker :
    LET x == tx[w]
    IN  /\ x.pc = "idle" => x.keys = {}
        /\ x.pc \in {"idle", "keys"} => x.docs = {}
        /\ x.pc # "idle" => row[x.src] # "new" /\ x.kind # "none"
        /\ x.pc \in {"docs", "computed"} =>
             /\ x.keys = LockKeys(x.src, x.kind)
             /\ x.touched = {DocOf[x.src]} \cup {DocOf[t] : t \in x.found}
             /\ \A t \in x.found :
                  x.kind = "file" /\ hash[t] = "file" /\ <<x.src, t>> \in Near
        /\ x.pc = "computed" => x.docs = x.touched

\* The inductive invariant of this module.
TxIInv == /\ TxTypeOK /\ IInv /\ Exclusive /\ TxShape
          /\ FoundComplete /\ ComputedIsCurrent

\* Transactions that lock the same keys and the same documents never wait for
\* each other in a circle: each one ends.
FinalizeEnds ==
  \A w \in Worker : tx[w].pc # "idle" ~> tx[w].pc = "idle"
=============================================================================
