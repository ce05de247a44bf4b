---------------------------- MODULE R2CacheProofs ----------------------------
(***************************************************************************)
(* The lock table of the cache, for any number of goroutines, keys and     *)
(* locks.  LockInv ties each call to the lock of its path and counts the   *)
(* calls in refs; that a copy is backed by an object then needs only that  *)
(* two calls for one path are never under its lock together.               *)
(***************************************************************************)
EXTENDS R2Cache, FiniteSetTheorems, TLAPS

USE DEF At, Go, Give, Rest, Calls, Idle

\* Calls for one path exclude each other because they use the same lock.
LEMMA LockSerialises ==
  ASSUME TypeOK, LockInv
  PROVE  Serialised
<1> SUFFICES ASSUME NEW t \in Thread, NEW u \in Thread, t # u,
                    thread[t].pc \in Held, thread[u].pc \in Held,
                    thread[t].key = thread[u].key
             PROVE  FALSE
  BY DEF Serialised
<1>1. thread[t].lock \in Lock /\ thread[u].lock = thread[t].lock
  BY DEF LockInv, Using
<1>2. holder[thread[t].lock] = t /\ holder[thread[t].lock] = u
  BY <1>1 DEF LockInv
<1> QED
  BY <1>2

\* The users of a path are finitely many.
LEMMA UsersFinite ==
  ASSUME NEW k \in Key
  PROVE  IsFiniteSet(Users(k)) /\ Cardinality(Users(k)) \in Nat
<1>1. IsFiniteSet(Thread) /\ Users(k) \subseteq Thread
  BY R2CacheAssumption DEF Users
<1> QED
  BY <1>1, FS_Subset, FS_CardinalityType

\* A goroutine that calls nothing has its type.
LEMMA IdleType ==
  ASSUME NEW k \in Key
  PROVE  Idle \in ThreadState /\ Idle.pc = "idle" /\ Idle.lock = None
<1>1. (CHOOSE j \in Key : TRUE) \in Key
  OBVIOUS
<1> QED
  BY <1>1 DEF ThreadState, PC, Call

\* A step of a call that stays under its lock, or outside of any, changes
\* nothing the lock table depends on.
Inner(t, u) ==
  /\ u.key = thread[t].key /\ u.lock = thread[t].lock
  /\ u.pc \in Held <=> thread[t].pc \in Held
  /\ u.pc \in Using <=> thread[t].pc \in Using

\* A step inside the lock changes neither the table nor the mutexes.
LEMMA InnerStep ==
  ASSUME TypeOK, LockInv, NEW t \in Thread, NEW u \in ThreadState, Inner(t, u),
         thread' = [thread EXCEPT ![t] = u], UNCHANGED locks
  PROVE  LockInv'
<1>1. \A v \in Thread : thread'[v] = IF v = t THEN u ELSE thread[v]
  BY DEF TypeOK
<1>2. \A v \in Thread : /\ thread'[v].key = thread[v].key
                        /\ thread'[v].lock = thread[v].lock
                        /\ thread'[v].pc \in Held <=> thread[v].pc \in Held
                        /\ thread'[v].pc \in Using <=> thread[v].pc \in Using
  BY <1>1 DEF Inner
<1>3. \A k \in Key : Users(k)' = Users(k)
  BY <1>2 DEF Users
<1>4. TableExact'
  BY <1>2 DEF locks, LockInv, TableExact
<1> QED
  BY <1>2, <1>3, <1>4 DEF locks, LockInv

\* The same for a call that rests before or after: it uses no path, and its key
\* does not matter.
LEMMA OuterStep ==
  ASSUME TypeOK, LockInv, NEW t \in Thread, NEW u \in ThreadState,
         thread[t].pc \notin Using, u.pc \notin Using, u.lock = None,
         thread' = [thread EXCEPT ![t] = u], UNCHANGED locks
  PROVE  LockInv'
<1>1. \A v \in Thread : thread'[v] = IF v = t THEN u ELSE thread[v]
  BY DEF TypeOK
<1>2. \A v \in Thread : /\ thread'[v].lock = thread[v].lock
                        /\ thread'[v].pc \in Held <=> thread[v].pc \in Held
                        /\ thread'[v].pc \in Using <=> thread[v].pc \in Using
                        /\ v # t => thread'[v].key = thread[v].key
  BY <1>1 DEF LockInv, Using
<1>3. \A k \in Key : Users(k)' = Users(k)
  BY <1>2 DEF Users
<1>4. TableExact'
  BY <1>2 DEF locks, LockInv, TableExact
<1> QED
  BY <1>2, <1>3, <1>4 DEF locks, LockInv

\* The first section of lockCache: one more user of the path.
LEMMA FindStep ==
  ASSUME TypeOK, LockInv, NEW t \in Thread, NEW k \in Key, NEW call \in Call,
         thread[t].pc \notin Using, Find(t, k, call)
  PROVE  LockInv' /\ table' \in [Key -> Lock \cup {None}] /\ refs' \in [Lock -> Nat]
         /\ holder' = holder /\ thread' \in [Thread -> ThreadState]
         /\ thread' = [thread EXCEPT ![t] = thread'[t]]
         /\ thread'[t].pc = "lock"
<1>1. PICK l \in Lock :
        /\ IF table[k] = None THEN ~Live(l) ELSE l = table[k]
        /\ table' = [table EXCEPT ![k] = l]
        /\ refs' = [refs EXCEPT ![l] = IF table[k] = None THEN 1 ELSE @ + 1]
        /\ thread' = [thread EXCEPT ![t] = Calls("lock", call, k, l)]
        /\ holder' = holder
  BY DEF Find
<1>2. /\ l # None
      /\ \A v \in Thread : thread'[v] =
           IF v = t THEN Calls("lock", call, k, l) ELSE thread[v]
      /\ \A j \in Key : table'[j] = IF j = k THEN l ELSE table[j]
      /\ \A m \in Lock : refs'[m] =
           IF m = l THEN IF table[k] = None THEN 1 ELSE refs[l] + 1 ELSE refs[m]
  BY <1>1, R2CacheAssumption DEF TypeOK
<1>3. \A j \in Key : j # k => table[j] # l
  <2>1. CASE table[k] = None
    BY <1>1, <2>1 DEF Live
  <2>2. CASE table[k] # None
    BY <1>1, <1>2, <2>2 DEF LockInv
  <2> QED
    BY <2>1, <2>2
<1>4. \A v \in Thread : v # t /\ thread[v].lock = l =>
         thread[v].pc \in Using /\ thread[v].key = k
  <2> SUFFICES ASSUME NEW v \in Thread, v # t, thread[v].lock = l
               PROVE  thread[v].pc \in Using /\ thread[v].key = k
    OBVIOUS
  <2>1. thread[v].pc \in Using /\ table[thread[v].key] = l
    BY <1>2 DEF LockInv
  <2>2. thread[v].key \in Key
    BY DEF TypeOK, ThreadState
  <2> QED
    BY <1>3, <2>1, <2>2
<1>5. /\ Users(k)' = Users(k) \cup {t} /\ t \notin Users(k)
      /\ \A j \in Key : j # k => Users(j)' = Users(j)
  BY <1>2 DEF Users, Using
<1>6. Cardinality(Users(k)') = Cardinality(Users(k)) + 1
  BY <1>5, UsersFinite, FS_AddElement
<1>7. refs'[l] = Cardinality(Users(k)')
  <2>1. CASE table[k] = None
    <3>1. Users(k) = {}
      BY <2>1 DEF LockInv, TableExact, Users
    <3> QED
      BY <1>2, <1>6, <2>1, <3>1, FS_EmptySet
  <2>2. CASE table[k] # None
    <3>1. refs[l] = Cardinality(Users(k))
      BY <1>1, <2>2 DEF LockInv
    <3> QED
      BY <1>2, <1>6, <2>2, <3>1
  <2> QED
    BY <2>1, <2>2
<1>8. \A j \in Key : table'[j] # None => refs'[table'[j]] = Cardinality(Users(j)')
  <2> SUFFICES ASSUME NEW j \in Key, table'[j] # None
               PROVE  refs'[table'[j]] = Cardinality(Users(j)')
    OBVIOUS
  <2>1. CASE j = k
    BY <1>2, <1>7, <2>1
  <2>2. CASE j # k
    <3>1. table'[j] = table[j] /\ table[j] \in Lock /\ table[j] # l
      BY <1>2, <1>3, <2>2 DEF TypeOK
    <3> QED
      BY <1>2, <1>5, <2>2, <3>1 DEF LockInv
  <2> QED
    BY <2>1, <2>2
<1>9. TableExact'
  BY <1>2 DEF LockInv, TableExact, Using
<1>10. \A v \in Thread :
         IF thread'[v].pc \in Using
         THEN thread'[v].lock \in Lock /\ table'[thread'[v].key] = thread'[v].lock
         ELSE thread'[v].lock = None
  <2> SUFFICES ASSUME NEW v \in Thread
               PROVE  IF thread'[v].pc \in Using
                      THEN thread'[v].lock \in Lock /\ table'[thread'[v].key] = thread'[v].lock
                      ELSE thread'[v].lock = None
    OBVIOUS
  <2>1. CASE v = t
    BY <1>2, <2>1 DEF Using
  <2>2. CASE v # t
    <3>1. thread'[v] = thread[v] /\ thread[v].key \in Key
      BY <1>2, <2>2 DEF TypeOK, ThreadState
    <3>2. thread[v].pc \in Using /\ thread[v].key = k => table[k] # None /\ thread[v].lock = l
      BY <1>1, <3>1 DEF LockInv, TableExact
    <3> QED
      BY <1>2, <3>1, <3>2 DEF LockInv
  <2> QED
    BY <2>1, <2>2
<1>11. \A m \in Lock, v \in Thread :
          holder'[m] = v <=> thread'[v].lock = m /\ thread'[v].pc \in Held
  BY <1>1, <1>2, R2CacheAssumption DEF LockInv, Held, Using
<1>12. \A i, j \in Key : table'[i] = table'[j] /\ table'[i] # None => i = j
  BY <1>2, <1>3 DEF LockInv
<1>13. thread' \in [Thread -> ThreadState] /\ refs' \in [Lock -> Nat]
       /\ table' \in [Key -> Lock \cup {None}]
  BY <1>1 DEF TypeOK, ThreadState, PC, Using
<1> QED
  BY <1>1, <1>2, <1>8, <1>9, <1>10, <1>11, <1>12, <1>13 DEF LockInv, TypeOK

\* Taking and giving back the mutex: one holder appears or goes.
LEMMA MutexStep ==
  ASSUME TypeOK, LockInv, NEW t \in Thread, Acquire(t) \/ Unlock(t)
  PROVE  LockInv' /\ holder' \in [Lock -> Thread \cup {None}]
         /\ thread' \in [Thread -> ThreadState]
<1>1. PICK l \in Lock : l = thread[t].lock /\ thread[t].pc \in Using
  BY DEF Acquire, Unlock, LockInv, Using, Held
<1>2. PICK pc \in {"enter", "release"} : thread' = [thread EXCEPT ![t].pc = pc]
  BY DEF Acquire, Unlock
<1>3. /\ thread' \in [Thread -> ThreadState]
      /\ \A v \in Thread : v # t => thread'[v] = thread[v]
      /\ thread'[t].key = thread[t].key /\ thread'[t].lock = l /\ thread'[t].pc = pc
  <2> DEFINE u == [thread[t] EXCEPT !.pc = pc]
  <2>1. thread \in [Thread -> ThreadState] /\ thread[t] \in ThreadState
    BY DEF TypeOK
  <2>2. u \in ThreadState /\ u.pc = pc /\ u.key = thread[t].key /\ u.lock = l
    BY <1>1, <2>1 DEF ThreadState, PC, Using, Held
  <2>3. thread' = [thread EXCEPT ![t] = u]
    BY <1>2 DEF TypeOK
  <2> HIDE DEF u
  <2>4. thread' \in [Thread -> ThreadState] /\ thread'[t] = u
        /\ \A v \in Thread : v # t => thread'[v] = thread[v]
    BY <2>1, <2>2, <2>3
  <2> QED
    BY <2>2, <2>4
<1>4. thread'[t].key = thread[t].key /\ thread'[t].lock = l /\ thread'[t].pc = pc
  BY <1>3
<1>5. \A v \in Thread : /\ thread'[v].key = thread[v].key
                        /\ thread'[v].lock = thread[v].lock
                        /\ thread'[v].pc \in Using <=> thread[v].pc \in Using
  <2>1. thread'[t].pc \in Using
    BY <1>4 DEF Using, Held
  <2> QED
    BY <1>1, <1>3, <1>4, <2>1
<1>6. \A m \in Lock, v \in Thread :
         holder'[m] = v <=> thread'[v].lock = m /\ thread'[v].pc \in Held
  <2>1. CASE Acquire(t)
    <3>1. /\ \A m \in Lock : holder'[m] = IF m = l THEN t ELSE holder[m]
          /\ holder[l] = None /\ pc = "enter"
      BY <2>1, <1>1, <1>2, <1>3, <1>4 DEF Acquire, TypeOK
    <3> SUFFICES ASSUME NEW m \in Lock, NEW v \in Thread
                 PROVE  holder'[m] = v <=> thread'[v].lock = m /\ thread'[v].pc \in Held
      OBVIOUS
    <3>2. holder[m] = v <=> thread[v].lock = m /\ thread[v].pc \in Held
      BY DEF LockInv
    <3>3. None # v
      BY R2CacheAssumption
    <3>4. CASE v = t
      BY <1>1, <1>4, <3>1, <3>2, <3>3, <3>4 DEF Held
    <3>5. CASE v # t
      <4>1. thread'[v] = thread[v]
        BY <1>3, <3>5
      <4> QED
        BY <1>1, <3>1, <3>2, <3>3, <3>5, <4>1 DEF LockInv
    <3> QED
      BY <3>4, <3>5
  <2>2. CASE Unlock(t)
    <3>1. /\ \A m \in Lock : holder'[m] = IF m = l THEN None ELSE holder[m]
          /\ holder[l] = t /\ pc = "release"
      BY <2>2, <1>1, <1>2, <1>3, <1>4 DEF Unlock, TypeOK, LockInv, Held
    <3> SUFFICES ASSUME NEW m \in Lock, NEW v \in Thread
                 PROVE  holder'[m] = v <=> thread'[v].lock = m /\ thread'[v].pc \in Held
      OBVIOUS
    <3>2. holder[m] = v <=> thread[v].lock = m /\ thread[v].pc \in Held
      BY DEF LockInv
    <3>3. None # v
      BY R2CacheAssumption
    <3>4. CASE v = t
      BY <1>1, <1>4, <3>1, <3>2, <3>3, <3>4 DEF Held
    <3>5. CASE v # t
      <4>1. thread'[v] = thread[v]
        BY <1>3, <3>5
      <4> QED
        BY <1>1, <3>1, <3>2, <3>3, <3>5, <4>1 DEF LockInv
    <3> QED
      BY <3>4, <3>5
  <2> QED
    BY <2>1, <2>2
<1>7. \A k \in Key : Users(k)' = Users(k)
  BY <1>5 DEF Users
<1>8. table' = table /\ refs' = refs
  BY DEF Acquire, Unlock
<1>9. TableExact'
  BY <1>5, <1>8 DEF LockInv, TableExact
<1>10. holder' \in [Lock -> Thread \cup {None}]
  BY DEF Acquire, Unlock, TypeOK
<1>11. \A v \in Thread :
         IF thread'[v].pc \in Using
         THEN thread'[v].lock \in Lock /\ table'[thread'[v].key] = thread'[v].lock
         ELSE thread'[v].lock = None
  BY <1>5, <1>8 DEF LockInv
<1> QED
  BY <1>3, <1>6, <1>7, <1>8, <1>9, <1>10, <1>11 DEF LockInv

\* The second section: one user less, and the last one takes the entry along.
LEMMA ReleaseStep ==
  ASSUME TypeOK, LockInv, NEW t \in Thread, Release(t)
  PROVE  LockInv' /\ table' \in [Key -> Lock \cup {None}] /\ refs' \in [Lock -> Nat]
         /\ thread' \in [Thread -> ThreadState]
         /\ thread'[t].pc \in {"idle", "open", "missing"}
<1>0. PICK k \in Key, l \in Lock : k = thread[t].key /\ l = thread[t].lock
  BY DEF Release, LockInv, TypeOK, ThreadState, Using
<1>1. thread[t].pc = "release" /\ table[k] = l /\ l # None
  BY <1>0, R2CacheAssumption DEF Release, LockInv, Using
<1>2. /\ refs[l] = Cardinality(Users(k))
      /\ t \in Users(k)
  BY <1>0, <1>1 DEF LockInv, Users, Using
<1>3. thread' \in [Thread -> ThreadState] /\ thread'[t].lock = None
      /\ thread'[t].pc \in {"idle", "open", "missing"}
      /\ \A v \in Thread : v # t => thread'[v] = thread[v]
  <2>1. CASE thread[t].call # "path" \/ thread[t].result = "failed"
    <3>1. thread' = [thread EXCEPT ![t] = Idle]
      BY <2>1 DEF Release, Returns
    <3>2. Idle \in ThreadState /\ Idle.pc = "idle" /\ Idle.lock = None
      BY IdleType
    <3> HIDE DEF Idle
    <3> QED
      BY <3>1, <3>2 DEF TypeOK
  <2>2. CASE ~(thread[t].call # "path" \/ thread[t].result = "failed")
    <3>1. PICK pc \in {"open", "missing"} :
            thread' = [thread EXCEPT ![t].pc = pc, ![t].lock = None]
      BY <2>2 DEF Release, Returns
    <3> DEFINE u == [thread[t] EXCEPT !.pc = pc, !.lock = None]
    <3>2. thread[t] \in ThreadState
      BY DEF TypeOK
    <3>3. u \in ThreadState /\ u.pc = pc /\ u.lock = None
      BY <3>2 DEF ThreadState, PC
    <3>4. thread' = [thread EXCEPT ![t] = u]
      BY <3>1 DEF TypeOK
    <3> HIDE DEF u
    <3>5. thread \in [Thread -> ThreadState]
      BY DEF TypeOK
    <3> QED
      BY <3>3, <3>4, <3>5
  <2> QED
    BY <2>1, <2>2
<1>4. /\ Users(k)' = Users(k) \ {t}
      /\ \A j \in Key : j # k => Users(j)' = Users(j)
  BY <1>0, <1>1, <1>3 DEF Users, Using, Held
<1>5. /\ Cardinality(Users(k)') = refs[l] - 1
      /\ Cardinality(Users(k)') \in Nat
  <2>1. IsFiniteSet(Users(k))
    BY <1>1, UsersFinite
  <2> QED
    BY <1>2, <1>4, <2>1, FS_RemoveElement, FS_CardinalityType, FS_Subset
<1>6. Cardinality(Users(k)') = 0 <=> Users(k)' = {}
  <2>1. IsFiniteSet(Users(k)')
    BY <1>1, <1>4, UsersFinite, FS_Subset
  <2> QED
    BY <2>1, FS_EmptySet
<1>7. /\ \A m \in Lock : refs'[m] = IF m = l THEN refs[l] - 1 ELSE refs[m]
      /\ \A j \in Key : table'[j] = IF j = k /\ Users(k)' = {} THEN None ELSE table[j]
      /\ holder' = holder
  <2>1. refs' = [refs EXCEPT ![l] = refs[l] - 1] /\ holder' = holder
    BY <1>0 DEF Release, Decrement
  <2>2. table' = [table EXCEPT ![k] = IF refs[l] - 1 = 0 THEN None ELSE table[k]]
    BY <1>0 DEF Release, Drop, Decrement
  <2> QED
    BY <1>1, <1>5, <1>6, <2>1, <2>2 DEF TypeOK
<1>8. \A j \in Key : j # k => table[j] # l
  BY <1>1 DEF LockInv
<1>9. \A j \in Key : table'[j] # None => refs'[table'[j]] = Cardinality(Users(j)')
  <2> SUFFICES ASSUME NEW j \in Key, table'[j] # None
               PROVE  refs'[table'[j]] = Cardinality(Users(j)')
    OBVIOUS
  <2>1. CASE j = k
    BY <1>1, <1>5, <1>7, <2>1
  <2>2. CASE j # k
    <3>1. table'[j] = table[j] /\ table[j] \in Lock /\ table[j] # l
      BY <1>7, <1>8, <2>2 DEF TypeOK
    <3> QED
      BY <1>4, <1>7, <2>2, <3>1 DEF LockInv
  <2> QED
    BY <2>1, <2>2
<1>10. TableExact'
  <2> SUFFICES ASSUME NEW j \in Key
               PROVE  table'[j] # None <=> Users(j)' # {}
    BY DEF TableExact, Users
  <2>1. table[j] # None <=> Users(j) # {}
    BY DEF LockInv, TableExact, Users
  <2> QED
    BY <1>1, <1>4, <1>7, <2>1
<1>11. \A v \in Thread :
         IF thread'[v].pc \in Using
         THEN thread'[v].lock \in Lock /\ table'[thread'[v].key] = thread'[v].lock
         ELSE thread'[v].lock = None
  <2> SUFFICES ASSUME NEW v \in Thread
               PROVE  IF thread'[v].pc \in Using
                      THEN thread'[v].lock \in Lock /\ table'[thread'[v].key] = thread'[v].lock
                      ELSE thread'[v].lock = None
    OBVIOUS
  <2>1. CASE v = t
    BY <1>3, <2>1 DEF Using, Held
  <2>2. CASE v # t
    <3>1. thread'[v] = thread[v] /\ thread[v].key \in Key
      BY <1>3, <2>2 DEF TypeOK, ThreadState
    <3>2. thread[v].pc \in Using /\ thread[v].key = k => v \in Users(k)'
      BY <1>4, <2>2 DEF Users
    <3> QED
      BY <1>7, <3>1, <3>2 DEF LockInv
  <2> QED
    BY <2>1, <2>2
<1>12. \A m \in Lock, v \in Thread :
          holder'[m] = v <=> thread'[v].lock = m /\ thread'[v].pc \in Held
  BY <1>0, <1>1, <1>3, <1>7, R2CacheAssumption DEF LockInv, Held
<1>13. \A i, j \in Key : table'[i] = table'[j] /\ table'[i] # None => i = j
  BY <1>7 DEF LockInv
<1>14. refs' \in [Lock -> Nat] /\ table' \in [Key -> Lock \cup {None}]
  BY <1>0, <1>5, <1>7 DEF Release, TypeOK
<1> QED
  BY <1>3, <1>9, <1>10, <1>11, <1>12, <1>13, <1>14 DEF LockInv

\* Every step of a call changes its own record only, and keeps key and lock.
LEMMA PcStep ==
  ASSUME TypeOK, NEW t \in Thread, NEW pc \in PC,
         NEW r \in {"ok", "absent", "failed"}, Go(t, pc) \/ Give(t, pc, r)
  PROVE  \E u \in ThreadState :
           /\ u.pc = pc /\ u.key = thread[t].key /\ u.lock = thread[t].lock
           /\ u.call = thread[t].call
           /\ thread' = [thread EXCEPT ![t] = u]
<1>1. thread \in [Thread -> ThreadState] /\ thread[t] \in ThreadState
  BY DEF TypeOK
<1>2. CASE Go(t, pc)
  <2> DEFINE u == [thread[t] EXCEPT !.pc = pc]
  <2>1. /\ u \in ThreadState /\ u.pc = pc /\ u.key = thread[t].key
        /\ u.lock = thread[t].lock /\ u.call = thread[t].call
    BY <1>1 DEF ThreadState
  <2>2. thread' = [thread EXCEPT ![t] = u]
    BY <1>1, <1>2
  <2> QED
    BY <2>1, <2>2
<1>3. CASE Give(t, pc, r)
  <2> DEFINE u == [thread[t] EXCEPT !.pc = pc, !.result = r]
  <2>1. /\ u \in ThreadState /\ u.pc = pc /\ u.key = thread[t].key
        /\ u.lock = thread[t].lock /\ u.call = thread[t].call
    BY <1>1 DEF ThreadState
  <2>2. thread' = [thread EXCEPT ![t] = u]
    BY <1>1, <1>3
  <2> QED
    BY <2>1, <2>2
<1> QED
  BY <1>2, <1>3

\* The same for the two fields of trimCache.
LEMMA TrimStep ==
  ASSUME TypeOK, FileInv, NEW t \in Thread,
         List(t) \/ Trimmed(t) \/ \E k \in Key : Trim(t, k)
  PROVE  \E u \in ThreadState :
           /\ u.pc \in {"evict", "unlock"}
           /\ u.key = thread[t].key /\ u.lock = thread[t].lock
           /\ thread' = [thread EXCEPT ![t] = u]
<1>1. thread \in [Thread -> ThreadState] /\ thread[t] \in ThreadState
  BY DEF TypeOK
<1>2. CASE List(t)
  <2> DEFINE n == Cardinality(cached)
             u == [thread[t] EXCEPT !.pc = "evict", !.listed = Victims, !.total = n]
  <2>1. n \in Nat
    BY FS_CardinalityType DEF FileInv
  <2>2. Victims \subseteq Key
    BY DEF Victims, TypeOK
  <2>3. thread' = [thread EXCEPT ![t] = u]
    BY <1>1, <1>2 DEF List
  <2> HIDE DEF n
  <2>4. u \in ThreadState /\ u.pc = "evict" /\ u.key = thread[t].key
        /\ u.lock = thread[t].lock
    BY <1>1, <2>1, <2>2 DEF ThreadState, PC, Using, Held
  <2> QED
    BY <2>3, <2>4
<1>3. CASE Trimmed(t)
  <2> DEFINE u == [thread[t] EXCEPT !.pc = "unlock", !.listed = {}, !.total = 0]
  <2>1. u \in ThreadState /\ u.pc = "unlock" /\ u.key = thread[t].key
        /\ u.lock = thread[t].lock
    BY <1>1 DEF ThreadState, PC, Using, Held
  <2>2. thread' = [thread EXCEPT ![t] = u]
    BY <1>1, <1>3 DEF Trimmed
  <2> QED
    BY <2>1, <2>2
<1>4. ASSUME NEW k \in Key, Trim(t, k)
      PROVE  \E u \in ThreadState :
               /\ u.pc \in {"evict", "unlock"}
               /\ u.key = thread[t].key /\ u.lock = thread[t].lock
               /\ thread' = [thread EXCEPT ![t] = u]
  <2>1. Keep \in Nat
    BY R2CacheAssumption DEF Keep
  <2>2. thread[t].total \in Nat /\ thread[t].total > Keep /\ thread[t].pc = "evict"
    BY <1>1, <1>4 DEF Trim, ThreadState
  <2>3. PICK n \in Nat :
          thread' = [thread EXCEPT ![t].listed = thread[t].listed \ {k}, ![t].total = n]
    <3>1. (IF k \in cached THEN thread[t].total - 1 ELSE thread[t].total) \in Nat
      BY <2>1, <2>2
    <3> QED
      BY <1>1, <1>4, <3>1 DEF Trim
  <2> DEFINE u == [thread[t] EXCEPT !.listed = thread[t].listed \ {k}, !.total = n]
  <2>4. u \in ThreadState /\ u.pc = "evict" /\ u.key = thread[t].key
        /\ u.lock = thread[t].lock
    BY <1>1, <2>2 DEF ThreadState
  <2>5. thread' = [thread EXCEPT ![t] = u]
    BY <1>1, <2>3
  <2> QED
    BY <2>4, <2>5
<1> QED
  BY <1>2, <1>3, <1>4

-----------------------------------------------------------------------------
IInv == TypeOK /\ LockInv /\ FileInv

\* A call under its lock: what its step leaves alone.
LEMMA HeldStep ==
  ASSUME IInv, NEW t \in Thread, NEW u \in ThreadState,
         thread[t].pc \in Held, u.pc \in Held,
         u.key = thread[t].key, u.lock = thread[t].lock,
         thread' = [thread EXCEPT ![t] = u], UNCHANGED <<row, locks>>
  PROVE  /\ LockInv'
         /\ row' \in [Key -> Row]
         /\ table' \in [Key -> Lock \cup {None}]
         /\ refs' \in [Lock -> Nat]
         /\ holder' \in [Lock -> Thread \cup {None}]
         /\ thread' \in [Thread -> ThreadState]
         /\ thread'[t] = u
         /\ \A v \in Thread : v # t => thread'[v] = thread[v]
<1>1. Inner(t, u)
  BY DEF Inner, Using
<1>2. LockInv'
  BY <1>1, InnerStep DEF IInv
<1> QED
  BY <1>2 DEF IInv, TypeOK, locks

\* A step that writes no file keeps what is said of them, if it neither ends a
\* deletion nor starts to write a copy without an object.
LEMMA NoFileStep ==
  ASSUME TypeOK, FileInv, UNCHANGED files, NEW t \in Thread,
         thread[t].pc # "forget",
         thread'[t].pc = "rename" => thread'[t].key \in object /\ thread'[t].call # "delete",
         \A v \in Thread : v # t => thread'[v] = thread[v]
  PROVE  FileInv' /\ object' \subseteq Key /\ cached' \subseteq Key /\ recent' \subseteq cached'
<1>1. \A v \in Thread :
        thread'[v].pc = "rename" => thread'[v].key \in object /\ thread'[v].call # "delete"
  BY DEF FileInv
<1>2. \A k \in cached \ object : \E v \in Thread : thread'[v].key = k /\ thread'[v].pc = "forget"
  BY DEF FileInv, CopiesBacked
<1> QED
  BY <1>1, <1>2 DEF FileInv, CopiesBacked, files, TypeOK

\* The copy of the path of t, and of no other call under a lock.
LEMMA Alone ==
  ASSUME IInv, NEW t \in Thread, NEW v \in Thread, v # t,
         thread[t].pc \in Held, thread[v].pc \in Held
  PROVE  thread[v].key # thread[t].key
BY LockSerialises DEF IInv, Serialised

\* The steps between Lock and Unlock.
LEMMA WorkStep ==
  ASSUME IInv, NEW t \in Thread,
         \/ Upload(t) \/ UploadFails(t) \/ Hit(t) \/ Fetch(t)
         \/ Rename(t) \/ RenameFails(t) \/ List(t) \/ Trimmed(t)
         \/ \E k \in Key : Trim(t, k)
         \/ DeleteObject(t) \/ Forget(t)
  PROVE  IInv'
<1> USE DEF IInv
<1>1. thread \in [Thread -> ThreadState] /\ thread[t].key \in Key
  BY DEF TypeOK, ThreadState
<1>2. thread[t].pc \in Held
  BY DEF Upload, UploadFails, Hit, Fetch, Rename, RenameFails, List, Trimmed, Trim,
         DeleteObject, Forget, Held
<1>3. PICK u \in ThreadState :
        /\ u.pc \in Held /\ u.key = thread[t].key /\ u.lock = thread[t].lock
        /\ thread' = [thread EXCEPT ![t] = u]
        /\ u.pc = "rename" => Upload(t) \/ (thread[t].key \in object /\ Fetch(t))
        /\ u.pc = "rename" => u.call # "delete"
        /\ DeleteObject(t) => u.pc = "forget"
  <2>1. CASE List(t) \/ Trimmed(t) \/ \E k \in Key : Trim(t, k)
    <3>1. ~DeleteObject(t)
      BY <2>1 DEF List, Trimmed, Trim, DeleteObject
    <3> QED
      BY <2>1, <3>1, TrimStep DEF Held
  <2>2. CASE ~(List(t) \/ Trimmed(t) \/ \E k \in Key : Trim(t, k))
    <3>1. PICK pc \in Held, r \in {"ok", "absent", "failed"} :
            /\ Go(t, pc) \/ Give(t, pc, r)
            /\ pc = "rename" => Upload(t) \/ (thread[t].key \in object /\ Fetch(t))
            /\ pc = "rename" => thread[t].call # "delete"
            /\ DeleteObject(t) => pc = "forget"
      <4> HIDE DEF Go, Give
      <4>1. CASE Upload(t) \/ Fetch(t)
        BY <4>1 DEF Upload, Fetch, DeleteObject, Held, At
      <4>2. CASE UploadFails(t) \/ Hit(t) \/ Rename(t) \/ RenameFails(t)
        BY <4>2 DEF UploadFails, Hit, Rename, RenameFails, DeleteObject, Held, At
      <4>3. CASE DeleteObject(t) \/ Forget(t)
        BY <4>3 DEF DeleteObject, Forget, Held, At
      <4> QED
        BY <2>2, <4>1, <4>2, <4>3
    <3>2. pc \in PC
      BY DEF PC, Using
    <3>3. PICK u \in ThreadState :
            /\ u.pc = pc /\ u.key = thread[t].key /\ u.lock = thread[t].lock
            /\ u.call = thread[t].call
            /\ thread' = [thread EXCEPT ![t] = u]
      <4> HIDE DEF Go, Give
      <4> QED
        BY <3>1, <3>2, PcStep
    <3> QED
      BY <3>1, <3>3
  <2> QED
    BY <2>1, <2>2
<1>4. /\ LockInv' /\ thread'[t] = u /\ row' \in [Key -> Row]
      /\ table' \in [Key -> Lock \cup {None}] /\ refs' \in [Lock -> Nat]
      /\ holder' \in [Lock -> Thread \cup {None}] /\ thread' \in [Thread -> ThreadState]
      /\ \A v \in Thread : v # t => thread'[v] = thread[v]
  <2>1. UNCHANGED <<row, locks>>
    BY DEF Upload, UploadFails, Hit, Fetch, Rename, RenameFails, List, Trimmed, Trim,
           DeleteObject, Forget
  <2> QED
    BY <1>2, <1>3, <2>1, HeldStep
<1>5. PICK k \in Key : k = thread[t].key
  BY <1>1
<1>6. \A v \in Thread : v # t /\ thread[v].pc \in Held => thread[v].key # k
  BY <1>2, <1>5, Alone
<1>7. FileInv' /\ object' \subseteq Key /\ cached' \subseteq Key /\ recent' \subseteq cached'
  <2>1. CASE Upload(t) \/ UploadFails(t)
    <3>1. /\ object \subseteq object' /\ object' \subseteq object \cup {k}
          /\ cached' = cached /\ recent' = recent /\ thread[t].pc = "enter"
          /\ Upload(t) => k \in object'
      BY <1>5, <2>1 DEF Upload, UploadFails
    <3>2. ~Fetch(t)
      BY <2>1 DEF Upload, UploadFails, Fetch
    <3> QED
      BY <1>3, <1>4, <1>5, <3>1, <3>2 DEF FileInv, CopiesBacked, TypeOK
  <2>2. CASE Hit(t) \/ Fetch(t) \/ RenameFails(t) \/ List(t) \/ Trimmed(t)
    <3>1. UNCHANGED files /\ thread[t].pc # "forget" /\ ~Upload(t)
      BY <2>2 DEF Hit, Fetch, RenameFails, List, Trimmed, Upload
    <3> QED
      BY <1>3, <1>4, <3>1, NoFileStep
  <2>3. CASE Rename(t)
    <3>1. /\ k \in object /\ cached' = cached \cup {k} /\ recent' = recent \cup {k}
          /\ object' = object /\ thread[t].pc = "rename" /\ ~Upload(t) /\ ~Fetch(t)
      BY <1>5, <2>3 DEF Rename, FileInv, Upload, Fetch
    <3>2. IsFiniteSet(cached')
      BY <3>1, FS_AddElement DEF FileInv
    <3> QED
      BY <1>3, <1>4, <1>5, <3>1, <3>2 DEF FileInv, CopiesBacked, TypeOK
  <2>4. ASSUME NEW j \in Key, Trim(t, j)
        PROVE  FileInv' /\ object' \subseteq Key /\ cached' \subseteq Key /\ recent' \subseteq cached'
    <3>1. /\ cached' = cached \ {j} /\ recent' = recent \ {j} /\ object' = object
          /\ thread[t].pc = "evict" /\ ~Upload(t) /\ ~Fetch(t)
      BY <2>4 DEF Trim, Upload, Fetch
    <3>2. IsFiniteSet(cached')
      BY <3>1, FS_Subset DEF FileInv
    <3> QED
      BY <1>3, <1>4, <3>1, <3>2 DEF FileInv, CopiesBacked, TypeOK
  <2>5. CASE DeleteObject(t)
    <3>1. /\ object' \subseteq object /\ object \subseteq object' \cup {k}
          /\ cached' = cached /\ recent' = recent /\ thread[t].pc = "enter"
      BY <1>5, <2>5 DEF DeleteObject
    <3>2. u.pc = "forget" /\ u.key = k
      BY <1>3, <1>5, <2>5
    <3> QED
      BY <1>4, <1>5, <1>6, <3>1, <3>2 DEF FileInv, CopiesBacked, TypeOK, Held
  <2>6. CASE Forget(t)
    <3>1. /\ cached' = cached \ {k} /\ recent' = recent \ {k} /\ object' = object
          /\ ~Upload(t) /\ ~Fetch(t)
      BY <1>5, <2>6 DEF Forget, Upload, Fetch
    <3>2. IsFiniteSet(cached')
      BY <3>1, FS_Subset DEF FileInv
    <3> QED
      BY <1>3, <1>4, <1>5, <3>1, <3>2 DEF FileInv, CopiesBacked, TypeOK
  <2> QED
    BY <2>1, <2>2, <2>3, <2>4, <2>5, <2>6
<1> QED
  BY <1>4, <1>7 DEF TypeOK

\* The remaining steps of a call.
LEMMA CallStep ==
  ASSUME IInv, NEW t \in Thread, Begins(t) \/ Acquire(t) \/ Works(t)
  PROVE  IInv'
<1> USE DEF IInv
<1>1. ASSUME NEW k \in Key, Put(t, k) \/ LocalPath(t, k) \/ Delete(t, k)
      PROVE  IInv'
  <2>1. PICK call \in Call : Find(t, k, call)
    BY <1>1 DEF Put, LocalPath, Delete, Call
  <2>2. thread[t].pc = "idle" /\ UNCHANGED files /\ row' \in [Key -> Row]
    BY <1>1 DEF Put, LocalPath, Delete, TypeOK, Row
  <2>3. /\ LockInv' /\ table' \in [Key -> Lock \cup {None}] /\ refs' \in [Lock -> Nat]
        /\ holder' = holder /\ thread' \in [Thread -> ThreadState]
        /\ thread' = [thread EXCEPT ![t] = thread'[t]] /\ thread'[t].pc = "lock"
    BY <2>1, <2>2, FindStep DEF Using, Held
  <2>4. \A v \in Thread : v # t => thread'[v] = thread[v]
    BY <2>3 DEF TypeOK
  <2> QED
    BY <2>2, <2>3, <2>4, NoFileStep DEF TypeOK
<1>2. CASE Import(t)
  <2>1. PICK k \in Key : Find(t, k, "import")
    BY <1>2 DEF Import, TypeOK, ThreadState
  <2>2. thread[t].pc = "head" /\ UNCHANGED files /\ row' = row
    BY <1>2 DEF Import
  <2>3. /\ LockInv' /\ table' \in [Key -> Lock \cup {None}] /\ refs' \in [Lock -> Nat]
        /\ holder' = holder /\ thread' \in [Thread -> ThreadState]
        /\ thread' = [thread EXCEPT ![t] = thread'[t]] /\ thread'[t].pc = "lock"
    BY <2>1, <2>2, FindStep DEF Using, Held, Call
  <2>4. \A v \in Thread : v # t => thread'[v] = thread[v]
    BY <2>3 DEF TypeOK
  <2> QED
    BY <2>2, <2>3, <2>4, NoFileStep DEF TypeOK
<1>3. ASSUME NEW u \in ThreadState, thread' = [thread EXCEPT ![t] = u],
             thread[t].pc \notin Using, u.pc \notin Using, u.lock = None,
             UNCHANGED <<files, row, locks>>
      PROVE  IInv'
  <2>1. thread' \in [Thread -> ThreadState] /\ thread'[t] = u
        /\ \A v \in Thread : v # t => thread'[v] = thread[v]
    BY <1>3 DEF TypeOK
  <2>2. LockInv'
    BY <1>3, OuterStep
  <2>3. FileInv' /\ object' \subseteq Key /\ cached' \subseteq Key /\ recent' \subseteq cached'
    BY <1>3, <2>1, NoFileStep DEF Using, Held
  <2> QED
    BY <1>3, <2>1, <2>2, <2>3 DEF TypeOK, locks
<1>4. ASSUME NEW k \in Key, HasObject(t, k)
      PROVE  IInv'
  <2>1. Calls("head", "import", k, None) \in ThreadState
    BY DEF ThreadState, PC, Call
  <2> QED
    BY <1>3, <1>4, <2>1 DEF HasObject, Using, Held
<1>5. CASE OpenFile(t) \/ ActOnMissing(t)
  <2>1. PICK u \in ThreadState : /\ thread' = [thread EXCEPT ![t] = u]
                                 /\ u.pc \in {"idle", "missing"} /\ u.lock = None
    <3>1. CASE thread' = [thread EXCEPT ![t] = Idle]
      <4>1. Idle \in ThreadState /\ Idle.pc = "idle" /\ Idle.lock = None
        BY IdleType DEF TypeOK, ThreadState
      <4> HIDE DEF Idle
      <4> QED
        BY <3>1, <4>1
    <3>2. CASE Go(t, "missing")
      <4>1. thread[t].lock = None
        BY <1>5 DEF OpenFile, ActOnMissing, LockInv, Using, Held
      <4>2. "missing" \in PC
        BY DEF PC
      <4>3. PICK r \in {"ok", "absent", "failed"} : TRUE
        OBVIOUS
      <4> HIDE DEF Go, Give
      <4>4. PICK u \in ThreadState :
              /\ u.pc = "missing" /\ u.key = thread[t].key /\ u.lock = thread[t].lock
              /\ thread' = [thread EXCEPT ![t] = u]
        BY <3>2, <4>2, <4>3, PcStep
      <4> QED
        BY <4>1, <4>4
    <3> QED
      BY <1>5, <3>1, <3>2 DEF OpenFile, ActOnMissing
  <2>2. thread[t].pc \in {"open", "missing"} /\ UNCHANGED <<files, row, locks>>
    BY <1>5 DEF OpenFile, ActOnMissing
  <2> QED
    BY <1>3, <2>1, <2>2 DEF Using, Held
<1>6. CASE Acquire(t) \/ Unlock(t)
  <2>1. /\ LockInv' /\ holder' \in [Lock -> Thread \cup {None}]
        /\ thread' \in [Thread -> ThreadState]
    BY <1>6, MutexStep
  <2>2. /\ UNCHANGED <<files, row, table, refs>> /\ thread[t].pc \in {"lock", "unlock"}
        /\ thread'[t].pc \in {"enter", "release"}
        /\ \A v \in Thread : v # t => thread'[v] = thread[v]
    BY <1>6 DEF Acquire, Unlock, TypeOK, ThreadState
  <2> QED
    BY <2>1, <2>2, NoFileStep DEF TypeOK
<1>7. CASE Release(t)
  <2>1. /\ LockInv' /\ table' \in [Key -> Lock \cup {None}] /\ refs' \in [Lock -> Nat]
        /\ thread' \in [Thread -> ThreadState]
        /\ thread'[t].pc \in {"idle", "open", "missing"}
    BY <1>7, ReleaseStep
  <2>2. /\ UNCHANGED <<files, holder>> /\ thread[t].pc = "release"
        /\ row' \in [Key -> Row]
        /\ \A v \in Thread : v # t => thread'[v] = thread[v]
    BY <1>7 DEF Release, Returns, TypeOK, ThreadState, Row
  <2> QED
    BY <2>1, <2>2, NoFileStep DEF TypeOK
<1> QED
  BY <1>1, <1>2, <1>4, <1>5, <1>6, <1>7, WorkStep DEF Begins, Works

\* The inductive invariant: types, the lock table, and the copies.
THEOREM CacheInductive == Spec => []IInv
<1>1. Init => IInv
  <2> SUFFICES ASSUME Init
               PROVE  IInv
    OBVIOUS
  <2>1. /\ thread \in [Thread -> ThreadState]
        /\ \A t \in Thread : thread[t].pc = "idle" /\ thread[t].lock = None
    <3>1. Idle \in ThreadState /\ Idle.pc = "idle" /\ Idle.lock = None
      BY IdleType, R2CacheAssumption
    <3>2. thread = [t \in Thread |-> Idle]
      BY DEF Init
    <3> HIDE DEF Idle
    <3> QED
      BY <3>1, <3>2
  <2> QED
    BY <2>1, R2CacheAssumption, FS_EmptySet
    DEF Init, IInv, TypeOK, LockInv, FileInv, TableExact, CopiesBacked, Row, Using, Held
<1>2. IInv /\ [Next]_vars => IInv'
  <2> SUFFICES ASSUME IInv, [Next]_vars
               PROVE  IInv'
    OBVIOUS
  <2>1. ASSUME NEW t \in Thread, Begins(t) \/ Acquire(t) \/ Works(t)
        PROVE  IInv'
    BY <2>1, CallStep
  <2>2. ASSUME NEW k \in Key, Age(k)
        PROVE  IInv'
    BY <2>2 DEF Age, IInv, TypeOK, LockInv, FileInv, TableExact, CopiesBacked, Users, locks
  <2>3. CASE UNCHANGED vars
    BY <2>3 DEF vars, IInv, TypeOK, LockInv, FileInv, TableExact, CopiesBacked, Users
  <2> QED
    BY <2>1, <2>2, <2>3 DEF Next
<1> QED
  BY <1>1, <1>2, PTL DEF Spec

-----------------------------------------------------------------------------
(* The refinement.  What the callers of the store see changes only where a *)
(* call begins, has its effect, or returns.                                *)

\* A step of one goroutine changes what is seen of its own call alone.
LEMMA SeenStep ==
  ASSUME TypeOK, NEW t \in Thread, NEW u, thread' = [thread EXCEPT ![t] = u]
  PROVE  seen' = [seen EXCEPT ![t] = CallOf(u)]
<1>1. \A v \in Thread : thread'[v] = IF v = t THEN u ELSE thread[v]
  BY DEF TypeOK
<1>2. seen' = [v \in Thread |-> CallOf(thread'[v])]
  BY DEF seen, CallOf
<1>3. seen = [v \in Thread |-> CallOf(thread[v])]
  BY DEF seen
<1> HIDE DEF seen
<1> QED
  BY <1>1, <1>2, <1>3

\* A step that nobody sees: the objects stay, and the call is seen as it was.
LEMMA HiddenStep ==
  ASSUME TypeOK, NEW t \in Thread, NEW u, thread' = [thread EXCEPT ![t] = u],
         CallOf(u) = CallOf(thread[t]), object' = object
  PROVE  UNCHANGED BlobStore!storeVars
<1>1. seen' = [seen EXCEPT ![t] = CallOf(thread[t])]
  BY SeenStep
<1>2. seen' = seen
  BY <1>1 DEF seen
<1> QED
  BY <1>2 DEF BlobStore!storeVars

\* A step that answers a call.
LEMMA AnswerStep ==
  ASSUME TypeOK, NEW t \in Thread, NEW pc \in Held \ Pending, NEW res \in {"ok", "absent", "failed"},
         thread[t].pc \in {"enter", "rename"}, Give(t, pc, res)
  PROVE  /\ seen' = [seen EXCEPT ![t].answer = res]
         /\ seen[t].op = IF thread[t].call = "import" THEN "put" ELSE thread[t].call
         /\ seen[t].key = thread[t].key /\ seen[t].answer = "none"
<1> DEFINE u == [thread[t] EXCEPT !.pc = pc, !.result = res]
<1>1. thread' = [thread EXCEPT ![t] = u]
  BY DEF TypeOK, ThreadState
<1>2. /\ u.pc = pc /\ u.result = res /\ u.call = thread[t].call /\ u.key = thread[t].key
  BY DEF TypeOK, ThreadState
<1> DEFINE op == IF thread[t].call = "import" THEN "put" ELSE thread[t].call
<1>3. /\ CallOf(thread[t]) = [op |-> op, key |-> thread[t].key, answer |-> "none"]
      /\ CallOf(u) = [op |-> op, key |-> thread[t].key, answer |-> res]
  BY <1>2 DEF CallOf, Held, Pending, Outside
<1>4. seen' = [seen EXCEPT ![t] = CallOf(u)]
  BY <1>1, SeenStep
<1>5. seen[t] = CallOf(thread[t])
  BY DEF seen
<1>6. CallOf(u) = [seen[t] EXCEPT !.answer = res]
  BY <1>3, <1>5
<1> HIDE DEF u, op
<1>7. seen' = [seen EXCEPT ![t].answer = res]
  BY <1>4, <1>6
<1> QED
  BY <1>3, <1>5, <1>7 DEF op

\* A call that begins.
LEMMA AskStep ==
  ASSUME TypeOK, NEW t \in Thread, NEW k \in Key, NEW call \in Call,
         thread[t].pc \in {"idle", "head"}, Find(t, k, call), object' = object
  PROVE  BlobStore!Next
<1> DEFINE op == IF call = "import" THEN "put" ELSE call
<1>1. PICK l \in Lock : thread' = [thread EXCEPT ![t] = Calls("lock", call, k, l)]
  BY DEF Find
<1>2. seen' = [seen EXCEPT ![t] = CallOf(Calls("lock", call, k, l))]
  BY <1>1, SeenStep
<1>3. CallOf(Calls("lock", call, k, l)) = BlobStore!Asked(op, k)
  BY DEF CallOf, Pending, Outside, BlobStore!Asked
<1>4. seen[t] = BlobStore!NoCall
  BY DEF seen, CallOf, Outside, BlobStore!NoCall, BlobStore!Asked
<1>5. op \in BlobStore!Op
  BY DEF BlobStore!Op, Call
<1>6. BlobStore!Ask(t, op, k)
  BY <1>2, <1>3, <1>4 DEF BlobStore!Ask
<1> HIDE DEF op
<1> QED
  BY <1>5, <1>6 DEF BlobStore!Next

\* A call under the lock of its path: what it does to the object of its key is
\* what Store lets it do, because the copy it hits and the object it has read
\* are still there.
LEMMA SeenWork ==
  ASSUME IInv, NEW t \in Thread, Works(t), ~Import(t)
  PROVE  BlobStore!Next \/ UNCHANGED BlobStore!storeVars
<1> USE DEF IInv
<1> DEFINE k == thread[t].key
           op == IF thread[t].call = "import" THEN "put" ELSE thread[t].call
<1>1. k \in Key /\ thread[t] \in ThreadState /\ thread[t].call \in Call
  BY DEF TypeOK, ThreadState
<1>2. ASSUME NEW pc \in PC, Go(t, pc), object' = object,
             \/ thread[t].pc \in Pending /\ pc \in Pending
             \/ thread[t].pc \in Outside /\ pc \in Outside
             \/ thread[t].pc \notin Pending \cup Outside /\ pc \notin Pending \cup Outside
      PROVE  UNCHANGED BlobStore!storeVars
  <2> DEFINE u == [thread[t] EXCEPT !.pc = pc]
  <2>1. thread' = [thread EXCEPT ![t] = u]
    BY <1>2 DEF TypeOK
  <2>2. CallOf(u) = CallOf(thread[t])
    BY <1>1, <1>2 DEF CallOf, ThreadState, Pending, Outside
  <2> HIDE DEF u
  <2> QED
    BY <1>2, <2>1, <2>2, HiddenStep
<1>3. ASSUME NEW pc \in {"unlock", "walk", "forget"}, NEW res \in {"ok", "absent", "failed"},
             thread[t].pc \in {"enter", "rename"}, Give(t, pc, res)
      PROVE  /\ seen' = [seen EXCEPT ![t].answer = res]
             /\ seen[t].op = op /\ seen[t].key = k /\ seen[t].answer = "none"
  <2>1. pc \in Held \ Pending
    BY DEF Held, Pending
  <2> HIDE DEF Give
  <2> QED
    BY <1>3, <2>1, AnswerStep
<1>4. ASSUME NEW pc \in {"unlock", "forget"}, Give(t, pc, "failed"),
             thread[t].pc \in {"enter", "rename"},
             \/ object' = object
             \/ op = "put" /\ object' = object \cup {k}
             \/ op = "delete" /\ object' = object \ {k}
      PROVE  BlobStore!Next
  <2> HIDE DEF Give
  <2>1. /\ seen' = [seen EXCEPT ![t].answer = "failed"]
        /\ seen[t].op = op /\ seen[t].key = k /\ seen[t].answer = "none"
    BY <1>3, <1>4
  <2>2. op \in BlobStore!Op
    BY <1>1 DEF BlobStore!Op, Call
  <2>3. object' \in BlobStore!Effects(t)
    BY <1>4, <2>1, <2>2 DEF BlobStore!Effects, BlobStore!Op
  <2>4. BlobStore!Fail(t)
    BY <2>1, <2>2, <2>3 DEF BlobStore!Fail, BlobStore!Says
  <2> QED
    BY <2>4 DEF BlobStore!Next
<1>5. ASSUME NEW pc \in {"unlock", "walk"}, Give(t, pc, "ok"),
             thread[t].pc \in {"enter", "rename"},
             op \in {"put", "path"}, k \in object, object' = object
      PROVE  BlobStore!Next
  <2> HIDE DEF Give
  <2>1. /\ seen' = [seen EXCEPT ![t].answer = "ok"]
        /\ seen[t].op = op /\ seen[t].key = k /\ seen[t].answer = "none"
    BY <1>3, <1>5
  <2>2. BlobStore!Have(t)
    BY <1>5, <2>1 DEF BlobStore!Have, BlobStore!Pending, BlobStore!Says
  <2> QED
    BY <2>2 DEF BlobStore!Next
<1>6. CASE Unlock(t)
  BY <1>2, <1>6 DEF Unlock, files, PC, Using, Held, Pending, Outside
<1>7. CASE Forget(t)
  BY <1>2, <1>7 DEF Forget, PC, Using, Held, Pending, Outside
<1>8. CASE Upload(t)
  <2>1. Go(t, "rename") /\ thread[t].pc = "enter" /\ op = "put" /\ object' = object \cup {k}
    BY <1>8 DEF Upload
  <2>2. seen' = seen
    <3> DEFINE u == [thread[t] EXCEPT !.pc = "rename"]
    <3>1. thread' = [thread EXCEPT ![t] = u]
      BY <2>1 DEF TypeOK
    <3>2. CallOf(u) = CallOf(thread[t]) /\ seen[t] = CallOf(thread[t])
      BY <1>1, <2>1 DEF CallOf, ThreadState, Pending, Outside, seen
    <3> HIDE DEF u
    <3>3. seen' = [seen EXCEPT ![t] = seen[t]]
      BY <3>1, <3>2, SeenStep
    <3> QED
      BY <3>3 DEF seen
  <2>3. seen[t].op = "put" /\ seen[t].key = k /\ seen[t].answer = "none"
    BY <2>1 DEF seen, CallOf, Pending, Outside
  <2>4. BlobStore!Write(t)
    BY <2>1, <2>2, <2>3 DEF BlobStore!Write, BlobStore!Pending
  <2> QED
    BY <2>4 DEF BlobStore!Next
<1>9. CASE UploadFails(t)
  BY <1>4, <1>9 DEF UploadFails
<1>10. CASE Hit(t)
  <2>1. k \in cached /\ thread[t].pc = "enter" /\ thread[t].call = "path"
        /\ Give(t, "unlock", "ok") /\ object' = object
    BY <1>10 DEF Hit, files
  <2>2. k \in object
    <3> SUFFICES ASSUME k \notin object
                 PROVE  FALSE
      OBVIOUS
    <3>1. PICK u \in Thread : thread[u].key = k /\ thread[u].pc = "forget"
      BY <2>1 DEF FileInv, CopiesBacked
    <3>2. Serialised
      BY LockSerialises
    <3> QED
      BY <2>1, <3>1, <3>2 DEF Serialised, Held
  <2> QED
    BY <1>5, <2>1, <2>2
<1>11. CASE Fetch(t)
  <2>1. thread[t].pc = "enter" /\ thread[t].call = "path" /\ object' = object
    BY <1>11 DEF Fetch, files
  <2>2. CASE Go(t, "rename")
    BY <1>2, <2>1, <2>2 DEF PC, Using, Held, Pending
  <2>3. CASE k \notin object /\ Give(t, "unlock", "absent")
    <3>1. /\ seen' = [seen EXCEPT ![t].answer = "absent"]
          /\ seen[t].op = "path" /\ seen[t].key = k /\ seen[t].answer = "none"
      BY <1>3, <2>1, <2>3
    <3>2. BlobStore!Miss(t)
      BY <2>1, <2>3, <3>1 DEF BlobStore!Miss, BlobStore!Pending, BlobStore!Says
    <3> QED
      BY <3>2 DEF BlobStore!Next
  <2>4. CASE Give(t, "unlock", "failed")
    BY <1>4, <2>1, <2>4
  <2> QED
    BY <1>11, <2>2, <2>3, <2>4 DEF Fetch
<1>12. CASE Rename(t)
  <2>1. thread[t].pc = "rename" /\ Give(t, "walk", "ok") /\ object' = object
    BY <1>12 DEF Rename
  <2>2. k \in object
    BY <2>1 DEF FileInv
  <2>3. op \in {"put", "path"}
    BY <1>1, <2>1 DEF Call, FileInv
  <2> QED
    BY <1>5, <2>1, <2>2, <2>3
<1>13. CASE RenameFails(t)
  BY <1>4, <1>13 DEF RenameFails, files
<1>14. CASE List(t) \/ Trimmed(t) \/ \E j \in Key : Trim(t, j)
  <2>1. PICK u : /\ thread' = [thread EXCEPT ![t] = u]
                 /\ u.pc \in {"evict", "unlock"} /\ u.call = thread[t].call
                 /\ u.key = thread[t].key /\ u.result = thread[t].result
    <3>1. CASE List(t)
      <4> DEFINE u == [thread[t] EXCEPT !.pc = "evict", !.listed = Victims,
                                        !.total = Cardinality(cached)]
      <4>1. thread' = [thread EXCEPT ![t] = u]
        BY <3>1 DEF List
      <4>2. /\ u.pc = "evict" /\ u.call = thread[t].call
            /\ u.key = thread[t].key /\ u.result = thread[t].result
        BY <1>1 DEF ThreadState
      <4> QED
        BY <4>1, <4>2
    <3>2. CASE Trimmed(t)
      <4> DEFINE u == [thread[t] EXCEPT !.pc = "unlock", !.listed = {}, !.total = 0]
      <4>1. thread' = [thread EXCEPT ![t] = u]
        BY <3>2 DEF Trimmed
      <4>2. /\ u.pc = "unlock" /\ u.call = thread[t].call
            /\ u.key = thread[t].key /\ u.result = thread[t].result
        BY <1>1 DEF ThreadState
      <4> QED
        BY <4>1, <4>2
    <3>3. ASSUME NEW j \in Key, Trim(t, j)
          PROVE  \E u : /\ thread' = [thread EXCEPT ![t] = u]
                        /\ u.pc \in {"evict", "unlock"} /\ u.call = thread[t].call
                        /\ u.key = thread[t].key /\ u.result = thread[t].result
      <4> DEFINE n == IF j \in cached THEN thread[t].total - 1 ELSE thread[t].total
                 u == [thread[t] EXCEPT !.listed = @ \ {j}, !.total = n]
      <4>1. thread' = [thread EXCEPT ![t] = u]
        BY <3>3 DEF Trim
      <4>2. /\ u.pc = "evict" /\ u.call = thread[t].call
            /\ u.key = thread[t].key /\ u.result = thread[t].result
        BY <1>1, <3>3 DEF Trim, ThreadState
      <4> QED
        BY <4>1, <4>2
    <3> QED
      BY <1>14, <3>1, <3>2, <3>3
  <2>2. thread[t].pc \in {"walk", "evict"} /\ object' = object
    BY <1>14 DEF List, Trimmed, Trim, files
  <2>3. CallOf(u) = CallOf(thread[t])
    BY <2>1, <2>2 DEF CallOf, Pending, Outside
  <2> QED
    BY <2>1, <2>2, <2>3, HiddenStep
<1>15. CASE DeleteObject(t)
  <2>1. thread[t].pc = "enter" /\ op = "delete"
    BY <1>15 DEF DeleteObject
  <2>2. CASE object' = object \ {k} /\ Give(t, "forget", "ok")
    <3>1. /\ seen' = [seen EXCEPT ![t].answer = "ok"]
          /\ seen[t].op = "delete" /\ seen[t].key = k /\ seen[t].answer = "none"
      BY <1>3, <2>1, <2>2
    <3>2. BlobStore!Erase(t)
      BY <2>2, <3>1 DEF BlobStore!Erase, BlobStore!Pending, BlobStore!Says
    <3> QED
      BY <3>2 DEF BlobStore!Next
  <2>3. CASE object' \in {object, object \ {k}} /\ Give(t, "forget", "failed")
    BY <1>4, <2>1, <2>3
  <2> QED
    BY <1>15, <2>2, <2>3 DEF DeleteObject
<1>16. CASE OpenFile(t) \/ ActOnMissing(t)
  <2>1. PICK u : thread' = [thread EXCEPT ![t] = u] /\ u.pc \in {"idle", "missing"}
    <3>1. CASE Rest(t)
      <4>1. thread' = [thread EXCEPT ![t] = Idle] /\ Idle.pc = "idle"
        BY <3>1
      <4> HIDE DEF Idle
      <4> QED
        BY <4>1
    <3>2. CASE Go(t, "missing")
      <4> DEFINE u == [thread[t] EXCEPT !.pc = "missing"]
      <4>1. thread' = [thread EXCEPT ![t] = u] /\ u.pc = "missing"
        BY <1>1, <3>2 DEF ThreadState
      <4> QED
        BY <4>1
    <3> QED
      BY <1>16, <3>1, <3>2 DEF OpenFile, ActOnMissing
  <2>2. thread[t].pc \in {"open", "missing"} /\ object' = object
    BY <1>16 DEF OpenFile, ActOnMissing, files
  <2>3. CallOf(u) = CallOf(thread[t])
    BY <2>1, <2>2 DEF CallOf, Outside
  <2> QED
    BY <2>1, <2>2, <2>3, HiddenStep
<1>17. CASE Release(t)
  <2>1. PICK u : /\ thread' = [thread EXCEPT ![t] = u]
                 /\ u.pc \in {"idle", "open", "missing"}
    <3>1. CASE Rest(t)
      <4>1. thread' = [thread EXCEPT ![t] = Idle] /\ Idle.pc = "idle"
        BY <3>1
      <4> HIDE DEF Idle
      <4> QED
        BY <4>1
    <3>2. CASE ~Rest(t)
      <4> DEFINE pc == IF thread[t].result = "ok" THEN "open" ELSE "missing"
                 u == [thread[t] EXCEPT !.pc = pc, !.lock = None]
      <4>1. thread' = [thread EXCEPT ![t] = u]
        <5>1. thread' = [thread EXCEPT ![t].pc = pc, ![t].lock = None]
          <6> HIDE DEF Rest
          <6> QED
            BY <1>17, <3>2 DEF Release, Returns
        <5> QED
          BY <5>1
      <4>2. u.pc \in {"open", "missing"}
        BY <1>1 DEF ThreadState
      <4> HIDE DEF u
      <4> QED
        BY <4>1, <4>2
    <3> QED
      BY <3>1, <3>2
  <2>2. thread[t].pc = "release" /\ object' = object
    BY <1>17 DEF Release, files
  <2>3. CallOf(u) = BlobStore!NoCall
    BY <2>1 DEF CallOf, Outside, BlobStore!NoCall, BlobStore!Asked
  <2>4. seen' = [seen EXCEPT ![t] = BlobStore!NoCall]
    BY <2>1, <2>3, SeenStep
  <2>5. seen[t].answer = thread[t].result /\ thread[t].result # "none"
    BY <1>1, <2>2 DEF seen, CallOf, Pending, Outside, ThreadState
  <2>6. BlobStore!Return(t)
    BY <2>2, <2>4, <2>5 DEF BlobStore!Return
  <2> QED
    BY <2>6 DEF BlobStore!Next
<1> QED
  BY <1>6, <1>7, <1>8, <1>9, <1>10, <1>11, <1>12, <1>13, <1>14, <1>15, <1>16, <1>17
  DEF Works

\* Types of the cache.
THEOREM CacheTypeCorrect == Spec => []TypeOK
BY CacheInductive, PTL DEF IInv

\* cacheLock serialises the calls for one object.
THEOREM CallsSerialised == Spec => []Serialised
<1>1. IInv => Serialised
  BY LockSerialises DEF IInv
<1> QED
  BY <1>1, CacheInductive, PTL

\* cacheLocks holds the paths in use and no other.
THEOREM TableCorrect == Spec => []TableExact
<1>1. IInv => TableExact
  BY DEF IInv, LockInv
<1> QED
  BY <1>1, CacheInductive, PTL

\* No copy outlives its object, once the call that deletes it is over.
THEOREM CopiesCorrect == Spec => []CopiesBacked
<1>1. IInv => CopiesBacked
  BY DEF IInv, FileInv
<1> QED
  BY <1>1, CacheInductive, PTL
\* The bucket, its cache and its locks implement blob.Store: whatever the calls
\* overlap with, each of them takes effect at one moment between asking and
\* returning.
THEOREM StoreRefinement == Spec => ImplementsStore
<1>1. Init => BlobStore!Init
  <2> SUFFICES ASSUME Init
               PROVE  BlobStore!Init
    OBVIOUS
  <2>1. object \in SUBSET Key
    BY R2CacheAssumption DEF Init
  <2>2. \A t \in Thread : CallOf(thread[t]) = BlobStore!NoCall
    BY DEF Init, CallOf, Outside, BlobStore!NoCall, BlobStore!Asked
  <2> QED
    BY <2>1, <2>2 DEF seen, BlobStore!Init
<1>2. IInv /\ [Next]_vars => [BlobStore!Next]_(BlobStore!storeVars)
  <2> SUFFICES ASSUME IInv, [Next]_vars
               PROVE  BlobStore!Next \/ UNCHANGED BlobStore!storeVars
    OBVIOUS
  <2>1. ASSUME NEW t \in Thread, NEW k \in Key, Put(t, k) \/ LocalPath(t, k) \/ Delete(t, k)
        PROVE  BlobStore!Next
    <3>1. PICK call \in Call : Find(t, k, call)
      BY <2>1 DEF Put, LocalPath, Delete, Call
    <3>2. thread[t].pc = "idle" /\ object' = object
      BY <2>1 DEF Put, LocalPath, Delete, files
    <3> QED
      BY <3>1, <3>2, AskStep DEF IInv
  <2>2. ASSUME NEW t \in Thread, Import(t)
        PROVE  BlobStore!Next
    <3>1. PICK k \in Key : Find(t, k, "import")
      BY <2>2 DEF Import, IInv, TypeOK, ThreadState
    <3>2. thread[t].pc = "head" /\ object' = object
      BY <2>2 DEF Import, files
    <3> QED
      BY <3>1, <3>2, AskStep DEF IInv, Call
  <2>3. ASSUME NEW t \in Thread, NEW k \in Key, HasObject(t, k)
        PROVE  UNCHANGED BlobStore!storeVars
    <3>1. CallOf(Calls("head", "import", k, None)) = CallOf(thread[t])
      BY <2>3 DEF HasObject, CallOf, Outside
    <3> QED
      BY <2>3, <3>1, HiddenStep DEF HasObject, files, IInv
  <2>4. ASSUME NEW t \in Thread, Acquire(t)
        PROVE  UNCHANGED BlobStore!storeVars
    <3> DEFINE u == [thread[t] EXCEPT !.pc = "enter"]
    <3>1. thread' = [thread EXCEPT ![t] = u] /\ thread[t].pc = "lock" /\ object' = object
      BY <2>4 DEF Acquire, files
    <3>2. CallOf(u) = CallOf(thread[t])
      BY <3>1 DEF CallOf, Pending, Outside, IInv, TypeOK, ThreadState
    <3> HIDE DEF u
    <3> QED
      BY <3>1, <3>2, HiddenStep DEF IInv
  <2>5. ASSUME NEW k \in Key, Age(k)
        PROVE  UNCHANGED BlobStore!storeVars
    BY <2>5 DEF Age, seen, CallOf, BlobStore!storeVars
  <2>6. CASE UNCHANGED vars
    BY <2>6 DEF vars, seen, CallOf, BlobStore!storeVars
  <2> QED
    BY <2>1, <2>2, <2>3, <2>4, <2>5, <2>6, SeenWork DEF Next, Begins
<1> QED
  BY <1>1, <1>2, CacheInductive, PTL DEF Spec, ImplementsStore, BlobStore!Spec
=============================================================================
