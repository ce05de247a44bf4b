\* One file fits in the cache; a second one makes trimCache work.
SPECIFICATION FairSpec
\* The calls end when every row is gone.
CHECK_DEADLOCK FALSE
CONSTANTS
  Thread = {t1, t2}
  Key = {k1, k2}
  Lock = {l1, l2}
  LocalDir = {k1}
  MaxCache = 1
  None = None
INVARIANTS
  Serialised
  TableExact
PROPERTIES
  CallsReturn
  ImplementsStore
