\* One file fits in the cache; nothing is imported.
SPECIFICATION Spec
CHECK_DEADLOCK FALSE
CONSTANTS
  Thread = {t1, t2}
  Key = {k1, k2}
  Lock = {l1, l2}
  LocalDir = {}
  MaxCache = 1
  None = None
INVARIANTS
  MissingIsGone
