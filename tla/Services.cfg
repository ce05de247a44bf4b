\* TLC explores one component in each behaviour.
SPECIFICATION ServicesSpec
\* Events, outages and faults are bounded.
CHECK_DEADLOCK FALSE
CONSTANTS
  n1 = n1
  n2 = n2
  t1 = t1
  t2 = t2
  s1 = s1
  \* Hub and Notices
  Node = {n1, n2}
  Thread = {t1, t2}
  Sub = {s1}
  NodeOf <- TwoNodes
  Listener = {n1}
  Buffer = 1
  MaxEvents <- OneAndTwo
  Doc = {d1}
  None = None
  \* Postgres
  Proc = {n1, n2}
  Versions = 2
  PingLimit = 2
  Pools = 2
  MaxOutages = 1
  \* LoginGate
  Key = {k1}
  Request = {r1, r2}
  MaxFails = 2
  Window = 3
  Wait = 1
  MaxKeys = 2
  NoKey = NoKey
  \* Accounts
  User = {a, b, m}
  Admin = {a, b}
  Seeded = a
  Token = {c1, c2}
  Client = {q1, q2}
  Nobody = Nobody
INVARIANTS
  Ordered
  LatestKept
  OneUnread
  AppliedOnce
  HandleOpen
  GuessesBounded
  TableSweepable
  AdminRemains
  DisablingEndsSessions
PROPERTIES
  PublishEnds
  GetsReady
