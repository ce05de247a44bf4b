SPECIFICATION FairTxSpec
CONSTANTS
  a = a
  b = b
  k1 = k1
  k2 = k2
  k3 = k3
  Doc <- Docs
  Source <- ForkUploads
  DocOf <- ForkDocOf
  AdminOwned = {}
  Rank <- UploadOrder
  Near <- ForkMatch
  Match <- ForkMatch
  MaxSources = 2
  Worker = {w1, w2}
  Key <- Keys
  KeysOf <- ForkKeysOf
  KeyOrder <- KeyRank
  DocOrder <- DocRank
INVARIANTS
  FoundComplete
  ComputedIsCurrent
PROPERTIES
  ImplementsDocuments
  FinalizeEnds
CHECK_DEADLOCK FALSE
