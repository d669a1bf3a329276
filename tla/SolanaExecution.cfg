SPECIFICATION FairSpec
CONSTANTS
  t1 = t1
  t2 = t2
  m1 = m1
  m2 = m2
  a1 = a1
  a2 = a2
  Threads = {t1, t2}
  Mcms = {m1, m2}
  Auths = {a1, a2}
  Program <- MCProgram
  Signatures <- MCSignatures
  Configs <- MCConfigs
  Batch <- MCBatch
  ProofLength = 8
  NumProofs = 8
  MaxAppendSignatureBatchSize = 2
  maxAppendSignerBatchSize = 2
  maxPreloadSignaturesAttempts = 3
  Instances <- MCInstances
INVARIANT SuccessIsReal ConvertedBatchIsAccepted ConfigIsWhole SequentialCallsReachTheirProgram
PROPERTY SetRootRecovers
CHECK_DEADLOCK FALSE
