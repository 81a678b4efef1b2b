SPECIFICATION Spec
CONSTANTS
  r1 = r1
  r2 = r2
  r3 = r3
  x1 = x1
  x2 = x2
  Seed = Seed
  Req <- MCReq
  Row <- MCRow
  Listed <- MCOneListed
  Deployments <- MCSafe
  MaxQueue = 1
INVARIANTS
  NoLostUpdate
  AnsweredIsDurable
