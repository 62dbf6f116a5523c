SPECIFICATION FairSpec
CONSTANTS
  c1 = c1
  c2 = c2
  t1 = t1
  t2 = t2
  Call = {c1, c2}
  Task = {t1, t2}
  NoCall = NoCall
  NoTask = NoTask
  Claude = {t1}
  Streaming = {t1}
  EarlySpawn = FALSE
  ReloginMidCopy = FALSE
  MaxSamples = 3
  MaxLogins = 2
INVARIANTS RunnerInv OutcomeIsTrue NewestTold 
PROPERTIES NewerLoginKept RunReturns
