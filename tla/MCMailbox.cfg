SPECIFICATION FairMailboxSpec
CONSTANTS
  p = p
  q = q
  k = k
  Session = {p, q, k}
  Parent <- MCParent
  Base <- MCBase
  NoSession = NoSession
  Call = {c1, c2}
  c1 = c1
  c2 = c2
  Work <- MCWork
  Ages = {p}
  MaxSuffix = 3
  MaxMsgs = 1
  PurgesMidCall = FALSE
INVARIANTS MailboxInv 
PROPERTIES UnreadKept MailAnnounced
