SPECIFICATION FairClaimsSpec
CONSTANTS
  Agent = {a1, a2, a3}
  Path = {p1}
  Call = {c1, c2, c3}
  NoAgent = NoAgent
  Overlapping = FALSE
  RetiresMidCall = FALSE
  Returns = FALSE
INVARIANTS ClaimsTypeOK 
PROPERTIES ClaimsDieWithHolder
