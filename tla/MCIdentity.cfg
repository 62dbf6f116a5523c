SPECIFICATION FairIdentitySpec
CONSTANTS
  a = a
  b = b
  Host = {a, b}
  Distance <- FarHosts
  matchDepth = 3
  MaxSess <- Sessions2
  MaxServers <- Servers
  Events <- Reports
  None = None
INVARIANTS  FreshServerAdopts NoGhosts
PROPERTIES HookRowKept Adopted
CHECK_DEADLOCK FALSE
