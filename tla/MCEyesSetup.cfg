SPECIFICATION FairSetupSpec
CONSTANTS
  Addr = {a1, a2}
  Version = {v1, v2}
  Build = v1
  Prereq = {"network", "chrome"}
  Offers = {{}, {"sibling"}, {"release", "make"}}
  HasSystemd = TRUE
  CopiesTear = FALSE
  MaxMints = 2
  MaxFaults = 1
  None = None
INVARIANTS SetupInv
PROPERTIES  Converges
