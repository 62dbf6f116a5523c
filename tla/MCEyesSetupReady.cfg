SPECIFICATION SetupSpec
CONSTANTS
  Addr = {a1}
  Version = {v1, v2}
  Build = v1
  Prereq = {"network", "chrome"}
  Offers = {{}, {"sibling"}, {"release", "make"}}
  HasSystemd = TRUE
  CopiesTear = FALSE
  MaxMints = 2
  MaxFaults = 0
  None = None
PROPERTY ReadyIsInstalled
