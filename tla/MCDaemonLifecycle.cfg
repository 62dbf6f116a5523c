SPECIFICATION FairLifecycleSpec
CONSTANTS
  Daemon = {d1, d2, d3}
  Client = {a, b}
  Systemd = Systemd
  None = None
INVARIANTS LifecycleInv
PROPERTIES LiveSocketKept AcceptedAnswered AskerServed
