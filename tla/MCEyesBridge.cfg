SPECIFICATION FairBridgeSpec
CONSTANTS
  r1 = r1
  l1 = l1
  claude = claude
  Task = {t1, t2}
  Launcher = {l1}
  Requester = {r1}
  HostScope = {h1}
  Runtime = {claude}
  Parent <- MCParent
  Provides <- MCProvides
  AnyRuntime = AnyRuntime
  NoSession = NoSession
  NoScope = NoScope
  DeadlineAsk = {1}
  DeadlineDefault = 1
  DeadlineMax = 1
  LauncherWindow = 2
  AgentTTL = 9
  Retention = 9
  Sessionless = FALSE
  Retires = {}
  MaxTime = 0
  LastRequest = 0
  Broker = l1
  BrokerScope = h1
  Lossy = TRUE
  MaxRestarts = 1
INVARIANTS BridgeInv TombstoneMeansSettled
PROPERTIES ServiceProvided TaskAnswered
CHECK_DEADLOCK FALSE
