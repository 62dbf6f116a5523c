SPECIFICATION FairBridgeSpec
CONSTANTS
  r1 = r1
  l1 = l1
  claude = claude
  Task = {t1}
  Launcher = {l1}
  Requester = {r1}
  HostScope = {h1}
  Runtime = {claude}
  Parent <- MCParent
  Provides <- MCProvides
  AnyRuntime = AnyRuntime
  NoSession = NoSession
  NoScope = NoScope
  DeadlineAsk = {0}
  DeadlineDefault = 0
  DeadlineMax = 0
  LauncherWindow = 1
  AgentTTL = 9
  Retention = 9
  Sessionless = FALSE
  Retires = {}
  MaxTime = 1
  LastRequest = 0
  Broker = l1
  BrokerScope = h1
  Lossy = TRUE
  MaxRestarts = 0
PROPERTIES BrokerReturnsToService
CHECK_DEADLOCK FALSE
