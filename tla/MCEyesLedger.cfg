SPECIFICATION FairSpec
CONSTANTS
  r1 = r1
  r2 = r2
  l1 = l1
  l2 = l2
  claude = claude
  Task = {t1, t2}
  Launcher = {l1}
  Requester = {r1}
  HostScope = {h1}
  Runtime = {claude}
  Parent <- MCParent
  Provides <- MCProvides
  AnyRuntime = AnyRuntime
  NoSession = NoSession
  NoScope = NoScope
  DeadlineAsk = {1}
  DeadlineDefault = 1
  DeadlineMax = 1
  LauncherWindow = 0
  AgentTTL = 1
  Retention = 1
  Sessionless = TRUE
  Retires = {l1}
  MaxTime = 2
  LastRequest = 0
INVARIANTS TypeOK BrokerExclusive HeldTaskHasLauncher MailMatchesState
PROPERTIES EventuallyReleased ReleasedForGood PurgesOnlySettled
CHECK_DEADLOCK FALSE
