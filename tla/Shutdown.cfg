SPECIFICATION FairSpec
CONSTANTS
  a1 = a1
  a2 = a2
  none = none
  any = any
  Addresses = {a1, a2}
  NoAddress = none
  AnyAddress = any
  ProxyModes <- MCModes
  NoauthSpellings = {"noauth"}
  SleepBeforeProxy = 1
  MaxRetries = 3
  BaseDelay = 2
  MaxDelay = 2
  ShutdownTimeout = 2
  ManagerGrace = 3
  MaxFaults = 1
INVARIANTS TypeOK ExitDeadline RequestsDrained AuthNeedsPro
PROPERTIES StopsInTheEnd TunnelServed
CHECK_DEADLOCK FALSE
