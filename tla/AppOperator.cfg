CONSTANTS
  MaxPods = 2
  MaxFaults = 2
  FirstStep = "generate"
  NameEnv = "app-operator"
  ConfigurationName = "app-operator"
  WebhookPath = "/inject-proxy"
  NoApp = NoApp
SPECIFICATION FairAppSpec
INVARIANTS
  AppTypeOK
  LeaderHoldsLock
  ProxyOnce
PROPERTIES
  TrustedUntilOvertaken
  InjectedWhenCurrent
  LocksCollected
  EventuallyServing
  RolloutEnds
CHECK_DEADLOCK FALSE
