SPECIFICATION FairSpec
CONSTANTS
  s1 = s1
  r1 = r1
  r2 = r2
  t1 = t1
  t2 = t2
  none = none
  Services = {s1}
  Targets = {t1, t2}
  NoTarget = none
  NoKey = none
  Annotations <- MCAll
  Replicas = {r1}
  LeaderElection = TRUE
  MaxWrites = 2
  MaxDisruptions = 0
  MaxPods = 2
  MaxEndpoints = 2
  MaxRestarts = 0
  MaxFaults = 1
INVARIANTS BuiltAsAsked
PROPERTIES EgressEventuallyServed DisabledEgressRemoved DisabledIngressRemoved KeepsPromise
CHECK_DEADLOCK FALSE
