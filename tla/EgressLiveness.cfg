SPECIFICATION EgressFairSpec
CONSTANTS
  s1 = s1
  r1 = r1
  r2 = r2
  t1 = t1
  t2 = t2
  none = none
  Services = {s1}
  Targets = {t1, t2}
  NoTarget = none
  NoKey = none
  Annotations <- MCEgressOnly
  Replicas = {r1}
  LeaderElection = TRUE
  MaxWrites = 3
  MaxDisruptions = 1
  MaxPods = 2
  MaxEndpoints = 6
  MaxRestarts = 1
  MaxFaults = 0
PROPERTIES EgressEventuallyServed DisabledEgressRemoved
CHECK_DEADLOCK FALSE
