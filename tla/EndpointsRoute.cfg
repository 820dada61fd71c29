SPECIFICATION EgressSpec
CONSTANTS
  s1 = s1
  r1 = r1
  r2 = r2
  t1 = t1
  t2 = t2
  none = none
  Services = {s1}
  Targets = {t1, t2}
  NoTarget = none
  NoKey = none
  Annotations <- MCOn
  Replicas = {r1}
  LeaderElection = TRUE
  MaxWrites = 1
  MaxDisruptions = 0
  MaxPods = 1
  MaxEndpoints = 1
  MaxRestarts = 0
  MaxFaults = 0
INVARIANTS EndpointsRouteToPod
CHECK_DEADLOCK FALSE
