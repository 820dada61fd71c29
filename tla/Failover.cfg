SPECIFICATION EgressSpec
CONSTANTS
  s1 = s1
  r1 = r1
  r2 = r2
  t1 = t1
  t2 = t2
  none = none
  Services = {s1}
  Targets = {t1, t2}
  NoTarget = none
  NoKey = none
  Annotations <- MCEgressOnly
  Replicas = {r1, r2}
  LeaderElection = TRUE
  MaxWrites = 3
  MaxDisruptions = 1
  MaxPods = 2
  MaxEndpoints = 3
  MaxRestarts = 1
  MaxFaults = 0
INVARIANTS TypeOK EndpointsNamePodsThatRan NothingForgotten
SYMMETRY Symmetry
PROPERTIES NeverDeletedByOlderService EndpointsNeverGoBack PodsNeverGoBack ServedStaysServed KeepsPromise
CHECK_DEADLOCK FALSE
