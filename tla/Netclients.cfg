SPECIFICATION Spec
CONSTANTS
  j1 = j1
  j2 = j2
  t1 = t1
  none = none
  c1 = c1
  noclaim = noclaim
  Jobs = {j1, j2}
  Workloads <- MCWorkloads
  Tokens = {t1}
  NoToken = none
  EnvToken = none
  Claims = {c1}
  NoClaim = noclaim
  EnvClaim = noclaim
  MaxEvents = 3
SYMMETRY MCSymmetry
INVARIANTS TypeOK OneNetclient ReplicaSetKeepsTemplate TokenFound MountedClaimExists PersistentUnlessRaced
CHECK_DEADLOCK FALSE
