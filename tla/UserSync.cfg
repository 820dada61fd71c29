SPECIFICATION FairSpec
CONSTANTS
  a1 = a1
  a2 = a2
  u1 = u1
  u2 = u2
  none = none
  Addresses = {a1, a2}
  Users = {u1, u2}
  NoUser = none
  MaxVersions = 2
  MaxFaults = 1
  MaxRestarts = 1
INVARIANTS TypeOK TableIsLastNamed
PROPERTIES RequestsNeverGoBack FollowsPromise MappingsFollowServer SyncStops
CHECK_DEADLOCK FALSE
