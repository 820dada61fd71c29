SPECIFICATION PortsSpec
CONSTANTS
  PortNames = {"http", "admin", "tls"}
  PortNumbers = {80, 443, 8080}
  PortLists <- MCPortLists
INVARIANTS RoutesToTargetPort
