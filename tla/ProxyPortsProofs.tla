--------------------------- MODULE ProxyPortsProofs ---------------------------
(***************************************************************************)
(* Theorems about ProxyPorts, for all the port lists users may write.      *)
(***************************************************************************)
EXTENDS ProxyPorts, TLAPS

\* Each pod runs what its builder makes of the port list it was built from, and the
\* Endpoints are made of one list too.
BuiltFrom ==
  /\ ports \in PortLists /\ held \in PortLists
  /\ endpoints # {} => \E l \in PortLists : endpoints = endpointPorts(l)
  /\ \A d, e \in egressPod : d = e
  /\ \A e \in egressPod : /\ e.from \in PortLists
                          /\ e.run = buildSocatCommand(e.from)
                          /\ e.declared = buildProxyPorts(e.from)
  /\ \A d, e \in ingressPod : d = e
  /\ \A e \in ingressPod : /\ e.run = buildIngressSocatCommand(e.from)
                           /\ e.declared = buildIngressProxyPorts(e.from)

LEMMA BuiltFromHolds == PortsSpec => []BuiltFrom
<1>1. PortsInit => BuiltFrom
  BY DEF PortsInit, BuiltFrom
<1>2. BuiltFrom /\ [PortsNext]_portVars => BuiltFrom'
  <2> SUFFICES ASSUME BuiltFrom, [PortsNext]_portVars PROVE BuiltFrom'
    OBVIOUS
  <2>1. ASSUME NEW l \in PortLists, EditPorts(l) PROVE BuiltFrom'
    BY <2>1 DEF EditPorts, BuiltFrom
  <2>2. CASE ReadService \/ UpdateEndpoints
    BY <2>2 DEF ReadService, UpdateEndpoints, BuiltFrom
  <2>3. CASE CreateEgressPod
    BY <2>3 DEF CreateEgressPod, BuiltFrom
  <2>4. CASE CreateIngressPod
    BY <2>4 DEF CreateIngressPod, BuiltFrom
  <2>5. CASE LosePod
    BY <2>5 DEF LosePod, BuiltFrom
  <2>6. CASE UNCHANGED portVars
    BY <2>6 DEF portVars, BuiltFrom
  <2> QED BY <2>1, <2>2, <2>3, <2>4, <2>5, <2>6 DEF PortsNext
<1> QED BY <1>1, <1>2, PTL DEF PortsSpec

\* A socat of the egress pod hands a connection to the port it listens on.
LEMMA SocatKeepsPort == \A l : \A c \in buildSocatCommand(l) : c.to = c.listen
BY DEF buildSocatCommand

\* The container ports are those some socat of the egress pod listens on.
LEMMA SocatListens == \A l : buildProxyPorts(l) = {c.listen : c \in buildSocatCommand(l)}
<1> TAKE l
<1> DEFINE P(p) == IF p.targetPort # 0 THEN p.targetPort ELSE p.port
           C(p) == [listen |-> P(p), to |-> P(p)]
<1>1. buildSocatCommand(l) = {C(p) : p \in l} /\ buildProxyPorts(l) = {P(p) : p \in l}
  BY DEF buildSocatCommand, buildProxyPorts
<1>2. \A p \in l : C(p).listen = P(p)
  OBVIOUS
<1> HIDE DEF P, C
<1> QED BY <1>1, <1>2

\* For every list of ports: the container ports of a pod are those its socat
\* commands listen on, though another function works them out.
THEOREM DeclaredAreListened == PortsSpec => []DeclaredPortsListened
<1>1. \A l : buildIngressProxyPorts(l) = {c.listen : c \in buildIngressSocatCommand(l)}
  <2> TAKE l
  <2> DEFINE C(p) == [listen |-> p.port, to |-> p.port]
  <2>1. buildIngressSocatCommand(l) = {C(p) : p \in l} /\ buildIngressProxyPorts(l) = {p.port : p \in l}
    BY DEF buildIngressSocatCommand, buildIngressProxyPorts
  <2>2. \A p \in l : C(p).listen = p.port
    OBVIOUS
  <2> HIDE DEF C
  <2> QED BY <2>1, <2>2
<1>2. BuiltFrom => DeclaredPortsListened
  BY SocatListens, <1>1 DEF BuiltFrom, DeclaredPortsListened
<1> QED BY <1>2, BuiltFromHolds, PTL

\* Within one list a name stands for one port: of the Endpoints made of it, only
\* those with the number of p have its name.
LEMMA NamesOnePort ==
  ASSUME NEW l \in PortLists, NEW p \in l, NEW n,
         [name |-> p.name, port |-> n] \in endpointPorts(l)
  PROVE  n = p.port
<1>1. PICK q \in l : [name |-> p.name, port |-> n] = [name |-> q.name, port |-> q.port]
  BY DEF endpointPorts
<1>2. q.name = p.name /\ q.port = n
  BY <1>1
<1> QED BY <1>2, PortsAssumption

\* With one egress pod and one Endpoints entry called m, for port n, connections to m
\* end at port n of the device if some socat of the pod listens there, else nowhere.
LEMMA ReachesOnePort ==
  ASSUME BuiltFrom, NEW e \in egressPod, NEW m, NEW n,
         \A k : [name |-> m, port |-> k] \in endpoints <=> k = n
  PROVE  EgressReaches(m) = {n} \cap e.declared
<1>1. /\ e.run = buildSocatCommand(e.from)
      /\ e.declared = {c.listen : c \in e.run}
      /\ UNION {d.run : d \in egressPod} = e.run
      /\ \A c \in e.run : c.to = c.listen
  BY SocatListens, SocatKeepsPort DEF BuiltFrom
<1>2. EgressReaches(m) = {c.to : c \in {d \in e.run : d.listen = n}}
  BY <1>1 DEF EgressReaches
<1> QED BY <1>1, <1>2

\* For every list of ports, all edits and whatever version the pod was built from:
\* with the Endpoints of the Service as it is, the Service ports that work are those
\* whose number is a container port of the pod.
THEOREM DeclaredAreReached == PortsSpec => []ReachedIffDeclared
<1>1. BuiltFrom => ReachedIffDeclared
  <2> SUFFICES ASSUME BuiltFrom, endpoints = endpointPorts(ports),
                      NEW e \in egressPod, NEW p \in ports
               PROVE  EgressReaches(p.name) = {p.port} \cap e.declared
    BY DEF ReachedIffDeclared
  <2>1. [name |-> p.name, port |-> p.port] \in endpoints
    BY DEF endpointPorts
  <2>2. \A n : [name |-> p.name, port |-> n] \in endpoints => n = p.port
    BY NamesOnePort DEF BuiltFrom
  <2> QED BY <2>1, <2>2, ReachesOnePort
<1> QED BY <1>1, BuiltFromHolds, PTL

\* For every list of ports and all edits: whatever three versions the pod, the
\* Endpoints and the Service are of, a port that keeps its number and that pod and
\* Endpoints know is reached, there and nowhere else.
THEOREM KeptPortsReached == PortsSpec => []KeptPortsStayReached
<1>1. BuiltFrom => KeptPortsStayReached
  <2> SUFFICES ASSUME BuiltFrom, NEW e \in egressPod, NEW p \in e.from, KeepsNumber(p),
                      [name |-> p.name, port |-> p.port] \in endpoints
               PROVE  EgressReaches(p.name) = {p.port}
    BY DEF KeptPortsStayReached
  <2>1. PICK l \in PortLists : endpoints = endpointPorts(l)
    BY DEF BuiltFrom
  <2>2. PICK q \in l : [name |-> p.name, port |-> p.port] = [name |-> q.name, port |-> q.port]
    BY <2>1 DEF endpointPorts
  <2>3. q.name = p.name /\ q.port = p.port
    BY <2>2
  <2>4. \A n : [name |-> p.name, port |-> n] \in endpoints => n = p.port
    BY <2>1, <2>3, NamesOnePort
  <2>5. EgressReaches(p.name) = {p.port} \cap e.declared
    BY <2>4, ReachesOnePort
  <2>6. p.port \in e.declared
    BY DEF BuiltFrom, buildProxyPorts, KeepsNumber
  <2> QED BY <2>5, <2>6
<1> QED BY <1>1, BuiltFromHolds, PTL

\* What EGRESS_PROXY_GUIDE.md:306 says of a port that has a target port is so just
\* for the ports whose target port is the Service port: what the run PortsGuide
\* finds is the rule for all the others.
TargetReachedIffSame ==
  endpoints = endpointPorts(ports) =>
    \A e \in egressPod, p \in ports :
      e.from = ports /\ p.targetPort # 0 =>
        (p.targetPort \in EgressReaches(p.name) <=> p.targetPort = p.port)

\* The target port is reached exactly if it is the Service port (endpointPorts,
\* buildSocatCommand), for any ports and any edits.
THEOREM GuideHoldsForEqualPorts == PortsSpec => []TargetReachedIffSame
<1>1. BuiltFrom /\ ReachedIffDeclared => TargetReachedIffSame
  <2> SUFFICES ASSUME BuiltFrom, endpoints = endpointPorts(ports), ReachedIffDeclared,
                      NEW e \in egressPod, e.from = ports, NEW p \in ports, p.targetPort # 0
               PROVE  p.targetPort \in EgressReaches(p.name) <=> p.targetPort = p.port
    BY DEF TargetReachedIffSame
  <2>1. EgressReaches(p.name) = {p.port} \cap e.declared
    BY DEF ReachedIffDeclared
  <2>2. p.targetPort \in e.declared
    BY DEF BuiltFrom, buildProxyPorts
  <2> QED BY <2>1, <2>2
<1> QED BY <1>1, BuiltFromHolds, DeclaredAreReached, PTL

\* For every list of ports and all edits: the ports of an ingress pod that work are
\* those the Service had when the pod was built and has now, each at its own number.
THEOREM StaleIngressReaches == PortsSpec => []StaleIngressOutOfDate
<1>1. BuiltFrom => StaleIngressOutOfDate
  <2> SUFFICES ASSUME BuiltFrom, NEW e \in ingressPod, NEW n \in PortNumbers
               PROVE  IngressReaches(n) =
                        {n} \cap {p.port : p \in e.from} \cap {p.port : p \in ports}
    BY DEF StaleIngressOutOfDate
  <2>1. UNION {d.run : d \in ingressPod} = e.run /\ e.run = buildIngressSocatCommand(e.from)
    BY DEF BuiltFrom
  <2>2. /\ \A c \in e.run : c.to = c.listen /\ \E p \in e.from : p.port = c.listen
        /\ \A p \in e.from : \E c \in e.run : c.listen = p.port
    <3> DEFINE C(p) == [listen |-> p.port, to |-> p.port]
    <3>1. e.run = {C(p) : p \in e.from}
      BY <2>1 DEF buildIngressSocatCommand
    <3>2. \A p \in e.from : C(p).listen = p.port /\ C(p).to = p.port
      OBVIOUS
    <3> HIDE DEF C
    <3> QED BY <3>1, <3>2
  <2>3. IngressReaches(n) = {c.to : c \in {d \in e.run : d.listen = n
                                             /\ \E p \in ports : p.port = d.to}}
    BY <2>1 DEF IngressReaches
  <2> QED BY <2>2, <2>3
<1> QED BY <1>1, BuiltFromHolds, PTL
=============================================================================
