------------------------------ MODULE ProxyPorts ------------------------------
(***************************************************************************)
(* The ports of a proxied Service on their way into the socat commands and *)
(* the container ports of its proxy pods and into its Endpoints.  A pod is *)
(* built once, from the ports of one Service version, and is kept when the *)
(* user edits them; the Endpoints are written again by every reconcile.    *)
(* How a reconcile is cut into API calls is the business of EgressProxy.   *)
(***************************************************************************)
EXTENDS Naturals

CONSTANTS
  PortNames,    \* names of Service ports
  PortNumbers,  \* port numbers in use
  PortLists     \* the spec.ports a user may give the Service

\* An entry of spec.ports; targetPort is 0 when it is given as a name.
ServicePort ==
  [name : PortNames, port : PortNumbers, targetPort : PortNumbers \cup {0}]

\* The API server insists on different names; no code depends on the order.
ASSUME PortsAssumption ==
  /\ PortNumbers \subseteq Nat \ {0}
  /\ PortLists \subseteq SUBSET ServicePort
  /\ \A l \in PortLists : \A p, q \in l : p.name = q.name => p = q

VARIABLES
  ports,      \* spec.ports of the Service
  held,       \* spec.ports of the version the last reconcile read
  egressPod,  \* what runs in the egress pod: a set of at most one record
  ingressPod, \* the same for the ingress pod
  endpoints   \* the ports of the Endpoints

portVars == <<ports, held, egressPod, ingressPod, endpoints>>

-----------------------------------------------------------------------------
(* What the builders make of spec.ports                                      *)

\* A slip the runs must notice: socat maps ports as kube-proxy would.
buildSocatCommand_Maps(l) ==
  {[listen |-> p.port, to |-> IF p.targetPort # 0 THEN p.targetPort ELSE p.port] : p \in l}

\* A slip the runs must notice: a named targetPort is taken for the number 0.
buildSocatCommand_NoFallback(l) == {[listen |-> p.targetPort, to |-> p.targetPort] : p \in l}

\* Egress: for each port one socat that listens on targetPort and forwards to
\* the same port of the device; a named targetPort falls back to the Service port.
buildSocatCommand(l) ==
  LET listenPort(p) == IF p.targetPort # 0 THEN p.targetPort ELSE p.port IN
  {[listen |-> listenPort(p), to |-> listenPort(p)] : p \in l}

\* A slip the runs must notice: the Service port is declared.
buildProxyPorts_ServicePort(l) == {p.port : p \in l}

\* Egress: the container ports.
buildProxyPorts(l) == {IF p.targetPort # 0 THEN p.targetPort ELSE p.port : p \in l}

\* Egress: the ports updateServiceEndpoints puts into the Endpoints.
endpointPorts(l) == {[name |-> p.name, port |-> p.port] : p \in l}

\* A slip the runs must notice: ingress listens on targetPort, as egress does.
buildIngressSocatCommand_Target(l) == buildSocatCommand(l)

\* Ingress: for each port one socat at the WireGuard address that listens on the
\* Service port and forwards to the same port of the ClusterIP.
buildIngressSocatCommand(l) == {[listen |-> p.port, to |-> p.port] : p \in l}

\* Ingress: the container ports.
buildIngressProxyPorts(l) == {p.port : p \in l}

-----------------------------------------------------------------------------
(* Steps *)

PortsInit ==
  /\ ports \in PortLists
  /\ held = ports
  /\ egressPod = {}
  /\ ingressPod = {}
  /\ endpoints = {}

\* A user changes spec.ports.
EditPorts(l) ==
  /\ ports' = l
  /\ UNCHANGED <<held, egressPod, ingressPod, endpoints>>

\* A reconcile reads the Service, and uses that version to its end.
ReadService ==
  /\ held' = ports
  /\ UNCHANGED <<ports, egressPod, ingressPod, endpoints>>

\* ensureProxyPod of egress: a pod that is there is kept.
CreateEgressPod ==
  /\ egressPod = {}
  /\ egressPod' = {[from |-> held, run |-> buildSocatCommand(held),
                    declared |-> buildProxyPorts(held)]}
  /\ UNCHANGED <<ports, held, ingressPod, endpoints>>

\* updateServiceEndpoints, for a pod that runs.
UpdateEndpoints ==
  /\ egressPod # {}
  /\ endpoints' = endpointPorts(held)
  /\ UNCHANGED <<ports, held, egressPod, ingressPod>>

\* ensureProxyPod of ingress.
CreateIngressPod ==
  /\ ingressPod = {}
  /\ ingressPod' = {[from |-> held, run |-> buildIngressSocatCommand(held),
                     declared |-> buildIngressProxyPorts(held)]}
  /\ UNCHANGED <<ports, held, egressPod, endpoints>>

\* A proxy pod is deleted, drained or collected; the Endpoints stay.
LosePod ==
  \/ egressPod # {} /\ egressPod' = {} /\ UNCHANGED <<ports, held, ingressPod, endpoints>>
  \/ ingressPod # {} /\ ingressPod' = {} /\ UNCHANGED <<ports, held, egressPod, endpoints>>

PortsNext ==
  \/ \E l \in PortLists : EditPorts(l)
  \/ ReadService \/ CreateEgressPod \/ UpdateEndpoints \/ CreateIngressPod \/ LosePod

PortsSpec == PortsInit /\ [][PortsNext]_portVars

-----------------------------------------------------------------------------
(* Properties *)

\* Where a connection to the Service port called n ends: the Endpoints entry of
\* that name leads into the pod, and a socat that listens there to the device.
EgressReaches(n) ==
  {c.to : c \in {d \in UNION {e.run : e \in egressPod} :
                   [name |-> n, port |-> d.listen] \in endpoints}}

\* Where a connection to port n of the ingress pod ends: the socat that listens
\* there leads to a port of the ClusterIP, which the Service must have now.
IngressReaches(n) ==
  {c.to : c \in {d \in UNION {e.run : e \in ingressPod} :
                   d.listen = n /\ \E p \in ports : p.port = d.to}}

\* A port that keeps its number on the way: its target is a name, or that number.
KeepsNumber(p) == p.targetPort \in {0, p.port}

\* The comment of buildProxyPorts, "Container ports must match what socat listens
\* on": the builders, which work out the port separately, agree in every pod.
DeclaredPortsListened ==
  \A e \in egressPod \cup ingressPod : e.declared = {c.listen : c \in e.run}

\* Once the Endpoints are those of the Service as it is, the three builders
\* together decide which of its ports get a connection through, whichever version
\* the pod was built from: just those whose number is among the container ports of
\* that pod, be it as the target of another port, and then to the device port of
\* that number, which need not be the one targetPort asks for.
ReachedIffDeclared ==
  endpoints = endpointPorts(ports) =>
    \A e \in egressPod, p \in ports : EgressReaches(p.name) = {p.port} \cap e.declared

\* Pods are never updated (needsUpdate), Endpoints are; so an edit may leave the pod
\* with one version of the ports, the Endpoints with another and the Service with a
\* third.  A port that keeps its number and that pod and Endpoints both know goes on
\* working through all of it, to the device port of that number and to no other,
\* whatever users do to the ports beside it.
KeptPortsStayReached ==
  \A e \in egressPod : \A p \in e.from :
    KeepsNumber(p) /\ [name |-> p.name, port |-> p.port] \in endpoints
      => EgressReaches(p.name) = {p.port}

\* An ingress pod that outlives its ports (needsIngressUpdate) is no worse than out
\* of date: a connection to port n of the pod gets through just when the Service had
\* port n when the pod was built and has it now, and it ends at port n of the
\* Service.  Ports added since are not there, ports removed since lead nowhere.
StaleIngressOutOfDate ==
  \A e \in ingressPod : \A n \in PortNumbers :
    IngressReaches(n) =
      {n} \cap {p.port : p \in e.from} \cap {p.port : p \in ports}

\* EGRESS_PROXY_GUIDE.md:306, "The proxy will route each port to the corresponding
\* target port on the Netmaker device": it does when the pod was built for, and the
\* Endpoints written for, the ports of the Service as they are.
RoutesToTargetPort ==
  endpoints = endpointPorts(ports) =>
    \A e \in egressPod, p \in ports :
      e.from = ports /\ p.targetPort # 0 => p.targetPort \in EgressReaches(p.name)
=============================================================================
