------------------------------- MODULE Cluster -------------------------------
(***************************************************************************)
(* The Kubernetes cluster the operator works on: the objects its           *)
(* reconcilers read and write (Services, the proxy pods, Endpoints) and    *)
(* the actors that change those objects without asking the operator (the   *)
(* user, the kubelet, the garbage collector and the endpoints controller). *)
(* None of that code is in this repository.  It is modelled from how the   *)
(* reconcilers use it: which names they look up, which fields they read,   *)
(* which answers of the API server they handle.                            *)
(***************************************************************************)
EXTENDS Naturals

CONSTANTS
  Services,        \* names of the annotated Services
  Targets,         \* values of the egress-target-ip / -dns annotations
  NoTarget,        \* both target annotations are empty
  Annotations,     \* the annotation sets a user may give a Service
  MaxWrites,       \* bound: how often a user writes or deletes a Service
  MaxDisruptions,  \* bound: evictions and deletions of proxy pods by others
  MaxPods,         \* bound: pods created under one name
  MaxEndpoints     \* bound: versions of one Endpoints object

ASSUME ClusterAssumption ==
  /\ NoTarget \notin Targets
  /\ Annotations \subseteq [egress  : BOOLEAN,
                            ingress : BOOLEAN,
                            target  : Targets \cup {NoTarget}]
  /\ MaxWrites \in Nat
  /\ MaxDisruptions \in Nat
  /\ MaxPods \in Nat
  /\ MaxEndpoints \in Nat

VARIABLES
  svc,          \* svc[s]: the Service s; rv counts its versions
  pod,          \* pod[k][s]: the pod s-egress-proxy or s-ingress-proxy
  eps,          \* eps[s]: the Endpoints object of s
  epsDue,       \* deleted Services the endpoints controller has not handled
  disruptions,  \* how many of the MaxDisruptions have happened
  ran           \* history: ran[s] holds each egress pod of s that was Running

clusterVars == <<svc, pod, eps, epsDue, disruptions, ran>>

Kinds == {"egress", "ingress"}

\* One version of a Service.  uid tells apart Services that were deleted and
\* created again under the same name; live is FALSE while there is none.
ServiceVersion ==
  [rv : Nat, uid : Nat, live : BOOLEAN, egress : BOOLEAN, ingress : BOOLEAN,
   target : Targets \cup {NoTarget}]

NoService ==
  [rv |-> 0, uid |-> 0, live |-> FALSE, egress |-> FALSE, ingress |-> FALSE,
   target |-> NoTarget]

\* What is left of v once the Service is deleted.
GoneService(v) ==
  [rv |-> v.rv + 1, uid |-> v.uid, live |-> FALSE, egress |-> FALSE,
   ingress |-> FALSE, target |-> NoTarget]

Phases == {"Pending", "Running", "Failed"}

\* A proxy pod.  inc numbers the pods that have had this name; built is the
\* Service version the spec was generated from, whose uid is the owner
\* reference and whose target is in the socat command line.
PodObject ==
  [inc : Nat, live : BOOLEAN, built : ServiceVersion, phase : Phases,
   deleting : BOOLEAN]

NoPod ==
  [inc |-> 0, live |-> FALSE, built |-> NoService, phase |-> "Pending",
   deleting |-> FALSE]

\* What is left of p once its object is gone: only history, which number it had
\* and what it was built from.
GonePod(p) == [p EXCEPT !.live = FALSE, !.phase = "Pending", !.deleting = FALSE]

\* An Endpoints object; pod is the number of the pod its address refers to.
EndpointsObject == [rv : Nat, live : BOOLEAN, pod : Nat]

NoEndpoints(n) == [rv |-> n, live |-> FALSE, pod |-> 0]

ClusterTypeOK ==
  /\ svc \in [Services -> ServiceVersion]
  /\ pod \in [Kinds -> [Services -> PodObject]]
  /\ eps \in [Services -> EndpointsObject]
  /\ epsDue \in SUBSET Services
  /\ disruptions \in 0 .. MaxDisruptions
  /\ ran \in [Services -> SUBSET Nat]

ClusterInit ==
  /\ svc = [s \in Services |-> NoService]
  /\ pod = [k \in Kinds |-> [s \in Services |-> NoPod]]
  /\ eps = [s \in Services |-> NoEndpoints(0)]
  /\ epsDue = {}
  /\ disruptions = 0
  /\ ran = [s \in Services |-> {}]

-----------------------------------------------------------------------------
(* Users *)

\* A user creates the Service or changes its annotations.
UserApply(s, a) ==
  LET v == svc[s] IN
  /\ v.rv < MaxWrites
  /\ v.live => <<v.egress, v.ingress, v.target>> # <<a.egress, a.ingress, a.target>>
  /\ svc' = [svc EXCEPT ![s] =
               [rv |-> v.rv + 1, uid |-> IF v.live THEN v.uid ELSE v.uid + 1,
                live |-> TRUE, egress |-> a.egress, ingress |-> a.ingress,
                target |-> a.target]]
  /\ UNCHANGED <<pod, eps, epsDue, disruptions, ran>>

\* A user deletes the Service; the endpoints controller is notified.
UserDelete(s) ==
  /\ svc[s].live
  /\ svc[s].rv < MaxWrites
  /\ svc' = [svc EXCEPT ![s] = GoneService(svc[s])]
  /\ epsDue' = epsDue \cup {s}
  /\ UNCHANGED <<pod, eps, disruptions, ran>>

-----------------------------------------------------------------------------
(* Kubelet, eviction and garbage collection *)

\* The kubelet starts the containers of a pod that is not being deleted.
PodStarts(k, s) ==
  /\ pod[k][s].live
  /\ pod[k][s].phase = "Pending"
  /\ ~pod[k][s].deleting
  /\ pod' = [pod EXCEPT ![k][s].phase = "Running"]
  /\ ran' = IF k = "egress"
              THEN [ran EXCEPT ![s] = @ \cup {pod[k][s].inc}] ELSE ran
  /\ UNCHANGED <<svc, eps, epsDue, disruptions>>

\* Node pressure evicts the pod: the object stays, its phase is Failed.
PodFails(k, s) ==
  /\ pod[k][s].live
  /\ pod[k][s].phase # "Failed"
  /\ disruptions < MaxDisruptions
  /\ pod' = [pod EXCEPT ![k][s].phase = "Failed"]
  /\ disruptions' = disruptions + 1
  /\ UNCHANGED <<svc, eps, epsDue, ran>>

\* A node is drained, or somebody deletes the pod by hand.
PodDrained(k, s) ==
  /\ pod[k][s].live
  /\ ~pod[k][s].deleting
  /\ disruptions < MaxDisruptions
  /\ pod' = [pod EXCEPT ![k][s].deleting = TRUE]
  /\ disruptions' = disruptions + 1
  /\ UNCHANGED <<svc, eps, epsDue, ran>>

\* A slip the runs must notice: pods without an owner reference.
OwnerExists_Unowned(s, p) == TRUE

OwnerExists(s, p) == svc[s].live /\ svc[s].uid = p.built.uid

\* The garbage collector deletes a pod whose owner reference dangles.
CollectPod(k, s) ==
  /\ pod[k][s].live
  /\ ~pod[k][s].deleting
  /\ ~OwnerExists(s, pod[k][s])
  /\ pod' = [pod EXCEPT ![k][s].deleting = TRUE]
  /\ UNCHANGED <<svc, eps, epsDue, disruptions, ran>>

\* The grace period is over: the object of a terminating pod goes away.
PodRemoved(k, s) ==
  /\ pod[k][s].live
  /\ pod[k][s].deleting
  /\ pod' = [pod EXCEPT ![k][s] = GonePod(pod[k][s])]
  /\ UNCHANGED <<svc, eps, epsDue, disruptions, ran>>

\* The endpoints controller handles one Service deletion.  An egress Service
\* has no selector, so a Service that is there again is left alone.
EndpointsSync(s) ==
  /\ s \in epsDue
  /\ epsDue' = epsDue \ {s}
  /\ eps' = IF svc[s].live \/ ~eps[s].live
              THEN eps ELSE [eps EXCEPT ![s] = NoEndpoints(eps[s].rv + 1)]
  /\ UNCHANGED <<svc, pod, disruptions, ran>>

UserStep == \E s \in Services : UserDelete(s) \/ \E a \in Annotations : UserApply(s, a)

DisruptionStep == \E k \in Kinds, s \in Services : PodFails(k, s) \/ PodDrained(k, s)

ClusterStep ==
  \E s \in Services :
    \/ EndpointsSync(s)
    \/ \E k \in Kinds : PodStarts(k, s) \/ CollectPod(k, s) \/ PodRemoved(k, s)
=============================================================================
