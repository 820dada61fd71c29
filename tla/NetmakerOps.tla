----------------------------- MODULE NetmakerOps -----------------------------
(***************************************************************************)
(* The operator in its cluster: users write Services, the replicas of the  *)
(* operator run the egress and the ingress controller, the kubelet and the *)
(* garbage collector work on the proxy pods, and processes, requests and   *)
(* pods fail.                                                              *)
(***************************************************************************)
EXTENDS EgressProxy, IngressProxy

vars == <<svc, pod, eps, epsDue, disruptions, ran, running, svcCache, podCache,
          epsCache, queue, work, handled, restarts, faults>>

Init == ClusterInit /\ ControllerInit

\* What happens around the operator.
EnvironmentStep ==
  /\ UserStep \/ DisruptionStep \/ ClusterStep
  /\ UNCHANGED controllerVars

\* What a replica does that is not a step of a reconciler.
ProcessStep(r) ==
  /\ StartControllers(r) \/ ProcessExits(r) \/ InformerStep(r)
  /\ UNCHANGED clusterVars

\* A reconcile begins, makes its next call, or has a request fail.
EgressWorkerStep(r) ==
  \/ \E s \in Services : EgressReconcile(r, s)
  \/ EgressStep(r)
  \/ RequestFails(r, "egress") /\ UNCHANGED clusterVars

IngressWorkerStep(r) ==
  \/ \E s \in Services : IngressReconcile(r, s)
  \/ IngressStep(r)
  \/ RequestFails(r, "ingress") /\ UNCHANGED clusterVars

Next ==
  \/ EnvironmentStep
  \/ \E r \in Replicas :
       ProcessStep(r) \/ EgressWorkerStep(r) \/ IngressWorkerStep(r)

Spec == Init /\ [][Next]_vars

\* The behaviours in which the worker of the ingress controller never gets a
\* turn.  They are behaviours of Spec, and leave TLC room for larger bounds.
EgressNext ==
  \/ EnvironmentStep
  \/ \E r \in Replicas : ProcessStep(r) \/ EgressWorkerStep(r)

EgressSpec == Init /\ [][EgressNext]_vars

-----------------------------------------------------------------------------
(* Fairness.  Processes are restarted by their Deployment, informers        *)
(* deliver, workers run, the kubelet, the garbage collector and the         *)
(* endpoints controller do their work.  A workqueue is first in, first out, *)
(* so a key that keeps coming back is taken even if others do too.  Users,  *)
(* evictions, exits and failing requests are under no fairness.             *)

ProcessFairness(r) ==
  /\ WF_vars(StartControllers(r) /\ UNCHANGED clusterVars)
  /\ WF_vars(Resync(r) /\ UNCHANGED clusterVars)
  /\ \A s \in Services :
       /\ WF_vars(SyncService(r, s) /\ UNCHANGED clusterVars)
       /\ WF_vars(SyncEndpoints(r, s) /\ UNCHANGED clusterVars)
       /\ \A k \in Kinds : WF_vars(SyncPod(r, k, s) /\ UNCHANGED clusterVars)

EgressFairness(r) ==
  /\ WF_vars(EgressStep(r))
  /\ \A s \in Services : SF_vars(EgressReconcile(r, s))

IngressFairness(r) ==
  /\ WF_vars(IngressStep(r))
  /\ \A s \in Services : SF_vars(IngressReconcile(r, s))

ClusterFairness(s) ==
  /\ WF_vars(EndpointsSync(s) /\ UNCHANGED controllerVars)
  /\ \A k \in Kinds :
       /\ WF_vars(PodStarts(k, s) /\ UNCHANGED controllerVars)
       /\ WF_vars(CollectPod(k, s) /\ UNCHANGED controllerVars)
       /\ WF_vars(PodRemoved(k, s) /\ UNCHANGED controllerVars)

FairSpec ==
  /\ Spec
  /\ \A r \in Replicas : ProcessFairness(r) /\ EgressFairness(r) /\ IngressFairness(r)
  /\ \A s \in Services : ClusterFairness(s)

EgressFairSpec ==
  /\ EgressSpec
  /\ \A r \in Replicas : ProcessFairness(r) /\ EgressFairness(r)
  /\ \A s \in Services : ClusterFairness(s)

-----------------------------------------------------------------------------
(* Safety *)

TypeOK == ClusterTypeOK /\ ControllerTypeOK

\* A proxy pod runs the configuration of a Service version that asked for it:
\* whatever a reconcile held while caches, requests and replicas raced, it never
\* created an egress pod without a target or an ingress pod beside egress.
BuiltAsAsked ==
  \A s \in Services :
    /\ pod["egress"][s].live => EgressWanted(pod["egress"][s].built)
    /\ pod["ingress"][s].live => IngressWanted(pod["ingress"][s].built)

\* Traffic is only ever sent to a pod that was Running: updateServiceEndpoints
\* checks the phase of the pod in its cache, and no interleaving makes it write
\* the address of a pod that never got one.
EndpointsNamePodsThatRan ==
  \A s \in Services : eps[s].live => eps[s].pod \in ran[s]

\* No event is lost while a replica runs: a cached Service version that has not
\* been reconciled without error is still in the workqueue or being worked on.
NothingForgotten ==
  \A r \in Replicas, k \in Kinds, s \in Services :
    running[r] =>
      \/ handled[r][k][s] = svcCache[r][s]
      \/ s \in queue[r][k]
      \/ work[r][k].key = s

\* Service version a is b or an earlier one.
Precedes(a, b) == a = b \/ a.rv < b.rv

\* The operator asks for the deletion of a proxy pod of s.
OperatorDeletes(r, k, s) ==
  /\ work[r][k].at = "delete"
  /\ work[r][k].key = s
  /\ pod[k][s].live
  /\ ~pod[k][s].deleting
  /\ pod'[k][s].deleting

\* A reconcile deletes a pod only on account of a Service version later than the
\* one the pod was built from: a worker that is behind never takes down a pod
\* that a later version asked for, also across exits and fail-over of the leader.
NeverDeletedByOlderService ==
  [][\A r \in Replicas, k \in Kinds, s \in Services :
       OperatorDeletes(r, k, s) => pod[k][s].built.rv < work[r][k].svc.rv]_vars

\* The Endpoints of a Service are never turned back to a pod that came before
\* the one they name, whatever the caches of old and new leaders hold.
EndpointsNeverGoBack ==
  [][\A s \in Services :
       eps[s].live /\ eps'[s].live => eps[s].pod <= eps'[s].pod]_vars

\* The configuration of a proxy never goes back: a pod is never built from an
\* earlier Service version than the pod that had its name before, though the next
\* reconcile may run in another replica, behind another cache.
PodsNeverGoBack ==
  [][\A k \in Kinds, s \in Services :
       pod'[k][s].inc # pod[k][s].inc => Precedes(pod[k][s].built, pod'[k][s].built)]_vars

\* s is reached through an egress proxy pod that runs.
Served(s) ==
  /\ pod["egress"][s].live
  /\ pod["egress"][s].phase = "Running"
  /\ ~pod["egress"][s].deleting
  /\ eps[s].live
  /\ eps[s].pod = pod["egress"][s].inc

\* A Service that is reached through a pod made of its present version stays so:
\* retries, caches that are behind, resyncs, fail-overs, the garbage collector and
\* the endpoints controller do not take it away, only a disruption does.
ServedStaysServed ==
  [][\A s \in Services :
       Served(s) /\ pod["egress"][s].built = svc[s] /\ UNCHANGED disruptions
         => Served(s)']_vars

-----------------------------------------------------------------------------
(* Refinement *)

\* A proxy pod as the owner of the Service sees it.
ProxyOf(p) ==
  [state |-> IF ~p.live THEN "none" ELSE IF p.deleting THEN "stopping" ELSE "up",
   n |-> p.inc, of |-> p.built]

Promise == INSTANCE ProxyPromise WITH
  service <- svc,
  proxy   <- [k \in Kinds |-> [s \in Services |-> ProxyOf(pod[k][s])]],
  route   <- [s \in Services |-> IF eps[s].live THEN eps[s].pod ELSE 0],
  served  <- ran,
  losses  <- disruptions

\* With caches, queues, replicas and reconciles hidden, the operator is a step by
\* step implementation of ProxyPromise: a pod is only ever made of a version that
\* asked for it, and never of an earlier one than the pod before it, is left alone by
\* operator and garbage collector until its Service has moved on, and traffic only
\* moves forward, to a pod that has run.
KeepsPromise == Promise!Spec

-----------------------------------------------------------------------------
(* Liveness *)

\* A Service that goes on asking for egress is served in the end, after any
\* number of retries, lost answers, drains and fail-overs.  Two things are left
\* out: a pod evicted under node pressure, which stays Failed and is not replaced,
\* and a behaviour in which MaxPods keeps the next pod from being created (a worker
\* behind a Service that was deleted and created again may create pods that the
\* garbage collector takes away).
EgressEventuallyServed ==
  \A s \in Services :
    <>[](/\ EgressWanted(svc[s])
         /\ pod["egress"][s].phase # "Failed"
         /\ pod["egress"][s].inc < MaxPods \/ pod["egress"][s].live) => <>[]Served(s)

\* The egress pod of a Service that no longer asks for egress, or is gone, goes
\* away, also when cleanupProxyPod looked before its cache had the pod.
DisabledEgressRemoved ==
  \A s \in Services :
    <>[]~isEgressEnabled(svc[s]) => <>[]~pod["egress"][s].live

\* The same for ingress.
DisabledIngressRemoved ==
  \A s \in Services :
    <>[]~isIngressEnabled(svc[s]) => <>[]~pod["ingress"][s].live

-----------------------------------------------------------------------------
(* What the documentation says of a system at rest *)

\* Nothing is left to happen to the proxies of the controllers in K before the
\* next resync: pods are started, removed and collected, every cache is that of
\* the API server, no key is queued and no worker is busy.
AtRest(K) ==
  /\ epsDue = {}
  /\ \A k \in K, s \in Services : pod[k][s].live =>
       /\ ~pod[k][s].deleting
       /\ pod[k][s].phase # "Pending"
       /\ OwnerExists(s, pod[k][s])
  /\ \E r \in Replicas : running[r]
  /\ \A r \in Replicas : running[r] =>
       /\ svcCache[r] = svc
       /\ podCache[r] = pod
       /\ epsCache[r] = eps
       /\ \A k \in K : queue[r][k] = {} /\ work[r][k].at = "idle"

\* EGRESS_PROXY_GUIDE.md:12, "Updates Service endpoints to route traffic to
\* proxy pods": at rest, the Endpoints name the egress pod that runs.
EndpointsRouteToPod ==
  AtRest({"egress"}) => \A s \in Services :
    EgressWanted(svc[s]) /\ pod["egress"][s].live /\ pod["egress"][s].phase = "Running"
      => Served(s)

\* EGRESS_PROXY_GUIDE.md:13, "Cleans up resources when Services are deleted or
\* egress is disabled": at rest, no Endpoints of the proxy are left.
EndpointsCleanedUp ==
  AtRest({"egress"}) => \A s \in Services :
    ~isEgressEnabled(svc[s]) /\ ~pod["egress"][s].live => ~eps[s].live

\* The comment of the ingress Reconcile, "Prevent both egress and ingress on the
\* same service (they conflict)": at rest, a Service has one kind of proxy.
NeverBothProxies ==
  AtRest(Kinds) => \A s \in Services : ~(pod["egress"][s].live /\ pod["ingress"][s].live)
=============================================================================
