----------------------------- MODULE EgressProxy -----------------------------
(***************************************************************************)
(* EgressProxyReconciler: for a Service annotated netmaker.io/egress it    *)
(* keeps a pod <service>-egress-proxy and points the Endpoints of the      *)
(* Service at it.  A reconcile is cut at every call it makes: a Get reads  *)
(* the informer cache of its replica, a Create, Update or Delete goes to   *)
(* the API server, and anything may happen between two of them.            *)
(***************************************************************************)
EXTENDS Controller

isEgressEnabled(v) == v.live /\ v.egress

getEgressTarget(v) == v.target

EgressWanted(v) == isEgressEnabled(v) /\ getEgressTarget(v) # NoTarget

\* The pod buildProxyPod makes of Service version v: its owner reference holds
\* v.uid, its socat command v.target.
EgressBuildProxyPod(n, v) ==
  [inc |-> n, live |-> TRUE, built |-> v, phase |-> "Pending", deleting |-> FALSE]

\* A slip the runs must notice: an enabled Service without a target goes on.
EgressReconcile_NoTargetCheck(r, s) ==
  LET w == Begin(s, svcCache[r][s]) IN
  /\ Take(r, "egress", s)
  /\ Continue(r, "egress", w, IF isEgressEnabled(w.svc) THEN "ensure" ELSE "cleanup")
  /\ UNCHANGED <<running, cacheVars, restarts, faults>>
  /\ UNCHANGED clusterVars

\* Reconcile up to its first branch: Get of the Service, which is in the cache
\* or NotFound.  An enabled Service without a target is left as it is.
EgressReconcile(r, s) ==
  LET v == svcCache[r][s]
      w == Begin(s, v)
  IN
  /\ Take(r, "egress", s)
  /\ \/ /\ ~isEgressEnabled(v)
        /\ Continue(r, "egress", w, "cleanup")
     \/ /\ isEgressEnabled(v)
        /\ getEgressTarget(v) = NoTarget
        /\ Done(r, "egress", s, v)
     \/ /\ EgressWanted(v)
        /\ Continue(r, "egress", w, "ensure")
  /\ UNCHANGED <<running, cacheVars, restarts, faults>>
  /\ UNCHANGED clusterVars

\* A slip the runs must notice: needsUpdate always answers TRUE, and the pod is
\* deleted to be built anew.
EgressEnsureProxyPod_Rebuilds(r) ==
  LET w == work[r]["egress"] IN
  /\ w.at = "ensure"
  /\ Continue(r, "egress", w,
       IF podCache[r]["egress"][w.key].live THEN "delete" ELSE "create")
  /\ UNCHANGED <<running, cacheVars, queue, restarts, faults>>
  /\ UNCHANGED clusterVars

\* ensureProxyPod: Get of the pod.  needsUpdate always answers FALSE, so a pod
\* that exists is kept whatever it was built from, also when it is terminating.
EgressEnsureProxyPod(r) ==
  LET w == work[r]["egress"] IN
  /\ w.at = "ensure"
  /\ Continue(r, "egress", w,
       IF podCache[r]["egress"][w.key].live THEN "endpoints" ELSE "create")
  /\ UNCHANGED <<running, cacheVars, queue, restarts, faults>>
  /\ UNCHANGED clusterVars

\* ensureProxyPod: Create of the pod.  AlreadyExists is an error like any other.
EgressCreateProxyPod(r) ==
  LET w == work[r]["egress"]
      p == pod["egress"][w.key]
  IN
  /\ w.at = "create"
  /\ \/ /\ p.live
        /\ Retry(r, "egress")
        /\ UNCHANGED <<pod, faults>>
     \/ /\ ~p.live
        /\ p.inc < MaxPods
        /\ pod' = [pod EXCEPT !["egress"][w.key] = EgressBuildProxyPod(p.inc + 1, w.svc)]
        /\ \/ Continue(r, "egress", w, "endpoints") /\ UNCHANGED <<queue, faults>>
           \/ AnswerLost(r, "egress")
  /\ UNCHANGED <<running, cacheVars, restarts>>
  /\ UNCHANGED <<svc, eps, epsDue, disruptions, ran>>

\* A slip the runs must notice: the phase of the pod is not checked.
EgressGetRunningPod_AnyPhase(r) ==
  LET w == work[r]["egress"]
      p == podCache[r]["egress"][w.key]
  IN
  /\ w.at = "endpoints"
  /\ IF p.live
       THEN Continue(r, "egress", [w EXCEPT !.pod = p.inc], "getEndpoints")
       ELSE Done(r, "egress", w.key, w.svc)
  /\ UNCHANGED <<running, cacheVars, queue, restarts, faults>>
  /\ UNCHANGED clusterVars

\* updateServiceEndpoints: Get of the pod; nothing to do unless it is Running.
EgressGetRunningPod(r) ==
  LET w == work[r]["egress"]
      p == podCache[r]["egress"][w.key]
  IN
  /\ w.at = "endpoints"
  /\ IF p.live /\ p.phase = "Running"
       THEN Continue(r, "egress", [w EXCEPT !.pod = p.inc], "getEndpoints")
       ELSE Done(r, "egress", w.key, w.svc)
  /\ UNCHANGED <<running, cacheVars, queue, restarts, faults>>
  /\ UNCHANGED clusterVars

\* updateServiceEndpoints: Get of the Endpoints.
EgressGetEndpoints(r) ==
  LET w == work[r]["egress"]
      e == epsCache[r][w.key]
  IN
  /\ w.at = "getEndpoints"
  /\ IF e.live
       THEN Continue(r, "egress", [w EXCEPT !.eps = e], "updateEndpoints")
       ELSE Continue(r, "egress", w, "createEndpoints")
  /\ UNCHANGED <<running, cacheVars, queue, restarts, faults>>
  /\ UNCHANGED clusterVars

\* The API server stores Endpoints of s whose one address is pod number n.
WriteEndpoints(s, n) ==
  /\ eps[s].rv < MaxEndpoints
  /\ eps' = [eps EXCEPT ![s] = [rv |-> eps[s].rv + 1, live |-> TRUE, pod |-> n]]

\* The reconcile of egress ends with the answer to its last request.
EgressAnswered(r) ==
  LET w == work[r]["egress"] IN
  \/ Done(r, "egress", w.key, w.svc) /\ UNCHANGED <<queue, faults>>
  \/ AnswerLost(r, "egress")

\* updateServiceEndpoints: Create of the Endpoints, which carry no owner.
EgressCreateEndpoints(r) ==
  LET w == work[r]["egress"] IN
  /\ w.at = "createEndpoints"
  /\ \/ /\ eps[w.key].live
        /\ Retry(r, "egress")
        /\ UNCHANGED <<eps, faults>>
     \/ /\ ~eps[w.key].live
        /\ WriteEndpoints(w.key, w.pod)
        /\ EgressAnswered(r)
  /\ UNCHANGED <<running, cacheVars, restarts>>
  /\ UNCHANGED <<svc, pod, epsDue, disruptions, ran>>

\* updateServiceEndpoints: Update of the Endpoints that were read.  The API
\* server answers Conflict or NotFound when that version is no longer there,
\* and stores no new version when nothing changes.
EgressUpdateEndpoints(r) ==
  LET w == work[r]["egress"] IN
  /\ w.at = "updateEndpoints"
  /\ \/ /\ eps[w.key] # w.eps
        /\ Retry(r, "egress")
        /\ UNCHANGED <<eps, faults>>
     \/ /\ eps[w.key] = w.eps
        /\ IF w.eps.pod = w.pod THEN UNCHANGED eps ELSE WriteEndpoints(w.key, w.pod)
        /\ EgressAnswered(r)
  /\ UNCHANGED <<running, cacheVars, restarts>>
  /\ UNCHANGED <<svc, pod, epsDue, disruptions, ran>>

\* cleanupProxyPod: Get of the pod.
EgressCleanupProxyPod(r) ==
  LET w == work[r]["egress"] IN
  /\ w.at = "cleanup"
  /\ IF podCache[r]["egress"][w.key].live
       THEN Continue(r, "egress", w, "delete")
       ELSE Done(r, "egress", w.key, w.svc)
  /\ UNCHANGED <<running, cacheVars, queue, restarts, faults>>
  /\ UNCHANGED clusterVars

\* cleanupProxyPod: Delete of whatever pod has the name now.  NotFound is an
\* error; the Endpoints stay.
EgressDeleteProxyPod(r) ==
  LET w == work[r]["egress"] IN
  /\ w.at = "delete"
  /\ \/ /\ ~pod["egress"][w.key].live
        /\ Retry(r, "egress")
        /\ UNCHANGED <<pod, faults>>
     \/ /\ pod["egress"][w.key].live
        /\ pod' = [pod EXCEPT !["egress"][w.key].deleting = TRUE]
        /\ EgressAnswered(r)
  /\ UNCHANGED <<running, cacheVars, restarts>>
  /\ UNCHANGED <<svc, eps, epsDue, disruptions, ran>>

\* The reconcile in progress makes its next call.
EgressStep(r) ==
  \/ EgressEnsureProxyPod(r)
  \/ EgressCreateProxyPod(r)
  \/ EgressGetRunningPod(r)
  \/ EgressGetEndpoints(r)
  \/ EgressCreateEndpoints(r)
  \/ EgressUpdateEndpoints(r)
  \/ EgressCleanupProxyPod(r)
  \/ EgressDeleteProxyPod(r)
=============================================================================
